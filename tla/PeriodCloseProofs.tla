--------------------------- MODULE PeriodCloseProofs ---------------------------
(***************************************************************************)
(* Proofs about PeriodClose, for any runs, exceptions and periods, any     *)
(* number of requests at a time and any bound on the versions.             *)
(*                                                                         *)
(* The inductive invariant CloseInv says what the two locks are for:       *)
(* whoever holds the advisory lock of a period is alone in inserting       *)
(* versions of it, and whoever holds the row lock is alone in locking it;  *)
(* so what a request has read before it writes still holds when it writes. *)
(* What closePeriod reads of the runs is not locked; it stays true because *)
(* runs never leave 'completed' and approvals are final.                   *)
(***************************************************************************)
EXTENDS PeriodClose, ResolutionLedgerProofs, FiniteSetTheorems

-----------------------------------------------------------------------------
(* The inductive invariant.                                                *)

HoldsAdvisory(q) == pc[q] \in CreateSteps \cup {"reopen_locked", "reopen_insert"}
HoldsRow(q) == pc[q] \in ReopenSteps \cup CloseSteps

LocksExclusive ==
  \A q, s \in Requests : q # s /\ job[q].bounds = job[s].bounds =>
    /\ ~(HoldsAdvisory(q) /\ HoldsAdvisory(s))
    /\ job[q].version = job[s].version => ~(HoldsRow(q) /\ HoldsRow(s))

(* A request is where its kind may be, and what it names exists.           *)
JobFits(q) ==
  /\ pc[q] \in CreateSteps => job[q].kind = "create"
  /\ pc[q] \in ReopenSteps => job[q].kind = "reopen"
  /\ pc[q] \in CloseSteps => job[q].kind = "close"
  /\ job[q].kind \in {"reopen", "close"} => job[q].version \in Versions(job[q].bounds)
  /\ job[q].kind = "close" => job[q].runs # {}
  /\ pc[q] = "conflict" => job[q].kind # "create"

HasRow(q, st) ==
  \E p \in periods : p.bounds = job[q].bounds /\ p.version = job[q].version /\ p.status = st

RunsFit(rs, b) ==
  /\ rs # {} /\ RecordsDisjoint(rs)
  /\ \A r \in rs : runStatus[r] = "completed" /\ PeriodOf[r] = b

(* What a request relies on at its next statement.                         *)
ReadsStillHold(q) ==
  LET b == job[q].bounds IN
  /\ pc[q] = "create_insert" => ~HasOpen(b) /\ job[q].version # 0 /\ Versions(b) = 1..(job[q].version - 1)
  /\ pc[q] \in ReopenSteps => HasRow(q, "locked")
  /\ pc[q] = "reopen_insert" => ~HasOpen(b)
  /\ pc[q] \in CloseSteps => HasRow(q, "open")
  /\ pc[q] \in CloseSteps \ {"close_row"} => RunsFit(job[q].runs, b)
  /\ pc[q] = "close_clean" => \A r \in job[q].runs : Clean(r)

VersionsUnique ==
  \A p, s \in periods : p.bounds = s.bounds /\ p.version = s.version => p = s

VersionsNumbered == \A b \in Bounds : \E n \in Nat : Versions(b) = 1..n

NewestMayBeOpen ==
  \A p \in periods :
    /\ p.status = "open" => \A v \in Versions(p.bounds) : v <= p.version
    /\ p.parent \in {0, p.version - 1}

CloseInv ==
  /\ CloseTypeOK
  /\ LocksExclusive
  /\ \A q \in Requests : JobFits(q)
  /\ \A q \in Requests : ReadsStillHold(q)
  /\ VersionsUnique
  /\ VersionsNumbered
  /\ NewestMayBeOpen
  /\ LockedRunsAreClean

RequestNext(q) == LockStep(q) \/ Step(q) \/ Abort(q) \/ Leave(q) \/ \E j \in Jobs : Arrive(q, j)

-----------------------------------------------------------------------------
(* The shape of the rows and of the jobs.                                  *)

LEMMA NoJobFits == NoJob \in Job /\ NoJob.kind = "none"
<1>1. (CHOOSE b \in Bounds : TRUE) \in Bounds
  BY CloseAssumption
<1> QED
  BY <1>1 DEF NoJob, Job

LEMMA JobsFit ==
  ASSUME CloseTypeOK, NEW j \in Jobs
  PROVE  j \in Job /\ j.kind \in {"create", "reopen", "close"} /\ j # NoJob
<1>1. \A p \in periods : p.bounds \in Bounds /\ p.version \in Nat
  BY DEF CloseTypeOK, Period
<1>2. j \in Job /\ j.kind \in {"create", "reopen", "close"}
  BY <1>1 DEF Jobs, Job
<1> QED
  BY <1>2, NoJobFits

LEMMA PeriodFields ==
  ASSUME NEW p \in Period
  PROVE  /\ p.bounds \in Bounds /\ p.version \in Nat /\ p.status \in {"open", "locked"}
         /\ p.parent \in Nat /\ p.runs \in SUBSET Runs
BY DEF Period

LEMMA NewPeriod ==
  ASSUME NEW b \in Bounds, NEW v \in Nat, NEW par \in Nat
  PROVE  LET p == [bounds |-> b, version |-> v, status |-> "open", parent |-> par, runs |-> {}] IN
         /\ p \in Period
         /\ p.bounds = b /\ p.version = v /\ p.status = "open" /\ p.parent = par
BY DEF Period

LEMMA ClosedPeriod ==
  ASSUME NEW p \in Period, NEW rs \in SUBSET Runs
  PROVE  LET c == [p EXCEPT !.status = "locked", !.runs = rs] IN
         /\ c \in Period
         /\ c.bounds = p.bounds /\ c.version = p.version /\ c.parent = p.parent
         /\ c.status = "locked" /\ c.runs = rs
BY DEF Period

LEMMA JobFields ==
  ASSUME NEW j \in Job
  PROVE  /\ j.kind \in {"none", "create", "close", "reopen"} /\ j.bounds \in Bounds
         /\ j.version \in Nat /\ j.runs \in SUBSET Runs
BY DEF Job

LEMMA JobRenumbered ==
  ASSUME NEW j \in Job, NEW v \in Nat
  PROVE  LET k == [j EXCEPT !.version = v] IN
         /\ k \in Job
         /\ k.kind = j.kind /\ k.bounds = j.bounds /\ k.runs = j.runs /\ k.version = v
BY DEF Job

(* The largest of a set of naturals that starts at 1 without gaps.         *)
LEMMA MaxOfVersions ==
  ASSUME NEW n \in Nat
  PROVE  Max({0} \cup 1..n) = n
<1> DEFINE S == {0} \cup 1..n
<1>1. n \in S /\ \A y \in S : n >= y
  OBVIOUS
<1>2. \A x \in S : (\A y \in S : x >= y) => x = n
  <2>1. TAKE x \in S
  <2>2. HAVE \A y \in S : x >= y
  <2>3. x >= n /\ n >= x
    BY <1>1, <2>2
  <2> QED
    BY <2>3
<1> HIDE DEF S
<1>3. Max(S) \in S /\ \A y \in S : Max(S) >= y
  BY <1>1 DEF Max
<1>4. Max(S) = n
  BY <1>2, <1>3
<1> QED
  BY <1>4 DEF S

(* The row a reopen or a close names is there, and it is the only one.     *)
LEMMA TheRowIsIt ==
  ASSUME VersionsUnique, NEW q \in Requests, NEW p \in periods,
         p.bounds = job[q].bounds, p.version = job[q].version
  PROVE  TheRow(q) = p
<1>1. TheRow(q) \in periods /\ TheRow(q).bounds = job[q].bounds /\ TheRow(q).version = job[q].version
  BY DEF TheRow
<1> QED
  BY <1>1 DEF VersionsUnique

LEMMA TheRowExists ==
  ASSUME CloseInv, NEW q \in Requests, job[q].kind \in {"reopen", "close"}
  PROVE  /\ TheRow(q) \in periods
         /\ TheRow(q).bounds = job[q].bounds /\ TheRow(q).version = job[q].version
<1>1. job[q].version \in Versions(job[q].bounds)
  BY DEF CloseInv, JobFits
<1>2. PICK p \in periods : p.bounds = job[q].bounds /\ p.version = job[q].version
  BY <1>1 DEF Versions
<1> QED
  BY <1>2, TheRowIsIt DEF CloseInv

-----------------------------------------------------------------------------
(* What one step of a request does to its place, and to no other.          *)

PCs == {"idle", "received"} \cup Answers \cup CreateSteps \cup ReopenSteps \cup CloseSteps

LEMMA MovesPlace ==
  ASSUME CloseTypeOK, NEW q \in Requests, NEW from, NEW to \in PCs \ {"idle"}, Moves(q, from, to)
  PROVE  /\ UNCHANGED <<ledgerVars, job>> /\ pc[q] = from /\ pc'[q] = to
         /\ pc' \in [Requests -> PCs]
         /\ \A s \in Requests \ {q} : pc'[s] = pc[s]
BY DEF Moves, CloseTypeOK, PCs

(* The statements that insert, from "create_insert" or "reopen_insert".    *)
LEMMA InsertsPlace ==
  ASSUME CloseTypeOK, NEW q \in Requests, NEW from, NEW v, NEW parent, Inserts(q, from, v, parent)
  PROVE  \E to \in Answers : Moves(q, from, to)
BY DEF Inserts, Continues, Answers

(* Every step but Arrive, CreateFind and Leave only moves the place on.    *)
PlainNext(q) ==
  \/ LockStep(q) \/ Abort(q)
  \/ CreateInsert(q) \/ ReopenFind(q) \/ ReopenInsert(q)
  \/ CloseCheckRuns(q) \/ CloseCheckSuperseded(q) \/ CloseCheckBlocking(q) \/ CloseCommit(q)
  \/ CreateFind(q) /\ HasOpen(job[q].bounds)

(* From where to where a request goes without a change of what it asks.    *)
Edge(q, from, to) ==
  \/ to = "answered" /\ from # "idle"
  \/ from = "received" /\ to = "create_locked" /\ job[q].kind = "create" /\ AdvisoryFree(job[q].bounds)
  \/ /\ from = "received" /\ to = "reopen_row" /\ job[q].kind = "reopen"
     /\ RowFree(job[q].bounds, job[q].version) /\ TheRow(q).status = "locked"
  \/ from = "reopen_row" /\ to = "reopen_locked" /\ AdvisoryFree(job[q].bounds)
  \/ from = "reopen_locked" /\ to = "reopen_insert" /\ ~HasOpen(job[q].bounds)
  \/ /\ from = "received" /\ to = "close_row" /\ job[q].kind = "close"
     /\ RowFree(job[q].bounds, job[q].version) /\ TheRow(q).status # "locked"
  \/ /\ from = "close_row" /\ to = "close_runs"
     /\ \A r \in job[q].runs : runStatus[r] = "completed" /\ PeriodOf[r] = job[q].bounds
     /\ RecordsDisjoint(job[q].runs)
  \/ from = "close_runs" /\ to = "close_current" /\ \A r \in job[q].runs : ~Superseded(r)
  \/ from = "close_current" /\ to = "close_clean" /\ \A r \in job[q].runs : Clean(r)
  \/ /\ from = "create_insert" /\ to = "conflict"
     /\ (job[q].version \in Versions(job[q].bounds) \/ HasOpen(job[q].bounds))
  \/ from = "reopen_insert" /\ to = "conflict"

LEMMA PlainEdge ==
  ASSUME CloseTypeOK, NEW q \in Requests, PlainNext(q)
  PROVE  \E to \in PCs \ {"idle"} : Moves(q, pc[q], to) /\ Edge(q, pc[q], to)
<1> USE DEF Edge, PCs, Answers, CreateSteps, ReopenSteps, CloseSteps, Continues, Moves
<1>1. CASE CreateLock(q)
  BY <1>1 DEF CreateLock
<1>2. CASE ReopenLock(q)
  BY <1>2 DEF ReopenLock
<1>3. CASE ReopenAdvisory(q)
  BY <1>3 DEF ReopenAdvisory
<1>4. CASE CloseLock(q)
  BY <1>4 DEF CloseLock
<1>5. CASE Abort(q)
  BY <1>5 DEF Abort
<1>6. CASE CreateInsert(q)
  BY <1>6 DEF CreateInsert, Inserts
<1>7. CASE ReopenFind(q)
  BY <1>7 DEF ReopenFind
<1>8. CASE ReopenInsert(q)
  BY <1>8 DEF ReopenInsert, Inserts
<1>9. CASE CloseCheckRuns(q)
  BY <1>9 DEF CloseCheckRuns
<1>10. CASE CloseCheckSuperseded(q)
  BY <1>10 DEF CloseCheckSuperseded
<1>11. CASE CloseCheckBlocking(q)
  BY <1>11 DEF CloseCheckBlocking
<1>12. CASE CloseCommit(q)
  BY <1>12 DEF CloseCommit
<1>13. CASE CreateFind(q) /\ HasOpen(job[q].bounds)
  BY <1>13 DEF CreateFind
<1> QED
  BY <1>1, <1>2, <1>3, <1>4, <1>5, <1>6, <1>7, <1>8, <1>9, <1>10, <1>11, <1>12, <1>13
  DEF PlainNext, LockStep

(* createPeriod finds no open version and numbers the one it will insert.  *)
Numbers(q) ==
  /\ pc[q] = "create_locked" /\ ~HasOpen(job[q].bounds)
  /\ pc' = [pc EXCEPT ![q] = "create_insert"]
  /\ job' = [job EXCEPT ![q].version = Max({0} \cup Versions(job[q].bounds)) + 1]
  /\ UNCHANGED <<ledgerVars, periods>>

LEMMA RequestCases ==
  ASSUME NEW q \in Requests, RequestNext(q)
  PROVE  PlainNext(q) \/ Numbers(q) \/ Leave(q) \/ \E j \in Jobs : Arrive(q, j)
BY DEF RequestNext, PlainNext, Step, CreateFind, Numbers

(* The version a create will insert is the one after all there are.        *)
LEMMA NumbersNext ==
  ASSUME CloseInv, NEW q \in Requests, Numbers(q)
  PROVE  /\ UNCHANGED <<ledgerVars, periods>>
         /\ pc[q] = "create_locked" /\ pc'[q] = "create_insert" /\ ~HasOpen(job[q].bounds)
         /\ job'[q] \in Job /\ job'[q].kind = "create" /\ job[q].kind = "create"
         /\ job'[q].bounds = job[q].bounds /\ job'[q].version # 0
         /\ Versions(job[q].bounds) = 1..(job'[q].version - 1)
         /\ pc' \in [Requests -> PCs] /\ job' \in [Requests -> Job]
         /\ \A s \in Requests \ {q} : pc'[s] = pc[s] /\ job'[s] = job[s]
<1>1. /\ pc \in [Requests -> PCs] /\ job \in [Requests -> Job] /\ job[q] \in Job
      /\ job[q].bounds \in Bounds
  BY JobFields DEF CloseInv, CloseTypeOK, PCs
<1>2. job[q].kind = "create"
  BY DEF CloseInv, JobFits, Numbers, CreateSteps
<1>3. PICK n \in Nat : Versions(job[q].bounds) = 1..n
  BY <1>1 DEF CloseInv, VersionsNumbered
<1>4. Max({0} \cup Versions(job[q].bounds)) + 1 = n + 1
  BY <1>3, MaxOfVersions
<1> DEFINE k == [job[q] EXCEPT !.version = n + 1]
<1>5. job' = [job EXCEPT ![q] = k]
  BY <1>4 DEF Numbers
<1>6. k \in Job /\ k.kind = job[q].kind /\ k.bounds = job[q].bounds /\ k.version = n + 1
  BY <1>1, JobRenumbered
<1> HIDE DEF k
<1>7. job' \in [Requests -> Job] /\ job'[q] = k /\ \A s \in Requests \ {q} : job'[s] = job[s]
  BY <1>1, <1>5, <1>6
<1>8. pc' \in [Requests -> PCs] /\ pc'[q] = "create_insert" /\ \A s \in Requests \ {q} : pc'[s] = pc[s]
  BY <1>1 DEF Numbers, PCs, CreateSteps
<1>9. Versions(job[q].bounds) = 1..(job'[q].version - 1) /\ job'[q].version # 0
  BY <1>3, <1>6, <1>7
<1> QED
  BY <1>2, <1>6, <1>7, <1>8, <1>9 DEF Numbers

(* A step of a request leaves the ledger and the other places alone.       *)
LEMMA RequestPlace ==
  ASSUME CloseInv, NEW q \in Requests, RequestNext(q)
  PROVE  /\ UNCHANGED ledgerVars
         /\ pc' \in [Requests -> PCs] /\ job' \in [Requests -> Job]
         /\ \A s \in Requests \ {q} : pc'[s] = pc[s] /\ job'[s] = job[s]
         /\ \A s \in Requests : job'[s] = NoJob <=> pc'[s] = "idle"
<1>1. /\ CloseTypeOK /\ pc \in [Requests -> PCs] /\ job \in [Requests -> Job]
      /\ \A s \in Requests : job[s] = NoJob <=> pc[s] = "idle"
  BY DEF CloseInv, CloseTypeOK, PCs
<1>2. CASE PlainNext(q)
  <2>1. PICK to \in PCs \ {"idle"} : Moves(q, pc[q], to) /\ Edge(q, pc[q], to)
    BY <1>1, <1>2, PlainEdge
  <2>2. pc[q] # "idle"
    BY <2>1 DEF Edge
  <2> QED
    BY <1>1, <2>1, <2>2, MovesPlace
<1>3. CASE Numbers(q)
  <2>1. job'[q] # NoJob /\ job[q] # NoJob
    BY <1>3, NumbersNext, NoJobFits
  <2>2. pc'[q] # "idle"
    BY <1>3, NumbersNext
  <2> QED
    BY <1>1, <1>3, <2>1, <2>2, NumbersNext
<1>4. CASE Leave(q)
  BY <1>1, <1>4, NoJobFits DEF Leave, PCs
<1>5. ASSUME NEW j \in Jobs, Arrive(q, j)
      PROVE  /\ UNCHANGED ledgerVars
             /\ pc' \in [Requests -> PCs] /\ job' \in [Requests -> Job]
             /\ \A s \in Requests \ {q} : pc'[s] = pc[s] /\ job'[s] = job[s]
             /\ \A s \in Requests : job'[s] = NoJob <=> pc'[s] = "idle"
  <2>1. j \in Job /\ j # NoJob
    BY <1>1, JobsFit
  <2>2. /\ UNCHANGED ledgerVars
        /\ pc' = [pc EXCEPT ![q] = "received"] /\ job' = [job EXCEPT ![q] = j]
    BY <1>5 DEF Arrive
  <2> QED
    BY <1>1, <2>1, <2>2 DEF PCs
<1> QED
  BY <1>2, <1>3, <1>4, <1>5, RequestCases

-----------------------------------------------------------------------------
(* What one step does to the versions: nothing, insert or lock one.        *)

Inserted(q) ==
  LET b == job[q].bounds IN
  /\ HoldsAdvisory(q) /\ pc'[q] = "answered" /\ ~HasOpen(b)
  /\ \E v \in Nat \ {0} : \E par \in {0, v - 1} :
       /\ Versions(b) = 1..(v - 1)
       /\ periods' = periods \cup
            {[bounds |-> b, version |-> v, status |-> "open", parent |-> par, runs |-> {}]}

Locked(q) ==
  /\ pc[q] = "close_clean" /\ pc'[q] = "answered" /\ HasRow(q, "open")
  /\ RunsFit(job[q].runs, job[q].bounds) /\ \A r \in job[q].runs : Clean(r)
  /\ TheRow(q) \in periods /\ TheRow(q).status = "open"
  /\ TheRow(q).bounds = job[q].bounds /\ TheRow(q).version = job[q].version
  /\ periods' = (periods \ {TheRow(q)}) \cup
                  {[TheRow(q) EXCEPT !.status = "locked", !.runs = job[q].runs]}

LEMMA InsertCases ==
  ASSUME CloseInv, NEW q \in Requests, CreateInsert(q) \/ ReopenInsert(q)
  PROVE  UNCHANGED periods \/ Inserted(q)
<1>1. /\ CloseTypeOK /\ job[q] \in Job /\ job[q].bounds \in Bounds /\ job[q].version \in Nat
      /\ \A p \in periods : p.version \in Nat
  BY JobFields, PeriodFields DEF CloseInv, CloseTypeOK
<1>2. PICK n \in Nat : Versions(job[q].bounds) = 1..n
  BY <1>1 DEF CloseInv, VersionsNumbered
<1>3. CASE CreateInsert(q) /\ ~UNCHANGED periods
  <2>1. /\ Moves(q, "create_insert", "answered") /\ job[q].version \notin Versions(job[q].bounds)
        /\ ~HasOpen(job[q].bounds)
        /\ periods' = periods \cup {[bounds |-> job[q].bounds, version |-> job[q].version,
                                     status |-> "open", parent |-> 0, runs |-> {}]}
    BY <1>3 DEF CreateInsert, Inserts, Continues
  <2>2. pc[q] = "create_insert" /\ pc'[q] = "answered"
    BY <1>1, <2>1, MovesPlace DEF PCs, Answers
  <2>3. Versions(job[q].bounds) = 1..(job[q].version - 1)
    BY <2>2 DEF CloseInv, ReadsStillHold
  <2>4. job[q].version \in Nat \ {0}
    BY <1>1, <2>2 DEF CloseInv, ReadsStillHold
  <2> QED
    BY <1>1, <2>1, <2>2, <2>3, <2>4 DEF Inserted, HoldsAdvisory, CreateSteps
<1>4. CASE ReopenInsert(q) /\ ~UNCHANGED periods
  <2>1. /\ Moves(q, "reopen_insert", "answered")
        /\ job[q].version + 1 \notin Versions(job[q].bounds) /\ ~HasOpen(job[q].bounds)
        /\ periods' = periods \cup {[bounds |-> job[q].bounds, version |-> job[q].version + 1,
                                     status |-> "open", parent |-> job[q].version, runs |-> {}]}
    BY <1>4 DEF ReopenInsert, Inserts, Continues
  <2>2. pc[q] = "reopen_insert" /\ pc'[q] = "answered"
    BY <1>1, <2>1, MovesPlace DEF PCs, Answers
  <2>3. job[q].version \in Versions(job[q].bounds)
    BY <2>2 DEF CloseInv, JobFits, ReopenSteps
  <2>4. job[q].version = n
    BY <1>1, <1>2, <2>1, <2>3
  <2>5. n + 1 \in Nat \ {0} /\ (n + 1) - 1 = n
    OBVIOUS
  <2> QED
    BY <1>1, <1>2, <2>1, <2>2, <2>4, <2>5 DEF Inserted, HoldsAdvisory
<1> QED
  BY <1>3, <1>4

LEMMA LockCase ==
  ASSUME CloseInv, NEW q \in Requests, CloseCommit(q)
  PROVE  Locked(q)
<1>1. CloseTypeOK /\ VersionsUnique
  BY DEF CloseInv
<1>2. /\ Moves(q, "close_clean", "answered")
      /\ periods' = (periods \ {TheRow(q)}) \cup
                      {[TheRow(q) EXCEPT !.status = "locked", !.runs = job[q].runs]}
  BY DEF CloseCommit
<1>3. pc[q] = "close_clean" /\ pc'[q] = "answered"
  BY <1>1, <1>2, MovesPlace DEF PCs, Answers
<1>4. /\ HasRow(q, "open") /\ RunsFit(job[q].runs, job[q].bounds)
      /\ \A r \in job[q].runs : Clean(r)
  BY <1>3 DEF CloseInv, ReadsStillHold, CloseSteps
<1>5. PICK p \in periods : p.bounds = job[q].bounds /\ p.version = job[q].version /\ p.status = "open"
  BY <1>4 DEF HasRow
<1>6. TheRow(q) = p
  BY <1>1, <1>5, TheRowIsIt
<1> QED
  BY <1>2, <1>3, <1>4, <1>5, <1>6 DEF Locked

LEMMA PeriodsMove ==
  ASSUME CloseInv, NEW q \in Requests, RequestNext(q)
  PROVE  UNCHANGED periods \/ Inserted(q) \/ Locked(q)
BY InsertCases, LockCase
DEF RequestNext, LockStep, Step, Abort, Leave, Arrive, CreateLock, CreateFind, ReopenLock,
    ReopenAdvisory, ReopenFind, CloseLock, CloseCheckRuns, CloseCheckSuperseded,
    CloseCheckBlocking, Continues

(* An insertion adds the number after all there are, a lock none.          *)
LEMMA InsertedVersions ==
  ASSUME CloseInv, NEW q \in Requests, Inserted(q), NEW b \in Bounds, b = job[q].bounds
  PROVE  \E v \in Nat \ {0}, p \in Period :
           /\ periods' = periods \cup {p} /\ p.bounds = b /\ p.version = v
           /\ p.status = "open" /\ p.parent \in {0, v - 1}
           /\ Versions(b) = 1..(v - 1) /\ Versions(b)' = 1..v
           /\ \A x \in Bounds \ {b} : Versions(x)' = Versions(x)
<1>1. PICK v \in Nat \ {0} : \E par \in {0, v - 1} :
        /\ Versions(b) = 1..(v - 1)
        /\ periods' = periods \cup {[bounds |-> b, version |-> v, status |-> "open",
                                     parent |-> par, runs |-> {}]}
  BY DEF Inserted
<1>2. PICK par \in {0, v - 1} :
        /\ Versions(b) = 1..(v - 1)
        /\ periods' = periods \cup {[bounds |-> b, version |-> v, status |-> "open",
                                     parent |-> par, runs |-> {}]}
  BY <1>1
<1> DEFINE p == [bounds |-> b, version |-> v, status |-> "open", parent |-> par, runs |-> {}]
<1>3. par \in Nat /\ v \in Nat
  OBVIOUS
<1>4. /\ p \in Period /\ p.bounds = b /\ p.version = v /\ p.status = "open"
      /\ p.parent = par
  BY <1>3, NewPeriod
<1>5. periods' = periods \cup {p}
  BY <1>2
<1> HIDE DEF p
<1>6. /\ Versions(b)' = Versions(b) \cup {v}
      /\ \A x \in Bounds \ {b} : Versions(x)' = Versions(x)
  BY <1>4, <1>5 DEF Versions
<1>7. Versions(b)' = (1..(v - 1)) \cup {v}
  BY <1>2, <1>6
<1>8. (1..(v - 1)) \cup {v} = 1..v
  OBVIOUS
<1>9. par \in {0, v - 1}
  OBVIOUS
<1>10. /\ periods' = periods \cup {p} /\ p.bounds = b /\ p.version = v
      /\ p.status = "open" /\ p.parent \in {0, v - 1}
      /\ Versions(b) = 1..(v - 1) /\ Versions(b)' = 1..v
      /\ \A x \in Bounds \ {b} : Versions(x)' = Versions(x)
  BY <1>2, <1>4, <1>5, <1>6, <1>7, <1>8, <1>9
<1> QED
  BY <1>4, <1>10

LEMMA LockedVersions ==
  ASSUME CloseInv, NEW q \in Requests, Locked(q)
  PROVE  \E p \in periods, c \in Period :
           /\ periods' = (periods \ {p}) \cup {c}
           /\ p.bounds = job[q].bounds /\ p.version = job[q].version /\ p.status = "open"
           /\ c.bounds = p.bounds /\ c.version = p.version /\ c.parent = p.parent
           /\ c.status = "locked" /\ c.runs = job[q].runs
           /\ c = [p EXCEPT !.status = "locked", !.runs = job[q].runs]
           /\ \A b \in Bounds : Versions(b)' = Versions(b)
<1> DEFINE p == TheRow(q)
           c == [p EXCEPT !.status = "locked", !.runs = job[q].runs]
<1>1. p \in periods /\ p.status = "open" /\ p.bounds = job[q].bounds /\ p.version = job[q].version
  BY DEF Locked
<1>2. p \in Period /\ job[q].runs \in SUBSET Runs
  BY <1>1, JobFields DEF CloseInv, CloseTypeOK
<1>3. /\ c \in Period /\ c.bounds = p.bounds /\ c.version = p.version /\ c.parent = p.parent
      /\ c.status = "locked" /\ c.runs = job[q].runs
  BY <1>2, ClosedPeriod
<1>4. periods' = (periods \ {p}) \cup {c}
  BY DEF Locked
<1>5. c = [p EXCEPT !.status = "locked", !.runs = job[q].runs]
  OBVIOUS
<1> HIDE DEF p, c
<1>6. \A b \in Bounds : Versions(b)' = Versions(b)
  BY <1>1, <1>3, <1>4 DEF Versions
<1> QED
  BY <1>1, <1>3, <1>4, <1>5, <1>6

(* No step takes a version away.                                           *)
LEMMA VersionsStay ==
  ASSUME CloseInv, NEW q \in Requests, RequestNext(q), NEW b \in Bounds
  PROVE  Versions(b) \subseteq Versions(b)'
<1>1. CASE UNCHANGED periods
  BY <1>1 DEF Versions
<1>2. CASE Inserted(q)
  <2>1. PICK c \in Bounds : c = job[q].bounds
    BY JobFields DEF CloseInv, CloseTypeOK
  <2>2. CASE b = c
    <3>1. PICK v \in Nat \ {0} : Versions(b) = 1..(v - 1) /\ Versions(b)' = 1..v
      BY <1>2, <2>1, <2>2, InsertedVersions
    <3> QED
      BY <3>1
  <2>3. CASE b # c
    BY <1>2, <2>1, <2>3, InsertedVersions
  <2> QED
    BY <2>2, <2>3
<1>3. CASE Locked(q)
  BY <1>3, LockedVersions
<1> QED
  BY <1>1, <1>2, <1>3, PeriodsMove

-----------------------------------------------------------------------------
(* Each conjunct of the invariant survives a step of a request.            *)

LEMMA TypeKept ==
  ASSUME CloseInv, NEW q \in Requests, RequestNext(q)
  PROVE  CloseTypeOK'
<1>1. LedgerTypeOK' /\ pc' \in [Requests -> PCs] /\ job' \in [Requests -> Job]
      /\ \A s \in Requests : job'[s] = NoJob <=> pc'[s] = "idle"
  BY RequestPlace DEF CloseInv, CloseTypeOK, LedgerTypeOK, ledgerVars
<1>2. periods' \in SUBSET Period
  <2>1. periods \in SUBSET Period
    BY DEF CloseInv, CloseTypeOK
  <2>2. PICK c \in Bounds : c = job[q].bounds
    BY JobFields DEF CloseInv, CloseTypeOK
  <2>3. CASE Inserted(q)
    BY <2>1, <2>2, <2>3, InsertedVersions
  <2>4. CASE Locked(q)
    <3>1. PICK p \in periods, x \in Period : periods' = (periods \ {p}) \cup {x}
      BY <2>4, LockedVersions
    <3> QED
      BY <2>1, <3>1
  <2> QED
    BY <2>1, <2>3, <2>4, PeriodsMove
<1> QED
  BY <1>1, <1>2 DEF CloseTypeOK, PCs, NoJob

(* Who holds a lock after a step held it before, or found it free.         *)
LEMMA LocksTaken ==
  ASSUME CloseInv, NEW q \in Requests, RequestNext(q)
  PROVE  /\ HoldsAdvisory(q)' => /\ job'[q].bounds = job[q].bounds
                                 /\ HoldsAdvisory(q) \/ AdvisoryFree(job[q].bounds)
         /\ HoldsRow(q)' => /\ job'[q] = job[q]
                            /\ HoldsRow(q) \/ RowFree(job[q].bounds, job[q].version)
<1> USE DEF HoldsAdvisory, HoldsRow, CreateSteps, ReopenSteps, CloseSteps, Answers
<1>1. CASE PlainNext(q)
  <2>1. PICK to \in PCs \ {"idle"} : Moves(q, pc[q], to) /\ Edge(q, pc[q], to)
    BY <1>1, PlainEdge DEF CloseInv
  <2>2. job'[q] = job[q] /\ pc'[q] = to
    BY <2>1, MovesPlace DEF CloseInv
  <2> QED
    BY <2>1, <2>2 DEF Edge
<1>2. CASE Numbers(q)
  BY <1>2, NumbersNext
<1>3. CASE Leave(q)
  BY <1>3 DEF Leave, CloseInv, CloseTypeOK
<1>4. CASE \E j \in Jobs : Arrive(q, j)
  BY <1>4 DEF Arrive, CloseInv, CloseTypeOK
<1> QED
  BY <1>1, <1>2, <1>3, <1>4, RequestCases

LEMMA ExclusionKept ==
  ASSUME CloseInv, NEW q \in Requests, RequestNext(q)
  PROVE  LocksExclusive'
<1>1. \A s \in Requests \ {q} : pc'[s] = pc[s] /\ job'[s] = job[s]
  BY RequestPlace
<1>2. \A s \in Requests \ {q} :
        (HoldsAdvisory(s)' <=> HoldsAdvisory(s)) /\ (HoldsRow(s)' <=> HoldsRow(s))
  BY <1>1 DEF HoldsAdvisory, HoldsRow
<1>3. ASSUME NEW s \in Requests \ {q}, job'[q].bounds = job'[s].bounds
      PROVE  /\ ~(HoldsAdvisory(q)' /\ HoldsAdvisory(s)')
             /\ job'[q].version = job'[s].version => ~(HoldsRow(q)' /\ HoldsRow(s)')
  <2>1. ~(HoldsAdvisory(q)' /\ HoldsAdvisory(s)')
    BY <1>1, <1>2, <1>3, LocksTaken DEF CloseInv, LocksExclusive, AdvisoryFree, HoldsAdvisory
  <2>2. job'[q].version = job'[s].version => ~(HoldsRow(q)' /\ HoldsRow(s)')
    BY <1>1, <1>2, <1>3, LocksTaken DEF CloseInv, LocksExclusive, RowFree, HoldsRow
  <2> QED
    BY <2>1, <2>2
<1>4. ASSUME NEW s \in Requests \ {q}, NEW x \in Requests \ {q}, s # x,
             job'[s].bounds = job'[x].bounds
      PROVE  /\ ~(HoldsAdvisory(s)' /\ HoldsAdvisory(x)')
             /\ job'[s].version = job'[x].version => ~(HoldsRow(s)' /\ HoldsRow(x)')
  BY <1>1, <1>2, <1>4 DEF CloseInv, LocksExclusive
<1> QED
  BY <1>3, <1>4 DEF LocksExclusive

LEMMA FitKept ==
  ASSUME CloseInv, NEW q \in Requests, RequestNext(q), NEW s \in Requests
  PROVE  JobFits(s)'
<1>1. /\ pc \in [Requests -> PCs] /\ job \in [Requests -> Job] /\ job[s] \in Job
      /\ job[s].bounds \in Bounds
  BY JobFields DEF CloseInv, CloseTypeOK, PCs
<1>2. JobFits(s)
  BY DEF CloseInv
<1>3. Versions(job[s].bounds) \subseteq {p.version : p \in {p \in periods' : p.bounds = job[s].bounds}}
  <2>1. \A b \in Bounds : Versions(b) \subseteq Versions(b)'
    BY VersionsStay
  <2> QED
    BY <1>1, <2>1 DEF Versions
<1>4. ASSUME job'[s] = job[s], JobFits(s),
             pc'[s] \in CreateSteps => job[s].kind = "create",
             pc'[s] \in ReopenSteps => job[s].kind = "reopen",
             pc'[s] \in CloseSteps => job[s].kind = "close",
             pc'[s] = "conflict" => job[s].kind # "create"
      PROVE  JobFits(s)'
  BY <1>3, <1>4 DEF JobFits, Versions
<1>5. CASE s # q
  <2>1. pc'[s] = pc[s] /\ job'[s] = job[s]
    BY <1>5, RequestPlace
  <2> QED
    BY <1>2, <1>4, <2>1 DEF JobFits
<1>6. CASE s = q /\ PlainNext(q)
  <2>1. PICK to \in PCs \ {"idle"} : Moves(q, pc[q], to) /\ Edge(q, pc[q], to)
    BY <1>6, PlainEdge DEF CloseInv
  <2>2. job'[s] = job[s] /\ pc'[s] = to
    BY <1>6, <2>1, MovesPlace DEF CloseInv
  <2>3. to = "conflict" => job[s].kind # "create"
    <3>1. pc[q] = "create_insert" =>
            job[q].version \notin Versions(job[q].bounds) /\ ~HasOpen(job[q].bounds)
      <4>1. job[q].version \in Nat
        BY JobFields DEF CloseInv, CloseTypeOK
      <4> QED
        BY <4>1 DEF CloseInv, ReadsStillHold
    <3>2. pc[q] = "reopen_insert" => job[q].kind = "reopen"
      BY DEF CloseInv, JobFits, ReopenSteps
    <3> QED
      BY <1>6, <2>1, <3>1, <3>2 DEF Edge
  <2>4. /\ to \in CreateSteps => job[s].kind = "create"
        /\ to \in ReopenSteps => job[s].kind = "reopen"
        /\ to \in CloseSteps => job[s].kind = "close"
    BY <1>2, <1>6, <2>1 DEF Edge, JobFits, CreateSteps, ReopenSteps, CloseSteps
  <2> QED
    BY <1>2, <1>4, <2>2, <2>3, <2>4
<1>7. CASE s = q /\ Numbers(q)
  BY <1>7, NumbersNext DEF JobFits, CreateSteps, ReopenSteps, CloseSteps
<1>8. CASE s = q /\ Leave(q)
  <2>1. pc'[s] = "idle" /\ job'[s] = NoJob
    BY <1>1, <1>8 DEF Leave
  <2> QED
    BY <2>1, NoJobFits DEF JobFits, CreateSteps, ReopenSteps, CloseSteps
<1>9. ASSUME s = q, NEW j \in Jobs, Arrive(q, j) PROVE JobFits(s)'
  <2>1. pc'[s] = "received" /\ job'[s] = j
    BY <1>1, <1>9 DEF Arrive
  <2>2. /\ j.kind # "create" =>
             j.version \in {p.version : p \in {p \in periods' : p.bounds = j.bounds}}
        /\ j.kind = "close" => j.runs # {}
    BY <1>9 DEF Arrive, Versions
  <2> QED
    BY <2>1, <2>2 DEF JobFits, CreateSteps, ReopenSteps, CloseSteps, Versions
<1> QED
  BY <1>5, <1>6, <1>7, <1>8, <1>9, RequestCases

(* Rows disappear only by being locked, and open ones appear only by an    *)
(* insertion under the advisory lock of their period.                      *)
LEMMA RowsAfter ==
  ASSUME CloseInv, NEW q \in Requests, RequestNext(q)
  PROVE  /\ \A p \in periods : p \in periods' \/ (/\ pc[q] = "close_clean" /\ p.status = "open"
                                                   /\ p.bounds = job[q].bounds
                                                   /\ p.version = job[q].version)
         /\ \A p \in periods' : p.status = "open" =>
              p \in periods \/ (HoldsAdvisory(q) /\ p.bounds = job[q].bounds)
         /\ \A b \in Bounds : Versions(b)' = Versions(b) \/ (HoldsAdvisory(q) /\ b = job[q].bounds)
         /\ pc'[q] # "answered" => periods' = periods
<1>1. CASE UNCHANGED periods
  BY <1>1 DEF Versions
<1>2. CASE Inserted(q)
  <2>1. PICK c \in Bounds : c = job[q].bounds
    BY JobFields DEF CloseInv, CloseTypeOK
  <2>2. HoldsAdvisory(q) /\ pc'[q] = "answered"
    BY <1>2 DEF Inserted
  <2>3. PICK p \in Period : /\ periods' = periods \cup {p} /\ p.bounds = c
                            /\ \A x \in Bounds \ {c} : Versions(x)' = Versions(x)
    BY <1>2, <2>1, InsertedVersions
  <2> QED
    BY <2>1, <2>2, <2>3
<1>3. CASE Locked(q)
  <2>1. pc[q] = "close_clean" /\ pc'[q] = "answered"
    BY <1>3 DEF Locked
  <2>2. PICK p \in periods, c \in Period :
          /\ periods' = (periods \ {p}) \cup {c}
          /\ p.bounds = job[q].bounds /\ p.version = job[q].version /\ p.status = "open"
          /\ c.status = "locked" /\ \A b \in Bounds : Versions(b)' = Versions(b)
    BY <1>3, LockedVersions
  <2> QED
    BY <2>1, <2>2
<1> QED
  BY <1>1, <1>2, <1>3, PeriodsMove

(* What another request has read is not disturbed.                         *)
LEMMA OthersReadsHold ==
  ASSUME CloseInv, NEW q \in Requests, RequestNext(q), NEW s \in Requests \ {q}
  PROVE  ReadsStillHold(s)'
<1>1. pc'[s] = pc[s] /\ job'[s] = job[s] /\ UNCHANGED <<runStatus, resolution>>
  BY RequestPlace DEF ledgerVars
<1>2. PICK b \in Bounds : b = job[s].bounds
  BY JobFields DEF CloseInv, CloseTypeOK
<1>3. ReadsStillHold(s)
  BY DEF CloseInv
<1>4. ASSUME HoldsAdvisory(s)
      PROVE  Versions(b)' = Versions(b) /\ (HasOpen(b)' => HasOpen(b))
  <2>1. ~(HoldsAdvisory(q) /\ b = job[q].bounds)
    BY <1>2, <1>4 DEF CloseInv, LocksExclusive
  <2> QED
    BY <2>1, RowsAfter DEF HasOpen
<1>5. ASSUME NEW st \in {"open", "locked"}, HoldsRow(s), HasRow(s, st) PROVE HasRow(s, st)'
  <2>1. PICK p \in periods : p.bounds = job[s].bounds /\ p.version = job[s].version /\ p.status = st
    BY <1>5 DEF HasRow
  <2>2. ~(HoldsRow(q) /\ p.bounds = job[q].bounds /\ p.version = job[q].version)
    BY <1>5, <2>1 DEF CloseInv, LocksExclusive
  <2>3. p \in periods'
    BY <2>2, RowsAfter DEF HoldsRow, CloseSteps
  <2> QED
    BY <1>1, <2>1, <2>3 DEF HasRow
<1>6. pc[s] = "create_insert" =>
        ~HasOpen(b)' /\ job[s].version # 0 /\ Versions(b)' = 1..(job[s].version - 1)
  BY <1>2, <1>3, <1>4 DEF ReadsStillHold, HoldsAdvisory, CreateSteps
<1>7. pc[s] = "reopen_insert" => ~HasOpen(b)'
  BY <1>2, <1>3, <1>4 DEF ReadsStillHold, HoldsAdvisory
<1>8. /\ pc[s] \in ReopenSteps => HasRow(s, "locked")'
      /\ pc[s] \in CloseSteps => HasRow(s, "open")'
  BY <1>3, <1>5 DEF ReadsStillHold, HoldsRow
<1>9. /\ pc[s] \in CloseSteps \ {"close_row"} => RunsFit(job[s].runs, b)'
      /\ pc[s] = "close_clean" => \A r \in job[s].runs : Clean(r)'
  BY <1>1, <1>2, <1>3 DEF ReadsStillHold, RunsFit, Clean, RecordsDisjoint
<1> QED
  BY <1>1, <1>2, <1>6, <1>7, <1>8, <1>9
  DEF ReadsStillHold, RunsFit, Clean, RecordsDisjoint, Versions, HasOpen

(* What the moving request read, or reads now, holds after its step.       *)
LEMMA OwnReadsHold ==
  ASSUME CloseInv, NEW q \in Requests, RequestNext(q)
  PROVE  ReadsStillHold(q)'
<1>1. UNCHANGED <<runStatus, resolution>>
  BY RequestPlace DEF ledgerVars
<1>2. ReadsStillHold(q) /\ JobFits(q)
  BY DEF CloseInv
<1> USE DEF CreateSteps, ReopenSteps, CloseSteps, Answers
<1>3. CASE PlainNext(q)
  <2>1. PICK to \in PCs \ {"idle"} : Moves(q, pc[q], to) /\ Edge(q, pc[q], to)
    BY <1>3, PlainEdge DEF CloseInv
  <2>2. job'[q] = job[q] /\ pc'[q] = to
    BY <2>1, MovesPlace DEF CloseInv
  <2>3. CASE to \in {"answered", "conflict", "create_locked"}
    BY <2>2, <2>3 DEF ReadsStillHold
  <2>4. CASE to \notin {"answered", "conflict", "create_locked"}
    <3>1. periods' = periods
      BY <2>2, <2>4, RowsAfter
    <3>2. to = "reopen_row" => HasRow(q, "locked")
      <4>1. to = "reopen_row" => job[q].kind = "reopen" /\ TheRow(q).status = "locked"
        BY <2>1, <2>4 DEF Edge
      <4> QED
        BY <4>1, TheRowExists DEF HasRow
    <3>3. to = "close_row" => HasRow(q, "open")
      <4>1. to = "close_row" => job[q].kind = "close" /\ TheRow(q).status # "locked"
        BY <2>1, <2>4 DEF Edge
      <4>2. \A p \in periods : p.status \in {"open", "locked"}
        BY PeriodFields DEF CloseInv, CloseTypeOK
      <4> QED
        BY <4>1, <4>2, TheRowExists DEF HasRow
    <3>4. to = "close_runs" => RunsFit(job[q].runs, job[q].bounds)
      <4>1. to = "close_runs" => job[q].kind = "close" /\ job[q].runs # {}
        BY <1>2, <2>1 DEF Edge, JobFits
      <4> QED
        BY <2>1, <2>4, <4>1 DEF Edge, RunsFit
    <3>5. /\ to # "create_insert"
          /\ to \in ReopenSteps => HasRow(q, "locked")
          /\ to = "reopen_insert" => ~HasOpen(job[q].bounds)
          /\ to \in CloseSteps => HasRow(q, "open")
          /\ to \in CloseSteps \ {"close_row"} => RunsFit(job[q].runs, job[q].bounds)
          /\ to = "close_clean" => \A r \in job[q].runs : Clean(r)
      BY <1>2, <2>1, <2>4, <3>2, <3>3, <3>4 DEF Edge, ReadsStillHold
    <3> QED
      BY <1>1, <2>2, <3>1, <3>5
      DEF ReadsStillHold, HasRow, HasOpen, RunsFit, RecordsDisjoint, Clean
  <2> QED
    BY <2>3, <2>4
<1>4. CASE Numbers(q)
  BY <1>4, NumbersNext DEF ReadsStillHold, HasOpen, Versions
<1>5. CASE pc'[q] \in {"idle", "received"}
  BY <1>5 DEF ReadsStillHold
<1>6. Leave(q) \/ (\E j \in Jobs : Arrive(q, j)) => pc'[q] \in {"idle", "received"}
  BY DEF Leave, Arrive, CloseInv, CloseTypeOK
<1> QED
  BY <1>3, <1>4, <1>5, <1>6, RequestCases

(* The versions stay numbered without gaps, one row to a number, and only  *)
(* the newest may be open.                                                 *)
LEMMA ChainKept ==
  ASSUME CloseInv, NEW q \in Requests, RequestNext(q)
  PROVE  VersionsUnique' /\ VersionsNumbered' /\ NewestMayBeOpen'
<1>1. VersionsUnique /\ VersionsNumbered /\ NewestMayBeOpen /\ periods \subseteq Period
  BY DEF CloseInv, CloseTypeOK
<1>2. PICK b \in Bounds : b = job[q].bounds
  BY JobFields DEF CloseInv, CloseTypeOK
<1>3. CASE UNCHANGED periods
  BY <1>1, <1>3 DEF VersionsUnique, VersionsNumbered, NewestMayBeOpen, Versions
<1>4. CASE Inserted(q)
  <2>1. PICK v \in Nat \ {0}, p \in Period :
          /\ periods' = periods \cup {p} /\ p.bounds = b /\ p.version = v
          /\ p.status = "open" /\ p.parent \in {0, v - 1}
          /\ Versions(b) = 1..(v - 1) /\ Versions(b)' = 1..v
          /\ \A x \in Bounds \ {b} : Versions(x)' = Versions(x)
    BY <1>2, <1>4, InsertedVersions
  <2>2. \A s \in periods : s.bounds = b => s.version # v /\ s.status # "open"
    <3>1. \A s \in periods : s.bounds = b => s.version \in Versions(b)
      BY DEF Versions
    <3>2. v \notin Versions(b)
      BY <2>1
    <3> QED
      BY <1>2, <1>4, <3>1, <3>2 DEF Inserted, HasOpen
  <2>3. VersionsUnique'
    BY <1>1, <2>1, <2>2 DEF VersionsUnique
  <2>4. VersionsNumbered'
    <3>1. ASSUME NEW x \in Bounds PROVE \E n \in Nat : Versions(x)' = 1..n
      BY <1>1, <2>1 DEF VersionsNumbered
    <3> QED
      BY <3>1 DEF VersionsNumbered
  <2>5. NewestMayBeOpen'
    <3>1. ASSUME NEW s \in periods'
          PROVE  /\ s.status = "open" => \A w \in Versions(s.bounds)' : w <= s.version
                 /\ s.parent \in {0, s.version - 1}
      <4>1. CASE s = p
        BY <2>1, <4>1
      <4>2. CASE s # p
        <5>1. s \in periods /\ s.bounds \in Bounds
          BY <1>1, <2>1, <4>2, PeriodFields
        <5> QED
          BY <1>1, <2>1, <2>2, <5>1 DEF NewestMayBeOpen
      <4> QED
        BY <4>1, <4>2
    <3> QED
      BY <3>1 DEF NewestMayBeOpen, Versions
  <2> QED
    BY <2>3, <2>4, <2>5
<1>5. CASE Locked(q)
  <2>1. PICK p \in periods, c \in Period :
          /\ periods' = (periods \ {p}) \cup {c}
          /\ c.bounds = p.bounds /\ c.version = p.version /\ c.parent = p.parent
          /\ c.status = "locked" /\ \A x \in Bounds : Versions(x)' = Versions(x)
    BY <1>5, LockedVersions
  <2>2. VersionsUnique'
    BY <1>1, <2>1 DEF VersionsUnique
  <2>3. VersionsNumbered'
    BY <1>1, <2>1 DEF VersionsNumbered
  <2>4. NewestMayBeOpen'
    <3>1. ASSUME NEW s \in periods'
          PROVE  /\ s.status = "open" => \A w \in Versions(s.bounds)' : w <= s.version
                 /\ s.parent \in {0, s.version - 1}
      <4>1. CASE s = c
        BY <1>1, <2>1, <4>1 DEF NewestMayBeOpen
      <4>2. CASE s # c
        <5>1. s \in periods /\ s.bounds \in Bounds
          BY <1>1, <2>1, <4>2, PeriodFields
        <5> QED
          BY <1>1, <2>1, <5>1 DEF NewestMayBeOpen
      <4> QED
        BY <4>1, <4>2
    <3> QED
      BY <3>1 DEF NewestMayBeOpen, Versions
  <2> QED
    BY <2>2, <2>3, <2>4
<1> QED
  BY <1>3, <1>4, <1>5, PeriodsMove

LEMMA LockedRunsKept ==
  ASSUME CloseInv, NEW q \in Requests, RequestNext(q)
  PROVE  LockedRunsAreClean'
<1>1. UNCHANGED <<runStatus, resolution>>
  BY RequestPlace DEF ledgerVars
<1>2. LockedRunsAreClean
  BY DEF CloseInv
<1>3. PICK b \in Bounds : b = job[q].bounds
  BY JobFields DEF CloseInv, CloseTypeOK
<1>4. ASSUME NEW p \in periods', p.status = "locked"
      PROVE  \/ p \in periods
             \/ RunsFit(p.runs, p.bounds) /\ \A r \in p.runs : Clean(r)
  <2>1. CASE Inserted(q)
    BY <1>3, <1>4, <2>1, InsertedVersions
  <2>2. CASE Locked(q)
    <3>1. PICK x \in periods, c \in Period :
            /\ periods' = (periods \ {x}) \cup {c}
            /\ x.bounds = job[q].bounds /\ c.bounds = x.bounds /\ c.runs = job[q].runs
      BY <2>2, LockedVersions
    <3>2. RunsFit(c.runs, c.bounds) /\ \A r \in c.runs : Clean(r)
      BY <2>2, <3>1 DEF Locked
    <3> QED
      BY <3>1, <3>2
  <2> QED
    BY <2>1, <2>2, PeriodsMove
<1>5. ASSUME NEW p \in periods', p.status = "locked"
      PROVE  RunsFit(p.runs, p.bounds) /\ \A r \in p.runs : Clean(r)
  BY <1>2, <1>4, <1>5 DEF LockedRunsAreClean, RunsFit
<1> QED
  BY <1>1, <1>5 DEF LockedRunsAreClean, RunsFit, RecordsDisjoint, Clean

-----------------------------------------------------------------------------
(* A run that ends and a resolution that is approved make no run less      *)
(* completed or less clean.                                                *)

LEMMA LedgerOnlyGrows ==
  ASSUME LedgerTypeOK, [LedgerNext]_ledgerVars
  PROVE  /\ \A r \in Runs : runStatus[r] = "completed" => runStatus'[r] = "completed"
         /\ \A e \in Exceptions : resolution[e] # Unresolved =>
              resolution'[e] # Unresolved /\ resolution'[e] = resolution[e]
         /\ \A r : Clean(r) => Clean(r)' /\ (Superseded(r)' => Superseded(r))
         /\ Closable \subseteq Closable'
<1>1. /\ \A r \in Runs : runStatus[r] = "completed" => runStatus'[r] = "completed"
      /\ \A e \in Exceptions : resolution[e] # Unresolved =>
              resolution'[e] # Unresolved /\ resolution'[e] = resolution[e]
  BY LedgerAssumption DEF LedgerNext, ledgerVars, CompleteRun, FailRun, Approve, LedgerTypeOK
<1>2. \A r : Clean(r) => Clean(r)'
  BY <1>1 DEF Clean
<1>3. \A r : Clean(r) => (Superseded(r)' => Superseded(r))
  BY <1>1 DEF Clean, Superseded, Replaces
<1>4. Closable \subseteq Closable'
  BY <1>1, <1>2 DEF Closable
<1> QED
  BY <1>1, <1>2, <1>3, <1>4

LEMMA LedgerKeepsClose ==
  ASSUME CloseInv, [LedgerNext]_ledgerVars, UNCHANGED closeVars
  PROVE  CloseInv'
<1>1. UNCHANGED <<periods, pc, job>>
  BY DEF closeVars
<1>2. LedgerTypeOK /\ LedgerTypeOK'
  BY LedgerTypeStep DEF CloseInv, CloseTypeOK
<1>3. /\ \A r \in Runs : runStatus[r] = "completed" => runStatus'[r] = "completed"
      /\ \A e \in Exceptions : resolution[e] # Unresolved => resolution'[e] # Unresolved
      /\ \A r : Clean(r) => Clean(r)'
  BY <1>2, LedgerOnlyGrows
<1>4. \A r : Clean(r) => Clean(r)'
  BY <1>3
<1>5. /\ CloseTypeOK /\ periods \subseteq Period
      /\ \A q \in Requests : job[q].runs \subseteq Runs
      /\ \A p \in periods : p.runs \subseteq Runs
  BY JobFields, PeriodFields DEF CloseInv, CloseTypeOK
<1>6. CloseTypeOK'
  BY <1>1, <1>2, <1>5 DEF CloseTypeOK
<1>7. \A q \in Requests : ReadsStillHold(q)'
  <2>1. ASSUME NEW q \in Requests, ReadsStillHold(q) PROVE ReadsStillHold(q)'
    <3>1. RunsFit(job[q].runs, job[q].bounds) => RunsFit(job[q].runs, job[q].bounds)'
      BY <1>1, <1>3, <1>5 DEF RunsFit, RecordsDisjoint
    <3> QED
      BY <1>1, <1>4, <2>1, <3>1 DEF ReadsStillHold, HasRow, HasOpen, Versions
  <2> QED
    BY <2>1 DEF CloseInv
<1>8. LockedRunsAreClean'
  BY <1>1, <1>3, <1>4, <1>5 DEF CloseInv, LockedRunsAreClean, RecordsDisjoint
<1>9. LocksExclusive' /\ \A q \in Requests : JobFits(q)'
  BY <1>1 DEF CloseInv, LocksExclusive, JobFits, HoldsAdvisory, HoldsRow, Versions
<1>10. VersionsUnique' /\ VersionsNumbered' /\ NewestMayBeOpen'
  BY <1>1 DEF CloseInv, VersionsUnique, VersionsNumbered, NewestMayBeOpen, Versions
<1> QED
  BY <1>6, <1>7, <1>8, <1>9, <1>10 DEF CloseInv

LEMMA CloseStart == CloseInit => CloseInv
<1> SUFFICES ASSUME CloseInit PROVE CloseInv
  OBVIOUS
<1>1. /\ periods = {} /\ pc = [q \in Requests |-> "idle"] /\ job = [q \in Requests |-> NoJob]
  BY DEF CloseInit
<1>2. LedgerTypeOK
  BY LedgerStart DEF CloseInit, LedgerInv
<1>3. \A q \in Requests : pc[q] = "idle" /\ job[q] = NoJob
  BY <1>1
<1>4. CloseTypeOK
  BY <1>1, <1>2, <1>3, NoJobFits DEF CloseTypeOK
<1>5. \A b \in Bounds : Versions(b) = 1..0
  BY <1>1 DEF Versions
<1>6. VersionsNumbered
  BY <1>5 DEF VersionsNumbered
<1> USE DEF CreateSteps, ReopenSteps, CloseSteps
<1>7. LocksExclusive
  BY <1>3 DEF LocksExclusive, HoldsAdvisory, HoldsRow
<1>8. \A q \in Requests : JobFits(q) /\ ReadsStillHold(q)
  BY <1>3, NoJobFits DEF JobFits, ReadsStillHold
<1>9. VersionsUnique /\ NewestMayBeOpen /\ LockedRunsAreClean
  BY <1>1 DEF VersionsUnique, NewestMayBeOpen, LockedRunsAreClean
<1> QED
  BY <1>4, <1>6, <1>7, <1>8, <1>9 DEF CloseInv

LEMMA CloseStep == CloseInv /\ [CloseNext]_allVars => CloseInv'
<1> SUFFICES ASSUME CloseInv, [CloseNext]_allVars PROVE CloseInv'
  OBVIOUS
<1>1. CASE LedgerNext /\ UNCHANGED closeVars
  BY <1>1, LedgerKeepsClose
<1>2. CASE UNCHANGED allVars
  BY <1>2, LedgerKeepsClose DEF allVars
<1>3. ASSUME NEW q \in Requests, RequestNext(q) PROVE CloseInv'
  <2>1. \A s \in Requests : ReadsStillHold(s)'
    BY <1>3, OthersReadsHold, OwnReadsHold
  <2> QED
    BY <1>3, <2>1, TypeKept, ExclusionKept, FitKept, ChainKept, LockedRunsKept DEF CloseInv
<1> QED
  BY <1>1, <1>2, <1>3 DEF CloseNext, RequestNext

-----------------------------------------------------------------------------
(* What follows.                                                           *)

(* Type correctness: a period version has bounds, a number, a status and   *)
(* selected runs, a request is at one of its statements and asks for       *)
(* something exactly while it occupies a place.                            *)
THEOREM CloseTypeCorrect == CloseSpec => []CloseTypeOK
<1>1. CloseInv => CloseTypeOK
  BY DEF CloseInv
<1> QED
  BY <1>1, CloseStart, CloseStep, PTL DEF CloseSpec

(* Numbers without gaps, each of one row, are as many as the rows.         *)
LEMMA AsManyAsNumbers ==
  ASSUME VersionsUnique, NEW b, NEW n \in Nat, Versions(b) = 1..n
  PROVE  Cardinality({p \in periods : p.bounds = b}) = n
<1> DEFINE S == {p \in periods : p.bounds = b}
           f == [v \in 1..n |-> CHOOSE p \in S : p.version = v]
<1>1. \A v \in 1..n : \E p \in S : p.version = v
  BY DEF Versions
<1>2. \A p \in S : p.version \in 1..n
  BY DEF Versions
<1>3. \A v \in 1..n : f[v] \in S /\ f[v].version = v
  BY <1>1
<1>4. f \in [1..n -> S]
  BY <1>3
<1>5. \A v, w \in 1..n : f[v] = f[w] => v = w
  BY <1>3
<1>6. \A p \in S : \E v \in 1..n : f[v] = p
  BY <1>2, <1>3 DEF VersionsUnique
<1> HIDE DEF S, f
<1>7. f \in Bijection(1..n, S)
  BY <1>4, <1>5, <1>6 DEF Bijection, Injection, Surjection, IsInjective
<1>8. ExistsBijection(1..n, S)
  BY <1>7 DEF ExistsBijection
<1>9. Cardinality(S) = n
  BY <1>8, FS_CountingElements
<1> QED
  BY <1>9 DEF S

LEMMA InvGivesChain == CloseInv => VersionsFormChain
<1> SUFFICES ASSUME CloseInv, NEW b \in Bounds
             PROVE  /\ Versions(b) = 1..Cardinality({p \in periods : p.bounds = b})
                    /\ \A p \in periods : p.bounds = b =>
                         /\ p.status = "open" => \A v \in Versions(b) : v <= p.version
                         /\ p.parent \in {0, p.version - 1}
  BY DEF VersionsFormChain
<1>1. PICK n \in Nat : Versions(b) = 1..n
  BY DEF CloseInv, VersionsNumbered
<1>2. Cardinality({p \in periods : p.bounds = b}) = n
  BY <1>1, AsManyAsNumbers DEF CloseInv
<1> QED
  BY <1>1, <1>2 DEF CloseInv, NewestMayBeOpen

(* The versions of a period form one chain, however creates, closes and    *)
(* reopens of any number of requests interleave or are rolled back.        *)
THEOREM VersionsAlwaysFormChain == CloseSpec => []VersionsFormChain
<1> QED
  BY InvGivesChain, CloseStart, CloseStep, PTL DEF CloseSpec

(* No create fails on a unique constraint: the version it has computed is  *)
(* still free, and no version is open, when it inserts.                    *)
THEOREM CreateNeverMeetsConflict == CloseSpec => []CreateNeverConflicts
<1>1. CloseInv => CreateNeverConflicts
  BY DEF CloseInv, JobFits, CreateNeverConflicts
<1> QED
  BY <1>1, CloseStart, CloseStep, PTL DEF CloseSpec

(* The runs of a locked version are completed, clean, of its period and    *)
(* disjoint, at the lock and ever after, although the three checks of the  *)
(* close read at different times and lock no run.                          *)
THEOREM LockedRunsAlwaysClean == CloseSpec => []LockedRunsAreClean
<1>1. CloseInv => LockedRunsAreClean
  BY DEF CloseInv
<1> QED
  BY <1>1, CloseStart, CloseStep, PTL DEF CloseSpec

(* A locked version never changes or disappears, and an open one only by   *)
(* being locked: closePeriod still finds the row open when it commits.     *)
THEOREM LockedVersionsNeverChange == CloseSpec => LockedVersionsAreFinal
<1> DEFINE Final ==
      \A p \in periods : p \notin periods' =>
        p.status = "open" /\ \E s \in SUBSET Runs : [p EXCEPT !.status = "locked", !.runs = s] \in periods'
<1>1. ASSUME CloseInv, [CloseNext]_allVars PROVE Final
  <2>1. CASE UNCHANGED periods
    BY <2>1
  <2>2. ASSUME NEW q \in Requests, RequestNext(q) PROVE Final
    <3>1. job[q].runs \in SUBSET Runs
      BY <1>1, JobFields DEF CloseInv, CloseTypeOK
    <3>2. CASE Inserted(q)
      BY <3>2 DEF Inserted
    <3>3. CASE Locked(q)
      BY <3>1, <3>3 DEF Locked
    <3> QED
      BY <1>1, <2>1, <2>2, <3>2, <3>3, PeriodsMove
  <2> QED
    BY <1>1, <2>1, <2>2 DEF CloseNext, RequestNext, allVars, closeVars
<1>2. CloseInv /\ [CloseNext]_allVars => [Final]_allVars
  BY <1>1
<1> QED
  BY <1>2, CloseStart, CloseStep, PTL DEF CloseSpec, LockedVersionsAreFinal

(* Requests about periods leave the ledger as it is, so all that is proved *)
(* of it holds while periods are created, closed and reopened.             *)
THEOREM CloseKeepsLedger == CloseSpec => LedgerSpec
<1>1. CloseInit => LedgerInit
  BY DEF CloseInit
<1>2. CloseInv /\ [CloseNext]_allVars => [LedgerNext]_ledgerVars
  <2> SUFFICES ASSUME CloseInv, [CloseNext]_allVars PROVE [LedgerNext]_ledgerVars
    OBVIOUS
  <2>1. ASSUME NEW q \in Requests, RequestNext(q) PROVE UNCHANGED ledgerVars
    BY <2>1, RequestPlace
  <2> QED
    BY <2>1 DEF CloseNext, RequestNext, allVars
<1> QED
  BY <1>1, <1>2, CloseStart, CloseStep, PTL DEF CloseSpec, LedgerSpec

(* What was current when it was found clean stays so: an exception is      *)
(* resolved once.                                                          *)
THEOREM LockedRunsAlwaysCurrent == CloseSpec => LockedRunsStayCurrent
<1> DEFINE Current ==
      \A r \in Runs : Superseded(r)' /\ ~Superseded(r) =>
        /\ \A p \in periods : p.status = "locked" => r \notin p.runs
        /\ \A q \in Requests : pc[q] = "close_clean" => r \notin job[q].runs
<1>1. ASSUME CloseInv, [CloseNext]_allVars PROVE Current
  <2>1. CASE [LedgerNext]_ledgerVars
    <3>1. \A r : Clean(r) => (Superseded(r)' => Superseded(r))
      BY <1>1, <2>1, LedgerOnlyGrows DEF CloseInv, CloseTypeOK
    <3>2. \A p \in periods : p.status = "locked" => \A r \in p.runs : Clean(r)
      BY <1>1 DEF CloseInv, LockedRunsAreClean
    <3>3. \A q \in Requests : pc[q] = "close_clean" => \A r \in job[q].runs : Clean(r)
      BY <1>1 DEF CloseInv, ReadsStillHold
    <3> QED
      BY <3>1, <3>2, <3>3
  <2>2. ASSUME NEW q \in Requests, RequestNext(q) PROVE Current
    BY <1>1, <2>2, RequestPlace DEF ledgerVars, Superseded, Replaces
  <2> QED
    BY <1>1, <2>1, <2>2 DEF CloseNext, RequestNext, allVars
<1>2. CloseInv /\ [CloseNext]_allVars => [Current]_allVars
  BY <1>1
<1> QED
  BY <1>2, CloseStart, CloseStep, PTL DEF CloseSpec, LockedRunsStayCurrent

(* assertPeriodWritable refuses imports exactly while no version is open:  *)
(* an open version is newer than every locked one.                         *)
THEOREM AlwaysWritableWhileOpen == CloseSpec => []WritableExactlyWhileOpen
<1>1. ASSUME CloseInv, NEW b \in Bounds, Versions(b) # {}
      PROVE  Abstract!Writable(b) <=> HasOpen(b)
  <2>1. \A p \in periods : p.version \in Nat /\ p.status \in {"open", "locked"}
    BY <1>1, PeriodFields DEF CloseInv, CloseTypeOK
  <2>2. ASSUME Abstract!Writable(b) PROVE HasOpen(b)
    <3>1. PICK p \in periods : p.bounds = b
      BY <1>1 DEF Versions
    <3> QED
      BY <2>1, <2>2, <3>1 DEF Abstract!Writable, HasOpen
  <2>3. ASSUME NEW n \in periods, n.bounds = b, n.status = "open", NEW p \in periods, p.bounds = b, p.status = "locked"
        PROVE  n.version > p.version
    <3>1. p.version <= n.version
      BY <1>1, <2>3 DEF CloseInv, NewestMayBeOpen, Versions
    <3>2. p.version # n.version
      BY <1>1, <2>3 DEF CloseInv, VersionsUnique
    <3> QED
      BY <2>1, <3>1, <3>2
  <2> QED
    BY <2>2, <2>3 DEF Abstract!Writable, HasOpen
<1>2. CloseInv => WritableExactlyWhileOpen
  BY <1>1 DEF WritableExactlyWhileOpen
<1> QED
  BY <1>2, CloseStart, CloseStep, PTL DEF CloseSpec

-----------------------------------------------------------------------------
(* The close implements PeriodVersions.                                    *)

LEMMA InsertedIsOpened ==
  ASSUME CloseInv, NEW q \in Requests, Inserted(q)
  PROVE  \E b \in Bounds : Abstract!Create(b) \/ Abstract!Reopen(b)
<1>1. PICK b \in Bounds : b = job[q].bounds
  BY JobFields DEF CloseInv, CloseTypeOK
<1>2. PICK v \in Nat \ {0} : \E par \in {0, v - 1} :
        /\ Versions(b) = 1..(v - 1)
        /\ periods' = periods \cup {[bounds |-> b, version |-> v, status |-> "open",
                                     parent |-> par, runs |-> {}]}
  BY <1>1 DEF Inserted
<1>3. PICK par \in {0, v - 1} :
        /\ Versions(b) = 1..(v - 1)
        /\ periods' = periods \cup {[bounds |-> b, version |-> v, status |-> "open",
                                     parent |-> par, runs |-> {}]}
  BY <1>2
<1> DEFINE w == v - 1
<1>4. w \in Nat /\ w + 1 = v /\ (\A x \in Versions(b) : x <= w) /\ (w # 0 => w \in Versions(b))
  BY <1>3
<1> HIDE DEF w
<1>5. Abstract!Versions(b) = Versions(b) /\ ~Abstract!HasOpen(b)
  BY <1>1 DEF Inserted, HasOpen, Versions, Abstract!Versions, Abstract!HasOpen
<1>6. Abstract!OpenAfter(b, w, par)
  BY <1>3, <1>4, <1>5 DEF Abstract!OpenAfter
<1>7. CASE par = 0
  BY <1>4, <1>5, <1>6, <1>7 DEF Abstract!Create
<1>8. CASE par # 0
  <2>1. par = w
    BY <1>3, <1>8 DEF w
  <2> QED
    BY <1>4, <1>5, <1>6, <1>8, <2>1 DEF Abstract!Reopen
<1> QED
  BY <1>7, <1>8

LEMMA LockedIsLocked ==
  ASSUME CloseInv, NEW q \in Requests, Locked(q)
  PROVE  \E p \in periods, cs \in SUBSET Closable : Abstract!Lock(p, cs)
<1> DEFINE Row(r) == [run |-> r, bounds |-> PeriodOf[r], records |-> RecordsOf[r]]
           cs == {Row(r) : r \in job[q].runs}
           p == TheRow(q)
<1>1. job[q].runs \in SUBSET Runs
  BY JobFields DEF CloseInv, CloseTypeOK
<1>2. /\ p \in periods /\ p.status = "open" /\ p.bounds = job[q].bounds
      /\ RunsFit(job[q].runs, p.bounds) /\ \A r \in job[q].runs : Clean(r)
      /\ periods' = (periods \ {p}) \cup {[p EXCEPT !.status = "locked", !.runs = job[q].runs]}
  BY DEF Locked
<1>3. \A r : Row(r).run = r /\ Row(r).bounds = PeriodOf[r] /\ Row(r).records = RecordsOf[r]
  OBVIOUS
<1>4. cs \in SUBSET Closable
  BY <1>1, <1>2 DEF Closable, RunsFit
<1> HIDE DEF p, Row
<1>5. cs # {}
  BY <1>2 DEF RunsFit
<1>6. \A c \in cs : c.bounds = p.bounds
  BY <1>2, <1>3 DEF RunsFit
<1>7. \A c, d \in cs : c # d => c.records \cap d.records = {}
  <2>1. TAKE c, d \in cs
  <2>2. PICK r \in job[q].runs, s \in job[q].runs : c = Row(r) /\ d = Row(s)
    OBVIOUS
  <2> QED
    BY <1>2, <1>3, <2>2 DEF RunsFit, RecordsDisjoint
<1>8. {c.run : c \in cs} = job[q].runs
  <2>1. \A c \in cs : c.run \in job[q].runs
    BY <1>3
  <2>2. \A r \in job[q].runs : Row(r) \in cs /\ Row(r).run = r
    BY <1>3
  <2> QED
    BY <2>1, <2>2
<1> HIDE DEF cs
<1>9. Abstract!Lock(p, cs)
  BY <1>2, <1>5, <1>6, <1>7, <1>8 DEF Abstract!Lock
<1> QED
  BY <1>2, <1>4, <1>9

(* Create, close and reopen are one step each to the rest of the system,   *)
(* the close over runs that may be closed at that moment, although its     *)
(* checks read them at different ones.                                     *)
THEOREM CloseImplementsVersions == CloseSpec => ImplementsVersions
<1>1. CloseInit => Abstract!VersionsInit
  BY DEF CloseInit, LedgerInit, Closable, Abstract!VersionsInit
<1>2. ASSUME CloseInv, [CloseNext]_allVars
      PROVE  [Abstract!VersionsNext]_(Abstract!versionVars)
  <2>1. CASE LedgerNext /\ UNCHANGED closeVars
    <3>1. Closable \subseteq Closable'
      BY <1>2, <2>1, LedgerOnlyGrows DEF CloseInv, CloseTypeOK
    <3> QED
      BY <2>1, <3>1 DEF closeVars, Abstract!VersionsNext
  <2>2. ASSUME NEW q \in Requests, RequestNext(q)
        PROVE  [Abstract!VersionsNext]_(Abstract!versionVars)
    <3>1. UNCHANGED Closable
      BY <1>2, <2>2, RequestPlace DEF ledgerVars, Closable, Clean
    <3>2. CASE UNCHANGED periods
      BY <3>1, <3>2 DEF Abstract!versionVars
    <3>3. CASE Inserted(q)
      BY <1>2, <3>1, <3>3, InsertedIsOpened DEF Abstract!VersionsNext
    <3>4. CASE Locked(q)
      BY <1>2, <3>1, <3>4, LockedIsLocked DEF Abstract!VersionsNext
    <3> QED
      BY <1>2, <2>2, <3>2, <3>3, <3>4, PeriodsMove
  <2>3. CASE UNCHANGED allVars
    BY <2>3 DEF allVars, ledgerVars, closeVars, Closable, Clean, Abstract!versionVars
  <2> QED
    BY <1>2, <2>1, <2>2, <2>3 DEF CloseNext, RequestNext
<1> QED
  BY <1>1, <1>2, CloseStart, CloseStep, PTL DEF CloseSpec, ImplementsVersions, Abstract!VersionsSpec

-----------------------------------------------------------------------------
(* Closes that nobody's approval comes between.                            *)

(* What the close has checked of supersession still holds when it commits. *)
QuietInv ==
  /\ CloseInv /\ LockedRunsNotSuperseded
  /\ \A q \in Requests : pc[q] \in {"close_current", "close_clean"} =>
       \A r \in job[q].runs : ~Superseded(r)

(* While nothing is approved of a run, what supersedes it stays the same.  *)
LEMMA UntouchedStaysCurrent ==
  ASSUME NEW r, ~Superseded(r),
         \A e \in Exceptions : RunOf[e] = r => resolution'[e] = resolution[e]
  PROVE  ~Superseded(r)'
BY DEF Superseded, Replaces

LEMMA QuietStep ==
  ASSUME QuietInv, [CloseNext /\ Undisturbed]_allVars
  PROVE  QuietInv'
<1>1. CloseInv /\ CloseInv'
  BY CloseStep DEF QuietInv
<1>2. CASE [LedgerNext]_ledgerVars /\ UNCHANGED closeVars /\ (Undisturbed \/ UNCHANGED ledgerVars)
  <2>1. UNCHANGED <<periods, pc, job>>
    BY <1>2 DEF closeVars
  <2>2. \A r : Clean(r) => (Superseded(r)' => Superseded(r))
    BY <1>1, <1>2, LedgerOnlyGrows DEF CloseInv, CloseTypeOK
  <2>3. LockedRunsNotSuperseded'
    BY <1>1, <2>1, <2>2 DEF QuietInv, CloseInv, LockedRunsNotSuperseded, LockedRunsAreClean
  <2>4. ASSUME NEW q \in Requests, pc'[q] = "close_clean", NEW r \in job'[q].runs
        PROVE  ~Superseded(r)'
    BY <1>1, <2>1, <2>2, <2>4 DEF QuietInv, CloseInv, ReadsStillHold
  <2>5. ASSUME NEW q \in Requests, pc'[q] = "close_current", NEW r \in job'[q].runs
        PROVE  ~Superseded(r)'
    <3>1. \A e \in Exceptions : RunOf[e] = r => resolution'[e] = resolution[e]
      BY <1>2, <2>1, <2>5 DEF Undisturbed, ledgerVars
    <3> QED
      BY <2>1, <2>5, <3>1, UntouchedStaysCurrent DEF QuietInv
  <2> QED
    BY <1>1, <2>3, <2>4, <2>5 DEF QuietInv
<1>3. ASSUME NEW q \in Requests, RequestNext(q)
      PROVE  QuietInv'
  <2>1. \A r : Superseded(r)' <=> Superseded(r)
    BY <1>1, <1>3, RequestPlace DEF ledgerVars, Superseded, Replaces
  <2>2. ASSUME NEW s \in Requests, pc'[s] \in {"close_current", "close_clean"}, NEW r \in job'[s].runs
        PROVE  ~Superseded(r)
    <3>1. CASE s # q
      BY <1>1, <1>3, <2>2, <3>1, RequestPlace DEF QuietInv
    <3>2. CASE s = q /\ PlainNext(q)
      <4>1. PICK to \in PCs \ {"idle"} : Moves(q, pc[q], to) /\ Edge(q, pc[q], to)
        BY <1>1, <3>2, PlainEdge DEF CloseInv
      <4>2. job'[q] = job[q] /\ pc'[q] = to
        BY <1>1, <4>1, MovesPlace DEF CloseInv
      <4> QED
        BY <2>2, <3>2, <4>1, <4>2 DEF Edge, QuietInv
    <3>3. CASE s = q /\ Numbers(q)
      BY <1>1, <2>2, <3>3, NumbersNext
    <3>4. CASE s = q /\ (Leave(q) \/ \E j \in Jobs : Arrive(q, j))
      BY <1>1, <2>2, <3>4 DEF Leave, Arrive, CloseInv, CloseTypeOK
    <3> QED
      BY <1>3, <3>1, <3>2, <3>3, <3>4, RequestCases
  <2>3. ASSUME NEW p \in periods', p.status = "locked", NEW r \in p.runs
        PROVE  ~Superseded(r)
    <3>1. CASE UNCHANGED periods
      BY <2>3, <3>1 DEF QuietInv, LockedRunsNotSuperseded
    <3>2. CASE Inserted(q)
      BY <2>3, <3>2 DEF Inserted, QuietInv, LockedRunsNotSuperseded
    <3>3. CASE Locked(q)
      <4>1. PICK x \in periods, c \in Period :
              /\ periods' = (periods \ {x}) \cup {c}
              /\ c.bounds = x.bounds /\ c.runs = job[q].runs
        BY <1>1, <3>3, LockedVersions
      <4>2. \A t \in job[q].runs : ~Superseded(t)
        BY <3>3 DEF Locked, QuietInv
      <4> QED
        BY <2>3, <4>1, <4>2 DEF QuietInv, LockedRunsNotSuperseded
    <3> QED
      BY <1>1, <1>3, <3>1, <3>2, <3>3, PeriodsMove
  <2>4. LockedRunsNotSuperseded'
    BY <2>1, <2>3 DEF LockedRunsNotSuperseded
  <2> QED
    BY <1>1, <2>1, <2>2, <2>4 DEF QuietInv
<1> QED
  BY <1>2, <1>3 DEF CloseNext, RequestNext, allVars

(* A close locks no superseded run, unless an approval comes between its   *)
(* check of supersession and its check of open exceptions.                 *)
THEOREM QuietClosesAreCurrent == QuietSpec => []LockedRunsNotSuperseded
<1>1. CloseInit => QuietInv
  <2>1. CloseInit => periods = {} /\ \A q \in Requests : pc[q] = "idle"
    BY DEF CloseInit
  <2> QED
    BY <2>1, CloseStart DEF QuietInv, LockedRunsNotSuperseded
<1>2. QuietInv => LockedRunsNotSuperseded
  BY DEF QuietInv
<1> QED
  BY <1>1, <1>2, QuietStep, PTL DEF QuietSpec
===============================================================================
