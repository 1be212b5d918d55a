---------------------------- MODULE Reconciliation ----------------------------
(***************************************************************************)
(* runReconciliation of src/recon-service.mjs for one period and one rule, *)
(* while imports begin and commit (RecordStore) and versions of the period *)
(* are opened and locked (PeriodVersions).  A run's transaction is         *)
(* REPEATABLE READ: its snapshot is that of its first query, which waits   *)
(* for the advisory lock of its idempotency key; its record highwater is   *)
(* its BEGIN.  What the matcher makes of the records (module Matching) is  *)
(* reduced to its plainest case: equal contents of two data sources cancel *)
(* out.                                                                    *)
(***************************************************************************)
EXTENDS RecordStore, Integers, Sequences

CONSTANTS
  RunRequests,  \* places for POST recon-runs
  Keys,         \* values of their Idempotency-Key
  Unmatchable,  \* contents with a record whose amount is not positive
  MaxLocks      \* bound: times the period is locked

ASSUME ReconciliationAssumption == Unmatchable \subseteq Contents /\ MaxLocks \in Nat

VARIABLES
  runPc,      \* how far each request has come
  key,        \* its idempotency key
  runAnswer,  \* what its client was told
  txn,        \* what its transaction knows
  runs,       \* committed rows of recon_runs
  periods,    \* versions of the period, as in PeriodVersions
  manifests   \* files listed in the manifest of each locked version

requestVars == <<runPc, key, runAnswer, txn>>
closeVars == <<periods, manifests>>
reconVars == <<requestVars, runs, closeVars>>
booksVars == <<storeVars, reconVars>>

\* a transaction: uploads whose created_at is not above its highwater, those of
\* them that were in transactions when it took its snapshot, and that snapshot
Txn == [below : SUBSET Uploads, overlaps : SUBSET Uploads,
        batches : SUBSET Batch, made : SUBSET RunRequests]
NoTxn == [below |-> {}, overlaps |-> {}, batches |-> {}, made |-> {}]
RunRow == [by : RunRequests, status : {"completed", "failed"}, seen : SUBSET Batch,
           below : SUBSET Uploads, overlaps : SUBSET Uploads, resolved : BOOLEAN]
\* the one period of all runs and records
Month == 1
InRun == {"begun", "waiting", "locked", "inserted"}
RunEnded == {"answered", "crashed"}

ReconTypeOK ==
  /\ StoreTypeOK
  /\ runPc \in [RunRequests -> {"idle"} \cup InRun \cup RunEnded]
  /\ key \in [RunRequests -> Keys]
  /\ runAnswer \in [RunRequests -> {"none", "completed", "failed", "replayed", "conflict", "error"}]
  /\ txn \in [RunRequests -> Txn]
  /\ runs \subseteq RunRow
  /\ periods \subseteq [bounds : {Month}, version : Nat, status : {"open", "locked"}, parent : Nat,
                         runs : SUBSET RunRequests]
  /\ manifests \in Seq(SUBSET Batch)

ReconInit ==
  /\ StoreInit /\ locked = {}
  /\ runPc = [q \in RunRequests |-> "idle"]
  /\ key \in [RunRequests -> Keys]
  /\ runAnswer = [q \in RunRequests |-> "none"]
  /\ txn = [q \in RunRequests |-> NoTxn]
  /\ runs = {} /\ periods = {} /\ manifests = <<>>

-----------------------------------------------------------------------------

Begun == {u \in Uploads : stage[u] = "begun"}
Made == {r.by : r \in runs}
HasKey(made, q) == \E r \in made : key[r] = key[q]

Goes(q, from, to, known) ==
  /\ runPc[q] = from
  /\ runPc' = [runPc EXCEPT ![q] = to]
  /\ txn' = [txn EXCEPT ![q] = known]
  /\ UNCHANGED <<storeVars, key, closeVars>>
(* A step within the transaction, and its end.                             *)
Continues(q, from, to, known) == Goes(q, from, to, known) /\ UNCHANGED <<runAnswer, runs>>
Tells(q, from, what) == Goes(q, from, "answered", NoTxn) /\ runAnswer' = [runAnswer EXCEPT ![q] = what]

(* BEGIN: transaction_timestamp is what created_at is for the records of   *)
(* an import, and what record_highwater will be, cut to milliseconds by    *)
(* the Date that brings it back: any of the imports begun may be too       *)
(* recent to be below it.                                                  *)
RunBegin(q) ==
  \E below \in SUBSET (Begun \cup {b.by : b \in batches}) :
    Continues(q, "idle", "begun", [NoTxn EXCEPT !.below = below])

(* pg_advisory_xact_lock is sent; the statement's snapshot is taken before *)
(* it waits.                                                               *)
RunAsksLock(q) ==
  Continues(q, "begun", "waiting",
    [txn[q] EXCEPT !.overlaps = Begun \cap txn[q].below, !.batches = batches, !.made = Made])

(* Mistake: the lock belongs to the session, which goes back to the pool.  *)
KeyFreeOfSession(q) ==
  ~\E r \in RunRequests \ {q} : key[r] = key[q] /\ runPc[r] \in {"locked", "inserted", "answered"}
(* The lock is held to the end of the transaction.                         *)
KeyFree(q) == ~\E r \in RunRequests \ {q} : key[r] = key[q] /\ runPc[r] \in {"locked", "inserted"}

RunGetsLock(q) == KeyFree(q) /\ Continues(q, "waiting", "locked", txn[q])

(* Mistake: keys are not unique in the table; lock and lookup have to do.  *)
InsertIfNotSeen(q) ==
  \/ HasKey(txn[q].made, q) /\ Tells(q, "locked", "replayed") /\ UNCHANGED runs
  \/ ~HasKey(txn[q].made, q) /\ Continues(q, "locked", "inserted", txn[q])

(* The run of the key is answered if the snapshot has it; else a row is    *)
(* inserted, which fails if a run of the key has committed since, and      *)
(* would wait for another that has inserted the key.                       *)
RunInsert(q) ==
  \/ HasKey(txn[q].made, q) /\ Tells(q, "locked", "replayed") /\ UNCHANGED runs
  \/ HasKey(Made \ txn[q].made, q) /\ Tells(q, "locked", "conflict") /\ UNCHANGED runs
  \/ /\ ~HasKey(Made, q) /\ ~HasKey({r \in RunRequests : runPc[r] = "inserted"}, q)
     /\ Continues(q, "locked", "inserted", txn[q])

(* Mistake: the records are not limited by the highwater.                  *)
LoadAll(q) == txn[q].batches
(* loadRecords.                                                            *)
LoadRecords(q) == {b \in txn[q].batches : b.by \in txn[q].below}
Projects(q) == ~\E b \in LoadRecords(q) : b.content \in Unmatchable

(* What the matcher leaves over, each record with a blocking exception.    *)
Unmatched(rows) == {b \in rows : ~\E c \in rows : c.source # b.source /\ c.content = b.content}

Row(q, what) == [by |-> q, status |-> what, seen |-> LoadRecords(q), below |-> txn[q].below,
                 overlaps |-> txn[q].overlaps, resolved |-> FALSE]
Writes(q, what) == runs' = runs \cup {Row(q, what)}

(* Mistake: a run that exceeds the matching budget is rolled back.         *)
RunForgetsFailure(q) ==
  /\ Projects(q)
  /\ \/ Tells(q, "inserted", "completed") /\ Writes(q, "completed")
     \/ Tells(q, "inserted", "failed") /\ UNCHANGED runs

(* The last writes and COMMIT of a run that matched its records, or of one *)
(* that exceeded the matching budget.                                      *)
RunEnds(q) ==
  /\ Projects(q)
  /\ \E what \in {"completed", "failed"} : Tells(q, "inserted", what) /\ Writes(q, what)

(* projectRecord throws on an amount that is not positive.                 *)
RunRejectsRecord(q) == ~Projects(q) /\ Tells(q, "inserted", "error") /\ UNCHANGED runs

(* A statement fails and the transaction is rolled back.                   *)
RunFails(q) == runPc[q] \in InRun /\ Tells(q, runPc[q], "error") /\ UNCHANGED runs

(* The connection is lost at a COMMIT that took effect.                    *)
RunCommitLost(q) ==
  /\ Projects(q) /\ Tells(q, "inserted", "error")
  /\ \E what \in {"completed", "failed"} : Writes(q, what)

(* The server dies, with the imports and the runs it handles; a run may    *)
(* have sent its COMMIT.                                                   *)
Dies ==
  /\ \E q \in RunRequests : runPc[q] \in InRun
  /\ runPc' = [q \in RunRequests |-> IF runPc[q] \in InRun THEN "crashed" ELSE runPc[q]]
  /\ txn' = [q \in RunRequests |-> NoTxn]
  /\ LET ending == {u \in Uploads : stage[u] \in {"admitted", "begun"}} IN
     \E committing \in SUBSET ending : End(ending, committing)
  /\ LET committing == {q \in RunRequests : runPc[q] = "inserted" /\ Projects(q)} IN
     \E done \in SUBSET committing, failed \in SUBSET committing :
       runs' = runs \cup {Row(q, "completed") : q \in done} \cup {Row(q, "failed") : q \in failed \ done}
  /\ UNCHANGED <<key, runAnswer, closeVars>>

-----------------------------------------------------------------------------
(* The period of the records.                                              *)

Clean(r) == r.resolved \/ Unmatched(r.seen) = {}
Allocated(r) == r.seen \ Unmatched(r.seen)

(* Mistake: a resolved exception may be opened again.                      *)
ResolveOrReopen(r) ==
  /\ r.status = "completed" /\ Unmatched(r.seen) # {}
  /\ runs' = (runs \ {r}) \cup {[r EXCEPT !.resolved = ~@]}
  /\ UNCHANGED <<storeVars, requestVars, closeVars>>

(* The last exception of a run is resolved without financial impact.       *)
Resolve(r) ==
  /\ r.status = "completed" /\ ~Clean(r)
  /\ runs' = (runs \ {r}) \cup {[r EXCEPT !.resolved = TRUE]}
  /\ UNCHANGED <<storeVars, requestVars, closeVars>>

AsClosable(r) == [run |-> r.by, bounds |-> Month, records |-> Allocated(r)]
Closable == {AsClosable(r) : r \in {s \in runs : s.status = "completed" /\ Clean(s)}}
Close == INSTANCE PeriodVersions WITH Runs <- RunRequests, Bounds <- {Month}, closable <- Closable

(* What assertPeriodWritable will tell imports from now on.                *)
TellsImports == locked' = IF Close!Writable(Month)' THEN {} ELSE Contents

(* createPeriod, and reopenPeriod.                                         *)
OpenVersion ==
  /\ Close!Create(Month) \/ Close!Reopen(Month)
  /\ TellsImports
  /\ UNCHANGED <<upload, stage, batches, requestVars, runs, manifests>>

(* Mistake: the manifest lists the files of everything in the period.      *)
FilesOfPeriod(rs) == batches
(* buildSnapshot.                                                          *)
FilesOf(rs) == UNION {Allocated(r) : r \in rs}

(* closePeriod.                                                            *)
Lock(p, rs) ==
  /\ Len(manifests) < MaxLocks
  /\ LET cs == {AsClosable(r) : r \in rs} IN cs \subseteq Closable /\ Close!Lock(p, cs)
  /\ TellsImports
  /\ manifests' = Append(manifests, FilesOf(rs))
  /\ UNCHANGED <<upload, stage, batches, requestVars, runs>>

-----------------------------------------------------------------------------

Importing ==
  /\ UNCHANGED reconVars
  /\ \E q \in Uploads :
       \/ Admit(q) \/ BeginImport(q) \/ End({q}, {q})
       \/ stage[q] # "waiting" /\ End({q}, {})

RunStep(q) == RunBegin(q) \/ RunAsksLock(q) \/ RunInsert(q) \/ RunEnds(q) \/ RunRejectsRecord(q)

ReconNext ==
  \/ Importing
  \/ \E q \in RunRequests : RunStep(q) \/ RunGetsLock(q) \/ RunFails(q) \/ RunCommitLost(q)
  \/ Dies
  \/ \E r \in runs : Resolve(r)
  \/ \E p \in periods, rs \in SUBSET runs : Lock(p, rs)
  \/ OpenVersion

(* The database executes the statements it is sent and grants a lock in    *)
(* the order it was asked for; nothing makes clients send requests, nor    *)
(* imports and closes happen.                                              *)
ReconFairness ==
  \A q \in RunRequests :
    /\ WF_booksVars(RunAsksLock(q) \/ RunInsert(q) \/ RunEnds(q) \/ RunRejectsRecord(q))
    /\ SF_booksVars(RunGetsLock(q))

ReconSpec == ReconInit /\ [][ReconNext]_booksVars /\ ReconFairness

-----------------------------------------------------------------------------

(* A key has one run, however many requests carry it at once, and although *)
(* the lookup reads a snapshot taken before the lock was granted.          *)
KeyHasOneRun == \A r, s \in runs : key[r.by] = key[s.by] => r = s

(* An answer that names a run names a committed one: one's own, or another *)
(* of the same key.  That holds for a conflict too, so that to repeat a    *)
(* refused request is answered with the run it lost to.                    *)
RunAnswersAreTrue ==
  \A q \in RunRequests :
    /\ runAnswer[q] \in {"completed", "failed"} => \E r \in runs : r.by = q /\ r.status = runAnswer[q]
    /\ runAnswer[q] \in {"replayed", "conflict"} => q \notin Made /\ HasKey(Made, q)

(* A run can be repeated from its record highwater: it has seen exactly    *)
(* the records that are not above it, however imports interleave, but for  *)
(* imports whose transaction was open when it took its snapshot.           *)
ReproducibleUnlessOverlapped ==
  \A r \in runs : r.seen = {b \in batches : b.by \in r.below /\ b.by \notin r.overlaps}

(* The manifest of a locked version lists, then and ever after, the files  *)
(* that its runs have allocated.  They are committed, and what the runs    *)
(* allocated of them balances: every record has its counterpart in the     *)
(* same manifest, and no two runs of it share one.                         *)
ManifestsBalance ==
  \A p \in periods : p.status = "locked" =>
    LET files == manifests[p.version]  selected == {r \in runs : r.by \in p.runs} IN
    /\ p.runs \subseteq Made /\ files = FilesOf(selected)
    /\ files \subseteq batches /\ Unmatched(files) = {}
    /\ \A r, s \in selected : r # s => Allocated(r) \cap Allocated(s) = {}

(* Runs, imports and resolutions keep to what the close relies on: what    *)
(* may be closed stays so, and versions change as the close promises.      *)
ImplementsVersions == Close!VersionsSpec

(* Every run request is answered unless the server dies: the waits for     *)
(* keys end.                                                               *)
RunRequestsEnd == \A q \in RunRequests : runPc[q] = "begun" ~> runPc[q] \in RunEnded
===============================================================================
