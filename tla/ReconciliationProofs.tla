------------------------- MODULE ReconciliationProofs -------------------------
(***************************************************************************)
(* The safety of reconciliation runs and of the manifests built from them, *)
(* for any number of uploads, run requests, keys and locks.                *)
(***************************************************************************)
EXTENDS Reconciliation, SequenceTheorems, TLAPS

AfterSnapshot == {"waiting", "locked", "inserted"}

(* A batch is that of an upload that has ended, and a run that of a        *)
(* request that has.                                                       *)
RowsAreOver ==
  /\ \A b \in batches : stage[b.by] = "ended"
  /\ \A r \in runs : runPc[r.by] \in RunEnded

(* The unique key: an inserted row is the only one of its key, committed   *)
(* or not.                                                                 *)
InsertionsAlone ==
  \A q \in RunRequests : runPc[q] = "inserted" =>
    /\ ~HasKey(Made, q)
    /\ \A r \in RunRequests : runPc[r] = "inserted" /\ key[r] = key[q] => r = q

AnswersComeLast == \A q \in RunRequests : runAnswer[q] # "none" => runPc[q] = "answered"

(* What a transaction knows: uploads below its highwater have begun; those *)
(* that its snapshot did not find open had ended; and it has seen what     *)
(* those have committed, neither more nor less.                            *)
SnapshotsAreTrue ==
  \A q \in RunRequests :
    /\ runPc[q] \in InRun => \A u \in txn[q].below : stage[u] \in {"begun", "ended"}
    /\ runPc[q] \in AfterSnapshot =>
         /\ \A u \in txn[q].below \ txn[q].overlaps : stage[u] = "ended"
         /\ txn[q].made \subseteq Made
         /\ LoadRecords(q) = {b \in batches : b.by \in txn[q].below /\ b.by \notin txn[q].overlaps}

(* Nothing can be added to what a run should have seen.                    *)
RunsAreSettled == \A r \in runs : \A u \in r.below \ r.overlaps : stage[u] = "ended"

(* There is a manifest of each locked version, and the open one is next.   *)
VersionsFit ==
  /\ \A p, s \in periods : p.version = s.version => p = s
  /\ \A p \in periods :
       IF p.status = "locked" THEN p.version \in DOMAIN manifests ELSE p.version = Len(manifests) + 1
  /\ \A i \in DOMAIN manifests : \E p \in periods : p.version = i

ReconInv ==
  /\ ReconTypeOK /\ RowsAreOver /\ InsertionsAlone /\ KeyHasOneRun /\ AnswersComeLast
  /\ RunAnswersAreTrue /\ SnapshotsAreTrue /\ RunsAreSettled /\ ReproducibleUnlessOverlapped
  /\ VersionsFit /\ ManifestsBalance

-----------------------------------------------------------------------------
(* What any step does, in the three respects the invariant asks about.     *)

(* Uploads go forward, and a new batch is that of one that ends now.       *)
StoreGrows ==
  /\ batches \subseteq batches'
  /\ \A u \in Uploads :
       /\ stage[u] = "ended" => stage'[u] = "ended"
       /\ stage[u] \in {"begun", "ended"} => stage'[u] \in {"begun", "ended"}
  /\ \A b \in batches' \ batches : stage[b.by] = "begun" /\ stage'[b.by] = "ended"

(* Two rows that differ at most in whether the exceptions are resolved.    *)
SameRun(r, s) ==
  r.by = s.by /\ r.status = s.status /\ r.seen = s.seen /\ r.below = s.below /\ r.overlaps = s.overlaps

(* Runs stay, and a new run is that of a request that had inserted it.     *)
RunsGrow ==
  /\ \A s \in runs : \E r \in runs' : SameRun(r, s)
  /\ \A r \in runs' :
       \/ \E s \in runs : SameRun(r, s)
       \/ /\ r.by \in RunRequests /\ runPc[r.by] = "inserted" /\ runPc'[r.by] \in RunEnded
          /\ r = Row(r.by, r.status) /\ r.status \in {"completed", "failed"}
  /\ \A r, s \in runs' : r.by = s.by => r = s

(* A request stays where it is, or takes a step of its transaction.        *)
Stays(q) == runPc'[q] = runPc[q] /\ (runPc[q] \in InRun => txn'[q] = txn[q])
Leaves(q) == runPc[q] \in InRun /\ runPc'[q] \in RunEnded
Waits(q) == runPc[q] = "waiting" /\ runPc'[q] = "locked" /\ txn'[q] = txn[q]
Inserts(q) == runPc'[q] = "inserted" /\ RunInsert(q) /\ txn'[q] = txn[q]
RequestMoves(q) == Stays(q) \/ Leaves(q) \/ RunBegin(q) \/ RunAsksLock(q) \/ Waits(q) \/ Inserts(q)

LocksVersion == \E p \in periods, rs \in SUBSET runs : Lock(p, rs)

LEMMA VersionsMove ==
  ASSUME ReconNext
  PROVE  UNCHANGED closeVars \/ OpenVersion \/ LocksVersion
BY DEF ReconNext, Importing, RunStep, RunBegin, RunAsksLock, RunGetsLock, RunInsert, RunEnds, RunRejectsRecord,
  RunFails, RunCommitLost, Dies, Resolve, Continues, Tells, Goes, reconVars, closeVars, LocksVersion

(* A version that is opened or locked is one of the month.                 *)
VersionRow == [bounds : {Month}, version : Nat, status : {"open", "locked"}, parent : Nat, runs : SUBSET RunRequests]

LEMMA VersionOpened ==
  ASSUME ReconTypeOK, OpenVersion
  PROVE  \E v \in {0} \cup Close!Versions(Month), x \in VersionRow :
           /\ ~Close!HasOpen(Month) /\ \A w \in Close!Versions(Month) : w <= v
           /\ x.version = v + 1 /\ x.status = "open" /\ periods' = periods \cup {x}
<1>1. PICK v \in {0} \cup Close!Versions(Month), par \in Nat : Close!OpenAfter(Month, v, par)
  <2>1. \A w \in Close!Versions(Month) : w \in Nat
    BY DEF ReconTypeOK, Close!Versions
  <2>2. QED  BY <2>1 DEF OpenVersion, Close!Create, Close!Reopen
<1> DEFINE x == [bounds |-> Month, version |-> v + 1, status |-> "open", parent |-> par, runs |-> {}]
<1>2. v \in Nat
  BY DEF ReconTypeOK, Close!Versions
<1>3. x \in VersionRow /\ x.version = v + 1 /\ x.status = "open"
  BY <1>2 DEF VersionRow
<1>4. periods' = periods \cup {x} /\ ~Close!HasOpen(Month) /\ \A w \in Close!Versions(Month) : w <= v
  BY <1>1 DEF Close!OpenAfter
<1> HIDE DEF x
<1>5. QED  BY <1>3, <1>4

LEMMA VersionLocked ==
  ASSUME ReconTypeOK, NEW p \in periods, NEW rs \in SUBSET runs, Lock(p, rs)
  PROVE  \E x \in VersionRow :
           /\ p.status = "open" /\ periods' = (periods \ {p}) \cup {x}
           /\ x.version = p.version /\ x.status = "locked" /\ x.runs = {r.by : r \in rs}
<1> DEFINE cs == {AsClosable(r) : r \in rs}
           x == [p EXCEPT !.status = "locked", !.runs = {c.run : c \in cs}]
<1>1. p \in VersionRow
  BY DEF ReconTypeOK, VersionRow
<1>2. \A r : AsClosable(r).run = r.by
  BY DEF AsClosable
<1>3. {c.run : c \in cs} = {r.by : r \in rs}
  BY <1>2
<1>4. {c.run : c \in cs} \in SUBSET RunRequests
  <2>1. \A r \in rs : r.by \in RunRequests
    BY DEF ReconTypeOK, RunRow
  <2>2. QED  BY <2>1, <1>3
<1>5. p.status = "open" /\ periods' = (periods \ {p}) \cup {x}
  BY DEF Lock, Close!Lock
<1> HIDE DEF cs
<1>6. x \in VersionRow /\ x.version = p.version /\ x.status = "locked" /\ x.runs = {c.run : c \in cs}
  BY <1>1, <1>4 DEF VersionRow
<1> HIDE DEF x
<1>7. QED  BY <1>3, <1>5, <1>6

(* A transaction that takes its snapshot is one still.                     *)
LEMMA SnapshotTaken ==
  ASSUME NEW t \in Txn, NEW o \in SUBSET Uploads, NEW b \in SUBSET Batch, NEW m \in SUBSET RunRequests
  PROVE  [t EXCEPT !.overlaps = o, !.batches = b, !.made = m] \in Txn
BY DEF Txn

(* Type correctness.                                                       *)
LEMMA ReconTypesKept ==
  ASSUME ReconTypeOK, ReconNext
  PROVE  ReconTypeOK'
<1> USE DEF ReconTypeOK, StoreTypeOK, Batch, Content, Stages, InRun, RunEnded, closeVars
<1>1. ASSUME NEW ending \in SUBSET Uploads, NEW committing \in SUBSET Uploads, End(ending, committing)
      PROVE  StoreTypeOK'
  BY <1>1 DEF End, RowOf
<1>2. CASE Importing
  <2>1. StoreTypeOK'
    BY <1>1, <1>2 DEF Importing, Admit, BeginImport
  <2>2. QED  BY <1>2, <2>1 DEF Importing, reconVars, requestVars
<1>3. ASSUME NEW q \in RunRequests, NEW from, NEW to, NEW known, Goes(q, from, to, known)
      PROVE  StoreTypeOK' /\ key' = key /\ UNCHANGED closeVars
  BY <1>3 DEF Goes, storeVars
<1>4. ASSUME NEW q \in RunRequests, RunBegin(q) \/ RunAsksLock(q) \/ RunGetsLock(q)
      PROVE  ReconTypeOK'
  <2>1. CASE RunBegin(q)
    <3>1. PICK below \in SUBSET (Begun \cup {b.by : b \in batches}) :
            Continues(q, "idle", "begun", [NoTxn EXCEPT !.below = below])
      BY <2>1 DEF RunBegin
    <3>2. below \in SUBSET Uploads
      BY DEF Begun
    <3>3. [NoTxn EXCEPT !.below = below] \in Txn
      BY <3>2 DEF NoTxn, Txn
    <3>4. QED  BY <3>1, <3>3 DEF Continues, Goes, storeVars
  <2>2. CASE RunAsksLock(q)
    <3>1. Made \subseteq RunRequests
      BY DEF Made, RunRow
    <3>2. [txn[q] EXCEPT !.overlaps = Begun \cap txn[q].below, !.batches = batches, !.made = Made] \in Txn
      <4>1. txn[q] \in Txn
        OBVIOUS
      <4>2. Begun \cap txn[q].below \in SUBSET Uploads /\ batches \in SUBSET Batch
        BY DEF Begun
      <4>3. QED  BY <3>1, <4>1, <4>2, SnapshotTaken
    <3>3. txn' \in [RunRequests -> Txn]
      BY <2>2, <3>2 DEF RunAsksLock, Continues, Goes
    <3>4. QED  BY <2>2, <3>3 DEF RunAsksLock, Continues, Goes, storeVars
  <2>3. CASE RunGetsLock(q)
    BY <2>3 DEF RunGetsLock, Continues, Goes, storeVars
  <2>4. QED  BY <1>4, <2>1, <2>2, <2>3
<1>5. NoTxn \in Txn
  BY DEF NoTxn, Txn
<1>6. ASSUME NEW q \in RunRequests, NEW what \in {"completed", "failed"}
      PROVE  Row(q, what) \in RunRow
  <2>1. txn[q] \in Txn
    OBVIOUS
  <2>2. LoadRecords(q) \in SUBSET Batch /\ txn[q].below \in SUBSET Uploads /\ txn[q].overlaps \in SUBSET Uploads
    BY <2>1 DEF LoadRecords, Txn
  <2>3. QED  BY <2>2 DEF Row, RunRow
<1>7. ASSUME NEW q \in RunRequests,
             RunInsert(q) \/ RunEnds(q) \/ RunRejectsRecord(q) \/ RunFails(q) \/ RunCommitLost(q)
      PROVE  ReconTypeOK'
  <2>1. CASE RunInsert(q)
    <3>1. CASE Continues(q, "locked", "inserted", txn[q])
      BY <3>1 DEF Continues, Goes, storeVars
    <3>2. ASSUME NEW what \in {"replayed", "conflict"}, Tells(q, "locked", what), UNCHANGED runs
          PROVE  ReconTypeOK'
      BY <3>2, <1>5 DEF Tells, Goes, storeVars
    <3>3. QED  BY <2>1, <3>1, <3>2 DEF RunInsert
  <2>2. CASE RunEnds(q) \/ RunCommitLost(q)
    <3>1. PICK what \in {"completed", "failed"}, to \in {"completed", "failed", "error"} :
            Tells(q, "inserted", to) /\ Writes(q, what)
      BY <2>2 DEF RunEnds, RunCommitLost
    <3>2. runs' \subseteq RunRow
      BY <3>1, <1>6 DEF Writes
    <3>3. QED  BY <3>1, <3>2, <1>5 DEF Tells, Goes, storeVars
  <2>3. CASE RunRejectsRecord(q) \/ RunFails(q)
    <3>1. runs' = runs /\ \E from \in InRun : Tells(q, from, "error")
      BY <2>3 DEF RunRejectsRecord, RunFails, InRun
    <3>2. ASSUME NEW from \in InRun, Tells(q, from, "error"), runs' = runs PROVE ReconTypeOK'
      BY <3>2, <1>5 DEF Tells, Goes, storeVars
    <3>3. QED  BY <3>1, <3>2
  <2>4. QED  BY <1>7, <2>1, <2>2, <2>3
<1>8. CASE Dies
  <2>1. StoreTypeOK'
    <3>1. PICK committing \in SUBSET {u \in Uploads : stage[u] \in {"admitted", "begun"}} :
            End({u \in Uploads : stage[u] \in {"admitted", "begun"}}, committing)
      BY <1>8 DEF Dies
    <3>2. QED  BY <3>1, <1>1
  <2>2. runs' \subseteq RunRow
    BY <1>8, <1>6 DEF Dies
  <2>3. QED  BY <1>8, <1>5, <2>1, <2>2 DEF Dies
<1>9. CASE \E r \in runs : Resolve(r)
  BY <1>9 DEF Resolve, storeVars, requestVars, RunRow
<1>10. CASE LocksVersion
  <2>1. PICK p \in periods, rs \in SUBSET runs : Lock(p, rs)
    BY <1>10 DEF LocksVersion
  <2>2. periods' \subseteq VersionRow
    BY <2>1, VersionLocked DEF VersionRow
  <2>3. FilesOf(rs) \in SUBSET Batch
    BY DEF FilesOf, Allocated, RunRow
  <2>4. manifests' \in Seq(SUBSET Batch)
    BY <2>1, <2>3 DEF Lock
  <2>5. QED  BY <2>1, <2>2, <2>4 DEF Lock, TellsImports, requestVars, VersionRow
<1>11. CASE OpenVersion
  <2>1. periods' \subseteq VersionRow
    BY <1>11, VersionOpened DEF VersionRow
  <2>2. QED  BY <1>11, <2>1 DEF OpenVersion, TellsImports, requestVars, VersionRow
<1>12. QED  BY <1>2, <1>4, <1>7, <1>8, <1>9, <1>10, <1>11 DEF ReconNext, RunStep, LocksVersion

(* The three summaries hold of every step.                                 *)
LEMMA StoreOnlyGrows ==
  ASSUME ReconTypeOK, ReconNext
  PROVE  StoreGrows
<1> USE DEF ReconTypeOK, StoreTypeOK, Batch, StoreGrows
<1>1. ASSUME NEW ending \in SUBSET Uploads, NEW committing \in SUBSET Uploads, End(ending, committing)
      PROVE  StoreGrows
  BY <1>1 DEF End, RowOf
<1>2. ASSUME UNCHANGED <<stage, batches>>
      PROVE  StoreGrows
  BY <1>2
<1>3. CASE Importing
  BY <1>1, <1>3 DEF Importing, Admit, BeginImport
<1>4. CASE \E q \in RunRequests : RunStep(q) \/ RunGetsLock(q) \/ RunFails(q) \/ RunCommitLost(q)
  <2>1. PICK q \in RunRequests : RunStep(q) \/ RunGetsLock(q) \/ RunFails(q) \/ RunCommitLost(q)
    BY <1>4
  <2>2. \E from, to, known : Goes(q, from, to, known)
    BY <2>1 DEF RunStep, RunBegin, RunAsksLock, RunInsert, RunEnds, RunRejectsRecord, RunGetsLock, RunFails,
      RunCommitLost, Continues, Tells
  <2>3. QED  BY <1>2, <2>2 DEF Goes, storeVars
<1>5. CASE Dies
  <2>1. PICK committing \in SUBSET {u \in Uploads : stage[u] \in {"admitted", "begun"}} :
          End({u \in Uploads : stage[u] \in {"admitted", "begun"}}, committing)
    BY <1>5 DEF Dies
  <2>2. QED  BY <2>1, <1>1
<1>6. CASE (\E r \in runs : Resolve(r)) \/ LocksVersion \/ OpenVersion
  BY <1>2, <1>6 DEF Resolve, LocksVersion, Lock, OpenVersion, storeVars
<1>7. QED  BY <1>3, <1>4, <1>5, <1>6 DEF ReconNext, LocksVersion

LEMMA RequestsMove ==
  ASSUME ReconTypeOK, ReconNext, NEW q \in RunRequests
  PROVE  RequestMoves(q) /\ key' = key
<1> USE DEF ReconTypeOK, RequestMoves, Stays, Leaves, Waits, Inserts
<1>1. ASSUME UNCHANGED requestVars
      PROVE  Stays(q) /\ key' = key
  BY <1>1 DEF requestVars
<1>2. CASE Importing \/ (\E r \in runs : Resolve(r)) \/ LocksVersion \/ OpenVersion
  BY <1>1, <1>2 DEF Importing, Resolve, LocksVersion, Lock, OpenVersion, reconVars
<1>3. ASSUME NEW p \in RunRequests, RunStep(p) \/ RunGetsLock(p) \/ RunFails(p) \/ RunCommitLost(p)
      PROVE  RequestMoves(q) /\ key' = key
  <2>1. \E from, to, known : Goes(p, from, to, known)
    BY <1>3 DEF RunStep, RunBegin, RunAsksLock, RunInsert, RunEnds, RunRejectsRecord, RunGetsLock, RunFails,
      RunCommitLost, Continues, Tells
  <2>2. key' = key /\ (p # q => Stays(q))
    BY <2>1 DEF Goes
  <2>3. ASSUME NEW from, NEW what, Tells(q, from, what), from \in InRun
        PROVE  RequestMoves(q)
    BY <2>3 DEF Tells, Goes, RunEnded
  <2>4. CASE RunGetsLock(q)
    BY <2>4 DEF RunGetsLock, Continues, Goes
  <2>5. CASE RunInsert(q)
    <3>1. CASE Continues(q, "locked", "inserted", txn[q])
      BY <3>1, <2>5 DEF Continues, Goes
    <3>2. CASE Tells(q, "locked", "replayed") \/ Tells(q, "locked", "conflict")
      <4> HIDE DEF RequestMoves
      <4>1. QED  BY <3>2, <2>2, <2>3 DEF InRun
    <3>3. QED  BY <2>5, <3>1, <3>2 DEF RunInsert
  <2>6. CASE RunEnds(q) \/ RunRejectsRecord(q) \/ RunFails(q) \/ RunCommitLost(q)
    <3> HIDE DEF RequestMoves
    <3>1. PICK from, what : Tells(q, from, what) /\ from \in InRun
      BY <2>6 DEF RunEnds, RunRejectsRecord, RunFails, RunCommitLost, InRun
    <3>2. QED  BY <3>1, <2>2, <2>3
  <2>7. QED  BY <1>3, <2>2, <2>4, <2>5, <2>6 DEF RunStep
<1>4. CASE Dies
  BY <1>4 DEF Dies, RunEnded
<1>5. QED  BY <1>2, <1>3, <1>4 DEF ReconNext, LocksVersion

LEMMA RunsOnlyGrow ==
  ASSUME ReconInv, ReconNext
  PROVE  RunsGrow
<1> USE DEF ReconInv, ReconTypeOK, RunsGrow, SameRun
<1>1. \A r \in runs : r.by \in RunRequests
  BY DEF RunRow
<1>2. \A r, s \in runs : r.by = s.by => r = s
  BY DEF KeyHasOneRun
<1>3. \A q \in RunRequests : runPc[q] = "inserted" => \A r \in runs : r.by # q
  BY DEF InsertionsAlone, HasKey, Made
<1>4. ASSUME UNCHANGED runs
      PROVE  RunsGrow
  BY <1>4, <1>2
<1>5. ASSUME NEW q \in RunRequests, NEW what \in {"completed", "failed"}, NEW to,
        Tells(q, "inserted", to), Writes(q, what)
      PROVE  RunsGrow
  <2>1. runPc[q] = "inserted" /\ runPc'[q] \in RunEnded /\ runs' = runs \cup {Row(q, what)}
    BY <1>5 DEF Tells, Goes, Writes, RunEnded
  <2>2. Row(q, what).by = q /\ Row(q, what).status = what
    BY DEF Row
  <2>3. QED  BY <2>1, <2>2, <1>2, <1>3
<1>6. CASE Importing \/ LocksVersion \/ OpenVersion
  BY <1>4, <1>6 DEF Importing, LocksVersion, Lock, OpenVersion, reconVars
<1>7. ASSUME NEW q \in RunRequests, RunStep(q) \/ RunGetsLock(q) \/ RunFails(q) \/ RunCommitLost(q)
      PROVE  RunsGrow
  BY <1>7, <1>4, <1>5 DEF RunStep, RunBegin, RunAsksLock, RunInsert, RunEnds, RunRejectsRecord, RunGetsLock,
    RunFails, RunCommitLost, Continues
<1>8. CASE Dies
  <2> DEFINE committing == {q \in RunRequests : runPc[q] = "inserted" /\ Projects(q)}
  <2>1. PICK done \in SUBSET committing, failed \in SUBSET committing :
          runs' = runs \cup {Row(q, "completed") : q \in done} \cup {Row(q, "failed") : q \in failed \ done}
    BY <1>8 DEF Dies
  <2>2. \A q \in committing : q \in RunRequests /\ runPc[q] = "inserted" /\ runPc'[q] \in RunEnded
    BY <1>8 DEF Dies, InRun, RunEnded
  <2>3. \A q, what : Row(q, what).by = q /\ Row(q, what).status = what
    BY DEF Row
  <2> HIDE DEF committing
  <2>4. QED  BY <2>1, <2>2, <2>3, <1>2, <1>3
<1>9. CASE \E r \in runs : Resolve(r)
  <2>1. PICK r \in runs : Resolve(r)
    BY <1>9
  <2>2. runs' = (runs \ {r}) \cup {[r EXCEPT !.resolved = TRUE]}
    BY <2>1 DEF Resolve
  <2> DEFINE resolved == [r EXCEPT !.resolved = TRUE]
  <2>3. SameRun(resolved, r)
    BY DEF RunRow
  <2>4. runs' = (runs \ {r}) \cup {resolved}
    BY <2>2
  <2> HIDE DEF resolved
  <2>5. QED  BY <2>3, <2>4, <1>2
<1>10. QED  BY <1>6, <1>7, <1>8, <1>9 DEF ReconNext, LocksVersion

-----------------------------------------------------------------------------
(* The parts of the invariant are preserved.                               *)

LEMMA RowsStayOver ==
  ASSUME ReconInv, ReconNext
  PROVE  RowsAreOver'
<1> USE DEF ReconInv, ReconTypeOK
<1>1. StoreGrows /\ RunsGrow
  BY StoreOnlyGrows, RunsOnlyGrow
<1>2. \A q \in RunRequests : runPc[q] \in RunEnded => runPc'[q] \in RunEnded
  <2>1. TAKE q \in RunRequests
  <2>2. RequestMoves(q)
    BY RequestsMove
  <2>3. QED  BY <2>2 DEF RequestMoves, Stays, Leaves, RunBegin, RunAsksLock, Waits, Inserts, RunInsert, Continues,
    Tells, Goes, InRun, RunEnded
<1>3. \A r \in runs : r.by \in RunRequests
  BY DEF RunRow
<1>4. \A b \in batches : b.by \in Uploads
  BY DEF StoreTypeOK, Batch
<1>5. \A b \in batches' : stage'[b.by] = "ended"
  BY <1>1, <1>4 DEF RowsAreOver, StoreGrows
<1>6. \A r \in runs' : runPc'[r.by] \in RunEnded
  BY <1>1, <1>2, <1>3 DEF RowsAreOver, RunsGrow, SameRun
<1>7. QED  BY <1>5, <1>6 DEF RowsAreOver

LEMMA InsertionsStayAlone ==
  ASSUME ReconInv, ReconNext
  PROVE  InsertionsAlone'
<1> USE DEF ReconInv, ReconTypeOK
<1>1. RunsGrow
  BY RunsOnlyGrow
<1>2. \A q \in RunRequests : RequestMoves(q) /\ key' = key
  BY RequestsMove
<1>3. \A q \in RunRequests : runPc'[q] = "inserted" => runPc[q] = "inserted" \/ Inserts(q)
  BY <1>2 DEF RequestMoves, Stays, Leaves, RunBegin, RunAsksLock, Waits, Continues, Goes, RunEnded
<1>4. ASSUME NEW q \in RunRequests, Inserts(q)
      PROVE  /\ runPc[q] = "locked" /\ ~HasKey(Made, q) /\ runs' = runs
             /\ \A r \in RunRequests : r # q => runPc'[r] = runPc[r]
             /\ \A r \in RunRequests : runPc[r] = "inserted" => key[r] # key[q]
  BY <1>4 DEF Inserts, RunInsert, Continues, Tells, Goes, HasKey
<1>5. SUFFICES ASSUME NEW q \in RunRequests, runPc'[q] = "inserted"
      PROVE  /\ ~HasKey(Made, q)'
             /\ \A r \in RunRequests : runPc'[r] = "inserted" /\ key[r] = key[q] => r = q
  BY <1>2 DEF InsertionsAlone
<1>6. \A r \in runs : key[r.by] # key[q]
  BY <1>3, <1>4, <1>5 DEF InsertionsAlone, HasKey, Made
<1>7. ~HasKey(Made, q)'
  <2>1. SUFFICES ASSUME NEW r \in runs', key[r.by] = key[q]
                 PROVE  FALSE
    BY <1>2 DEF HasKey, Made
  <2>2. r.by \in RunRequests /\ runPc[r.by] = "inserted" /\ runPc'[r.by] \in RunEnded
    BY <2>1, <1>1, <1>6 DEF RunsGrow, SameRun
  <2>3. r.by # q
    BY <2>2, <1>5 DEF RunEnded
  <2>4. QED  BY <2>1, <2>2, <2>3, <1>3, <1>4, <1>5 DEF InsertionsAlone
<1>8. \A r \in RunRequests : runPc'[r] = "inserted" /\ key[r] = key[q] => r = q
  BY <1>3, <1>4, <1>5 DEF InsertionsAlone
<1>9. QED  BY <1>7, <1>8

LEMMA KeysStayOfOneRun ==
  ASSUME ReconInv, ReconNext
  PROVE  KeyHasOneRun'
<1> USE DEF ReconInv, ReconTypeOK
<1>1. RunsGrow
  BY RunsOnlyGrow
<1>2. \A q \in RunRequests : key' = key
  BY RequestsMove
<1>3. \A r \in runs : r.by \in RunRequests
  BY DEF RunRow
<1>4. SUFFICES ASSUME NEW r \in runs', NEW s \in runs', key'[r.by] = key'[s.by]
               PROVE  r.by = s.by
  BY <1>1 DEF KeyHasOneRun, RunsGrow
<1>5. r.by \in RunRequests /\ s.by \in RunRequests
  BY <1>1, <1>3 DEF RunsGrow, SameRun
<1>6. key[r.by] = key[s.by]
  BY <1>2, <1>4, <1>5
<1>7. ASSUME NEW q \in RunRequests, runPc[q] = "inserted", NEW t \in runs
      PROVE  key[q] # key[t.by]
  BY <1>7 DEF InsertionsAlone, HasKey, Made
<1>8. QED  BY <1>1, <1>5, <1>6, <1>7 DEF RunsGrow, SameRun, KeyHasOneRun, InsertionsAlone

(* What a request is told, it is told as it ends.                          *)
LEMMA AnswersGiven ==
  ASSUME ReconInv, ReconNext, NEW q \in RunRequests
  PROVE  \/ runAnswer'[q] = runAnswer[q]
         \/ /\ runPc'[q] = "answered"
            /\ \/ runAnswer'[q] = "error"
               \/ /\ runAnswer'[q] \in {"completed", "failed"}
                  /\ \E r \in runs' : r.by = q /\ r.status = runAnswer'[q]
               \/ /\ runAnswer'[q] \in {"replayed", "conflict"} /\ runPc[q] = "locked"
                  /\ HasKey(Made, q) /\ runs' = runs
<1> USE DEF ReconInv, ReconTypeOK
<1>1. CASE Importing \/ Dies \/ (\E r \in runs : Resolve(r)) \/ LocksVersion \/ OpenVersion
  BY <1>1 DEF Importing, Dies, Resolve, LocksVersion, Lock, OpenVersion, requestVars, reconVars
<1>2. ASSUME NEW p \in RunRequests, RunBegin(p) \/ RunAsksLock(p) \/ RunGetsLock(p)
      PROVE  runAnswer' = runAnswer
  BY <1>2 DEF RunBegin, RunAsksLock, RunGetsLock, Continues
<1>3. ASSUME NEW p \in RunRequests, NEW from, NEW what, Tells(p, from, what)
      PROVE  /\ runPc'[p] = "answered" /\ runAnswer'[p] = what
             /\ p # q => runAnswer'[q] = runAnswer[q]
  BY <1>3 DEF Tells, Goes
<1>4. ASSUME NEW p \in RunRequests, RunFails(p) \/ RunRejectsRecord(p)
      PROVE  runPc'[p] = "answered" /\ runAnswer'[p] = "error" /\ (p # q => runAnswer'[q] = runAnswer[q])
  BY <1>3, <1>4 DEF RunFails, RunRejectsRecord
<1>5. ASSUME NEW p \in RunRequests, NEW what, Writes(p, what)
      PROVE  \E r \in runs' : r.by = p /\ r.status = what
  <2>1. Row(p, what) \in runs'
    BY <1>5 DEF Writes
  <2>2. Row(p, what).by = p /\ Row(p, what).status = what
    BY DEF Row
  <2>3. QED  BY <2>1, <2>2
<1>6. ASSUME NEW p \in RunRequests, RunEnds(p) \/ RunCommitLost(p)
      PROVE  /\ runPc'[p] = "answered"
             /\ p # q => runAnswer'[q] = runAnswer[q]
             /\ \/ runAnswer'[p] = "error"
                \/ /\ runAnswer'[p] \in {"completed", "failed"}
                   /\ \E r \in runs' : r.by = p /\ r.status = runAnswer'[p]
  <2>1. PICK what \in {"completed", "failed"}, to \in {"completed", "failed", "error"} :
          Tells(p, "inserted", to) /\ Writes(p, what) /\ to \in {what, "error"}
    BY <1>6 DEF RunEnds, RunCommitLost
  <2>2. \E r \in runs' : r.by = p /\ r.status = what
    BY <2>1, <1>5
  <2>3. QED  BY <2>1, <2>2, <1>3
<1>7. ASSUME NEW p \in RunRequests, RunInsert(p)
      PROVE  \/ runAnswer' = runAnswer
             \/ /\ runPc'[p] = "answered" /\ runAnswer'[p] \in {"replayed", "conflict"} /\ runPc[p] = "locked"
                /\ HasKey(Made, p) /\ runs' = runs
                /\ p # q => runAnswer'[q] = runAnswer[q]
  <2>1. CASE Continues(p, "locked", "inserted", txn[p])
    BY <2>1 DEF Continues
  <2>2. CASE ~Continues(p, "locked", "inserted", txn[p])
    <3>1. PICK what \in {"replayed", "conflict"} : Tells(p, "locked", what)
      BY <1>7, <2>2 DEF RunInsert
    <3>2. runPc[p] = "locked" /\ runs' = runs
      BY <3>1, <1>7, <2>2 DEF RunInsert, Tells, Goes
    <3>3. txn[p].made \subseteq Made
      BY <3>2 DEF SnapshotsAreTrue, AfterSnapshot
    <3>4. HasKey(Made, p)
      BY <1>7, <2>2, <3>3 DEF RunInsert, HasKey
    <3>5. QED  BY <3>1, <3>2, <3>4, <1>3
  <2>3. QED  BY <2>1, <2>2
<1>8. CASE \E p \in RunRequests : RunStep(p) \/ RunGetsLock(p) \/ RunFails(p) \/ RunCommitLost(p)
  BY <1>8, <1>2, <1>4, <1>6, <1>7 DEF RunStep
<1>9. QED  BY <1>1, <1>8 DEF ReconNext, LocksVersion

LEMMA AnswersStayTrue ==
  ASSUME ReconInv, ReconNext
  PROVE  AnswersComeLast' /\ RunAnswersAreTrue'
<1> USE DEF ReconInv, ReconTypeOK
<1>1. RunsGrow
  BY RunsOnlyGrow
<1>2. SUFFICES ASSUME NEW q \in RunRequests
      PROVE  /\ runAnswer'[q] # "none" => runPc'[q] = "answered"
             /\ runAnswer'[q] \in {"completed", "failed"} => \E r \in runs' : r.by = q /\ r.status = runAnswer'[q]
             /\ runAnswer'[q] \in {"replayed", "conflict"} => q \notin Made' /\ HasKey(Made, q)'
  BY DEF AnswersComeLast, RunAnswersAreTrue
<1>3. key' = key /\ (runPc[q] = "answered" => runPc'[q] = "answered")
  <2>1. RequestMoves(q) /\ key' = key
    BY RequestsMove
  <2>2. QED  BY <2>1 DEF RequestMoves, Stays, Leaves, RunBegin, RunAsksLock, Waits, Inserts, RunInsert, Continues,
    Tells, Goes, InRun
<1>4. HasKey(Made, q) => HasKey(Made, q)'
  BY <1>1, <1>3 DEF RunsGrow, SameRun, HasKey, Made
<1>5. q \notin Made /\ runPc[q] # "inserted" => q \notin Made'
  BY <1>1 DEF RunsGrow, SameRun, Made
<1>6. CASE runAnswer'[q] = runAnswer[q]
  BY <1>1, <1>3, <1>4, <1>5, <1>6 DEF AnswersComeLast, RunAnswersAreTrue, RunsGrow, SameRun
<1>7. CASE runAnswer'[q] # runAnswer[q]
  <2>1. runPc[q] = "locked" => q \notin Made
    BY DEF RowsAreOver, RunEnded, Made
  <2>2. QED  BY <1>7, <1>4, <1>5, <2>1, AnswersGiven
<1>8. QED  BY <1>6, <1>7

LEMMA SnapshotsStayTrue ==
  ASSUME ReconInv, ReconNext
  PROVE  SnapshotsAreTrue'
<1> USE DEF ReconInv, ReconTypeOK
<1>1. StoreGrows /\ RunsGrow
  BY StoreOnlyGrows, RunsOnlyGrow
<1>2. Made \subseteq Made'
  BY <1>1 DEF RunsGrow, SameRun, Made
<1>3. /\ stage \in [Uploads -> Stages]
      /\ \A b \in batches : b.by \in Uploads /\ stage[b.by] = "ended"
  BY DEF StoreTypeOK, Batch, RowsAreOver
<1>4. SUFFICES ASSUME NEW q \in RunRequests
      PROVE  /\ runPc'[q] \in InRun => \A u \in txn'[q].below : stage'[u] \in {"begun", "ended"}
             /\ runPc'[q] \in AfterSnapshot =>
                  /\ \A u \in txn'[q].below \ txn'[q].overlaps : stage'[u] = "ended"
                  /\ txn'[q].made \subseteq Made'
                  /\ LoadRecords(q)' = {b \in batches' : b.by \in txn'[q].below /\ b.by \notin txn'[q].overlaps}
  BY DEF SnapshotsAreTrue
<1>5. txn[q].below \subseteq Uploads
  <2>1. txn[q] \in Txn
    OBVIOUS
  <2>2. QED  BY <2>1 DEF Txn
<1>6. RequestMoves(q)
  BY RequestsMove
<1>7. ASSUME runPc[q] \in AfterSnapshot, txn'[q] = txn[q]
      PROVE  /\ \A u \in txn'[q].below : stage'[u] \in {"begun", "ended"}
             /\ \A u \in txn'[q].below \ txn'[q].overlaps : stage'[u] = "ended"
             /\ txn'[q].made \subseteq Made'
             /\ LoadRecords(q)' = {b \in batches' : b.by \in txn'[q].below /\ b.by \notin txn'[q].overlaps}
  <2>1. runPc[q] \in InRun
    BY <1>7 DEF AfterSnapshot, InRun
  <2>2. \A u \in txn[q].below : stage'[u] \in {"begun", "ended"}
    BY <2>1, <1>1, <1>5 DEF StoreGrows, SnapshotsAreTrue
  <2>3. \A u \in txn[q].below \ txn[q].overlaps : stage[u] = "ended" /\ stage'[u] = "ended"
    BY <1>7, <1>1, <1>5 DEF StoreGrows, SnapshotsAreTrue
  <2>4. {b \in batches' : b.by \in txn[q].below /\ b.by \notin txn[q].overlaps}
          = {b \in batches : b.by \in txn[q].below /\ b.by \notin txn[q].overlaps}
    BY <2>3, <1>1 DEF StoreGrows
  <2>5. LoadRecords(q)' = LoadRecords(q)
    BY <1>7 DEF LoadRecords
  <2>6. QED  BY <1>7, <1>2, <2>2, <2>3, <2>4, <2>5 DEF SnapshotsAreTrue
<1>8. CASE Stays(q)
  <2>1. CASE runPc'[q] \in AfterSnapshot
    BY <1>7, <1>8, <2>1 DEF Stays, AfterSnapshot, InRun
  <2>2. CASE runPc'[q] = "begun"
    BY <2>2, <1>1, <1>5, <1>8 DEF Stays, InRun, AfterSnapshot, StoreGrows, SnapshotsAreTrue
  <2>3. QED  BY <2>1, <2>2 DEF InRun, AfterSnapshot
<1>9. CASE Leaves(q)
  BY <1>9 DEF Leaves, InRun, RunEnded, AfterSnapshot
<1>10. CASE Waits(q) \/ Inserts(q)
  <2>1. runPc[q] \in AfterSnapshot /\ txn'[q] = txn[q]
    BY <1>10 DEF Waits, Inserts, RunInsert, Continues, Tells, Goes, AfterSnapshot
  <2>2. QED  BY <2>1, <1>7
<1>11. CASE RunBegin(q)
  <2>0. PICK below \in SUBSET (Begun \cup {b.by : b \in batches}) :
          Continues(q, "idle", "begun", [NoTxn EXCEPT !.below = below])
    BY <1>11 DEF RunBegin
  <2>1. runPc'[q] = "begun" /\ txn'[q] = [NoTxn EXCEPT !.below = below]
    BY <2>0 DEF Continues, Goes
  <2>2. txn'[q].below \subseteq Begun \cup {b.by : b \in batches}
    BY <2>1 DEF NoTxn
  <2>3. \A u \in txn'[q].below : stage'[u] \in {"begun", "ended"}
    BY <2>2, <1>1, <1>3 DEF Begun, StoreGrows
  <2>4. QED  BY <2>1, <2>3 DEF AfterSnapshot
<1>12. CASE RunAsksLock(q)
  <2> DEFINE known == [txn[q] EXCEPT !.overlaps = Begun \cap txn[q].below, !.batches = batches, !.made = Made]
  <2>1. runPc[q] = "begun" /\ txn'[q] = known /\ UNCHANGED <<stage, batches, runs>>
    BY <1>12 DEF RunAsksLock, Continues, Goes, storeVars
  <2>2. known.below = txn[q].below /\ known.overlaps = Begun \cap txn[q].below
        /\ known.batches = batches /\ known.made = Made
    <3>1. txn[q] \in Txn
      OBVIOUS
    <3>2. QED  BY <3>1 DEF Txn
  <2> HIDE DEF known
  <2>3. \A u \in txn[q].below : stage[u] \in {"begun", "ended"}
    BY <2>1 DEF SnapshotsAreTrue, InRun
  <2>4. \A u \in txn[q].below \ (Begun \cap txn[q].below) : stage[u] = "ended"
    BY <2>3, <1>5 DEF Begun
  <2>5. LoadRecords(q)' = {b \in batches' : b.by \in known.below /\ b.by \notin known.overlaps}
    BY <2>1, <2>2, <1>3 DEF LoadRecords, Begun
  <2>6. QED  BY <2>1, <2>2, <2>3, <2>4, <2>5, <1>2
<1>13. QED  BY <1>6, <1>8, <1>9, <1>10, <1>11, <1>12 DEF RequestMoves

LEMMA RunsStaySettled ==
  ASSUME ReconInv, ReconNext
  PROVE  RunsAreSettled' /\ ReproducibleUnlessOverlapped'
<1> USE DEF ReconInv, ReconTypeOK
<1>1. StoreGrows /\ RunsGrow
  BY StoreOnlyGrows, RunsOnlyGrow
<1> DEFINE Settled(r) ==
      /\ r.below \subseteq Uploads
      /\ \A u \in r.below \ r.overlaps : stage[u] = "ended"
      /\ r.seen = {b \in batches : b.by \in r.below /\ b.by \notin r.overlaps}
<1>2. \A r \in runs : Settled(r)
  BY DEF RunsAreSettled, ReproducibleUnlessOverlapped, RunRow
<1>3. ASSUME NEW q \in RunRequests, runPc[q] = "inserted", NEW what
      PROVE  Settled(Row(q, what))
  <2>1. txn[q] \in Txn
    OBVIOUS
  <2>2. txn[q].below \subseteq Uploads
    BY <2>1 DEF Txn
  <2>3. Row(q, what).below = txn[q].below /\ Row(q, what).overlaps = txn[q].overlaps
        /\ Row(q, what).seen = LoadRecords(q)
    BY DEF Row
  <2>4. QED  BY <1>3, <2>2, <2>3 DEF SnapshotsAreTrue, AfterSnapshot
<1>4. \A r \in runs' : \E s : Settled(s) /\ r.below = s.below /\ r.overlaps = s.overlaps /\ r.seen = s.seen
  <2>1. TAKE r \in runs'
  <2>2. CASE \E s \in runs : SameRun(r, s)
    BY <2>2, <1>2 DEF SameRun
  <2>3. CASE r.by \in RunRequests /\ runPc[r.by] = "inserted" /\ r = Row(r.by, r.status)
    <3>1. Settled(Row(r.by, r.status))
      BY <2>3, <1>3
    <3>2. Settled(r)
      BY <2>3, <3>1
    <3>3. QED  BY <3>2
  <2>4. QED  BY <1>1, <2>2, <2>3 DEF RunsGrow
<1>5. ASSUME NEW s, Settled(s)
      PROVE  /\ \A u \in s.below \ s.overlaps : stage'[u] = "ended"
             /\ s.seen = {b \in batches' : b.by \in s.below /\ b.by \notin s.overlaps}
  BY <1>1, <1>5 DEF StoreGrows
<1> HIDE DEF Settled
<1>6. ASSUME NEW r \in runs'
      PROVE  /\ \A u \in r.below \ r.overlaps : stage'[u] = "ended"
             /\ r.seen = {b \in batches' : b.by \in r.below /\ b.by \notin r.overlaps}
  BY <1>4, <1>5
<1>7. QED  BY <1>6 DEF RunsAreSettled, ReproducibleUnlessOverlapped

(* What is allocated is allocated in pairs.                                *)
LEMMA CounterpartsAllocated ==
  ASSUME NEW rows, NEW b \in rows \ Unmatched(rows)
  PROVE  \E c \in rows \ Unmatched(rows) : c.source # b.source /\ c.content = b.content
BY DEF Unmatched

LEMMA VersionsStayFit ==
  ASSUME ReconInv, ReconNext
  PROVE  VersionsFit'
<1> USE DEF ReconInv, ReconTypeOK
<1>1. /\ Len(manifests) \in Nat /\ DOMAIN manifests = 1..Len(manifests)
      /\ \A p \in periods : p.bounds = Month /\ p.version \in Nat /\ p.status \in {"open", "locked"}
  OBVIOUS
<1>2. CASE UNCHANGED closeVars
  BY <1>2 DEF closeVars, VersionsFit
<1>3. CASE OpenVersion
  <2>1. PICK v \in {0} \cup Close!Versions(Month), x \in VersionRow :
          /\ ~Close!HasOpen(Month) /\ \A w \in Close!Versions(Month) : w <= v
          /\ x.version = v + 1 /\ x.status = "open" /\ periods' = periods \cup {x}
    BY <1>3, VersionOpened
  <2>2. \A p \in periods : p.status = "locked" /\ p.version \in 1..Len(manifests)
    BY <1>1, <2>1 DEF Close!HasOpen, VersionsFit
  <2>3. \A i \in 1..Len(manifests) : i \in Close!Versions(Month)
    BY <1>1 DEF Close!Versions, VersionsFit
  <2>4. \A w \in Close!Versions(Month) : w \in 1..Len(manifests)
    BY <2>2 DEF Close!Versions
  <2>5. v = Len(manifests)
    <3>1. v \in 0..Len(manifests)
      BY <1>1, <2>4
    <3>2. Len(manifests) \in 1..Len(manifests) => Len(manifests) <= v
      BY <2>1, <2>3
    <3>3. ASSUME NEW n \in Nat, v \in 0..n, n \in 1..n => n <= v
          PROVE  v = n
      BY <3>3
    <3>4. QED  BY <1>1, <3>1, <3>2, <3>3
  <2>6. manifests' = manifests /\ x.version = Len(manifests) + 1 /\ \A p \in periods : p.version # x.version
    BY <1>1, <1>3, <2>1, <2>2, <2>5 DEF OpenVersion
  <2>7. QED  BY <1>1, <2>1, <2>2, <2>6 DEF VersionsFit
<1>4. ASSUME NEW p \in periods, NEW rs \in SUBSET runs, Lock(p, rs)
      PROVE  VersionsFit'
  <2>1. PICK x \in VersionRow : /\ p.status = "open" /\ periods' = (periods \ {p}) \cup {x}
                                /\ x.version = p.version /\ x.status = "locked"
    BY <1>4, VersionLocked
  <2>2. p.version = Len(manifests) + 1
    BY <2>1 DEF VersionsFit
  <2>3. manifests' = Append(manifests, FilesOf(rs))
    BY <1>4 DEF Lock
  <2>4. FilesOf(rs) \in SUBSET Batch
    BY DEF FilesOf, Allocated, RunRow
  <2>5. DOMAIN manifests' = 1..(Len(manifests) + 1)
    BY <2>3, <2>4
  <2>6. \A s \in periods : s # p => s.status = "locked" /\ s.version \in 1..Len(manifests)
    BY <1>1, <2>2 DEF VersionsFit
  <2>7. \A s \in periods' : s.status = "locked" /\ s.version \in 1..(Len(manifests) + 1)
    BY <1>1, <2>1, <2>2, <2>6
  <2>8. \A i \in 1..(Len(manifests) + 1) : \E s \in periods' : s.version = i
    <3>1. TAKE i \in 1..(Len(manifests) + 1)
    <3>2. CASE i = Len(manifests) + 1
      BY <2>1, <2>2, <3>2
    <3>3. CASE i # Len(manifests) + 1
      <4>1. i \in 1..Len(manifests)
        BY <1>1, <3>3
      <4>2. PICK s \in periods : s.version = i
        BY <1>1, <4>1 DEF VersionsFit
      <4>3. s # p
        BY <1>1, <2>2, <4>1, <4>2
      <4>4. QED  BY <2>1, <4>2, <4>3
    <3>4. QED  BY <3>2, <3>3
  <2>9. \A s, t \in periods' : s.version = t.version => s = t
    BY <1>1, <2>1, <2>2, <2>6 DEF VersionsFit
  <2>10. QED  BY <2>5, <2>7, <2>8, <2>9 DEF VersionsFit
<1>5. QED  BY <1>2, <1>3, <1>4, VersionsMove DEF LocksVersion

(* A manifest of runs that are selected by name.                           *)
Selected(names) == {r \in runs : r.by \in names}
Balanced(files, names) ==
  /\ names \subseteq Made /\ files = FilesOf(Selected(names))
  /\ files \subseteq batches /\ Unmatched(files) = {}
  /\ \A r, s \in Selected(names) : r # s => Allocated(r) \cap Allocated(s) = {}

(* It stays what it is, whatever runs are added or resolved.               *)
LEMMA StaysBalanced ==
  ASSUME ReconInv, ReconNext, NEW files, NEW names, Balanced(files, names)
  PROVE  Balanced(files, names)'
<1> USE DEF ReconInv, ReconTypeOK
<1>1. batches \subseteq batches' /\ RunsGrow
  BY StoreOnlyGrows, RunsOnlyGrow DEF StoreGrows
<1>2. \A r \in runs' : r.by \in Made => \E s \in runs : SameRun(r, s)
  BY <1>1 DEF RunsGrow, InsertionsAlone, HasKey, Made
<1>3. \A r, s : SameRun(r, s) => r.by = s.by /\ Allocated(r) = Allocated(s)
  BY DEF SameRun, Allocated
<1>4. names \subseteq Made'
  BY <1>1 DEF Balanced, RunsGrow, SameRun, Made
<1>5. /\ \A r \in Selected(names)' : \E s \in Selected(names) : SameRun(r, s)
      /\ \A s \in Selected(names) : \E r \in Selected(names)' : SameRun(r, s)
  BY <1>1, <1>2, <1>3 DEF Balanced, Selected, RunsGrow
<1>6. FilesOf(Selected(names))' = FilesOf(Selected(names))
  BY <1>3, <1>5 DEF FilesOf, Allocated, Unmatched
<1>7. ASSUME NEW r \in Selected(names)', NEW s \in Selected(names)', r # s
      PROVE  Allocated(r) \cap Allocated(s) = {}
  <2>1. PICK t \in Selected(names), w \in Selected(names) : SameRun(r, t) /\ SameRun(s, w)
    BY <1>5
  <2>2. t # w
    BY <1>1, <1>7, <2>1 DEF RunsGrow, SameRun, Selected
  <2>3. QED  BY <1>3, <2>1, <2>2 DEF Balanced
<1>8. Unmatched(files)' = Unmatched(files) /\ \A r : Allocated(r)' = Allocated(r)
  BY DEF Unmatched, Allocated
<1>9. QED  BY <1>1, <1>4, <1>6, <1>7, <1>8 DEF Balanced

LEMMA LockedIsBalanced ==
  ASSUME ReconInv, NEW p \in periods, NEW rs \in SUBSET runs, Lock(p, rs)
  PROVE  Balanced(FilesOf(rs), {r.by : r \in rs})
<1> USE DEF ReconInv, ReconTypeOK
<1> DEFINE names == {r.by : r \in rs}  files == FilesOf(rs)
<1>1. \A r, s \in runs : r.by = s.by => r = s
  BY DEF KeyHasOneRun
<1>2. Selected(names) = rs /\ names \subseteq Made
  BY <1>1 DEF Selected, Made
<1>3. ASSUME NEW r \in rs, NEW s \in rs, r # s
      PROVE  Allocated(r) \cap Allocated(s) = {}
  <2>1. /\ AsClosable(r).run = r.by /\ AsClosable(s).run = s.by
        /\ AsClosable(r).records = Allocated(r) /\ AsClosable(s).records = Allocated(s)
    BY DEF AsClosable
  <2>2. AsClosable(r) # AsClosable(s)
    BY <1>1, <1>3, <2>1
  <2>3. \A c, d \in {AsClosable(t) : t \in rs} : c # d => c.records \cap d.records = {}
    BY DEF Lock, Close!Lock
  <2>4. QED  BY <1>3, <2>1, <2>2, <2>3
<1>4. files \subseteq batches
  <2>1. \A r \in runs : Allocated(r) \subseteq batches
    BY DEF ReproducibleUnlessOverlapped, Allocated
  <2>2. QED  BY <2>1 DEF FilesOf
<1>5. Unmatched(files) = {}
  <2>1. SUFFICES ASSUME NEW b \in files
                 PROVE  \E c \in files : c.source # b.source /\ c.content = b.content
    BY DEF Unmatched
  <2>2. PICK r \in rs : b \in Allocated(r)
    BY DEF FilesOf
  <2>3. PICK c \in Allocated(r) : c.source # b.source /\ c.content = b.content
    BY <2>2, CounterpartsAllocated DEF Allocated
  <2>4. c \in files
    BY <2>3 DEF FilesOf
  <2>5. QED  BY <2>3, <2>4
<1> HIDE DEF names, files
<1>6. Balanced(files, names)
  BY <1>2, <1>3, <1>4, <1>5 DEF Balanced, files
<1>7. QED  BY <1>6 DEF names, files

LEMMA ManifestsStayBalanced ==
  ASSUME ReconInv, ReconNext
  PROVE  ManifestsBalance'
<1> USE DEF ReconInv, ReconTypeOK
<1>1. SUFFICES ASSUME NEW p \in periods', p.status = "locked"
               PROVE  Balanced(manifests[p.version], p.runs)'
  BY DEF ManifestsBalance, Balanced, Selected
<1>2. \A s \in periods : s.status = "locked" =>
        s.version \in DOMAIN manifests /\ Balanced(manifests[s.version], s.runs)
  BY DEF ManifestsBalance, Balanced, Selected, VersionsFit
<1>3. ASSUME p \in periods, manifests'[p.version] = manifests[p.version]
      PROVE  Balanced(manifests[p.version], p.runs)'
  BY <1>1, <1>2, <1>3, StaysBalanced
<1>4. CASE UNCHANGED closeVars \/ OpenVersion
  <2>1. p \in periods /\ manifests' = manifests
    BY <1>1, <1>4, VersionOpened DEF closeVars, OpenVersion
  <2>2. QED  BY <1>3, <2>1
<1>5. ASSUME NEW s \in periods, NEW rs \in SUBSET runs, Lock(s, rs)
      PROVE  Balanced(manifests[p.version], p.runs)'
  <2>1. PICK x \in VersionRow :
          /\ s.status = "open" /\ periods' = (periods \ {s}) \cup {x}
          /\ x.version = s.version /\ x.status = "locked" /\ x.runs = {r.by : r \in rs}
    BY <1>5, VersionLocked
  <2>2. FilesOf(rs) \in SUBSET Batch
    BY DEF FilesOf, Allocated, RunRow
  <2>3. manifests' = Append(manifests, FilesOf(rs)) /\ s.version = Len(manifests) + 1
    BY <1>5, <2>1 DEF Lock, VersionsFit
  <2>4. CASE p \in periods
    <3>1. p.version \in 1..Len(manifests)
      BY <1>1, <1>2, <2>4
    <3>2. manifests'[p.version] = manifests[p.version]
      BY <2>2, <2>3, <3>1
    <3>3. QED  BY <1>3, <2>4, <3>2
  <2>5. CASE p = x
    <3>1. manifests'[p.version] = FilesOf(rs)
      BY <2>1, <2>2, <2>3, <2>5
    <3>2. QED  BY <1>5, <2>1, <2>5, <3>1, LockedIsBalanced, StaysBalanced
  <2>6. QED  BY <1>1, <2>1, <2>4, <2>5
<1>6. QED  BY <1>4, <1>5, VersionsMove DEF LocksVersion

-----------------------------------------------------------------------------

LEMMA ReconInvStarts ==
  ASSUME ReconInit
  PROVE  ReconInv
<1> USE DEF ReconInit, StoreInit
<1>1. ReconTypeOK
  <2>1. NoTxn \in Txn
    BY DEF NoTxn, Txn
  <2>2. QED  BY <2>1 DEF ReconTypeOK, StoreTypeOK, Stages
<1>2. RowsAreOver /\ InsertionsAlone /\ KeyHasOneRun /\ AnswersComeLast
  BY DEF RowsAreOver, InsertionsAlone, KeyHasOneRun, AnswersComeLast
<1>3. RunAnswersAreTrue /\ SnapshotsAreTrue
  BY DEF RunAnswersAreTrue, SnapshotsAreTrue, InRun, AfterSnapshot
<1>4. RunsAreSettled /\ ReproducibleUnlessOverlapped /\ VersionsFit /\ ManifestsBalance
  BY DEF RunsAreSettled, ReproducibleUnlessOverlapped, VersionsFit, ManifestsBalance
<1>5. QED  BY <1>1, <1>2, <1>3, <1>4 DEF ReconInv

LEMMA ReconInvKept ==
  ASSUME ReconInv, [ReconNext]_booksVars
  PROVE  ReconInv'
<1>1. CASE ReconNext
  <2>1. ReconTypeOK'
    BY <1>1, ReconTypesKept DEF ReconInv
  <2>2. QED  BY <1>1, <2>1, RowsStayOver, InsertionsStayAlone, KeysStayOfOneRun, AnswersStayTrue, SnapshotsStayTrue,
    RunsStaySettled, VersionsStayFit, ManifestsStayBalanced DEF ReconInv
<1>2. CASE UNCHANGED booksVars
  <2>1. UNCHANGED <<stage, upload, batches, locked, runPc, key, runAnswer, txn, runs, periods, manifests>>
    BY <1>2 DEF booksVars, storeVars, reconVars, requestVars, closeVars
  <2>2. (ReconTypeOK /\ RowsAreOver /\ InsertionsAlone /\ KeyHasOneRun /\ AnswersComeLast)'
    BY <2>1 DEF ReconInv, ReconTypeOK, StoreTypeOK, RowsAreOver, InsertionsAlone, KeyHasOneRun, AnswersComeLast,
      HasKey, Made
  <2>3. (RunAnswersAreTrue /\ SnapshotsAreTrue /\ RunsAreSettled /\ ReproducibleUnlessOverlapped)'
    BY <2>1 DEF ReconInv, RunAnswersAreTrue, SnapshotsAreTrue, RunsAreSettled, ReproducibleUnlessOverlapped,
      HasKey, Made, LoadRecords
  <2>4. (VersionsFit /\ ManifestsBalance)'
    BY <2>1 DEF ReconInv, VersionsFit, ManifestsBalance, Made, FilesOf, Allocated, Unmatched
  <2>5. QED  BY <2>2, <2>3, <2>4 DEF ReconInv
<1>3. QED  BY <1>1, <1>2

(* The inductive invariant holds of every reachable state.                 *)
THEOREM ReconSafe == ReconSpec => []ReconInv
BY ReconInvStarts, ReconInvKept, PTL DEF ReconSpec

(* Type correctness of runReconciliation and of the rows it writes.        *)
THEOREM ReconTypeCorrect == ReconSpec => []ReconTypeOK
BY ReconSafe, PTL DEF ReconInv

(* A key has one run, although the row it is looked up in may be newer     *)
(* than the snapshot (the advisory lock, the lookup and the unique index   *)
(* of recon_runs).                                                         *)
THEOREM KeysHaveOneRun == ReconSpec => []KeyHasOneRun
BY ReconSafe, PTL DEF ReconInv

(* A run that a client was told of is committed, with the status it was    *)
(* told; a refused or replayed request has another run of its key.         *)
THEOREM RunAnswersTrue == ReconSpec => []RunAnswersAreTrue
BY ReconSafe, PTL DEF ReconInv

(* A run has seen what is not above its highwater, but for the imports     *)
(* that its snapshot found open.                                           *)
THEOREM RunsReproducible == ReconSpec => []ReproducibleUnlessOverlapped
BY ReconSafe, PTL DEF ReconInv

(* The files of a locked version are committed and balance, and its runs   *)
(* share no allocation (closePeriod and buildSnapshot of close-service).   *)
THEOREM LockedManifestsBalance == ReconSpec => []ManifestsBalance
BY ReconSafe, PTL DEF ReconInv

-----------------------------------------------------------------------------
(* The specifications it is built on.                                      *)

(* Runs, closes and crashes do with imports what the import promises.      *)
THEOREM ReconKeepsStore == ReconSpec => StoreSpec
<1>1. ReconInit => StoreInit
  BY DEF ReconInit
<1>2. ASSUME ReconTypeOK, [ReconNext]_booksVars
      PROVE  [StoreNext]_storeVars
  <2>1. CASE Importing
    <3>1. PICK q \in Uploads : Admit(q) \/ BeginImport(q) \/ End({q}, {q}) \/ End({q}, {})
      BY <2>1 DEF Importing
    <3>2. {q} \in SUBSET Uploads /\ {} \in SUBSET Uploads
      OBVIOUS
    <3>3. QED  BY <3>1, <3>2 DEF StoreNext
  <2>2. CASE \E q \in RunRequests : RunStep(q) \/ RunGetsLock(q) \/ RunFails(q) \/ RunCommitLost(q)
    BY <2>2 DEF RunStep, RunBegin, RunAsksLock, RunGetsLock, RunInsert, RunEnds, RunRejectsRecord, RunFails,
      RunCommitLost, Continues, Tells, Goes
  <2>3. CASE Dies
    <3>1. PICK committing \in SUBSET {u \in Uploads : stage[u] \in {"admitted", "begun"}} :
            End({u \in Uploads : stage[u] \in {"admitted", "begun"}}, committing)
      BY <2>3 DEF Dies
    <3>2. QED  BY <3>1 DEF StoreNext
  <2>4. CASE \E r \in runs : Resolve(r)
    BY <2>4 DEF Resolve
  <2>5. CASE OpenVersion \/ LocksVersion
    BY <2>5 DEF OpenVersion, LocksVersion, Lock, TellsImports, StoreNext, PeriodsChange
  <2>6. CASE UNCHANGED booksVars
    BY <2>6 DEF booksVars
  <2>7. QED  BY <1>2, <2>1, <2>2, <2>3, <2>4, <2>5, <2>6 DEF ReconNext, LocksVersion
<1>3. QED  BY <1>1, <1>2, ReconTypeCorrect, PTL DEF ReconSpec, StoreSpec

(* What may be closed stays so: an end of a run adds rows, and a resolved  *)
(* exception stays resolved.                                               *)
LEMMA ClosableGrows ==
  ASSUME ReconTypeOK, ReconNext
  PROVE  Closable \subseteq Closable'
<1>1. CASE runs \subseteq runs'
  BY <1>1 DEF Closable, AsClosable, Allocated, Clean, Unmatched
<1>2. ASSUME NEW r \in runs, Resolve(r)
      PROVE  Closable \subseteq Closable'
  <2>1. ~Clean(r) /\ runs \ {r} \subseteq runs'
    BY <1>2 DEF Resolve
  <2>2. QED  BY <2>1 DEF Closable, AsClosable, Allocated, Clean, Unmatched
<1>3. (\E r \in runs : Resolve(r)) \/ runs \subseteq runs'
  <2>1. CASE Importing \/ LocksVersion \/ OpenVersion
    BY <2>1 DEF Importing, LocksVersion, Lock, OpenVersion, reconVars
  <2>2. CASE \E q \in RunRequests : RunStep(q) \/ RunGetsLock(q) \/ RunFails(q) \/ RunCommitLost(q)
    BY <2>2 DEF RunStep, RunBegin, RunAsksLock, RunInsert, RunEnds, RunRejectsRecord, RunGetsLock, RunFails,
      RunCommitLost, Continues, Writes
  <2>3. CASE Dies
    BY <2>3 DEF Dies
  <2>4. QED  BY <2>1, <2>2, <2>3 DEF ReconNext, LocksVersion
<1>4. QED  BY <1>1, <1>2, <1>3

(* A step that leaves the versions alone may at most add to what can be    *)
(* closed; one that opens or locks a version is the step of the same name. *)
THEOREM ReconKeepsVersions == ReconSpec => ImplementsVersions
<1>1. ReconInit => Close!VersionsInit
  BY DEF ReconInit, Closable, Close!VersionsInit
<1>2. ASSUME ReconTypeOK, [ReconNext]_booksVars
      PROVE  [Close!VersionsNext]_(Close!versionVars)
  <2>1. CASE UNCHANGED booksVars
    BY <2>1 DEF booksVars, reconVars, closeVars, Closable, AsClosable, Allocated, Clean, Unmatched, Close!versionVars
  <2>2. CASE ReconNext /\ UNCHANGED closeVars
    BY <1>2, <2>2, ClosableGrows DEF closeVars, Close!VersionsNext
  <2>3. CASE OpenVersion
    <3>1. UNCHANGED Closable
      BY <2>3 DEF OpenVersion, Closable, AsClosable, Allocated, Clean, Unmatched
    <3>2. QED  BY <2>3, <3>1 DEF OpenVersion, Close!VersionsNext
  <2>4. CASE LocksVersion
    <3>1. PICK p \in periods, rs \in SUBSET runs : Lock(p, rs)
      BY <2>4 DEF LocksVersion
    <3>2. UNCHANGED Closable
      BY <3>1 DEF Lock, Closable, AsClosable, Allocated, Clean, Unmatched
    <3>3. QED  BY <3>1, <3>2 DEF Lock, Close!VersionsNext
  <2>5. QED  BY <1>2, <2>1, <2>2, <2>3, <2>4, VersionsMove
<1>3. QED  BY <1>1, <1>2, ReconTypeCorrect, PTL DEF ReconSpec, ImplementsVersions, Close!VersionsSpec
===============================================================================
