-------------------------------- MODULE Import --------------------------------
(***************************************************************************)
(* importCsv of src/import-service.mjs: several uploads at once, each with *)
(* its staged file, its transaction and its compensation, in one server    *)
(* process that may die.  Of a tenant's object storage there is one path   *)
(* per content.  What is uploaded has passed preflightCsv; the versions of *)
(* parser and template are those of the build.                             *)
(***************************************************************************)
EXTENDS FiniteSets

CONSTANTS
  Uploads,     \* requests; a client that repeats one sends another
  DataSources, \* of the tenant
  Contents     \* bytes of files, told apart by their sha256

VARIABLES
  upload,   \* what each request brings
  pc,       \* how far it has come
  answer,   \* what its client was told
  published, \* publishedByThisRequest
  staged,   \* uploads whose .part file exists
  files,    \* contents whose final file exists
  batches,  \* committed rows of import_batches, with the upload that made them
  locked,   \* contents with a record in a locked period
  late      \* uploads whose content has been locked since they were received

storage == <<staged, files>>
importVars == <<upload, pc, answer, published, storage, batches, locked, late>>

Content == [source : DataSources, content : Contents]
Batch == [by : Uploads, source : DataSources, content : Contents]
\* "unstaged" and "unremoved": the error of a writeFile or of an unlink in the catch
Answers == {"none", "rejected", "unstaged", "committed", "replayed", "error", "unremoved"}
InTransaction == {"staged", "found", "inserted", "linked"} \* staged: it has yet to begin
Handled == {"received", "checked"} \cup InTransaction \cup
           {"committed", "replayed", "duplicate", "failed", "unpublish", "lookup"}
Ended == {"answered", "crashed"}

ImportTypeOK ==
  /\ upload \in [Uploads -> Content]
  /\ pc \in [Uploads -> {"idle"} \cup Handled \cup Ended]
  /\ answer \in [Uploads -> Answers]
  /\ published \in [Uploads -> BOOLEAN]
  /\ staged \subseteq Uploads /\ files \subseteq Contents /\ batches \subseteq Batch
  /\ locked \subseteq Contents /\ late \subseteq Uploads

ImportInit ==
  /\ upload \in [Uploads -> Content]
  /\ pc = [q \in Uploads |-> "idle"]
  /\ answer = [q \in Uploads |-> "none"]
  /\ published = [q \in Uploads |-> FALSE]
  /\ staged = {} /\ files = {} /\ batches = {} /\ late = {}
  /\ locked \in SUBSET Contents

-----------------------------------------------------------------------------

ContentOf(q) == upload[q].content
RowOf(q) == [by |-> q, source |-> upload[q].source, content |-> upload[q].content]
SameKey(a, b) == a.source = b.source /\ a.content = b.content
Exists(q) == \E b \in batches : SameKey(b, upload[q])

Moves(q, from, to) ==
  /\ pc[q] = from
  /\ pc' = [pc EXCEPT ![q] = to]
  /\ UNCHANGED <<upload, locked, late>>
(* A step of the handler that leaves storage and database alone.           *)
Continues(q, from, to) == Moves(q, from, to) /\ UNCHANGED <<answer, published, storage, batches>>
Answered(q, from, what) == Moves(q, from, "answered") /\ answer' = [answer EXCEPT ![q] = what]

Receive(q) ==
  /\ pc[q] = "idle"
  /\ pc' = [pc EXCEPT ![q] = "received"]
  /\ late' = IF ContentOf(q) \in locked THEN late \cup {q} ELSE late
  /\ UNCHANGED <<upload, answer, published, storage, batches, locked>>

(* Periods are locked and reopened meanwhile.                              *)
PeriodChanges(c) ==
  /\ locked' = IF c \in locked THEN locked \ {c} ELSE locked \cup {c}
  /\ late' = IF c \in locked THEN {q \in late : ContentOf(q) # c} ELSE late
  /\ UNCHANGED <<upload, pc, answer, published, storage, batches>>

-----------------------------------------------------------------------------

(* Mistake: a locked period does not reject what it has seen before.       *)
CheckUnlessStored(q) ==
  IF ContentOf(q) \in locked \ files
  THEN Answered(q, "received", "rejected") /\ UNCHANGED <<published, storage, batches>>
  ELSE Continues(q, "received", "checked")

(* assertPeriodWritable, on a connection of its own.                       *)
Check(q) ==
  IF ContentOf(q) \in locked
  THEN Answered(q, "received", "rejected") /\ UNCHANGED <<published, storage, batches>>
  ELSE Continues(q, "received", "checked")

Stage(q) ==
  /\ Moves(q, "checked", "staged")
  /\ staged' = staged \cup {q}
  /\ UNCHANGED <<answer, published, files, batches>>

(* writeFile throws outside the try, and what it wrote stays.              *)
StageFails(q) ==
  /\ Answered(q, "checked", "unstaged")
  /\ staged' \in {staged, staged \cup {q}}
  /\ UNCHANGED <<published, files, batches>>

Find(q) ==
  IF Exists(q) THEN Continues(q, "staged", "replayed") ELSE Continues(q, "staged", "found")

(* The unique key makes an INSERT wait for the transaction that has        *)
(* inserted the same key, and fail if that one commits.                    *)
Waits(q) ==
  \E r \in Uploads \ {q} : pc[r] \in {"inserted", "linked"} /\ SameKey(upload[r], upload[q])

(* Mistake: the key is not unique; only the lookup before tells.           *)
InsertAnyway(q) == Continues(q, "found", "inserted")

(* Mistake: an insertion in progress counts as a batch that exists.        *)
InsertNoWait(q) ==
  IF Waits(q) \/ Exists(q) THEN Continues(q, "found", "replayed") ELSE Continues(q, "found", "inserted")

(* Mistake: a conflict is tried again until the key is free.               *)
InsertRetries(q) == ~Waits(q) /\ ~Exists(q) /\ Continues(q, "found", "inserted")

Insert(q) ==
  /\ ~Waits(q)
  /\ IF Exists(q) THEN Continues(q, "found", "duplicate") ELSE Continues(q, "found", "inserted")

(* The rows, the audit row and then the link, last of the transaction;     *)
(* EEXIST is no error.                                                     *)
Link(q) ==
  /\ Moves(q, "inserted", "linked")
  /\ files' = files \cup {ContentOf(q)}
  /\ published' = [published EXCEPT ![q] = ContentOf(q) \notin files]
  /\ UNCHANGED <<answer, staged, batches>>

Commit(q) ==
  /\ Moves(q, "linked", "committed")
  /\ batches' = batches \cup {RowOf(q)}
  /\ UNCHANGED <<answer, published, storage>>

(* A statement, or the link, fails; the rows are rolled back.              *)
Fail(q) == pc[q] \in InTransaction \ {"linked"} /\ Continues(q, pc[q], "failed")

(* The connection is lost at the COMMIT: it took effect or it did not.     *)
CommitFails(q) ==
  /\ Moves(q, "linked", "failed")
  /\ batches' \in {batches, batches \cup {RowOf(q)}}
  /\ UNCHANGED <<answer, published, storage>>

(* Mistake: the staged file is removed after success only.                 *)
RemoveIfDone(q) ==
  /\ \/ /\ pc[q] \in {"committed", "replayed"} /\ Answered(q, pc[q], pc[q])
        /\ staged' = staged \ {q}
     \/ pc[q] \in {"duplicate", "failed"} /\ Answered(q, pc[q], "error") /\ UNCHANGED staged
  /\ UNCHANGED <<published, files, batches>>

(* Mistake: a failed import removes its file, whoever published it.        *)
RemoveBoth(q) ==
  /\ \/ pc[q] \in {"committed", "replayed"} /\ Answered(q, pc[q], pc[q])
     \/ Moves(q, "duplicate", "lookup") /\ UNCHANGED answer
     \/ Moves(q, "failed", "unpublish") /\ UNCHANGED answer
  /\ staged' = staged \ {q}
  /\ UNCHANGED <<published, files, batches>>

(* safeRemove of the staged file: before the answer of an upload that is   *)
(* done, and in the catch of one that is not.                              *)
Remove(q) ==
  /\ \/ pc[q] \in {"committed", "replayed"} /\ Answered(q, pc[q], pc[q])
     \/ Moves(q, "duplicate", "lookup") /\ UNCHANGED answer
     \/ published[q] /\ Moves(q, "failed", "unpublish") /\ UNCHANGED answer
     \/ ~published[q] /\ Answered(q, "failed", "error")
  /\ staged' = staged \ {q}
  /\ UNCHANGED <<published, files, batches>>

(* The unlink fails, for another reason than ENOENT, and the file stays.   *)
(* An upload that is done goes to the catch like one that failed; in the   *)
(* catch it is the end, without compensation or lookup.                    *)
RemoveFails(q) ==
  \/ pc[q] \in {"committed", "replayed"} /\ Continues(q, pc[q], "failed")
  \/ /\ pc[q] \in {"duplicate", "failed"} /\ Answered(q, pc[q], "unremoved")
     /\ UNCHANGED <<published, storage, batches>>

(* Compensation: the file this upload published is taken back.             *)
Unpublish(q) ==
  /\ Answered(q, "unpublish", "error")
  /\ files' = files \ {ContentOf(q)}
  /\ UNCHANGED <<published, staged, batches>>
UnpublishFails(q) ==
  Answered(q, "unpublish", "unremoved") /\ UNCHANGED <<published, storage, batches>>

(* After a unique violation the batch of the other upload is the answer.   *)
Lookup(q) ==
  /\ Answered(q, "lookup", IF Exists(q) THEN "replayed" ELSE "error")
  /\ UNCHANGED <<published, storage, batches>>
LookupFails(q) == Answered(q, "lookup", "error") /\ UNCHANGED <<published, storage, batches>>

(* The server dies.  Files stay; a COMMIT on its way may still be done.    *)
Crash ==
  /\ \E q \in Uploads : pc[q] \in Handled
  /\ pc' = [q \in Uploads |-> IF pc[q] \in Handled THEN "crashed" ELSE pc[q]]
  /\ \E done \in SUBSET {q \in Uploads : pc[q] = "linked"} : batches' = batches \cup {RowOf(q) : q \in done}
  /\ UNCHANGED <<upload, answer, published, storage, locked, late>>

Step(q) ==
  \/ Check(q) \/ Stage(q) \/ Find(q) \/ Insert(q) \/ Link(q) \/ Commit(q)
  \/ Remove(q) \/ Unpublish(q) \/ Lookup(q)

ImportNext ==
  \/ \E q \in Uploads :
       \/ Receive(q) \/ Step(q) \/ StageFails(q) \/ Fail(q) \/ CommitFails(q)
       \/ RemoveFails(q) \/ UnpublishFails(q) \/ LookupFails(q)
  \/ \E c \in Contents : PeriodChanges(c)
  \/ Crash

(* The process executes the handlers it runs, and the database their       *)
(* statements; nothing makes clients send or periods change.               *)
ImportFairness == \A q \in Uploads : WF_importVars(Step(q))

ImportSpec == ImportInit /\ [][ImportNext]_importVars /\ ImportFairness

-----------------------------------------------------------------------------

(* Files and batches answer for each other.  The file of a committed batch *)
(* is missing only where the upload that published it has taken it back,   *)
(* after its own staged file, and was answered with an error: no failure   *)
(* before the COMMIT, no crash and no upload that found the file there     *)
(* costs one.  A file is without a batch only while the upload that        *)
(* published it goes on, or after it crashed or could not remove a file.   *)
FilesMatchBatches ==
  /\ \A b \in batches : b.content \in files \/
       \E q \in Uploads : ContentOf(q) = b.content /\ published[q] /\ q \notin staged /\ answer[q] = "error"
  /\ \A c \in files : (\E b \in batches : b.content = c) \/
       \E q \in Uploads : ContentOf(q) = c /\ published[q]
                         /\ (pc[q] \in Handled \cup {"crashed"} \/ answer[q] = "unremoved")

(* A content is imported once into a data source, however many uploads of  *)
(* it arrive together, fail and are repeated.                              *)
OneBatchPerKey == \A a, b \in batches : SameKey(a, b) => a = b

(* Who is told "committed" has made the batch; who is told "replayed"      *)
(* finds a committed one that another upload made.                         *)
AnswersAreTrue ==
  \A q \in Uploads :
    /\ answer[q] = "committed" => RowOf(q) \in batches
    /\ answer[q] = "replayed" => RowOf(q) \notin batches /\ Exists(q)

(* A staged file outlives its upload only after a crash, a failing write,  *)
(* or a failing unlink in the catch, and then the client is told of an     *)
(* error: neither a failing transaction nor a first failing unlink leaves  *)
(* one, and no upload that was done.                                       *)
StagedFilesAreRemoved ==
  \A q \in staged : pc[q] \in Handled \cup {"crashed"} \/ answer[q] \in {"unstaged", "unremoved"}

(* What arrives when its period is locked is not imported, unless the      *)
(* period is reopened first.                                               *)
LateUploadsAreRejected == \A b \in batches : b.by \notin late

(* Every upload is answered unless the server dies: the waits for unique   *)
(* keys end.                                                               *)
UploadsEnd == \A q \in Uploads : pc[q] = "received" ~> pc[q] \in Ended

(* The file of a committed batch is in the object storage: after an import *)
(* that commits, "await stat(" of its path succeeds.                       *)
BatchHasFile == \A b \in batches : b.content \in files
-----------------------------------------------------------------------------
(* What reconciliation sees of the imports.                                *)

StageOf(q) ==
  IF pc[q] \in {"idle", "received"} THEN "waiting"
  ELSE IF pc[q] \in {"checked", "staged"} THEN "admitted"
  ELSE IF pc[q] \in {"found", "inserted", "linked"} THEN "begun"
  ELSE "ended"

Store == INSTANCE RecordStore WITH stage <- [q \in Uploads |-> StageOf(q)]

(* The import, with its files, its unique key, its compensation and its    *)
(* crashes, is a store that takes each upload whole and once, or not.      *)
ImplementsStore == Store!StoreSpec
===============================================================================
