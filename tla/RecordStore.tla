----------------------------- MODULE RecordStore -----------------------------
(***************************************************************************)
(* What the import promises to reconciliation, and nothing else: an upload *)
(* is admitted while the period of its records is writable, begins a       *)
(* transaction, and ends with all of its rows committed or with none, once *)
(* per content of a data source.  Import implements this specification;    *)
(* Reconciliation is built on it.                                          *)
(***************************************************************************)
CONSTANTS
  Uploads,     \* requests
  DataSources, \* of the tenant
  Contents     \* bytes of files

VARIABLES
  upload,   \* what each request brings
  stage,    \* how far it has come
  batches,  \* committed rows of import_batches, each with all its records
  locked    \* contents with a record in a locked period

storeVars == <<upload, stage, batches, locked>>

Content == [source : DataSources, content : Contents]
Batch == [by : Uploads, source : DataSources, content : Contents]
\* created_at of an upload's records is fixed as it becomes "begun"
Stages == {"waiting", "admitted", "begun", "ended"}

StoreTypeOK ==
  /\ upload \in [Uploads -> Content]
  /\ stage \in [Uploads -> Stages]
  /\ batches \subseteq Batch
  /\ locked \subseteq Contents

RowOf(q) == [by |-> q, source |-> upload[q].source, content |-> upload[q].content]
SameKey(a, b) == a.source = b.source /\ a.content = b.content
OncePerKey(rows) == \A a, b \in rows : SameKey(a, b) => a = b

StoreInit ==
  /\ upload \in [Uploads -> Content]
  /\ stage = [q \in Uploads |-> "waiting"]
  /\ batches = {}
  /\ locked \in SUBSET Contents

(* assertPeriodWritable let the upload pass.                               *)
Admit(q) ==
  /\ stage[q] = "waiting" /\ upload[q].content \notin locked
  /\ stage' = [stage EXCEPT ![q] = "admitted"]
  /\ UNCHANGED <<upload, batches, locked>>

BeginImport(q) ==
  /\ stage[q] = "admitted"
  /\ stage' = [stage EXCEPT ![q] = "begun"]
  /\ UNCHANGED <<upload, batches, locked>>

(* Uploads end, several at once when the server dies; some may commit.     *)
End(ending, committing) ==
  /\ \A q \in ending : stage[q] # "ended"
  /\ committing \subseteq ending /\ \A q \in committing : stage[q] = "begun"
  /\ stage' = [q \in Uploads |-> IF q \in ending THEN "ended" ELSE stage[q]]
  /\ batches' = batches \cup {RowOf(q) : q \in committing}
  /\ OncePerKey(batches')
  /\ UNCHANGED <<upload, locked>>

PeriodsChange == locked' \in SUBSET Contents /\ UNCHANGED <<upload, stage, batches>>

StoreNext ==
  \/ \E q \in Uploads : Admit(q) \/ BeginImport(q)
  \/ \E ending \in SUBSET Uploads, committing \in SUBSET Uploads : End(ending, committing)
  \/ PeriodsChange

StoreSpec == StoreInit /\ [][StoreNext]_storeVars
===============================================================================
