----------------------------- MODULE ImportProofs -----------------------------
(***************************************************************************)
(* The safety of imports for any number of uploads, data sources and       *)
(* contents.                                                               *)
(***************************************************************************)
EXTENDS Import, TLAPS

(* Who has inserted or decided what, by how far a handler has come.        *)
Holds(q) == pc[q] \in {"inserted", "linked"}

(* A row was made by an upload of its key that has got past its COMMIT.    *)
RowsFromUploads ==
  \A b \in batches :
    /\ b = RowOf(b.by)
    /\ pc[b.by] \in {"committed", "failed", "unpublish"} \cup Ended
    /\ pc[b.by] = "answered" => answer[b.by] \in {"committed", "error", "unremoved"}

(* The unique key: an insertion in progress is the only one of its key,    *)
(* and there is no batch of it yet.                                        *)
InsertionsAreUnique ==
  \A q \in Uploads : Holds(q) =>
    /\ ~Exists(q)
    /\ \A r \in Uploads : Holds(r) /\ SameKey(upload[q], upload[r]) => q = r

(* What a handler that is about to answer knows, and that only those that  *)
(* have answered did.                                                      *)
AnswersFollow ==
  \A q \in Uploads :
    /\ pc[q] = "committed" => RowOf(q) \in batches
    /\ pc[q] = "replayed" => Exists(q)
    /\ pc[q] # "answered" => answer[q] = "none"
    /\ pc[q] = "unpublish" => published[q]
    /\ answer[q] = "committed" => RowOf(q) \in batches
    /\ answer[q] = "replayed" => Exists(q)

(* A content is stored, or its file was taken back.                        *)
StoredOrLost(c) ==
  c \in files \/
    \E q \in Uploads : ContentOf(q) = c /\ published[q] /\ q \notin staged /\ answer[q] = "error"
LinksStored ==
  /\ \A b \in batches : StoredOrLost(b.content)
  /\ \A q \in Uploads : pc[q] = "linked" => StoredOrLost(ContentOf(q))

(* A file has a batch, or whose it is has not taken it back.               *)
Keeps(q) == pc[q] \in Handled \cup {"crashed"} \/ answer[q] = "unremoved"
Explained(c) ==
  (\E b \in batches : b.content = c) \/ \E q \in Uploads : ContentOf(q) = c /\ published[q] /\ Keeps(q)
FilesExplained == \A c \in files : Explained(c)

(* Only an upload that has got past its link has published a file.         *)
PublishedByLink ==
  \A q \in Uploads : published[q] => pc[q] \in {"linked", "committed", "failed", "unpublish"} \cup Ended

StagedInTime ==
  \A q \in staged : pc[q] \in InTransaction \cup {"committed", "replayed", "duplicate", "failed", "crashed"}
                    \/ answer[q] \in {"unstaged", "unremoved"}

LateWait ==
  \A q \in late :
    /\ ContentOf(q) \in locked
    /\ pc[q] \in {"received"} \cup Ended
    /\ \A b \in batches : b.by # q

ImportInv ==
  /\ ImportTypeOK /\ RowsFromUploads /\ OneBatchPerKey /\ InsertionsAreUnique
  /\ AnswersFollow /\ LinksStored /\ FilesExplained /\ PublishedByLink /\ StagedInTime /\ LateWait

Removes(q) == Remove(q) \/ RemoveFails(q) \/ Unpublish(q) \/ UnpublishFails(q)

-----------------------------------------------------------------------------
(* Each part of the invariant is preserved, one step per kind of action.   *)

(* Type correctness.                                                       *)
LEMMA TypesKept ==
  ASSUME ImportInv, ImportNext
  PROVE  ImportTypeOK'
<1> USE DEF ImportInv, ImportTypeOK, InTransaction, Handled, Ended, Answers, Batch, Content, RowOf,
   ContentOf, storage
<1>1. ASSUME NEW q \in Uploads, Receive(q)
      PROVE  ImportTypeOK'
  BY <1>1 DEF Receive, Moves, Continues, Answered
<1>2. ASSUME NEW q \in Uploads, Check(q)
      PROVE  ImportTypeOK'
  BY <1>2 DEF Check, Moves, Continues, Answered
<1>3. ASSUME NEW q \in Uploads, Stage(q) \/ StageFails(q)
      PROVE  ImportTypeOK'
  BY <1>3 DEF Stage, StageFails, Moves, Continues, Answered
<1>4. ASSUME NEW q \in Uploads, Find(q) \/ Fail(q)
      PROVE  ImportTypeOK'
  BY <1>4 DEF Find, Fail, Moves, Continues, Answered
<1>5. ASSUME NEW q \in Uploads, Insert(q)
      PROVE  ImportTypeOK'
  BY <1>5 DEF Insert, Moves, Continues, Answered
<1>6. ASSUME NEW q \in Uploads, Link(q)
      PROVE  ImportTypeOK'
  BY <1>6 DEF Link, Moves, Continues, Answered
<1>7. ASSUME NEW q \in Uploads, Commit(q) \/ CommitFails(q)
      PROVE  ImportTypeOK'
  BY <1>7 DEF Commit, CommitFails, Moves, Continues, Answered
<1>8. ASSUME NEW q \in Uploads, Remove(q) \/ RemoveFails(q)
      PROVE  ImportTypeOK'
  BY <1>8 DEF Remove, RemoveFails, Moves, Continues, Answered
<1>9. ASSUME NEW q \in Uploads, Unpublish(q) \/ UnpublishFails(q)
      PROVE  ImportTypeOK'
  BY <1>9 DEF Unpublish, UnpublishFails, Moves, Continues, Answered
<1>10. ASSUME NEW q \in Uploads, Lookup(q) \/ LookupFails(q)
      PROVE  ImportTypeOK'
  BY <1>10 DEF Lookup, LookupFails, Moves, Continues, Answered
<1>11. ASSUME NEW k \in Contents, PeriodChanges(k) PROVE ImportTypeOK'
  BY <1>11 DEF PeriodChanges
<1>12. ASSUME Crash PROVE ImportTypeOK'
  BY <1>12 DEF Crash
<1> QED
  BY <1>1, <1>2, <1>3, <1>4, <1>5, <1>6, <1>7, <1>8, <1>9, <1>10, <1>11, <1>12 DEF ImportNext, Step

(* Rows keep the upload they come from.                                    *)
LEMMA RowsKept ==
  ASSUME ImportInv, ImportNext
  PROVE  RowsFromUploads'
<1> USE DEF ImportInv, ImportTypeOK, RowsFromUploads, AnswersFollow, InTransaction, Handled, Ended,
   Batch, RowOf, storage
<1>1. ASSUME NEW q \in Uploads, Receive(q)
      PROVE  RowsFromUploads'
  BY <1>1 DEF Receive, Moves, Continues, Answered
<1>2. ASSUME NEW q \in Uploads, Check(q)
      PROVE  RowsFromUploads'
  BY <1>2 DEF Check, Moves, Continues, Answered
<1>3. ASSUME NEW q \in Uploads, Stage(q) \/ StageFails(q)
      PROVE  RowsFromUploads'
  BY <1>3 DEF Stage, StageFails, Moves, Continues, Answered
<1>4. ASSUME NEW q \in Uploads, Find(q) \/ Fail(q)
      PROVE  RowsFromUploads'
  BY <1>4 DEF Find, Fail, Moves, Continues, Answered
<1>5. ASSUME NEW q \in Uploads, Insert(q)
      PROVE  RowsFromUploads'
  BY <1>5 DEF Insert, Moves, Continues, Answered
<1>6. ASSUME NEW q \in Uploads, Link(q)
      PROVE  RowsFromUploads'
  BY <1>6 DEF Link, Moves, Continues, Answered
<1>7. ASSUME NEW q \in Uploads, Commit(q) \/ CommitFails(q)
      PROVE  RowsFromUploads'
  BY <1>7 DEF Commit, CommitFails, Moves, Continues, Answered
<1>8. ASSUME NEW q \in Uploads, Remove(q) \/ RemoveFails(q)
      PROVE  RowsFromUploads'
  BY <1>8 DEF Remove, RemoveFails, Moves, Continues, Answered
<1>9. ASSUME NEW q \in Uploads, Unpublish(q) \/ UnpublishFails(q)
      PROVE  RowsFromUploads'
  BY <1>9 DEF Unpublish, UnpublishFails, Moves, Continues, Answered
<1>10. ASSUME NEW q \in Uploads, Lookup(q) \/ LookupFails(q)
      PROVE  RowsFromUploads'
  BY <1>10 DEF Lookup, LookupFails, Moves, Continues, Answered
<1>11. ASSUME NEW k \in Contents, PeriodChanges(k) PROVE RowsFromUploads'
  BY <1>11 DEF PeriodChanges
<1>12. ASSUME Crash PROVE RowsFromUploads'
  BY <1>12 DEF Crash
<1> QED
  BY <1>1, <1>2, <1>3, <1>4, <1>5, <1>6, <1>7, <1>8, <1>9, <1>10, <1>11, <1>12 DEF ImportNext, Step

(* A commit adds a key that no batch has; a crash may add several, all of  *)
(* them of insertions in progress.                                         *)
LEMMA KeysKept ==
  ASSUME ImportInv, ImportNext
  PROVE  OneBatchPerKey'
<1> USE DEF ImportInv, ImportTypeOK, OneBatchPerKey, InsertionsAreUnique, Holds, Exists, SameKey,
   RowOf, storage
<1>1. ASSUME NEW q \in Uploads, Receive(q)
      PROVE  OneBatchPerKey'
  BY <1>1 DEF Receive, Moves, Continues, Answered
<1>2. ASSUME NEW q \in Uploads, Check(q)
      PROVE  OneBatchPerKey'
  BY <1>2 DEF Check, Moves, Continues, Answered
<1>3. ASSUME NEW q \in Uploads, Stage(q) \/ StageFails(q)
      PROVE  OneBatchPerKey'
  BY <1>3 DEF Stage, StageFails, Moves, Continues, Answered
<1>4. ASSUME NEW q \in Uploads, Find(q) \/ Fail(q)
      PROVE  OneBatchPerKey'
  BY <1>4 DEF Find, Fail, Moves, Continues, Answered
<1>5. ASSUME NEW q \in Uploads, Insert(q)
      PROVE  OneBatchPerKey'
  BY <1>5 DEF Insert, Moves, Continues, Answered
<1>6. ASSUME NEW q \in Uploads, Link(q)
      PROVE  OneBatchPerKey'
  BY <1>6 DEF Link, Moves, Continues, Answered
<1>7. ASSUME NEW q \in Uploads, Commit(q) \/ CommitFails(q)
      PROVE  OneBatchPerKey'
  BY <1>7 DEF Commit, CommitFails, Moves, Continues, Answered
<1>8. ASSUME NEW q \in Uploads, Remove(q) \/ RemoveFails(q)
      PROVE  OneBatchPerKey'
  BY <1>8 DEF Remove, RemoveFails, Moves, Continues, Answered
<1>9. ASSUME NEW q \in Uploads, Unpublish(q) \/ UnpublishFails(q)
      PROVE  OneBatchPerKey'
  BY <1>9 DEF Unpublish, UnpublishFails, Moves, Continues, Answered
<1>10. ASSUME NEW q \in Uploads, Lookup(q) \/ LookupFails(q)
      PROVE  OneBatchPerKey'
  BY <1>10 DEF Lookup, LookupFails, Moves, Continues, Answered
<1>11. ASSUME NEW k \in Contents, PeriodChanges(k) PROVE OneBatchPerKey'
  BY <1>11 DEF PeriodChanges
<1>12. ASSUME Crash PROVE OneBatchPerKey'
  BY <1>12 DEF Crash
<1> QED
  BY <1>1, <1>2, <1>3, <1>4, <1>5, <1>6, <1>7, <1>8, <1>9, <1>10, <1>11, <1>12 DEF ImportNext, Step

(* An INSERT waits for the one in progress and fails if that commits.      *)
LEMMA InsertionsKept ==
  ASSUME ImportInv, ImportNext
  PROVE  InsertionsAreUnique'
<1> USE DEF ImportInv, ImportTypeOK, InsertionsAreUnique, Holds, Exists, SameKey, RowOf, Waits,
   InTransaction, Handled, Ended, storage
<1>1. ASSUME NEW q \in Uploads, Receive(q)
      PROVE  InsertionsAreUnique'
  BY <1>1 DEF Receive, Moves, Continues, Answered
<1>2. ASSUME NEW q \in Uploads, Check(q)
      PROVE  InsertionsAreUnique'
  BY <1>2 DEF Check, Moves, Continues, Answered
<1>3. ASSUME NEW q \in Uploads, Stage(q) \/ StageFails(q)
      PROVE  InsertionsAreUnique'
  BY <1>3 DEF Stage, StageFails, Moves, Continues, Answered
<1>4. ASSUME NEW q \in Uploads, Find(q) \/ Fail(q)
      PROVE  InsertionsAreUnique'
  BY <1>4 DEF Find, Fail, Moves, Continues, Answered
<1>5. ASSUME NEW q \in Uploads, Insert(q)
      PROVE  InsertionsAreUnique'
  BY <1>5 DEF Insert, Moves, Continues, Answered
<1>6. ASSUME NEW q \in Uploads, Link(q)
      PROVE  InsertionsAreUnique'
  BY <1>6 DEF Link, Moves, Continues, Answered
<1>7. ASSUME NEW q \in Uploads, Commit(q) \/ CommitFails(q)
      PROVE  InsertionsAreUnique'
  BY <1>7 DEF Commit, CommitFails, Moves, Continues, Answered
<1>8. ASSUME NEW q \in Uploads, Remove(q) \/ RemoveFails(q)
      PROVE  InsertionsAreUnique'
  BY <1>8 DEF Remove, RemoveFails, Moves, Continues, Answered
<1>9. ASSUME NEW q \in Uploads, Unpublish(q) \/ UnpublishFails(q)
      PROVE  InsertionsAreUnique'
  BY <1>9 DEF Unpublish, UnpublishFails, Moves, Continues, Answered
<1>10. ASSUME NEW q \in Uploads, Lookup(q) \/ LookupFails(q)
      PROVE  InsertionsAreUnique'
  BY <1>10 DEF Lookup, LookupFails, Moves, Continues, Answered
<1>11. ASSUME NEW k \in Contents, PeriodChanges(k) PROVE InsertionsAreUnique'
  BY <1>11 DEF PeriodChanges
<1>12. ASSUME Crash PROVE InsertionsAreUnique'
  BY <1>12 DEF Crash
<1> QED
  BY <1>1, <1>2, <1>3, <1>4, <1>5, <1>6, <1>7, <1>8, <1>9, <1>10, <1>11, <1>12 DEF ImportNext, Step

(* Batches are never deleted, so that what an answer says stays true.      *)
LEMMA AnswersKept ==
  ASSUME ImportInv, ImportNext
  PROVE  AnswersFollow'
<1> USE DEF ImportInv, ImportTypeOK, AnswersFollow, RowsFromUploads, Exists, SameKey, RowOf,
   InTransaction, Handled, Ended, storage
<1>1. ASSUME NEW q \in Uploads, Receive(q)
      PROVE  AnswersFollow'
  BY <1>1 DEF Receive, Moves, Continues, Answered
<1>2. ASSUME NEW q \in Uploads, Check(q)
      PROVE  AnswersFollow'
  BY <1>2 DEF Check, Moves, Continues, Answered
<1>3. ASSUME NEW q \in Uploads, Stage(q) \/ StageFails(q)
      PROVE  AnswersFollow'
  BY <1>3 DEF Stage, StageFails, Moves, Continues, Answered
<1>4. ASSUME NEW q \in Uploads, Find(q) \/ Fail(q)
      PROVE  AnswersFollow'
  BY <1>4 DEF Find, Fail, Moves, Continues, Answered
<1>5. ASSUME NEW q \in Uploads, Insert(q)
      PROVE  AnswersFollow'
  BY <1>5 DEF Insert, Moves, Continues, Answered
<1>6. ASSUME NEW q \in Uploads, Link(q)
      PROVE  AnswersFollow'
  BY <1>6 DEF Link, Moves, Continues, Answered
<1>7. ASSUME NEW q \in Uploads, Commit(q) \/ CommitFails(q)
      PROVE  AnswersFollow'
  BY <1>7 DEF Commit, CommitFails, Moves, Continues, Answered
<1>8. ASSUME NEW q \in Uploads, Remove(q) \/ RemoveFails(q)
      PROVE  AnswersFollow'
  BY <1>8 DEF Remove, RemoveFails, Moves, Continues, Answered
<1>9. ASSUME NEW q \in Uploads, Unpublish(q) \/ UnpublishFails(q)
      PROVE  AnswersFollow'
  BY <1>9 DEF Unpublish, UnpublishFails, Moves, Continues, Answered
<1>10. ASSUME NEW q \in Uploads, Lookup(q) \/ LookupFails(q)
      PROVE  AnswersFollow'
  BY <1>10 DEF Lookup, LookupFails, Moves, Continues, Answered
<1>11. ASSUME NEW k \in Contents, PeriodChanges(k) PROVE AnswersFollow'
  BY <1>11 DEF PeriodChanges
<1>12. ASSUME Crash PROVE AnswersFollow'
  BY <1>12 DEF Crash
<1> QED
  BY <1>1, <1>2, <1>3, <1>4, <1>5, <1>6, <1>7, <1>8, <1>9, <1>10, <1>11, <1>12 DEF ImportNext, Step

(* What is stored or known to be lost remains so while no file is taken    *)
(* back.                                                                   *)
LEMMA LossLasts ==
  ASSUME ImportInv, NEW q \in Uploads, pc[q] # "answered", \A r \in Uploads \ {q} : answer'[r] = answer[r],
         files \subseteq files', staged' \subseteq staged \cup {q}, published' = published, upload' = upload,
         NEW b, StoredOrLost(b)
  PROVE  StoredOrLost(b)'
BY DEF ImportInv, AnswersFollow, StoredOrLost, ContentOf

(* Only an upload that published a file takes it back, and answers         *)
(* "error".                                                                *)
LEMMA LinksKept ==
  ASSUME ImportInv, ImportNext
  PROVE  LinksStored'
<1> USE DEF ImportInv, ImportTypeOK, LinksStored, StoredOrLost, StagedInTime, AnswersFollow, ContentOf, RowOf,
   InTransaction, Handled, Ended, storage
<1>1. ASSUME NEW q \in Uploads, Receive(q)
      PROVE  LinksStored'
  BY <1>1 DEF Receive, Moves, Continues, Answered
<1>2. ASSUME NEW q \in Uploads, Check(q)
      PROVE  LinksStored'
  <2>1. /\ pc[q] # "answered" /\ \A r \in Uploads \ {q} : answer'[r] = answer[r] /\ pc'[r] = pc[r]
        /\ UNCHANGED <<files, published, upload, batches>> /\ pc'[q] # "linked"
        /\ staged' \subseteq staged \cup {q}
    BY <1>2 DEF Check, Moves, Continues, Answered
  <2>2. \A b : StoredOrLost(b) => StoredOrLost(b)'
    BY <2>1, LossLasts
  <2> QED
    BY <2>1, <2>2
<1>3. ASSUME NEW q \in Uploads, Stage(q) \/ StageFails(q)
      PROVE  LinksStored'
  <2>1. /\ pc[q] # "answered" /\ \A r \in Uploads \ {q} : answer'[r] = answer[r] /\ pc'[r] = pc[r]
        /\ UNCHANGED <<files, published, upload, batches>> /\ pc'[q] # "linked"
        /\ staged' \subseteq staged \cup {q}
    BY <1>3 DEF Stage, StageFails, Moves, Continues, Answered
  <2>2. \A b : StoredOrLost(b) => StoredOrLost(b)'
    BY <2>1, LossLasts
  <2> QED
    BY <2>1, <2>2
<1>4. ASSUME NEW q \in Uploads, Find(q) \/ Fail(q)
      PROVE  LinksStored'
  BY <1>4 DEF Find, Fail, Moves, Continues, Answered
<1>5. ASSUME NEW q \in Uploads, Insert(q)
      PROVE  LinksStored'
  BY <1>5 DEF Insert, Moves, Continues, Answered
<1>6. ASSUME NEW q \in Uploads, Link(q)
      PROVE  LinksStored'
  BY <1>6 DEF Link, Moves, Continues, Answered
<1>7. ASSUME NEW q \in Uploads, Commit(q) \/ CommitFails(q)
      PROVE  LinksStored'
  BY <1>7 DEF Commit, CommitFails, Moves, Continues, Answered
<1>8. ASSUME NEW q \in Uploads, Remove(q) \/ RemoveFails(q)
      PROVE  LinksStored'
  <2>1. /\ pc[q] # "answered" /\ \A r \in Uploads \ {q} : answer'[r] = answer[r] /\ pc'[r] = pc[r]
        /\ UNCHANGED <<files, published, upload, batches>> /\ pc'[q] # "linked"
        /\ staged' \subseteq staged \cup {q}
    BY <1>8 DEF Remove, RemoveFails, Moves, Continues, Answered
  <2>2. \A b : StoredOrLost(b) => StoredOrLost(b)'
    BY <2>1, LossLasts
  <2> QED
    BY <2>1, <2>2
<1>9. ASSUME NEW q \in Uploads, Unpublish(q) \/ UnpublishFails(q)
      PROVE  LinksStored'
  <2>1. CASE Unpublish(q)
    <3>1. /\ pc[q] = "unpublish" /\ published'[q] /\ answer'[q] = "error" /\ q \notin staged'
          /\ files' = files \ {ContentOf(q)} /\ UNCHANGED <<batches, upload, published, staged>>
          /\ \A r \in Uploads \ {q} : answer'[r] = answer[r] /\ pc'[r] = pc[r]
          /\ pc'[q] = "answered"
      BY <2>1 DEF Unpublish, Moves, Answered
    <3>2. StoredOrLost(ContentOf(q))'
      BY <3>1
    <3>3. ASSUME NEW c, StoredOrLost(c), c # ContentOf(q) PROVE StoredOrLost(c)'
      BY <3>1, <3>3
    <3> QED  BY <3>1, <3>2, <3>3
  <2>2. CASE UnpublishFails(q)
    <3>1. /\ pc[q] # "answered" /\ \A r \in Uploads \ {q} : answer'[r] = answer[r] /\ pc'[r] = pc[r]
          /\ UNCHANGED <<files, published, upload, batches>> /\ pc'[q] # "linked"
          /\ staged' \subseteq staged \cup {q}
      BY <2>2 DEF UnpublishFails, Moves, Answered
    <3>2. \A b : StoredOrLost(b) => StoredOrLost(b)'
      BY <3>1, LossLasts
    <3> QED  BY <3>1, <3>2
  <2> QED  BY <1>9, <2>1, <2>2
<1>10. ASSUME NEW q \in Uploads, Lookup(q) \/ LookupFails(q)
      PROVE  LinksStored'
  <2>1. /\ pc[q] # "answered" /\ \A r \in Uploads \ {q} : answer'[r] = answer[r] /\ pc'[r] = pc[r]
        /\ UNCHANGED <<files, published, upload, batches>> /\ pc'[q] # "linked"
        /\ staged' \subseteq staged \cup {q}
    BY <1>10 DEF Lookup, LookupFails, Moves, Continues, Answered
  <2>2. \A b : StoredOrLost(b) => StoredOrLost(b)'
    BY <2>1, LossLasts
  <2> QED
    BY <2>1, <2>2
<1>11. ASSUME NEW k \in Contents, PeriodChanges(k) PROVE LinksStored'
  BY <1>11 DEF PeriodChanges
<1>12. ASSUME Crash PROVE LinksStored'
  BY <1>12 DEF Crash
<1> QED
  BY <1>1, <1>2, <1>3, <1>4, <1>5, <1>6, <1>7, <1>8, <1>9, <1>10, <1>11, <1>12 DEF ImportNext, Step

(* published is set by the link and never reset.                           *)
LEMMA PublishersKept ==
  ASSUME ImportInv, ImportNext
  PROVE  PublishedByLink'
<1> USE DEF ImportInv, ImportTypeOK, PublishedByLink, InTransaction, Handled, Ended, storage
<1>1. ASSUME NEW q \in Uploads, Receive(q)
      PROVE  PublishedByLink'
  BY <1>1 DEF Receive, Moves, Continues, Answered
<1>2. ASSUME NEW q \in Uploads, Check(q)
      PROVE  PublishedByLink'
  BY <1>2 DEF Check, Moves, Continues, Answered
<1>3. ASSUME NEW q \in Uploads, Stage(q) \/ StageFails(q)
      PROVE  PublishedByLink'
  BY <1>3 DEF Stage, StageFails, Moves, Continues, Answered
<1>4. ASSUME NEW q \in Uploads, Find(q) \/ Fail(q)
      PROVE  PublishedByLink'
  BY <1>4 DEF Find, Fail, Moves, Continues, Answered
<1>5. ASSUME NEW q \in Uploads, Insert(q)
      PROVE  PublishedByLink'
  BY <1>5 DEF Insert, Moves, Continues, Answered
<1>6. ASSUME NEW q \in Uploads, Link(q)
      PROVE  PublishedByLink'
  BY <1>6 DEF Link, Moves, Continues, Answered
<1>7. ASSUME NEW q \in Uploads, Commit(q) \/ CommitFails(q)
      PROVE  PublishedByLink'
  BY <1>7 DEF Commit, CommitFails, Moves, Continues, Answered
<1>8. ASSUME NEW q \in Uploads, Remove(q) \/ RemoveFails(q)
      PROVE  PublishedByLink'
  BY <1>8 DEF Remove, RemoveFails, Moves, Continues, Answered
<1>9. ASSUME NEW q \in Uploads, Unpublish(q) \/ UnpublishFails(q)
      PROVE  PublishedByLink'
  BY <1>9 DEF Unpublish, UnpublishFails, Moves, Continues, Answered
<1>10. ASSUME NEW q \in Uploads, Lookup(q) \/ LookupFails(q)
      PROVE  PublishedByLink'
  BY <1>10 DEF Lookup, LookupFails, Moves, Continues, Answered
<1>11. ASSUME NEW k \in Contents, PeriodChanges(k) PROVE PublishedByLink'
  BY <1>11 DEF PeriodChanges
<1>12. ASSUME Crash PROVE PublishedByLink'
  BY <1>12 DEF Crash
<1> QED
  BY <1>1, <1>2, <1>3, <1>4, <1>5, <1>6, <1>7, <1>8, <1>9, <1>10, <1>11, <1>12 DEF ImportNext, Step

(* What explains a file still does, if the upload that moves keeps it.     *)
LEMMA ExplainedStays ==
  ASSUME NEW q \in Uploads, batches \subseteq batches', upload' = upload,
         \A r \in Uploads \ {q} : UNCHANGED <<pc[r], answer[r], published[r]>>,
         published[q] => published'[q] /\ Keeps(q)',
         NEW c, Explained(c)
  PROVE  Explained(c)'
BY DEF Explained, Keeps, ContentOf

(* An upload that published a file commits it, takes it back or keeps it.  *)
LEMMA FilesKept ==
  ASSUME ImportInv, ImportNext
  PROVE  FilesExplained'
<1> USE DEF ImportInv, ImportTypeOK, FilesExplained, Explained, Keeps, PublishedByLink, AnswersFollow,
   ContentOf, RowOf, InTransaction, Handled, Ended, storage
<1>1. ASSUME NEW q \in Uploads, Receive(q)
      PROVE  FilesExplained'
  BY <1>1 DEF Receive, Moves, Continues, Answered
<1>2. ASSUME NEW q \in Uploads, Check(q)
      PROVE  FilesExplained'
  BY <1>2 DEF Check, Moves, Continues, Answered
<1>3. ASSUME NEW q \in Uploads, Stage(q) \/ StageFails(q)
      PROVE  FilesExplained'
  BY <1>3 DEF Stage, StageFails, Moves, Continues, Answered
<1>4. ASSUME NEW q \in Uploads, Find(q) \/ Fail(q)
      PROVE  FilesExplained'
  BY <1>4 DEF Find, Fail, Moves, Continues, Answered
<1>5. ASSUME NEW q \in Uploads, Insert(q)
      PROVE  FilesExplained'
  BY <1>5 DEF Insert, Moves, Continues, Answered
<1>6. ASSUME NEW q \in Uploads, Link(q)
      PROVE  FilesExplained'
  <2>1. /\ pc[q] = "inserted" /\ pc'[q] = "linked" /\ UNCHANGED <<batches, upload, answer>>
        /\ \A r \in Uploads \ {q} : UNCHANGED <<pc[r], answer[r], published[r]>>
        /\ files' = files \cup {ContentOf(q)} /\ published'[q] = (ContentOf(q) \notin files)
    BY <1>6 DEF Link, Moves
  <2>2. ~published[q]
    BY <2>1
  <2>3. ASSUME NEW c \in files PROVE Explained(c)'
    <3>1. Explained(c)
      OBVIOUS
    <3> HIDE DEF Explained, Keeps
    <3> QED  BY <2>1, <2>2, <3>1, ExplainedStays
  <2>4. ContentOf(q) \notin files => Explained(ContentOf(q))'
    BY <2>1
  <2> QED  BY <2>1, <2>3, <2>4
<1>7. ASSUME NEW q \in Uploads, Commit(q) \/ CommitFails(q)
      PROVE  FilesExplained'
  BY <1>7 DEF Commit, CommitFails, Moves, Continues, Answered
<1>8. ASSUME NEW q \in Uploads, Remove(q) \/ RemoveFails(q)
      PROVE  FilesExplained'
  <2>1. /\ pc[q] \in {"committed", "replayed", "duplicate", "failed"}
        /\ UNCHANGED <<batches, upload, files, published>>
        /\ \A r \in Uploads \ {q} : UNCHANGED <<pc[r], answer[r], published[r]>>
    BY <1>8 DEF Remove, RemoveFails, Moves, Continues, Answered
  <2>2. CASE published[q]
    <3>1. pc[q] \in {"committed", "failed"}
      BY <2>1, <2>2
    <3>2. CASE pc'[q] \in {"failed", "unpublish"} \/ answer'[q] = "unremoved"
      <4>1. Keeps(q)' /\ published'[q]
        BY <2>1, <2>2, <3>2
      <4> HIDE DEF Keeps, Explained
      <4> QED  BY <2>1, <4>1, ExplainedStays DEF FilesExplained
    <3>3. CASE pc'[q] = "answered" /\ answer'[q] # "unremoved"
      <4>1. pc[q] = "committed"
        BY <1>8, <2>2, <3>1, <3>3 DEF Remove, RemoveFails, Moves, Continues, Answered
      <4>2. RowOf(q) \in batches
        BY <4>1
      <4>3. Explained(ContentOf(q))'
        BY <2>1, <4>2
      <4>4. ASSUME NEW c \in files, c # ContentOf(q) PROVE Explained(c)'
        BY <2>1, <4>4
      <4> QED  BY <2>1, <4>3, <4>4
    <3>4. pc'[q] \in {"failed", "unpublish", "answered"}
      BY <1>8, <2>2, <3>1 DEF Remove, RemoveFails, Moves, Continues, Answered
    <3> QED  BY <3>2, <3>3, <3>4
  <2>3. CASE ~published[q]
    <3> HIDE DEF Keeps, Explained
    <3> QED  BY <2>1, <2>3, ExplainedStays DEF FilesExplained
  <2> QED  BY <2>2, <2>3
<1>9. ASSUME NEW q \in Uploads, Unpublish(q) \/ UnpublishFails(q)
      PROVE  FilesExplained'
  BY <1>9 DEF Unpublish, UnpublishFails, Moves, Continues, Answered
<1>10. ASSUME NEW q \in Uploads, Lookup(q) \/ LookupFails(q)
      PROVE  FilesExplained'
  BY <1>10 DEF Lookup, LookupFails, Moves, Continues, Answered
<1>11. ASSUME NEW k \in Contents, PeriodChanges(k) PROVE FilesExplained'
  BY <1>11 DEF PeriodChanges
<1>12. ASSUME Crash PROVE FilesExplained'
  BY <1>12 DEF Crash
<1> QED
  BY <1>1, <1>2, <1>3, <1>4, <1>5, <1>6, <1>7, <1>8, <1>9, <1>10, <1>11, <1>12 DEF ImportNext, Step

(* Every way out of the transaction tries to remove the staged file.       *)
LEMMA StagedKept ==
  ASSUME ImportInv, ImportNext
  PROVE  StagedInTime'
<1> USE DEF ImportInv, ImportTypeOK, StagedInTime, AnswersFollow, InTransaction, Handled, Ended,
   storage
<1>1. ASSUME NEW q \in Uploads, Receive(q)
      PROVE  StagedInTime'
  BY <1>1 DEF Receive, Moves, Continues, Answered
<1>2. ASSUME NEW q \in Uploads, Check(q)
      PROVE  StagedInTime'
  BY <1>2 DEF Check, Moves, Continues, Answered
<1>3. ASSUME NEW q \in Uploads, Stage(q) \/ StageFails(q)
      PROVE  StagedInTime'
  BY <1>3 DEF Stage, StageFails, Moves, Continues, Answered
<1>4. ASSUME NEW q \in Uploads, Find(q) \/ Fail(q)
      PROVE  StagedInTime'
  BY <1>4 DEF Find, Fail, Moves, Continues, Answered
<1>5. ASSUME NEW q \in Uploads, Insert(q)
      PROVE  StagedInTime'
  BY <1>5 DEF Insert, Moves, Continues, Answered
<1>6. ASSUME NEW q \in Uploads, Link(q)
      PROVE  StagedInTime'
  BY <1>6 DEF Link, Moves, Continues, Answered
<1>7. ASSUME NEW q \in Uploads, Commit(q) \/ CommitFails(q)
      PROVE  StagedInTime'
  BY <1>7 DEF Commit, CommitFails, Moves, Continues, Answered
<1>8. ASSUME NEW q \in Uploads, Remove(q) \/ RemoveFails(q)
      PROVE  StagedInTime'
  BY <1>8 DEF Remove, RemoveFails, Moves, Continues, Answered
<1>9. ASSUME NEW q \in Uploads, Unpublish(q) \/ UnpublishFails(q)
      PROVE  StagedInTime'
  BY <1>9 DEF Unpublish, UnpublishFails, Moves, Continues, Answered
<1>10. ASSUME NEW q \in Uploads, Lookup(q) \/ LookupFails(q)
      PROVE  StagedInTime'
  BY <1>10 DEF Lookup, LookupFails, Moves, Continues, Answered
<1>11. ASSUME NEW k \in Contents, PeriodChanges(k) PROVE StagedInTime'
  BY <1>11 DEF PeriodChanges
<1>12. ASSUME Crash PROVE StagedInTime'
  BY <1>12 DEF Crash
<1> QED
  BY <1>1, <1>2, <1>3, <1>4, <1>5, <1>6, <1>7, <1>8, <1>9, <1>10, <1>11, <1>12 DEF ImportNext, Step

(* A late upload ends at the check.                                        *)
LEMMA LateKept ==
  ASSUME ImportInv, ImportNext
  PROVE  LateWait'
<1> USE DEF ImportInv, ImportTypeOK, LateWait, RowsFromUploads, ContentOf, RowOf, InTransaction,
   Handled, Ended, storage
<1>1. ASSUME NEW q \in Uploads, Receive(q)
      PROVE  LateWait'
  BY <1>1 DEF Receive, Moves, Continues, Answered
<1>2. ASSUME NEW q \in Uploads, Check(q)
      PROVE  LateWait'
  BY <1>2 DEF Check, Moves, Continues, Answered
<1>3. ASSUME NEW q \in Uploads, Stage(q) \/ StageFails(q)
      PROVE  LateWait'
  BY <1>3 DEF Stage, StageFails, Moves, Continues, Answered
<1>4. ASSUME NEW q \in Uploads, Find(q) \/ Fail(q)
      PROVE  LateWait'
  BY <1>4 DEF Find, Fail, Moves, Continues, Answered
<1>5. ASSUME NEW q \in Uploads, Insert(q)
      PROVE  LateWait'
  BY <1>5 DEF Insert, Moves, Continues, Answered
<1>6. ASSUME NEW q \in Uploads, Link(q)
      PROVE  LateWait'
  BY <1>6 DEF Link, Moves, Continues, Answered
<1>7. ASSUME NEW q \in Uploads, Commit(q) \/ CommitFails(q)
      PROVE  LateWait'
  BY <1>7 DEF Commit, CommitFails, Moves, Continues, Answered
<1>8. ASSUME NEW q \in Uploads, Remove(q) \/ RemoveFails(q)
      PROVE  LateWait'
  BY <1>8 DEF Remove, RemoveFails, Moves, Continues, Answered
<1>9. ASSUME NEW q \in Uploads, Unpublish(q) \/ UnpublishFails(q)
      PROVE  LateWait'
  BY <1>9 DEF Unpublish, UnpublishFails, Moves, Continues, Answered
<1>10. ASSUME NEW q \in Uploads, Lookup(q) \/ LookupFails(q)
      PROVE  LateWait'
  BY <1>10 DEF Lookup, LookupFails, Moves, Continues, Answered
<1>11. ASSUME NEW k \in Contents, PeriodChanges(k) PROVE LateWait'
  BY <1>11 DEF PeriodChanges
<1>12. ASSUME Crash PROVE LateWait'
  BY <1>12 DEF Crash
<1> QED
  BY <1>1, <1>2, <1>3, <1>4, <1>5, <1>6, <1>7, <1>8, <1>9, <1>10, <1>11, <1>12 DEF ImportNext, Step


-----------------------------------------------------------------------------

LEMMA InvInitial == ImportInit => ImportInv
BY DEF ImportInit, ImportInv, ImportTypeOK, RowsFromUploads, OneBatchPerKey, InsertionsAreUnique,
   AnswersFollow, LinksStored, FilesExplained, PublishedByLink, StagedInTime, LateWait, Holds, Handled,
   Ended, Answers, Batch

LEMMA InvPreserved == ImportInv /\ [ImportNext]_importVars => ImportInv'
<1>1. ASSUME ImportInv, ImportNext PROVE ImportInv'
  BY <1>1, TypesKept, RowsKept, KeysKept, InsertionsKept, AnswersKept, LinksKept, FilesKept,
     PublishersKept, StagedKept, LateKept
  DEF ImportInv
<1>2. ASSUME ImportInv, UNCHANGED importVars PROVE ImportInv'
  BY <1>2 DEF importVars, storage, ImportInv, ImportTypeOK, RowsFromUploads, OneBatchPerKey,
     InsertionsAreUnique, AnswersFollow, LinksStored, StoredOrLost, FilesExplained, Explained, Keeps,
     PublishedByLink, StagedInTime, LateWait, Holds,
     RowOf, SameKey, Exists, ContentOf
<1> QED
  BY <1>1, <1>2

LEMMA ImportInvariant == ImportSpec => []ImportInv
<1> QED
  BY InvInitial, InvPreserved, PTL DEF ImportSpec

(* Type correctness of importCsv.                                          *)
THEOREM ImportTypeCorrect == ImportSpec => []ImportTypeOK
<1>1. ImportInv => ImportTypeOK
  BY DEF ImportInv
<1> QED
  BY <1>1, ImportInvariant, PTL

(* However many uploads of one content arrive together, fail or are sent   *)
(* again, a data source has one batch of it: the unique key of             *)
(* import_batches and the replay after a violation of it suffice.          *)
THEOREM ImportedOnce == ImportSpec => []OneBatchPerKey
<1>1. ImportInv => OneBatchPerKey
  BY DEF ImportInv
<1> QED
  BY <1>1, ImportInvariant, PTL

(* "committed" and "replayed" are true when told and ever after.           *)
THEOREM ImportAnswersAreTrue == ImportSpec => []AnswersAreTrue
<1>1. ImportInv => AnswersAreTrue
  BY DEF ImportInv, ImportTypeOK, AnswersFollow, RowsFromUploads, AnswersAreTrue, RowOf
<1> QED
  BY <1>1, ImportInvariant, PTL

(* A committed batch without its file was published by an upload that took *)
(* the file back and was answered with an error, after its COMMIT failed   *)
(* or, the COMMIT done, the unlink of its staged file; and only uploads    *)
(* that crashed or could not unlink leave a file without a batch.          *)
THEOREM FilesAlwaysMatchBatches == ImportSpec => []FilesMatchBatches
<1>1. ImportInv => FilesMatchBatches
  BY DEF ImportInv, LinksStored, StoredOrLost, FilesExplained, Explained, Keeps, FilesMatchBatches
<1> QED
  BY <1>1, ImportInvariant, PTL

(* A staged file outlives its upload only after a crash or an error of the *)
(* file system, and an upload that is told it was done leaves none.        *)
THEOREM StagedFilesAlwaysRemoved == ImportSpec => []StagedFilesAreRemoved
<1>1. ImportInv => StagedFilesAreRemoved
  BY DEF ImportInv, StagedInTime, StagedFilesAreRemoved, Handled, InTransaction
<1> QED
  BY <1>1, ImportInvariant, PTL

(* An upload that arrives after the lock of its period is never imported.  *)
THEOREM LateUploadsNeverImported == ImportSpec => []LateUploadsAreRejected
<1>1. ImportInv => LateUploadsAreRejected
  BY DEF ImportInv, LateWait, LateUploadsAreRejected
<1> QED
  BY <1>1, ImportInvariant, PTL

-----------------------------------------------------------------------------
(* Import implements RecordStore, for any number of uploads, data sources  *)
(* and contents: the store that Reconciliation is built on is what the     *)
(* import, with its files and its failures, really provides.               *)

StageMap == [q \in Uploads |-> StageOf(q)]

(* What the store sees does not change.                                    *)
Hidden == UNCHANGED <<upload, StageMap, batches, locked>>

LEMMA HiddenIsStutter ==
  ASSUME Hidden PROVE UNCHANGED Store!storeVars
BY DEF Hidden, StageMap, Store!storeVars

(* An upload that ends without a row, and one that ends with it.           *)
LEMMA EndsAlone ==
  ASSUME NEW q \in Uploads, StageOf(q) # "ended",
         \A r \in Uploads : StageOf(r)' = IF r = q THEN "ended" ELSE StageOf(r),
         UNCHANGED <<upload, locked, batches>>, OneBatchPerKey'
  PROVE  Store!StoreNext
<1>1. Store!End({q}, {})
  <2>1. StageMap' = [r \in Uploads |-> IF r \in {q} THEN "ended" ELSE StageMap[r]]
    BY DEF StageMap
  <2>2. StageMap[q] # "ended"
    BY DEF StageMap
  <2>3. batches' = batches \cup {Store!RowOf(r) : r \in {}}
    OBVIOUS
  <2> QED BY <2>1, <2>2, <2>3 DEF Store!End, Store!OncePerKey, Store!SameKey, OneBatchPerKey, SameKey, StageMap
<1> QED BY <1>1 DEF Store!StoreNext

LEMMA EndsCommitted ==
  ASSUME NEW q \in Uploads, StageOf(q) = "begun",
         \A r \in Uploads : StageOf(r)' = IF r = q THEN "ended" ELSE StageOf(r),
         UNCHANGED <<upload, locked>>, batches' = batches \cup {RowOf(q)}, OneBatchPerKey'
  PROVE  Store!StoreNext
<1>1. Store!End({q}, {q})
  <2>1. StageMap' = [r \in Uploads |-> IF r \in {q} THEN "ended" ELSE StageMap[r]]
    BY DEF StageMap
  <2>2. StageMap[q] = "begun"
    BY DEF StageMap
  <2>3. batches' = batches \cup {Store!RowOf(r) : r \in {q}}
    BY DEF Store!RowOf, RowOf
  <2> QED BY <2>1, <2>2, <2>3 DEF Store!End, Store!OncePerKey, Store!SameKey, OneBatchPerKey, SameKey, StageMap
<1> QED BY <1>1 DEF Store!StoreNext

LEMMA StoreInitial == ImportInit => Store!StoreInit
<1> SUFFICES ASSUME ImportInit PROVE Store!StoreInit
  OBVIOUS
<1>1. Store!Content = Content
  BY DEF Store!Content, Content
<1>2. [q \in Uploads |-> StageOf(q)] = [q \in Uploads |-> "waiting"]
  BY DEF ImportInit, StageOf
<1> QED BY <1>1, <1>2 DEF ImportInit, Store!StoreInit

-----------------------------------------------------------------------------
(* One step of one upload: the others stay where they are.                 *)
LEMMA OneMoves ==
  ASSUME ImportTypeOK, NEW q \in Uploads, NEW from, NEW to, Moves(q, from, to)
  PROVE  /\ pc[q] = from /\ pc'[q] = to
         /\ \A r \in Uploads \ {q} : StageOf(r)' = StageOf(r)
         /\ UNCHANGED <<upload, locked>>
BY DEF ImportTypeOK, Moves, StageOf

(* Steps that end an upload without a row.                                 *)
LEMMA EndingSteps ==
  ASSUME ImportInv, ImportInv', NEW q \in Uploads,
         \/ ContentOf(q) \in locked /\ Check(q)
         \/ StageFails(q) \/ Fail(q)
         \/ Exists(q) /\ (Find(q) \/ Insert(q))
         \/ CommitFails(q) /\ UNCHANGED batches
  PROVE  Store!StoreNext
<1>1. /\ pc[q] \in {"received", "checked", "staged", "found", "inserted", "linked"}
      /\ pc'[q] \in {"answered", "failed", "replayed", "duplicate"}
      /\ \A r \in Uploads \ {q} : StageOf(r)' = StageOf(r)
      /\ UNCHANGED <<upload, locked, batches>>
  BY OneMoves DEF ImportInv, Check, StageFails, Fail, Find, Insert, CommitFails, Answered, Continues, InTransaction
<1>2. StageOf(q) # "ended" /\ StageOf(q)' = "ended"
  BY <1>1 DEF StageOf
<1>3. OneBatchPerKey'
  BY DEF ImportInv
<1> QED BY <1>1, <1>2, <1>3, EndsAlone

LEMMA CommittingSteps ==
  ASSUME ImportInv, ImportInv', NEW q \in Uploads,
         Commit(q) \/ (CommitFails(q) /\ batches' = batches \cup {RowOf(q)})
  PROVE  Store!StoreNext
<1>1. /\ pc[q] = "linked" /\ pc'[q] \in {"committed", "failed"}
      /\ \A r \in Uploads \ {q} : StageOf(r)' = StageOf(r)
      /\ UNCHANGED <<upload, locked>> /\ batches' = batches \cup {RowOf(q)}
  BY OneMoves DEF ImportInv, Commit, CommitFails
<1>2. StageOf(q) = "begun" /\ StageOf(q)' = "ended"
  BY <1>1 DEF StageOf
<1>3. OneBatchPerKey'
  BY DEF ImportInv
<1> QED BY <1>1, <1>2, <1>3, EndsCommitted

LEMMA AdmitStep ==
  ASSUME ImportInv, NEW q \in Uploads, ContentOf(q) \notin locked, Check(q)
  PROVE  Store!Admit(q)
<1>1. /\ pc[q] = "received" /\ pc'[q] = "checked"
      /\ \A r \in Uploads \ {q} : StageOf(r)' = StageOf(r)
      /\ UNCHANGED <<upload, locked, batches>>
  BY OneMoves DEF ImportInv, Check, Continues
<1>2. StageMap[q] = "waiting" /\ StageMap' = [StageMap EXCEPT ![q] = "admitted"]
  BY <1>1 DEF StageMap, StageOf
<1> QED BY <1>1, <1>2 DEF Store!Admit, ContentOf, StageMap

LEMMA BeginStep ==
  ASSUME ImportInv, NEW q \in Uploads, ~Exists(q), Find(q)
  PROVE  Store!BeginImport(q)
<1>1. /\ pc[q] = "staged" /\ pc'[q] = "found"
      /\ \A r \in Uploads \ {q} : StageOf(r)' = StageOf(r)
      /\ UNCHANGED <<upload, locked, batches>>
  BY OneMoves DEF ImportInv, Find, Continues
<1>2. StageMap[q] = "admitted" /\ StageMap' = [StageMap EXCEPT ![q] = "begun"]
  BY <1>1 DEF StageMap, StageOf
<1> QED BY <1>1, <1>2 DEF Store!BeginImport, StageMap

(* Steps between those that the store sees.                                *)
LEMMA HiddenSteps ==
  ASSUME ImportInv, NEW q \in Uploads,
         \/ Receive(q) \/ Stage(q) \/ Link(q) \/ Removes(q) \/ Lookup(q) \/ LookupFails(q)
         \/ ~Exists(q) /\ Insert(q)
  PROVE  Hidden
<1>1. CASE Receive(q)
  BY <1>1 DEF Receive, ImportInv, ImportTypeOK, Hidden, StageMap, StageOf
<1>2. CASE Stage(q) \/ Link(q) \/ (~Exists(q) /\ Insert(q))
  <2>1. /\ pc[q] \in {"checked", "inserted", "found"}
        /\ pc'[q] = IF pc[q] = "checked" THEN "staged" ELSE IF pc[q] = "found" THEN "inserted" ELSE "linked"
        /\ \A r \in Uploads \ {q} : StageOf(r)' = StageOf(r)
        /\ UNCHANGED <<upload, locked, batches>>
    BY <1>2, OneMoves DEF ImportInv, Stage, Link, Insert, Continues
  <2>2. StageOf(q)' = StageOf(q)
    BY <2>1 DEF StageOf
  <2> QED BY <2>1, <2>2 DEF Hidden, StageMap
<1>3. CASE Removes(q) \/ Lookup(q) \/ LookupFails(q)
  <2>1. /\ pc[q] \in {"committed", "replayed", "duplicate", "failed", "unpublish", "lookup"}
        /\ pc'[q] \in {"answered", "lookup", "unpublish", "failed"}
        /\ \A r \in Uploads \ {q} : StageOf(r)' = StageOf(r)
        /\ UNCHANGED <<upload, locked, batches>>
    BY <1>3, OneMoves DEF ImportInv, Removes, Remove, RemoveFails, Unpublish, UnpublishFails,
       Lookup, LookupFails, Answered, Continues
  <2>2. StageOf(q)' = StageOf(q)
    BY <2>1 DEF StageOf
  <2> QED BY <2>1, <2>2 DEF Hidden, StageMap
<1> QED BY <1>1, <1>2, <1>3

(* A crash ends every upload that is being handled, and some commit.       *)
LEMMA CrashStep ==
  ASSUME ImportInv, ImportInv', Crash
  PROVE  Store!StoreNext
<1> DEFINE dying == {q \in Uploads : pc[q] \in Handled /\ StageOf(q) # "ended"}
<1>1. PICK done \in SUBSET {q \in Uploads : pc[q] = "linked"} :
        batches' = batches \cup {RowOf(q) : q \in done}
  BY DEF Crash
<1>2. dying \in SUBSET Uploads /\ done \in SUBSET Uploads
  OBVIOUS
<1>3. \A q \in dying : StageMap[q] # "ended"
  BY DEF StageMap
<1>4. done \subseteq dying /\ \A q \in done : StageMap[q] = "begun"
  BY DEF StageMap, StageOf, Handled, InTransaction
<1>5. StageMap' = [q \in Uploads |-> IF q \in dying THEN "ended" ELSE StageMap[q]]
  <2>1. ASSUME NEW q \in Uploads
        PROVE  StageOf(q)' = IF q \in dying THEN "ended" ELSE StageOf(q)
    <3>1. CASE pc[q] \in Handled
      BY <3>1 DEF Crash, ImportInv, ImportTypeOK, StageOf
    <3>2. CASE pc[q] \notin Handled
      BY <3>2 DEF Crash, ImportInv, ImportTypeOK, StageOf
    <3> QED BY <3>1, <3>2
  <2> QED BY <2>1 DEF StageMap
<1>6. batches' = batches \cup {Store!RowOf(q) : q \in done}
  BY <1>1 DEF Store!RowOf, RowOf
<1>7. OneBatchPerKey' /\ UNCHANGED <<upload, locked>>
  BY DEF ImportInv, Crash
<1>8. Store!End(dying, done)
  BY <1>3, <1>4, <1>5, <1>6, <1>7
  DEF Store!End, Store!OncePerKey, Store!SameKey, OneBatchPerKey, SameKey, StageMap
<1> QED BY <1>2, <1>8 DEF Store!StoreNext

LEMMA StoreStep == ImportInv /\ ImportInv' /\ [ImportNext]_importVars => [Store!StoreNext]_(Store!storeVars)
<1> SUFFICES ASSUME ImportInv, ImportInv', [ImportNext]_importVars
             PROVE  [Store!StoreNext]_(Store!storeVars)
  OBVIOUS
<1>1. ASSUME UNCHANGED importVars PROVE Hidden
  BY <1>1 DEF importVars, Hidden, StageMap, StageOf
<1>2. ASSUME NEW q \in Uploads, Check(q) PROVE Store!StoreNext
  BY <1>2, EndingSteps, AdmitStep DEF Store!StoreNext
<1>3. ASSUME NEW q \in Uploads, Find(q) PROVE Store!StoreNext
  BY <1>3, EndingSteps, BeginStep DEF Store!StoreNext
<1>4. ASSUME NEW q \in Uploads, StageFails(q) \/ Fail(q) PROVE Store!StoreNext
  BY <1>4, EndingSteps
<1>5. ASSUME NEW q \in Uploads, Insert(q) PROVE Store!StoreNext \/ Hidden
  BY <1>5, EndingSteps, HiddenSteps
<1>6. ASSUME NEW q \in Uploads, Commit(q) \/ CommitFails(q) PROVE Store!StoreNext
  BY <1>6, EndingSteps, CommittingSteps DEF CommitFails
<1>7. ASSUME NEW q \in Uploads,
             \/ Receive(q) \/ Stage(q) \/ Link(q) \/ Removes(q) \/ Lookup(q) \/ LookupFails(q)
      PROVE  Hidden
  BY <1>7, HiddenSteps
<1>8. ASSUME NEW c \in Contents, PeriodChanges(c) PROVE Store!StoreNext
  <2>1. locked' \in SUBSET Contents /\ UNCHANGED <<upload, batches, StageMap>>
    BY <1>8 DEF PeriodChanges, ImportInv, ImportTypeOK, StageMap, StageOf
  <2> QED BY <2>1 DEF Store!StoreNext, Store!PeriodsChange, StageMap
<1>9. ASSUME Crash PROVE Store!StoreNext
  BY <1>9, CrashStep
<1> QED
  BY <1>1, <1>2, <1>3, <1>4, <1>5, <1>6, <1>7, <1>8, <1>9, HiddenIsStutter DEF ImportNext, Step, Removes

(* importCsv, with its staged file, its unique key, its compensation, its  *)
(* lost connections and its crashes, takes each upload whole and once, or  *)
(* not at all: all that reconciliation relies on.                          *)
THEOREM ImportRefinesStore == ImportSpec => ImplementsStore
<1> QED
  BY StoreInitial, StoreStep, ImportInvariant, PTL DEF ImportSpec, ImplementsStore, Store!StoreSpec
===============================================================================
