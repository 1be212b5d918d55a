# A verification model of HyperRecon

TLA+ specifications of the cross-border reconciliation service in this repository, checked with TLC
and, where a result should hold for every size, proved with TLAPS. Paths below are relative to the
repository root; `exception-service:62` means line 62 of `src/exception-service.mjs`.

## 1. The system

A Node.js service over PostgreSQL, and a browser console. Tenants import files of records from payment
providers and banks, match them in reconciliation runs, work through what does not match, and lock
accounting periods. Processes share nothing but the database: every coordination is a transaction, a row
lock, an advisory lock, a unique index, or a version number that a client sends back.

| Component | State it keeps | Operations | Talks to |
|---|---|---|---|
| Exception workflow (`exception-service`) | rows of `recon_exceptions` (status, owner, resolver, `workflow_version`), proposals, decisions, notes, adoptions, checklist items, audit rows | claim, release, note, submit, approve/reject, adopt a suggestion, add/update an item | reads runs and exceptions of replacement runs |
| Period close (`close-service`) | `close_periods`, `close_period_runs` | create, close, reopen, `assertPeriodWritable` | reads runs, exceptions, approved proposals; imports ask it |
| Reconciliation run (`recon-service`) | `recon_runs`, `match_groups`, `record_allocations`, new exceptions | `runReconciliation` with an idempotency key | reads canonical records while imports commit; calls matching; runs are selected by a close |
| Matching (`matching`) | none (pure) | `matchRecords` | called by the run |
| Import (`import-service`, `csv`) | `import_batches`, `raw_rows`, `canonical_records`, files named by content | `importCsv` | asks the close whether dates are writable |
| AI suggestions (`ai-suggestion-service`, `ai-service`) | suggestions in `audit_events` | generate, over one HTTP call to a provider | reads session, member and exception before the call, stores after it |
| Review console (`public/console/app.js`, `role-model.js`) | session with its role, selected exception, rendered detail | login, open, and the nine forms of the exception page | HTTP requests to the server |
| Server, sessions, database helpers | sessions, members and their roles | authorization per route, `withTransaction` | all of the above |
| Migrations, seed, demo period | schema; demo rows | run at start or by hand | all tables |

What is hard about it:

* **Reads without locks.** A handler locks one row (the exception, or the period) and relies on others it
  only reads: the replacement run and its exceptions (`exception-service:338`), the runs, exceptions and
  approvals of a close (`close-service:35-64`). At READ COMMITTED each statement sees another moment.
* **Versions travel through a browser.** Handlers compare `workflow_version` with the one a client was
  shown; responses arrive late, out of order or never, and the detail is put together from several queries.
* **Time inside a request.** A suggestion waits for a provider between reading and writing; a run's snapshot
  is older than the lock it waits for; a COMMIT may take effect without its answer arriving.
* **Long sequences.** Proposals are rejected and submitted again, checklists grow under review, members
  change role in between, replacement runs are themselves replaced, periods are locked and reopened.
* **Locks of several kinds** in several orders (`close-service:7,30,83,87`; `recon-service:16`), and a
  file system that takes no part in the transactions (`import-service`).

What makes each component correct, in a sentence: the *workflow* resolves an exception only by the
decision of a second person about finished work, and its versions, history and checklist tell the truth;
the *ledger* of resolutions always leaves a period a run that can be closed; the *close* locks only
completed, clean, current runs, in one numbered chain of versions that never changes afterwards; the
*console* decides what its user was looking at; an *import* publishes a file and its records together or
not at all, never into a locked period; a *run* reads one determinate set of records, once per key; an *AI
suggestion* is about the exception as it still is;
*matching* conserves amounts and matches only what is unambiguous.

`PROJECT.json` lists the hazards at their lines, with the properties that cover them.

## 2. The modules

| Abstract specification | Implemented by | Used by |
|---|---|---|
| `ResolutionLedger`: which runs ended how, which exceptions were resolved by which replacement run | `ExceptionWorkflow` | `PeriodClose` (EXTENDS) |
| `PeriodVersions`: the numbered, open or locked versions of a period | `PeriodClose` | `Reconciliation` (INSTANCE, and shown to keep it) |
| `RecordStore`: uploads committed whole and once | `Import` | `Reconciliation` (EXTENDS) |
| `ExceptionWorkflow`: what a stored suggestion may be | `AiSuggestion` (EXTENDS, with its own store) | `ReviewConsole` (EXTENDS) |

`Matching` stands alone.

Proofs are in modules of their own, each extending what it is about: `ResolutionLedgerProofs`,
`PeriodCloseProofs`, `ExceptionWorkflowProofs` (with the refinement of the ledger), `ClientProofs` (of
`AiSuggestion` and `ReviewConsole`, the two clients of the workflow), `ImportProofs` (with the refinement of
the store), `ReconciliationProofs`, `MatchingProofs`, and `FoldLemmas`, which the workflow and matching share.

**ResolutionLedger** is the abstract specification: `runStatus` and the `resolution` of each exception,
which is nothing yet, no run, or a replacement run. Runs end; `Approve` resolves an exception if its
replacement is valid now. It is what the close depends on, and small enough to prove things about.

**ExceptionWorkflow** has one action per handler of `exception-service`. Each handler locks the row of the
exception (`LockedException`) and publishes everything in one COMMIT, so it is one atomic action; its guard is
the conjunction of its early errors, and `Records` is the increment of the version plus the audit row that
each mutation ends with. `proposals[e]` is a sequence because `proposal_version` counts from 1; decisions,
items and adoptions are sets of rows. The role of a member may change between any two steps (`ChangeRole`, the
upsert of `demo-seed:42` and any administration of the same table). `StoreSuggestion` is the final transaction
of `generateExceptionSuggestion`, of which `AiSuggestion` has the rest. Texts (notes, summaries, reasons, item
results) carry no control and are left out; a suggestion is a sequence of steps, and the two things that make
`normalizeSteps` refuse one, a repetition and a step too short, are kept. A claim that only repeats what is
already so writes nothing and is a stuttering step.

**AiSuggestion** is `POST ai-suggestions` step by step: the two session checks of `requireIdentity`, which
read at different moments; the two concurrent queries of the evidence; the call, whose timer is cleared when
the headers arrive (`ai-service:37`); the body and its validation; and the transaction that compares the
version read at first. Members log out, change role and work on the exception meanwhile; the server may die
and the COMMIT's answer be lost. It extends the workflow without using its `StoreSuggestion`, and is checked
to implement it. What the evidence says beyond version and status, and the prompt, are left out.

**ReviewConsole** adds the page in front of the workflow: `selected` is `state.selectedExceptionId`, set
before the request (`app.js:338`); a fetch reads the row, then the history (as one step, although the code
reads it in several statements at once), then renders. `FormsOf` is which of the nine forms the page shows,
by the detail and by the role remembered at login; `Submitted` is what a form posts: the selected exception,
and everything else from the screen. An accepted form makes the page load everything again and then show the
exception that was selected before that (`Refresh`, `ShowAgain`). Requests and responses overlap up to
`MaxRequests`, arrive in any order or are lost. Other users work through their own clients (`Elsewhere`).

**PeriodClose** goes below the transaction: each statement of the three operations is a step, since they
read different moments and take different locks. `pc` says what a request executed last; who holds which
lock follows from it (`AdvisoryFree`, `RowFree`), because these locks are held until the transaction ends.
Unique indexes are the test in `Inserts`. `Abort` is a crash, a lost connection or a failing statement at
any point. Clients only name periods and versions that exist. Runs end and resolutions are approved
between any two statements (`LedgerNext`). The contents of the manifest are in `Reconciliation`, where runs
have records. `QuietSpec` is the same system while nothing is approved of the runs a close has selected
between two of its checks (`Undisturbed`); it serves to show that this is the only window.

**PeriodVersions** is what the close promises to everyone else: `Create`, `Reopen` and `Lock` are one step
each, the lock over rows of `closable`, the runs that are completed and clean at that moment. `Writable` is
the query of `assertPeriodWritable`. `PeriodClose!ImplementsVersions` is the refinement; it maps `closable`
to the runs that the ledger has as completed and clean.

**Matching** is `matchRecords` with one action per record visited, so that what the rounds do to the same
remainders is a history of states and not one expression. Records are numbered in the order of
`compareState`, sources first; `left` holds those the current loop has still to visit. `SearchBelow` is the
depth-first search of `uniqueSubset` with its cuts, a recursive function of where the search starts, since
the code recurses with a larger start only. `dedupeIssues` is why `issues` is a set. An allocation
that `allocateGroup` refuses leads to `round = "error"`, which a property excludes; a budget that runs out
loses the whole result, as the exception does. Identifiers are numbers, 0 for an empty field.

**Import** is `importCsv` of several uploads in one process. `pc` says how far a handler has come; an upload
is in the transaction from `found` to `linked`, and an INSERT of a key that another one has inserted waits
(`Waits`). The file system takes no part in the transaction: `Link` publishes at once, `Unpublish` takes
back. `Fail` is any failing statement before the COMMIT, `CommitFails` a COMMIT that is refused, or executed
without its answer arriving. `safeRemove` passes every error of unlink but ENOENT on: `RemoveFails` sends an
upload that was done to the catch, like a failed one, and in the catch is the end, without compensation or
lookup; `UnpublishFails` leaves the published file. A file whose unlink fails stays. `Crash` ends all handlers
and leaves the files as they are. `PeriodChanges` locks and reopens the period of a content's records: that
the check runs outside the transaction means that an upload checked before a lock may commit after it. A
client that repeats an upload is one more upload.

**RecordStore** is what the import promises: an upload is admitted while its period is writable, begins a
transaction, which fixes `created_at` of its records, and ends with all of them committed or none, once per
content of a data source. `Import!ImplementsStore` is the refinement (`StageOf` maps the statements).

**Reconciliation** extends the store with `runReconciliation`. A transaction knows three things, taken at two
moments: the uploads not above its highwater (BEGIN, `recon-service:20`), and the batches and runs of its
snapshot, which REPEATABLE READ takes at its first query, the one that then waits for the advisory lock of the
key (line 16). `RunInsert` is the lookup and the INSERT with its unique key: replay, conflict or a row. A
highwater is the set of uploads below it, not a number: nothing else is asked of a clock. It passes through a
JavaScript Date, which drops the microseconds that `created_at` keeps, so any of the uploads begun may be too
recent to be below it, even committed ones; that this may be an earlier upload without a later one is more
than a clock does, and harmless. `RunEnds` covers the end of the matching, including the failed run that
exceeds the budget; `RunRejectsRecord` is `projectRecord` throwing, which undoes the run. The matcher is
reduced to its plainest case, equal contents of two data sources cancel out: which records a run sees, and
whether each has its counterpart, is what the properties tell apart; how matching finds them is the module
`Matching`. The period's versions are those of `PeriodVersions`: `OpenVersion` and `Lock` take its steps, and
add what is theirs here, the files that `buildSnapshot` lists in the manifest and what imports are told from
then on (`TellsImports`). Exceptions are resolved run by run. That what may be closed stays so, which
`PeriodVersions` assumes of the rest of the system, is part of `ImplementsVersions`.

The definitions marked *Mistake* in the modules are not used by the specifications. Each is what its
neighbour would be with a plausible bug in the code, and the entry in `PROJECT.json` names the property
that fails when it takes the neighbour's place.

## 3. What is checked

| Run | Question | Bounds and why they are enough |
|---|---|---|
| `workflow_checklist` | do review, four eyes, checklist, audit trail, version and history of an exception stay consistent, and does the workflow implement the ledger? | one exception (handlers touch one) of one run, and a second run of the period as replacement, which completes or fails; an operator, a member who is operator and reviewer in turn, an admin; up to 5 mutations: claim, item or adoption, its completion, submission, decision; one suggestion out of a usable and a repetitive one |
| `ai_suggestions` | is a suggestion about the exception as it still is, is each accounted for, and do requests end? | two requests, of a reviewer who may become auditor and of that member or the operator; 3 mutations: claim, submit, decide, so that an exception may be resolved while the provider answers |
| `console_review` | does a form meet the exception as shown, and are the forms of the page those the server accepts? | one page whose user is operator or admin, an operator elsewhere; two requests in flight, which a torn or overtaken response needs; three mutations, one item, one suggestion |
| `console_wrong_exception` | is the exception decided the one on screen? **violated** | two exceptions |
| `close_versions` | numbering, what imports are told, deadlock of create/reopen/close; is each request one step of `PeriodVersions`, or none? | three requests at once, which a circle of the two kinds of lock or a duplicate number would need at most; two versions before new ones are refused (a third may still come of requests under way); one run with an exception, so that what may be closed changes meanwhile |
| `close_runs` | what may a close lock, is it superseded later; do replacements stay valid, without circles, leaving a run that can be closed? | one close over any of four runs, of which two have exceptions and may replace each other, two share a record and one is of another period |
| `close_superseded` | is a superseded run ever locked? **violated** | two runs, one exception, one request |
| `matching` | conservation, justification and uniqueness of what is allocated? | all amounts up to 3 of three sources and two targets: 1+2, 1+1+1 and their ambiguities; the last records a day later or in another currency; fewer candidates than sources allowed; with and without partial allocation, identifiers, missing ones |
| `matching_amount_only` | is a match by amount unique? **violated** | two sources, one target |
| `import` | do batches, files and answers agree through failures and crashes, and does the import implement the store? | three uploads of one content, the third to the same data source as the others or to another: one fails while the second waits and the third relies on the file; which of the three it is makes no difference |
| `import_lost_commit` | does a committed batch have its file? **violated** | two uploads |
| `reconciliation` | one run per key, true answers, a reproducible input, balanced manifests, versions as promised, waits that end? | two run requests with the same or different keys; two uploads (one content twice is the question of `import`): for requests of different keys the two sides of a match, for requests of one key one side and a record of amount zero, since which of them makes the run does not depend on what it matches; one lock with a reopening |

`CHECK_DEADLOCK FALSE` everywhere: the bounds stop the counters, and a system whose exceptions are all
resolved, or to which nobody sends requests, does stop. That no request waits for ever is checked as a
liveness property instead.

*Workflow.* `PendingHasOneUndecided` ties the status to the outer join the decision uses.
`ResolvedByIndependentReview` is four eyes over role changes. `ReviewedWorkIsFinished` says no required
item is open under review or after it. `ChecklistFollowsAdoptions` says the checklist holds the steps
of each adoption once. `TrailExplainsRow` replays the audit trail and gets the row. `ChangesMoveVersion` is
what optimistic locking needs of every handler, including that a repeated request is refused.
`OwnershipIsHandedBack` and `HistoryOnlyGrows` are what no step may do. `ImplementsLedger` is refinement.

*AI suggestions.* `ImplementsWorkflow`: although sessions, roles and the exception change while the provider
answers, each stored suggestion is one that the workflow, which knows no delay, would have stored in that
state; in particular none reaches a resolved exception, whose status the transaction does not look at.
`SuggestionsAreAccounted`: stored suggestions and requests that were told so, or lost their answer at the
end, agree in number. `AsksEnd`: a request ends or is reading a body.

*Console.* `ActsOnWhatIsShown`: a form accepted by the exception it was shown with finds row, proposals,
checklist and open suggestions as they were on the screen, however the detail was put together.
`FormsFitServer` compares two rule books, the page's and the handlers': on an up-to-date page each form is
accepted in some way (`ENABLED`), and a form that is missing would be refused. The differences that exist
are named in `RefusedOnly` and `ElsewhereOnly`; `BeyondBound` is the bound on items, which is the model's and
not the server's.

*Ledger and close.* `ReplacementsStayValid`, `NoSupersessionCycle`, `SupersededHasClosableRun`;
`VersionsFormChain`, `CreateNeverConflicts`, `LockedRunsAreClean`.
`LockedRunsStayCurrent`: a run that is not superseded when its close has found it clean is never superseded
later, so that finding 2 has one window and no other. `WritableExactlyWhileOpen`: the query that refuses
imports, over all versions, comes to whether one is open. `ImplementsVersions`: the checks of a close read at
different moments, and yet what it locks could be closed at the moment of the lock; a locked version stays as
it is. `RequestsAreAnswered`: a request received is answered.

*Matching.* `AllocationsConserve` relates amounts, remainders and groups over all rounds.
`AllocatesTheOnlyWay` compares each step with a declarative enumeration of the ways to allocate the record:
exactly one is taken, otherwise nothing is, and no assertion of the code fails. `GroupsAreJustified` says
every group has one record that all others of it fit.

*Import.* `ImplementsStore` and `AnswersAreTrue` are atomicity and idempotence under concurrency.
`FilesMatchBatches` bounds the damage of finding 4, and says of a file without a batch whose it is: an upload
that goes on, crashed or could not unlink. `StagedFilesAreRemoved`: only a crash or an error of the file
system leaves a staged file, and then the client is told of one. `LateUploadsAreRejected`, and
`UploadsEnd`: the waits for unique keys end.

*Run.* `KeyHasOneRun`. `RunAnswersAreTrue`: an answer names a committed run of the key, also a replay and
also a conflict. `ReproducibleUnlessOverlapped`: a run saw exactly what is not above its highwater, but for
imports open when it took its snapshot. `ManifestsBalance`: the manifest of a locked version lists, for ever,
the files its runs allocated; they are committed, both sides of each match are in it, and no two of its
runs share one. `ImplementsVersions`: what may be closed stays so, whatever imports, runs and decisions
follow. `RunRequestsEnd`: the waits for keys end.

**Fairness.** Four properties use any. `RequestsAreAnswered`: a statement that can run does (weak fairness of
`Step`: the database executes what it is sent, and a failing one ends in `Abort`); a lock that becomes free
again and again is granted (strong fairness of `LockStep`: PostgreSQL queues waiters for a row or advisory
lock, so later requests do not overtake for ever). `RunRequestsEnd`: the same for the statements of a run and
the lock of its key. `UploadsEnd`: weak fairness of each handler's next step. `AsksEnd`: weak fairness of the
handler's own steps and of its timer, and none of the provider. A death of the process is one of the ends
in all but the first. Nothing is assumed of clients, imports, runs, reviewers or crashes.

### Disagreements found

1. **The console may decide another exception** (`console_wrong_exception`, `app.js:338,696,698`).
   Selecting a row changes the target of the buttons before the new detail arrives; if the request fails
   it stays so. When both exceptions have the same `workflow_version`, which is common, the server accepts.
   The narrower promise, that a decision on the exception shown settles the proposal shown, holds.
2. **A close may lock a superseded run** (`close_superseded`, `close-service:42-64`). The superseded check
   reads before, the blocking check after, an approval that supersedes the run and resolves its last
   exception. Reading them in the other order, or locking the runs' exceptions, would exclude it. It is
   the only way: without an approval in that window no superseded run is locked (`QuietClosesAreCurrent`, a
   theorem), and later approvals supersede none that was current (`LockedRunsStayCurrent`).
3. **Amount-only matches need not be unique** (`matching_amount_only`, `matching:31`). The comment promises
   automatic matching only when unique; the code asks for one candidate of the source, not of the target.
   The same records with sides exchanged are reported as ambiguous. The partial round has the same
   asymmetry, and then allocates records of a combination that was reported ambiguous before.
4. **An error at or after the COMMIT loses a file** (`import_lost_commit`, `import-service:65,75`). The handler
   takes an error of the COMMIT for a rollback and removes the published file, although the batch may be
   committed, or another upload of the content rely on it. The same happens without any lost connection when,
   after the COMMIT, the staged file cannot be removed at once (line 71): the error enters the catch, line 74
   tries again, and line 75 takes the file of the committed batch. Repeating the upload is a replay and does
   not restore it. TLC reports the first way, which is one step shorter; `FilesMatchBatches` admits both and
   no third.

Not given a run of their own:

* `docs/EXCEPTION-WORKFLOW-V0.6.md:11` says "the replacement run must be selected". The code rejects runs that
  were superseded but asks nothing about those left out (`close-service:51`): a period can be locked over other
  runs, while the replacement, current and clean, is not among them.
* `createPeriod` makes version 2 after a lock as readily as version 1 (`close-service:13`), so that the period
  becomes writable again without the written reason that a reopen requires.
* The console says rules run at a "fixed record highwater" (`app.js:121`, `index.html:82`). The highwater is
  not enough to repeat a run: an import that began before it and committed after the snapshot is below it
  and was not seen. `ReproducibleUnlessOverlapped` states what does hold.
* The loser of two simultaneous requests with one key is answered 409 rather than with a replay, because its
  snapshot is older than the lock (`recon-service:16`); repeated, it is answered with the run
  (`RunAnswersAreTrue`).
* One record of amount zero, which imports accept, makes every run that reads it fail with an internal
  error and leave no row (`recon-service:111`).
* A suggestion that repeats a step, or has one of a single character, is stored but can be neither adopted
  nor rejected: `normalizeSteps` refuses it first (`exception-service:117`), although
  `docs/EXCEPTION-WORKFLOW-V0.6.md:58` lets the owner record it "as accepted, partially accepted, or rejected".
* Each change of the exception list's filter is a request of its own, and the page renders whichever answer
  arrives last (`app.js:397`), which need not be that of the filter shown. No property is about the list.

## 4. What is proved

For every set of members, runs, exceptions, suggestions, uploads, requests and records and every bound. The
assumptions are the named ones of the models: `LedgerAssumption` and `WorkflowAssumption` (an exception
belongs to a run; the NULLs are no runs or users; bounds are naturals; replies are sequences of steps),
`CloseAssumption` (there are periods, and each run has one and its records), `AskAssumption` (finitely many
requests, and a bound on suggestions wide enough for them), `ConsoleAssumption` (consoles are used by
members), and `MatchingAssumption` (the records of each side come in the order of their day). TLC evaluates
each on the runs.

* **ResolutionLedgerProofs**: `LedgerTypeOK`, `ReplacementsStayValid`, `NoSupersessionCycle` are together
  inductive. A valid replacement stays valid because runs never leave 'completed' and a resolved exception
  is not resolved again. A new edge starts at a run with an open exception; no earlier approval can point
  to that run, for its target was clean and stays clean. So for a set of runs without a cycle the new edge
  adds none: `ApproveClosesNoCycle` picks, for any set, the member found without the new edge's source.
  Acyclicity is stated with sets of runs, not paths, so that no induction over data is needed. From it
  follows `SupersededHasClosableRun`: in the set of superseded runs of a period take one that none of the
  set replaces; its replacement is not superseded.
* **PeriodCloseProofs**: everything the close promises that TLC checks, but liveness. `CloseInv` says of the
  locks that no two requests hold one (`LocksExclusive`); of each request that what it read under its lock
  still holds (`ReadsStillHold`: the number a create or reopen computed is the next one and no version is
  open; the row that reopen or close has locked is still locked or open; the runs a close has checked are
  completed, disjoint and, after the last check, clean); and of the table that the versions of a period are
  1..n for some n (`VersionsNumbered`). The lock of a row is not enough for the numbers and the advisory lock
  not enough for the rows, hence both. `CreateNeverConflicts` and `VersionsFormChain` follow; what the close
  read of runs and exceptions without a lock stays true because the ledger only goes one way, which is why
  `LockedRunsAreClean` holds where `LockedRunsNotSuperseded` does not. `CloseKeepsLedger`: all of this happens
  within the ledger, whose theorems therefore hold while periods are closed. Three more results follow from
  what runs may become. A clean run is completed and all its exceptions are resolved, so no approval can add
  to what supersedes it (`LedgerOnlyGrows`); a locked run is clean, hence `LockedRunsAlwaysCurrent`.
  `QuietClosesAreCurrent` is the exact complement of finding 2: `QuietInv` adds to `CloseInv` that the runs a
  close has found current are so still; in the window `Undisturbed` keeps them so, afterwards that they are
  clean does. `AlwaysWritableWhileOpen` needs that only the newest version may be open.
* The refinement `CloseSpec => ImplementsVersions`, in the same module. Only three statements are steps of
  `PeriodVersions`: the INSERT of a create or reopen, which by `ReadsStillHold` adds the number after the
  newest while none is open (`InsertedIsOpened`), and the UPDATE of a close (`LockedIsLocked`), whose runs are
  closable at that moment although each was asked about at another. Of the steps of the ledger the abstract
  level sees only that `Closable` grows. Everything else stutters.
* **ExceptionWorkflowProofs**: all the invariants and action properties of the workflow. First `TypeOK`; then
  `PendingHasOneUndecided` and `ResolvedByIndependentReview`, inductive together with
  `DecisionsConcernProposals` (else a new proposal could find itself decided) and `ReviewedProposalIsOwners`
  (else the approver could be the owner although not the submitter). What any handler does is then said once
  (`HandlesOnly`, `AddsTo`), and the action properties follow without a case for each. For the checklist,
  `ChecklistInv` adds that an adopted suggestion is stored and was adopted once, that what was chosen is among
  its steps, and that chosen steps and listed items correspond one to one. For the audit trail, each handler's
  row is shown to say what the handler did to the exception (`TellsStep`), and appending a row to a fold is
  one more application of `Replay` (`ReplayAppended`).
* The refinement `Spec => ImplementsLedger`, in the same module. The outcome of an exception is
  unresolved exactly while its status is not 'resolved', which needs the invariant above; hence both
  levels check a replacement run alike, and an approval maps to `Approve`. All other handlers stutter.
  Consequently the workflow leaves a closable run (`WorkflowLeavesClosableRun`).
* **ClientProofs**, of the two clients that act on what they read earlier. *AI suggestions*: `AiInv` says what
  was read of an exception is older than its version says, or right (`StillTells`), and that the provider is
  only asked about an exception that was open. So the transaction that finds the version unchanged stores what
  `StoreSuggestion` would (`ImplementsWorkflow`), although it never looks at the status.
  `SuggestionsAreAccounted` counts requests by what they were told. *Console*: `ConsoleInv` says the same of a
  detail in its stages, on the screen and in the forms posted from it: the row is right as long as its version
  is (`RowFits`), and so is the history read after it (`HistoryFits`), for the version in the detail is that
  of the row, which was read first. Hence `ActsOnWhatIsShown`. Read in the other order a detail could carry a
  new version with an old history. `ConsoleKeepsWorkflow`: behind the page the workflow is as it was.
  `FormsFitServer` speaks of ENABLED, which the prover does not have. `MayAccept` writes out the guards of the
  handlers that answer a form, and `FormsAlwaysFitGuards` is the invariant with `MayAccept` in the place of
  ENABLED, both ways: a form that is shown meets the guards, one that meets them is shown, but for what
  `RefusedOnly` and `ElsewhereOnly` name and the bound on items. It needs that an exception without an owner
  is open, that one under review has its newest proposal undecided (from the workflow's theorem, through
  `ConsoleKeepsWorkflow`), and that what is selected exists (`SelectedExists`). `AcceptedMeetsGuards`: no
  guard is invented, each is one the handler has; with it follows `MissingFormsAreRefused`, the half of
  `FormsFitServer` that says nothing of ENABLED. That the guards also suffice is plain from the handlers,
  which are conjunctions of them and of one equation for each variable, and is what TLC checks of
  `FormsFitServer`.
* **ImportProofs**: all the invariants of imports, from no assumption at all. `ImportInv` adds to them that a
  row comes from an upload past its COMMIT, that an insertion in progress is the only one of its key and has
  no batch yet, that only an upload past its link has published a file, and that an upload has no answer
  before its end; so a row can only be added to a key without one, also by the commits that a crash leaves to
  the database. Then the refinement `ImportSpec => ImplementsStore`: each statement before the COMMIT is
  `Admit`, `BeginImport` or a stutter; `Commit`, `CommitFails` and a crash are `End` with the uploads that
  commit, whose keys are new by `ImportInv`. `Reconciliation` therefore rests on the store alone.
* **ReconciliationProofs**: the invariants of the runs and of the manifests built from them, from no
  assumption. Three summaries hold of every step: uploads only go forward and a new batch is that of one that
  ends now (`StoreGrows`); runs stay, and a new one is that of a request that had inserted it (`RunsGrow`); a
  request stays or takes a step of its transaction (`RequestMoves`). `ReconInv` adds that an inserted row is
  alone with its key, committed or not (`InsertionsAlone`), and `SnapshotsAreTrue`: from the snapshot on, the
  uploads below the highwater that it did not find open have ended, so nothing can be added to what the run
  has not seen. A manifest balances because what a run allocates has its counterpart in the same run; that it
  is the manifest of that version needs `VersionsFit`: versions have different numbers, the locked ones have a
  manifest each and the open one is next. Two refinements follow. `ReconKeepsStore`: among runs and closes
  imports are still a `RecordStore`, so that what `ImportProofs` shows of an import is what a run relies on.
  `ReconKeepsVersions`: `ReconSpec => ImplementsVersions`; the steps that open and lock are those of
  `PeriodVersions` by definition, and what remains is that `Closable` only grows (`ClosableGrows`), over all
  the steps of runs, imports, crashes and decisions.
* **MatchingProofs**, for any number of records, any amounts and any rule. The search first: `SearchIsRight`
  compares what `SearchBelow` returns, with all its cuts (the total reached, the size reached, the second
  solution found), with the set of all combinations of that amount: it finds one exactly if there is one, and
  reports several exactly if there are. Its invariant, for each start and each selection, counts the
  combinations that extend the selection by candidates from the start on; a cut is right because amounts are
  positive. Then the rounds: `MatchingInv` adds to conservation and justification that each group uses up one
  of its records (`GroupsUseUp`) and on which side the records to visit are. Without the first a group could
  be allocated that is there already, and a set of groups would lose it. `AllocatesTheOnlyWay` follows for
  each round from what it has in common with the enumeration, and with it that no assertion of `allocateGroup`
  fails.
* **FoldLemmas**: that the functions behind `FoldLeft` and the sums of the community modules exist and are
  the only ones, that a sum does not depend on the order, and that a function that calls itself with larger
  arguments up to a bound exists. The library's induction theorems take an operator as parameter and cannot
  be cited; these proofs take a smallest counterexample instead, from the library's facts about well-founded
  orders, and so put folds and the recursive search within reach.

The proof of the search found a flaw of an earlier version of `SearchBelow`: two arms of a CASE held at once
when the total was reached and a solution found before, and TLA+ then leaves open which applies. TLC took the
first, as the code does; the model now says so (IF, ELSE IF).

`LockedRunsNotSuperseded` is proved of `QuietSpec` and in no passing run, since a run has one specification and
`LockedRunsStayCurrent` says as much of the one that is checked.

Only model-checked: liveness (`RequestsAreAnswered`, `RunRequestsEnd`, `UploadsEnd`, `AsksEnd`), which is out of
the prover's reach, and of `FormsFitServer` that the guards of a handler are all it takes (ENABLED).
The type invariants, but for the workflow's, `OneBatchPerKey` and `LockedVersionsAreFinal`, which
`ImplementsVersions` implies, are proved and in no run: refinements and the other properties say more.

## 5. Plan

Done: ledger, workflow, AI suggestions, console, close with its abstract versions, matching, import with its
abstract store, the run on top of both, and the proofs above: every safety property that a run checks is a
theorem, `FormsFitServer` with the guards written out for ENABLED. Of the properties that fail, what holds in
their place is stated and proved too: for `LockedRunsNotSuperseded` the quiet close, for
`AmountOnlyMatchIsUnique` `AllocatesTheOnlyWay`, for `BatchHasFile` `FilesMatchBatches`, and for
`DecidesShownException` `ActsOnWhatIsShown`, which is about every form that reaches the exception it was shown
with; that none reaches another has no weaker form worth stating, since the page itself makes the switch.

What could be added: the pages of sources, runs and periods of the console, whose requests may overtake one
another as those of the exception page do; and the order in which `loadAll` publishes its nine answers.

## 6. Not modelled

* CSV parsing (`csv`): a conversion of text whose only effect on control, accept or refuse a whole file, is
  the choice of what is uploaded; that it lets an amount of zero pass is in `Reconciliation`.
* Password and token hashing (`auth`), bootstrap and configuration: no state that another step depends on.
  Sessions appear as a set that shrinks at any time, roles as changing at any time.
* Read-only lists (`workspace-service`), the other pages of the console, layout and wording.
* The migration runner and the seed, which are scripts run alone; the seed's role changes are modelled.
  `ensureDemoPeriodArchive` holds one pooled connection while it needs others, which matters only if it were
  called concurrently; nothing does.
* The pool of ten connections with its timeout of five seconds: a request that gets no connection fails as in
  `Abort`, `Fail`, `QueryFails`, before anything happened.
* Tenant isolation, which every query carries as a condition on `tenant_id`: the models are of one tenant.
* Between the authorization of a request and the handler's own check the role may change; only
  `AiSuggestion`, whose handler takes long, has these as separate steps.

## 7. Running

From this directory: `tlc -config <run>.cfg <module>` with the pairs listed in `PROJECT.json`, and
`tlapm` for the eight modules with theorems: `FoldLemmas.tla` and the seven `*Proofs.tla`. Each run
finishes within a few minutes on two workers, each proof module within about five.
