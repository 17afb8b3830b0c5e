# A verification development for the Experiment Manager

The Experiment Manager is one FastAPI process in front of Postgres. It keeps
versioned experiment templates and the experiments created from them, evaluates
the formulas of an experiment in bounded child processes, and renders
experiments as PDF reports in the background. This directory holds TLA+
specifications of the parts whose correctness depends on the order of events or
on the shape of a document, the TLC configurations that check them, and TLAPS
proofs of every safety property that the passing runs check.

    tlc -workers 2 -config MCTemplates.cfg MCTemplates     # one run
    tlapm TemplateProofs.tla                               # one module's proofs

`PROJECT.json` names, for every definition, the source lines it translates; for
every checked property, a plausible bug in those lines that the property
catches; and every hazard found in the code, at its line.

## 1. Inventory

| Component | State it keeps | Operations | What is hard | What makes it correct |
|---|---|---|---|---|
| Template catalogue (`sample_service`, `sample_repository`) | `experiment_templates`, `pdf_templates` | create, edit a form, put and delete a layout, delete a version | edits race with edits and with new experiments; row lock, advisory lock, READ COMMITTED | a version in use is never rewritten; a lineage is a chain; assertions hold; requests do not deadlock; layouts of used versions stay |
| Experiments (`experiment_service`, `calculation_service.calculate`) | `experiments.state` | create, PUT values, PUT calculations, calculate, delete | every write replaces the whole JSON document read earlier, without a lock | a stored result belongs to the stored formula; writers keep to their fields |
| Report pipeline (`report_worker`, `request_report`, `main.lifespan`) | report columns of `experiments`, an in-memory queue, the object store | request, generate, record, recover at start, stop | queue and rows are updated separately; restarts; every step can fail | a link leads to a PDF; nothing is left unfinished; the worker survives |
| Catalogue presentation (`*_web_order`, `*_web_visibility`) | `display_order`, `is_visible_on_web` | append, reorder, delete, show and hide | reorders race with creations | places are distinct; a reorder is applied exactly; nothing undoes a visibility |
| Calculation sandbox (`sandbox.py`) | semaphore slots, a child process per calculation | run bounded | limits; a result racing the end of its process; pickling in a thread | as many processes as slots at most; no slot leaks; calls end |
| Formula evaluation (`calculation_service`) | the namespace that the formulas of one run share | dependency order, evaluate, dry run, calculate | cycles, self-reference, unknown names; assignments left behind for other formulas; one failure among many | the order is exact; every outcome has its reason; a clean dry run predicts the calculation |
| Form schema (`form_schema`) | none | list questions, find duplicate ids, collect values and defaults | ids shared by forms and groups; values written back | a default fills only what is unanswered |
| Report context (`pdf/context.py`) | none | flatten a document into placeholders | ids shared by metadata, answers and calculations; order of keys | a placeholder shows what it should in any order |
| Routers, models, validation, settings, telemetry, PDF engine, object store client | none of their own | parse, validate, render, upload | pure I/O and layout | — |

How they interact:

- A new experiment reads the current template version under its row lock and
  copies its content (the *snapshot*); from then on the version counts as used,
  and edits of the lineage append versions instead of rewriting it.
- `POST /report/generate` reads the experiment's row and the layout of its
  version, puts a job with a copy of the state on the process's queue, and then
  writes `pending`. The worker task writes `processing`, renders and uploads in
  an executor, and writes `success` or `failed`. A new process queues again what
  the rows call unfinished.
- `calculate` reads the document, evaluates the formulas in the sandbox's child
  processes, and writes the whole document back.
- Creations, deletions and reorders of a collection share one Postgres advisory
  lock per collection; edits and new experiments share the row lock of the
  current version. `delete_pdf_template` takes neither.

## 2. Modules

| Module | Stands for |
|---|---|
| `TemplateStore` | abstract catalogue: one atomic step per operation, and the properties of the data |
| `TemplateRequests` | the requests as transactions, one step per statement; implements `TemplateStore` |
| `TemplateProofs` | theorems about `TemplateRequests` |
| `ReportPipeline` | the queue, the worker, the request and the process's life |
| `ReportProofs` | theorems about `ReportPipeline` |
| `SerialProofs` | theorems about `ReportPipeline` when requests for one experiment do not overlap |
| `ExperimentEdits` | the read-then-write requests on one experiment's document |
| `EditProofs` | theorems about `ExperimentEdits` |
| `CatalogueListing` | abstract list of a collection, with a mark on what the web shows |
| `CatalogueOrder` | `display_order` under the advisory lock, `is_visible_on_web` without it; implements `CatalogueListing` |
| `OrderProofs` | theorems about `CatalogueOrder` |
| `Sandbox` | `run_bounded`: slots, child processes, their feeder threads, deadlines |
| `SandboxProofs` | theorems about `Sandbox` |
| `FormSchema` | what forms contribute to the values, as operators |
| `ReportContext` | what a placeholder shows, as operators |
| `Calculations` | dry run, calculation and report of one document; uses the two above |
| `CalculationProofs` | theorems about one run: values, order, placeholders |
| `DryRunProofs` | theorems about what the dry run says of its formulas and of the calculation |
| `MCTemplates`, `MCReports`, `MCEdits`, `MCOrder`, `MCSandbox`, `MCCalculations` | constants, symmetry and documents for TLC |

A definition whose comment begins with *Faulty variant* is not part of a
specification: it is the form a neighbouring definition would take under a
plausible bug, and is kept to show that a property notices.

### 2.1 Template catalogue

*State.* `templates`, `layouts` and `experiments` are the tables, by primary
key. A row's `content` stands for name, description and forms together;
`NameOf` gives the name, because the unique index looks at nothing else. Soft
deletion is a status, so ids are never reused. `rowLock` and `webLock` are
Postgres's `FOR UPDATE` and advisory locks. `pc`, `req` and `view` are a
session's program counter, request, and what it has read so far; `reply` is
what the client was told.

*Actions.* One per SQL statement on whose result the handler acts. `PickRow`
and `LockRow` are the two halves of `SELECT ... FOR UPDATE` at READ COMMITTED:
the statement's snapshot picks a row, the lock is waited for, and then the
`WHERE` clause is evaluated again on the row as it is now, so a request that
waited behind a fork finds that its row is no longer current and answers 404.
`Decide` is body validation and the has-experiments check; `SaveInPlace`,
`SaveNewVersion`, `SaveLayout`, `InsertTemplate`, `InsertExperiment`,
`DropLayout` and `DropVersion` hold a transaction's writes together with its
commit. `Abort` is a request whose client, connection or process goes away at
any step, including the victim of a Postgres deadlock.

*Why writes and commit are one step.* Under READ COMMITTED nobody sees a write
before its commit, and the row that is written is locked (or is new). The one
effect that this hides is a wait on the name index between two transactions
that take each other's names; Postgres ends one of the two, which is `Abort`.

*Failures kept.* Each assertion in the code is a reply (`AssertRow`,
`AssertPdf`), as are the ORM's stale-data error and the unhandled unique
violation of a layout (`ServerError`), so properties can say that one cannot
happen and TLC can show that another can. `OnlyDeletedLayoutsFail` bounds them
all: the request that loaded a row finds it as it was when it saves, unless its
layout was deleted in between.

*Waiting.* `Holder` names whose lock the next statement of a session needs.
`NoWaitCycle` says that no set of requests waits in a circle, and that a lock
that is waited for belongs to a request under way; that a waiter gets a lock
that is freed is left to Postgres, which queues the waiters.

*Refinement.* The tables of `TemplateRequests` are those of `TemplateStore`, so
the refinement mapping is the identity: a request implements its atomic
operation when it commits, and every other step stutters. `StoreSpec` forbids,
for instance, an in-place edit of a version in use, at the moment of the
*write*, where the code has checked earlier.

### 2.2 Report pipeline

`rows` holds the report columns and `data`, the experiment's state counted by
its edits; a job carries the number it copied and the object store the number
that the uploaded PDF shows. `session` is a report request between its awaits:
`Request` (read, 404/409), `Enqueue` (422/503 or `put_nowait`), `MarkPending`
(or `PendingFault`). The worker is `Take`, `MarkProcessing`, `Render`,
`RecordSuccess`, with `WorkerFault` for an exception in a transaction of the
`try` block and `RecordFailure` for the `except` block, in which writing the
failure may itself fail and is then only logged. `Stop` is a shutdown or a
crash at any moment: it empties the queue, and an upload under way may land,
because the executor is shut down without waiting. `Start` is the recovery of
`lifespan`. `Edit` and `Delete` are the experiment's other requests.
`accepted` is a history variable: the data of the latest request answered 202,
and 0, which asks nothing of a PDF, before the first.

Clients may overlap as they like in `Spec`. Two properties hold only of clients
that ask for the report of *one* experiment one at a time (`OneAtATime`; for
different experiments, requests still overlap): `SerialSpec` adds that to each
step, and the theorems about it say so. The run `reports_serial` has a single
session, with which every behaviour is of this kind.

Rendering happens in a pool of processes (`max_threads`, by default two), but
the one worker task gives it one job at a time. `ProcessDies` is the death of
the process that has the job, with the upload done or not: the pool is then
broken for good, and `run_in_executor` raises at once for every later job, until
a restart makes a new pool. So after one such death no report succeeds any more, but each fails
properly and the worker goes on, which is what `WorkerReturns` and
`OutcomeServed` check with a broken pool too.

### 2.3 Experiment edits

The document is one answer, one formula and one result; a result *is* the pair
(answer, formula) it was computed from, so that a property can tell whose
result it is. `Read` and `Write` are the two transactions of every request;
`NewDoc` is what each handler makes of the document it *read*. `computed` is a
history variable: the results that `calculate` has produced. The first
experiment has the template's formula, no answer and no result.

### 2.4 Catalogue order

A creation, deletion or reorder takes the lock, reads the rows it needs
(`Selected`) and writes them back. The ORM emits an UPDATE only for rows whose
place differs from the one *read*, and only of that column: `Reorder` and
`Placed` do the same; that is what would make two unlocked reorders mix.
`SetVisibility` shows or hides an item without the lock, by an UPDATE of its own
column if that differs from what was read. `Shown` is the list that clients get:
the one sequence of the active items whose places increase (`InOrder`).
With the set of visible items it is the refinement mapping to
`CatalogueListing`, where each request is atomic: no request brings back a
place or a visibility that another one has replaced.

### 2.5 Calculation sandbox

A call acquires a slot or is refused after a wait, starts its process, polls
(`Get`, `Check`), and in `Cleanup` kills the process and gives the slot back.
The process moves by itself: it may be reclaimed at its CPU limit, die, or do
nothing for ever. `multiprocessing.Queue.put` does not pickle: `ChildPuts` hands
the result to a feeder thread, which writes it to the pipe at once
(`ChildFeeds`) or in parts (`ChildFeedsPart`, then the rest), or, when it cannot
be pickled, writes a traceback to stderr and drops it (`ChildDrops`); the
process leaves when its feeder has ended, and may be reclaimed or die between
two parts. The poll interval bounds only the wait for the first byte: `Get` goes
on to `Receive` when there is something to read, and `Receive` has no other end
than the whole result, since the parent's queue keeps the write end of the pipe
open. `lost` is a
history variable that counts processes that could not be started.

### 2.6 Calculations

A document is two forms, the answers and the formulas. A formula is what
matters of it. Its text, as the two walks over the syntax tree find it: the
identifiers (`names`) and the literal subscripts `values['id']` (`keys`), those
in branches that are not taken and those that are only assigned included. Its
evaluation: the names it looks up (`reads`), the keys of the values it looks up,
literal or computed (`looks`), the names its leading statements assign, whether
it ends in an expression or is a block that leaves its value in `result`, and
what it comes to when its lookups succeed: a value, nothing (None or an empty
string), or an error of its own, which may be a `KeyError` of another dictionary
or a `NameError` of an inner scope. `Init` chooses the document;
the *dry run* of the template's author is followed by the *calculation* of the
same document and a report of it, so that properties can relate the three.

`Collect` is one turn of the loops of `collect_values`: a *slot* is a question of
one of the forms or a child of a group, slots are handled in the order in which
`iter_questions` lists them, and `FillDefault` puts a default in unless the id
has a value. `Collected` begins the order; `Round` is one turn of the loop in
`_resolve_order`, and `OrderEnds` its end, where a
calculation with unresolved formulas is refused. `Sorted` is the one ascending
list of a set of names, in the order that `Alphabet` gives. `Skip`, `Succeed` and `Fail`
are the turn of one formula. They share a namespace: `space` says of each name
whether it is unbound, a result, or a local that some formula's statements have
left behind; a formula that fails half-way leaves some of its assignments.
`AnswerDryRun` adds the circular formulas, the missing keys and the duplicate
ids; `Store` writes values and results back; `Report` flattens the stored
document (`FlattenContext` of `ReportContext`), its top-level keys in any order.
The loop over these keys is a definition in closed form (`Walk`): the last key
that shows a placeholder wins.

`OrderExact`, `ValuesCollected` and `PlaceholdersShow` compare an algorithm with
a definition that does not mention how it works: `Behind` and `Cyclic` are the
closure of the references (the least set with the dependencies of a formula and
of its own members), `ExpectedValues` the first offer made to an id.

## 3. Runs

| Run | Instance | Shows |
|---|---|---|
| `templates` | 2 sessions, 3 template ids, 1 experiment id, 2 contents, 2 layouts; 775,555 states | `TypeOK`, the inductive `LockInv`, `FrozenForms`, `VersionChain`, `RowNeverMissing`, `NoWaitCycle`, `RetiredForGood`, `UsedLayoutKept`, `OnlyDeletedLayoutsFail`, and the refinement `StoreSpec` |
| `templates_layout` | as `templates` | *violated*: `LayoutImmutable` |
| `reports` | 2 experiments, 2 overlapping requests, queue of 1, transactions and the pool's process fail; 368,939 states, fair | `TypeOK`, `LinksLead`, `OutcomeServed`, `StartRepairs`, `WorkerReturns` |
| `reports_serial` | 2 experiments, 1 session, queue of 2, 1 edit each, no failing transactions; 266,354 states, fair | `OneJob`, `ServedFresh`, `EveryJobTaken` |
| `reports_left_over` | 1 session, no failing transactions | *violated*: `NothingLeftOver` |
| `edits` | 2 sessions, 2 answers, 2 formulas; 1.7 million states | `TypeOK`, `ResultComputed`, `DriftRefused` |
| `edits_overlap` | as `edits` | *violated*: `WritesOwnFields` |
| `order` | 3 items, 2 sessions; 631,918 states | `TypeOK`, `PlacesDistinct`, `OrderAsRequested`, and the refinement `ImplementsListing` |
| `sandbox` | 3 calls, 2 slots; 301,198 states, fair | `TypeOK`, `ProcessesBounded`, `SlotsAccounted`, `OnlyTornResultsHang` |
| `sandbox_hang` | 2 calls, 1 slot, fair | *violated*: `NoticesDeath` |
| `sandbox_result` | 2 calls, 1 slot | *violated*: `ParentLearnsWhy` |
| `calculations` | 38,057 documents; 818,483 states, fair | `TypeOK`, `OrderExact`, `OutcomesExplained`, `DryRunPredicts`, `ReadsResults`, `ValuesCollected`, `PlaceholdersShow`, `EveryRunEnds` |

### Bounds, and why they are enough

- *Two sessions* everywhere: the races are between a request and one other that
  commits between two of its steps. Three calls against two slots let one wait.
- *Three template ids* (`HasRoom` starts an inserting request only while an id
  is left for it and for every such request under way, so that running out of
  ids is never mistaken for an outcome). With one experiment id a lineage forks
  once in TLC, since the one experiment pins one version; a second fork needs
  two experiments, which does not finish in five minutes. The theorems of
  section 5 have no such bound.
- *One sample*: locks, lineages and the name index never reach across samples.
- *Two contents with different names*, one of the layouts empty: enough for a
  name collision, and for a layout that no experiment may be created from.
- *A queue of one* (`reports`) meets a full queue and a start with more orphans
  than room. *A queue of two* (`reports_serial`) lets jobs wait behind each
  other. `MaxData` bounds the edits: one, where a property compares the age of
  data, and none where it does not.
- *Three items* let a reorder differ from both another reorder and a creation.
- *The documents* of `calculations` are four families, each complete within its
  bound. *Graphs*: every choice of up to three formulas out of three names, each
  reading any of the names and giving a value, nothing or an error: all cycles
  of one to three formulas, all chains and forks behind them and behind a
  failure. *Blocks*: one formula with any assignments, ending in an expression
  or not, and another one that reads any names; a leftover needs one formula to
  leave it and one to find it. *Strays*: a formula whose text and whose lookups
  differ in every way, with a key shown, computed or both and an error of any
  kind, and another one that names more than it looks up, with and without an
  answer. *Forms*: two forms of at most one question or
  group each, with shared ids, a count or none, a default or none, and a formula
  that reads an answer. One of the names is `result`, one id is also a formula's
  name and one is also a metadata key.

Symmetry is used for state invariants and for action properties and
refinements, never in a run that checks liveness.

### Where deadlock is not checked

`CHECK_DEADLOCK FALSE` stands where the instance really stops: when all template
ids are used up (`MCTemplates*`), when the one experiment is deleted
(`MCEdits*`). Every other run checks deadlock. Waiting on locks
in the catalogue is the question of `NoWaitCycle`.

### Fairness

- Report pipeline, weak fairness: the event loop runs every task that is ready;
  rendering ends (well or badly); a stopped process is started again.
- Sandbox, weak fairness of the calls' threads, of time, and of a feeder thread
  that has begun to write, as long as its process is alive: the parent reads, so
  the pipe has room. *Nothing* is assumed of the formula.
- Calculations, weak fairness of the next step: it is one loop after another in
  one thread. That a formula itself ends is the sandbox's question.

## 4. What the violated properties show

1. `LayoutImmutable`: migration 005 calls the layout of an experiment's version
   immutable for the lifetime of the experiment, but `delete_pdf_template` does
   not ask whether experiments use the version; their reports are refused from
   then on. What does hold is `UsedLayoutKept`: such a layout is never
   *replaced*.
2. `NothingLeftOver`: `request_report` queues the job before it writes
   `pending`. A job that ends in between has its outcome overwritten, and every
   later request is refused with 409 although nothing is queued, until a
   restart (`StartRepairs` holds).
3. `WritesOwnFields`: an overlapping PUT or calculate restores what another
   request has replaced, although the documentation says that `values` is the
   only field PUT changes. What does hold is `ResultComputed`: a result is
   stored only with the formula it was computed from, since the document is
   always written as a whole.
4. `ParentLearnsWhy`: the comment in `_child` says that when pickling fails the
   parent still learns why. Pickling happens in the feeder thread, not in the
   call that is guarded: the result is dropped, the process exits with code 0,
   and the call is answered with "exited without a result". The same answer is
   given when the result arrives between the last poll and the look at the
   process, although it is in the pipe.
5. `NoticesDeath`: `_collect` promises to notice promptly when the child dies
   without a result. When the child is killed after a part of a long result is
   written, at its CPU limit for instance, which pickling and writing count
   towards, the parent reads for a rest that never comes: neither the look at
   the process nor the deadline is reached, and the slot is gone.
   `OnlyTornResultsHang` shows that this is the only way for a call not to end.

What the passing runs show along the way, and a reader should know:

- `delete_pdf_template` takes no lock of the template row either. When it commits
  between the load of the locked row and the save, `assert pdf is not None` in
  `upsert_pdf_template` fails (`AssertPdf`), or the ORM reports stale data: a 500
  in place of an answer. `OnlyDeletedLayoutsFail` shows that this deletion is the
  only way for a save to fail unexpectedly.
- `missing_values` of a dry run is made from the text: `k = 'x'; values[k]` ends
  in a `missing_value` error that names `x`, and the list, which the
  repository's README (line 180) describes as the "question ids read but never
  supplied", does not hold it. `OutcomesExplained` therefore speaks of the
  formulas whose text shows their keys (`Literal`); without that premise TLC
  finds it violated.
- A process that cannot be started takes its slot away for good, because it is
  made after the slot is taken and before the `try` block; `SlotsAccounted`
  shows that this is the only way to lose one.
- `ReadsResults` needs its premise `KeepToThemselves`: a formula whose leading
  statements assign another calculation's name replaces that result for those
  that come later, and a block drops a calculation called `result`.
- A result of None or "" is stored like one that was never computed: the report
  shows the formula in its place (`PlaceholdersShow`, source `formula`).
- After the death of the rendering process no report succeeds until the service
  is restarted (2.2).

## 5. Proofs

`TemplateProofs` proves, for any sets of sessions, template ids, experiment ids,
contents and layouts, from `StoreConstants` and `RequestConstants` (the
sentinels are not members of the sets they stand outside of) alone:

| Theorem | Statement |
|---|---|
| `TypeCorrect` | `Spec => []TypeOK` |
| `LocksProtect` | `Spec => []LockInv` |
| `RequestsImplementStore` | `Spec => StoreSpec` |
| `AssertionsHold` | `Spec => []RowNeverMissing` |
| `FormsStayFrozen` | `Spec => []FrozenForms` |
| `LineagesAreChains` | `Spec => []VersionChain` |
| `RetiredVersionsStay` | `Spec => RetiredForGood` |
| `UsedLayoutsStay` | `Spec => UsedLayoutKept` |
| `SavesMeetWhatTheyLoaded` | `Spec => OnlyDeletedLayoutsFail` |
| `NoRequestsWaitInACircle` | `Spec => []NoWaitCycle` |

The other proof modules, each of the specification without fairness:

| Module | Theorems | For every choice of |
|---|---|---|
| `ReportProofs` | `TypeCorrect`, `LinksAlwaysLead`, `OutcomesAreServed`, `StartsRepair` (`StartRepairs`) | finite set of experiments, any sessions, any queue size, failing transactions or not |
| `SerialProofs` | `OneJobEach` (`OneJob`), `ServesFresh` (`ServedFresh`), both of `SerialSpec` | the same without failing transactions (`~DbFaults`) |
| `EditProofs` | `TypeCorrect`, `ResultsAreComputed` (`ResultComputed`), `DriftStaysOut` (`DriftRefused`) | sessions, answers and formulas |
| `OrderProofs` | `TypeCorrect`, `PlacesStayDistinct` (`PlacesDistinct`), `ReordersApplied` (`OrderAsRequested`), `RowsImplementListing` (`ImplementsListing`) | finite set of items, any sessions |
| `SandboxProofs` | `TypeCorrect`, `SlotsAreAccounted`, `ProcessesAreBounded` | finite set of calls, any number of slots |
| `CalculationProofs` | `TypeCorrect`, `ValuesAreComplete` (`ValuesCollected`), `OrderIsExact` (`OrderExact`), `PlaceholdersPreferResults` (`PlaceholdersShow`) | any identifiers, forms, answers, metadata and sets of formulas |
| `DryRunProofs` | `ReplyExplainsOutcomes` (`OutcomesExplained`), `DryRunForetells` (`DryRunPredicts`), `NamesReadResults` (`ReadsResults`) | the same |

The finiteness assumptions are those of the code (tables, threads, the
identifiers of a document) and are needed for cardinalities and for lists of all
members. `Families` stays a parameter: a theorem about it is one about every
document whose parts are of the types in `CalculationConstants`.

### Template catalogue

*The inductive invariant* is `Inv == TypeOK /\ LockInv`. None of the properties
is inductive alone: that an in-place save rewrites no used version depends on
the session's check some steps earlier still being true. `LockInv` says what an
open transaction may rely on: its step belongs to its request (`OnPath`); the
row it has locked is the lineage's current version with the content and layout
it loaded, unless the layout was deleted since; a version it found unused is
still unused; a version it is about to delete is live, and current only if it
was read as current (`ViewStands`). That exception for a deleted layout is the
exact place where `assert pdf is not None` fails. `templates` checks `LockInv`
too.

*The argument.* A step of the store *respects* a session when it leaves what
that session relies on as it is. `Bystander` shows that an undisturbed and
respected session keeps its part of the invariant, `StepInv` assembles the
invariant from the acting session's part and the bystanders'. There is one lemma
per action: the acting session does a store step or none, and every other is
respected, because a write to a row needs its lock (and a lock has one holder),
a deletion needs the advisory lock, and an insertion takes an id nobody knows.
Each lemma also concludes `[StoreNext]_storeVars`, which gives the refinement
(`NextInv`, `RequestsImplementStore`). The properties of the data are then
proved once, of the *atomic* store (`FrozenStep`, `ChainStep`, `RetiredStep`,
`LayoutStep`), and carried over to the requests by the refinement.

*Unexpected failures.* `SavesMeetWhatTheyLoaded` needs one invariant more,
`NamesApart`: no two current versions have the same name. The unique index
keeps it with every write (`NamesStep`), and it makes a save that keeps its name
free of a name conflict.

*Waiting.* `LockOwners` says what a session holds: one row from `LockRow` on, the
advisory lock from `ReadVersion` on. So who holds a row waits for nothing, who
holds the advisory lock waits for a row, and everyone else for one of these two
(`WaitOrder`): in any set of sessions the first kind that is present waits for
none of the set.

### Report pipeline

The properties relate a row to the object store, and a job passes between the
two in the worker's hands. `Inv` therefore adds to the rows' soundness
(`RowSound`: key, status and object agree) that a job at the point of recording
success has its object uploaded (`WorkerSound`), and that sessions and worker
hold real jobs. Uploads never take an object away (`UploadLands`), and every
transaction changes one row or none (`WriteRows`), so each step is one lemma.
`StartStep` says what a start makes of the orphans, whatever their order and
the room in the queue; `StartsRepair` follows from it without the invariant's
help beyond types.

*Requests that do not overlap.* `SerialInv` adds to `Inv` where the jobs of an
experiment can be: at most one of them is queued or in the worker's hands
(`Apart`), a session's job is that same one or none is (`RequestSound`), each
job's copy of the state lies between the latest accepted request and the present
(`Fresh`), and a live experiment with a job is unfinished or about to be made so
by its own request (`JobSound`). The last part is what the check for 409 relies
on: without it a second request could slip in. A failing transaction would break
it, because `pending` is written after the job is queued; hence `~DbFaults`.

### Experiment edits

`ResultComputed` is not inductive: a `write` stores a document read long before.
The invariant says the same of every document that waits to be written
(`ReadSound`), and that the client of a pending PUT has seen its formula. This
is also why lost updates do not mix a result with a foreign formula: documents
travel as a whole.

### Catalogue order

`SeenCurrent`: what a creation or reorder has read still has the status and the
place of the rows in the table (not their visibility), because whoever changes
those holds the lock, and a lock has one holder (`Locked`). A creation's place
is then above all others (`MaxIsLargest` derives from well-foundedness that a
bounded set of naturals has a maximum), and a reorder's places are distinct
since an order names no item twice. `OrderBounded` bounds the places by the
number of ids in use, for the type invariant.

*The refinement.* A finite set of items with distinct places has at most one
list in which the places increase (`OneOrder`, by a least counterexample); so
`Shown` is whichever list in that order one can exhibit (`ChosenList`). The
invariant carries that there is one (`ShownSound`): none are shown at first, and
each commit exhibits the next list: the old one with the new item at its end,
with an item removed (places of the others stay, gaps and all), or the requested
order. A commit that changes visibility leaves places alone, and one that
changes places leaves visibility alone, which is the step where a column written
from an old read would show.

### Sandbox

`SlotsAccounted` is inductive with the types: each step leaves the set of
working calls alone (`Quiet`), adds one and takes a slot, or takes one out and
frees or loses a slot. `ProcessesBounded` follows because a process belongs to a
working call (`Owned`).

### Calculations

*One run.* `Inv` says how far each loop has come. `ValuesSound`: the values are
the answers plus, for each other id, the default of its first slot, if that slot
is done; and the slots that are left come after those that are done
(`FillOne` is one turn of the loop). `SwapForms` then compares the two orders of
the forms: without duplicate ids at most one slot offers an id anything.
`OrderSound`: the order holds each formula once, after all it refers to, and
`remaining` is the rest (`ExtendOrder` is one turn of the loop). When the loop
ends, nothing of the order is on a cycle, since `Behind` of a formula lies before
it (`BehindEarlier`, `OrderedAcyclic`), and everything else is on or behind one:
each formula that is left has a dependency that is left too, and going from one
to the next, the one with the fewest formulas behind it must be behind itself
(`LeftOutCyclic`). `FlattenIs` says of any order of the document's keys what the
context is in the end.

*Two runs.* `DryRunInv` relates the dry run to the calculation by showing that
both have one possible course. `ByRounds`: an order is the result of a number of
rounds, so two orders in which the rounds have ended are the same (`SameOrder`).
`GoesTo`: as long as nothing fails, the namespace after each formula follows
from the list (`SameCourse`); both are proved by a least counterexample.
`ReplySound` keeps of the dry run what the calculation needs: a clean reply has
such a course through all formulas, and any other one has a formula without an
order or a first one that fails in its place (`Fails`). The calculation follows
the same course, and so meets that failure or none (`GoesOrFails`).
`ErrorsSound` explains each outcome by those behind it, which the rounds put
before it (`BlockedIs`), and `SpaceSound` is why names read results.

### Not proved

- Liveness (`WorkerReturns`, `EveryJobTaken`, `OnlyTornResultsHang`,
  `EveryRunEnds`) is outside the prover's reach.
- What needs induction over data is proved by a least counterexample instead
  (`LeastElement`, from the well-foundedness of the naturals), over counters,
  places and cardinalities. Where the code loops over a dictionary's keys
  (`Walk`), the model is the closed form of the loop, so that the loop itself is
  not proved to compute it.

## 6. Not modelled, and why

- *Descriptions and renames of samples*: columns that only their own request
  writes and no other decision reads.
- *Existence of the sample* above a template: it is deleted by marking, so the
  rows below keep a valid reference; the check is a choice between its outcomes.
- *Validation* (JSON Schema, Pydantic): a choice between success and refusal.
- *Python* in the child process: what a formula comes to is part of the
  document. Calculations named like a built-in function or like `values` are
  left out: they would shadow what other formulas call.
- *Formulas that change the dictionary of the values* (`values['t'] = 1`), which
  later formulas of the same run would see: formulas only look keys up in it.
- *Formatting* of values in reports, and nested dictionaries other than forms.
- `migrate_formula`, which no request calls.
- *Routers, response models, settings, telemetry, PDF layout, request signing*:
  no state on which the properties depend.
- *Two processes at once* during a rolling deployment: `Stop` and `Start`
  follow each other. An upload of the old process may land when it stops, but
  not after the new one has uploaded.
- *Deadlock on the name index*: see 2.1.
- *Editing an experiment that is deleted meanwhile* ends in a failed reply and
  changes nothing; the reply's kind is not modelled.

## 7. Plan

Done, in this order: catalogue with its refinement and proofs, report pipeline,
experiment edits, catalogue order, sandbox; then calculations with forms and
report context, visibility, the feeder thread, the broken pool, the proofs of all
components with a state invariant; then the refinement of the list, reports of
requests that do not overlap, and the calculations. What could follow:

1. Experiment edits composed with the report pipeline and with the template
   catalogue: what a report shows when edits overlap its request, at the level
   of answers and formulas.
2. A bounded queue of calculations in front of the sandbox, to ask whether
   calls that are refused as busy are refused fairly.
3. Two overlapping processes during a deployment, with uploads that outlive the
   process that began them.
4. Proofs: how many processes and slots a call can hold over its whole life, and
   an abstract report service (accept, serve, lose) that the pipeline implements
   for requests that do not overlap.
