# FinDocIQ: a TLA+ verification project

FinDocIQ ingests borrower PDFs, indexes them as evidence and answers metric
extractions from them, on one GPU that it shares with a vLLM server; a staging
agent carries an application through it to a human decision. This directory holds
TLA+ models of the parts whose correctness depends on the order in which things
happen or on rules that contradict each other, the TLC runs that check them and
TLAPS proofs of the most important properties.

Paths below are relative to the package, `src/findociq/`, unless they start with
`tests/`, `docs/`, `configs/`, `migrations/` or `staging_agent_impl/`.

## 1. Inventory

### Components, their state and their operations

| Component | State | Operations | Talks to |
|---|---|---|---|
| HTTP API (`api/app.py`) | lazily built services, the policy in force | batch ingestion, retention deletion, extraction, evidence assessment, document sets, query, activity polling | everything below, from a thread pool |
| Ingestion service (`api/ingestion.py`) | `_lock` (one batch at a time) | decode and validate, scan, store, parse, chunk, redact, embed, index | GPU lease, parser, object store, chunk index, activity registry (callback) |
| GPU lease (`ingest/gpu_lease.py`) | `_MODEL_RUNTIME_LOCK` (process-wide, re-entrant), `_batch_sleeping`; outside: whether vLLM sleeps | `operation`, `ingestion_batch`, `generation_fallback` | vLLM over HTTP; called by ingestion, the parser's vision extractor and queries |
| Ownership registry (`security/registry.py`, `security/local_registry.py`) | a record per application and document; a deletion receipt per application | `register`, `owns`, `delete_application` | Postgres, memory or SQLite |
| Document sets (`security/document_sets.py`) | recorded sets of documents, by content hash | `freeze`, `put`, `get` | Postgres or SQLite; asks the registry |
| Chunk index (`index/store.py`) | Qdrant points | `upsert`, `scoped_chunks` (paged), `delete_application`, searches | Qdrant |
| Encrypted objects (`security/storage.py`, `security/rotate_keys.py`) | one envelope per object, active or quarantined | `store`, `materialize`, `delete_application`, `rewrap_all` | files |
| Activity registry (`api/activity.py`) | events, status, sequence and application per batch id | `start`, `report`, `finish`, `snapshot`, `application_id` | written by the batch handler, polled |
| Service authentication (`security/auth.py`) | ledger of used token ids | `verify`, `consume` | Postgres or memory |
| Retrieval (`retrieve/`) | query cache, lazy models | `retrieve`, `release_models`, `invalidate_application` | chunk index, GPU lease |
| Parsing and chunking (`ingest/`) | none between calls | page routing, Docling, vision fallback, tables, chunks | GPU lease |
| Evidence gate (`reason/evidence_gate.py`, `basis.py`, `interpretations.py`, `classification.py`) | none: functions of chunks, policy and a reviewer's links | `extract`, `assess` | chunks |
| Calculations (`reason/calculations.py`, `dscr.py`, `debt_service.py`, `accounting_formulas.py`) | none | formulas over figures, reconciliation | evidence gate |
| Reasoning passes (`reason/pass1_extract.py`, `pass2_reason.py`, `single_pass.py`) | none between calls | repair, grounding, validation and retry of model answers | vLLM |
| Staging agent (`staging_agent_impl/`) | checkpoint, workspace artifacts, workflow record, intake job | `start`, `resume`, `cancel`, seven workers | FinDocIQ's API; graph, workflow and job packages outside this repository |

### What is hard

* **No transaction spans the stores.** A batch writes objects, then points, then
  records, then the set; a deletion removes records, then points, then objects;
  an agent worker saves an artifact, advances the workflow record, then
  checkpoints. Each call may fail, and the process may stop between any two.
* **Reads in pages.** `scoped_chunks` reads the index page by page while batches
  and deletions write it.
* **Locks that nest and locks that do not cover.** Ingestion holds two locks, a
  query takes one of them twice; registration, set recording, deletion and the
  agent's `start` hold none.
* **An external server with state.** vLLM is asleep or awake whatever the
  exchange that was meant to change it answered.
* **Retries with client-chosen identifiers.** Batches, deletions and workflow
  commands are repeated by clients that saw no answer.
* **Rules with exceptions.** Six formulas may answer one ratio, two bases and
  several reports one metric, a reviewer may settle what the text leaves open.
* **A model that may answer anything.** Citations are repaired, answers retried.
* **Bounds.** The activity registry, the evidence inventory, the cache, deadlines.

`PROJECT.json` lists each hazard at its line with the properties that cover it.

### What makes each component correct

* Registry: a registered document is owned, an identifier is never rebound, a
  deletion revokes everything of its application, repeats its answer, and touches
  nobody else.
* Life cycle: an active record implies indexed chunks and a stored object; an
  answered deletion implies that no active record, chunk or object is left and that
  nothing is read of the application any more; an answer rests on the whole
  evidence of its scope.
* GPU lease: one user at a time; vLLM asleep while this process computes, awake
  while it is asked to generate, and awake again afterwards; no lock is kept.
* Encrypted objects: an object is a whole envelope or absent whatever stops or
  fails, a rotation that is recorded is complete, and the service reads all it has.
* Activity registry: the events of an entry are the tail of an unbroken count, its
  poll is authorized by an application its requests named, and its status is the
  outcome the client was answered, in bounded memory.
* Staging agent: nothing answered is asked again, no store runs ahead of the one
  written before it, a human decides on what the guardrails accepted, the job
  tells how the execution ended.
* Evidence gate and calculations: one more document or one more link never
  exchanges a figure for another silently, the order of documents changes no figure,
  a ratio is never computed around evidence that contradicts it and has one value in
  a reporting year.
* Queries: whatever the model says, an answer cites only what was retrieved for
  this request, and every request ends.
* Parsing: no page is silently unread, nothing read is lost, doubled or put under
  another table's caption.

## 2. Modules

| Module | Models | Notes |
|---|---|---|
| `OwnershipRegistry` | `security/registry.py`, both backends | one action per method; `Backend` selects how a row is re-registered and how a receipt is kept |
| `RegistryContract` | what callers of the `DocumentRegistry` protocol rely on | abstract: ownership, binding, last answer |
| `DocumentLifecycle` | batch ingestion, set recording, retention deletion, extraction over four stores | instantiates `OwnershipRegistry` (Postgres) for what register, owns and delete read and write |
| `EnvelopeStore` | `security/storage.py`, `security/rotate_keys.py` | the files under one call of the life cycle's object store, and the key rotation |
| `GpuLease` | GPU lease with its users | |
| `ActivityRegistry` | activity registry driven by the batch handler | |
| `StagingAgent` | `staging_agent_impl/runtime.py`, `workers.py` | one action between two awaits |
| `EvidenceGate` | the gate's selection, bases and reviewer links | pure operators over a growing inventory |
| `MetricCalculations` | formulas, debt service, DSCR, `extract` and `assess` | pure operators over a growing ledger |
| `QueryPath` | `/v1/query`: retrieval, cache, both reasoning modes | the model's replies are a free choice |
| `DocumentParsing` | routing, Docling, fast path, vision fallback, the chunker's loop | extends `TextSplitting` |
| `TextSplitting` | the splitting of a long text | |
| `...Proofs` (8) | theorems of `OwnershipRegistry`, `DocumentLifecycle`, `GpuLease`, `ActivityRegistry`, `EnvelopeStore` and `StagingAgent`, one module each; `EvidenceProofs` of `EvidenceGate` and `MetricCalculations`; `AnswersProofs` of `TextSplitting`, `QueryPath` and `DocumentParsing` | section 4 |
| `MC...` | constants of the runs | `MCServiceState`, `MCEvidence` and `MCAnswers` put components that share nothing into one run: the variable `part` says to which of them a behaviour belongs |

### OwnershipRegistry

`records[a][d]` is the row of a document, `receipts[a]` the stored receipt and
`reply` the last answer. Each method runs under one lock (memory) or in one
transaction (Postgres), so each is one action. The two backends differ in `Stored`
(the Postgres upsert sets only the state and the retention date) and in
`ReceiptAfter` (inserted once, or overwritten).

### DocumentLifecycle

One action is one call to one store, in the order the handlers make them:

    batch:       Submit, ScanClean | ScanUnsafe, EnterIngestion (lock),
                 (StoreObject, IndexDocument) per document, lock released,
                 RegisterDocument per document, CheckOwnership, InsertSet
    set:         SubmitSet, CheckOwnership, InsertSet
    deletion:    StartDeletion, DeleteRecords, DeletePoints,
                 DeleteActiveObjects, DeleteQuarantinedObjects
    extraction:  Authorize, Scroll per page, EndExtraction

Each handler can fail at every stage (`FailBatch`, `FailDeletion`; a failing
folder removal may have removed some of the files) and `Restart` stops them all
and keeps only the stores. `overlap`, `erased` and `disturbed` are history
variables the properties refer to. A request that only records a set
(`OnlyFreezes`) writes nothing a deletion removes, so it does not count as an
overlap. A recorded set outlives the deletion of its application; `get` asks the
registry again, which is why it then authorizes nothing (`NoScopeAfterErasure`).
What an overlap of a batch and a deletion leaves behind is in the model and excluded by
the properties: the batch may register a document whose chunks and object the deletion
has just removed (`api/app.py:626`).

### EnvelopeStore

`DocumentLifecycle` takes the storing of an object as one step; this module looks
inside it. `store` opens (and truncates) a temporary file, writes it in two parts and
renames it over the object; `Open`, `WriteFirst`, `WriteSecond` and `Replace` are
those steps. A thread's handle (`writer[w].file`) follows the file through renames
and outlives its removal, as on POSIX. `RemoveFolder` removes any files of one
state, so that repeated it is `rmtree` removing them one by one. The rotation
program (`BeginRotation`, `Rewrap`, `RecordRotation`) runs while the service is
down, as its documentation asks, and may be stopped (`StopRotation`) or meet an
object it cannot unwrap (`AbortRotation`). `interrupted` and `shared` are history.

### GpuLease

A thread of `Batches` or `Queries` goes through the stages of its `with` blocks.
`Sleep`/`SleepFails`, `Restore`/`RestoreFails` and the fallback's `FallbackWake`
and `Resleep` are exchanges with vLLM; a failed one may have taken effect. The
error that is being raised is kept in `task[t].error`, because the parser treats a
`RuntimeError` differently from any other.

### ActivityRegistry

The dictionaries of the code are functions with `Absent` for a missing key, and
`order` is the insertion order Python's dictionaries keep. The handler of each
request drives them; two handlers may carry one batch id. `applications` is whom a
production poll is authorized for; a request of the local profile names none (`AppOf`).
What the model shows beside its properties: a retry, or a report after an eviction,
starts the count again, so that a poller that still asks for events after an older
sequence misses the kept ones up to it (`api/activity.py:68`); and an entry a report
re-created has no application, so that in production its running batch polls as not
found (`api/app.py:579`) until it is started again. `strays` and `strayed` are history.

### StagingAgent

`pc[c]` is where a call of `start`, `resume` or `cancel` stands; `Stages` lists the
seven workers in their fixed order with the places between their awaits. Four
stores outlive a process: `artifact` (the workspace), `graph` (the checkpoint),
`workflow` (level and suggestion) and `job`. A worker's look-up of an artifact and
its saving are one action; that no other execution can come between is not assumed
but proved (`OneExecutionAtATime`). An external command may fail with or without
effect (`AdvanceFails`), figures may cite a foreign document (`RefuseForeign`), and
`Restart` may deploy another policy. What the model shows beside its properties: a
stop between the last checkpoint and `jobs.finish` leaves the job running until the
maintenance pass flags it; after a crash and a redeployment the suggestion is computed
again while the workflow record keeps the first one (`HandedOverIsChecked` excludes
exactly that); a foreign figure is saved before it is checked, so that every later
attempt loads it and ends the application.

### EvidenceGate

The gate is a function of `inventory` (documents in the order the index returns
them) and `links` (what reviewers accepted). Document profiles, page sections, rows
and columns, `ResolveBasis`, `ResolveLink` and `Select` are the operators of the
code; refusals are listed in the order in which the code tests them. A chunk has the
places of its whole provenance (`places`: a table carries those of its caption and of
the paragraph before it, a merged one those of every page it continues on), and those
it is cited at (`own`): what stands on any of its pages decides its units, basis and
section, and a figure that has not exactly one place to be cited at is refused. Values
are compared as the code does, as decimal strings: a cell is its digits and the number
of its decimals, and a conversion to crore adds decimals, so that 500 lakh (5.00)
conflict with 5 crore. The actions add or drop a document or accept a link the gate
offered, and the properties compare an assessment with the one before.

### MetricCalculations

`ledger` gives each operand a figure (amount and context) or the reason there is
none. `Formulas` is the code's table; `Calculate`, `Reconcile` and `CalculateDscr`
are its three levels, `Extract`, `Status` and `Diagnostics` what callers see. The run
uses the formulas `configs/evidence/borrower.yaml` ships. The code only asks
whether a refusal is the missing one; a conflict and an unclear basis stand for all the
others, as the one lasts and the other can be settled.

The ledger starts with a report that states no operand and moves as the gate's answers
move when a document or a link is added (`Succeeds` of `EvidenceGate`): `Disclose`,
`Contradict` (a conflict, which stays as long as the year does, or an answer that is no
longer clear), `Settle` (what was unclear becomes clear; a figure found before is still
in the file, so it returns or conflicts) and `Renew`. Every operand is taken from the
newest year of the same audited financials, so a newer report (`reportYear`) moves all
the disclosed ones at once, to its own figures or to a refusal. `cover` is history: the
first debt service cover supported in the year. Deletions of documents, which may undo a
conflict, are left out of the ledger.

### QueryPath

`Ask` retrieves (from the cache or by a search) and starts a single or a two-pass
answer; `Extract`, `Reason` and `Answer` are what the code does with a reply of the
model: repair and grounding of each citation, validation of a selection, one
retry. `Ingest` replaces a document's chunks. `service.query` holds the process-wide
lease from retrieval to answer and a batch holds it while it indexes, so one request
runs at a time. Production answers 404 on this path. The cache's key is a set of
documents, as in the code. The hits of a request are a set: `Best` takes from a
ranking its first chunks within the scope, first the store's and then the reranker's,
and no rule of the reasoning passes depends on the order of what is left.

### DocumentParsing and TextSplitting

A call of `DocumentParser.parse` under a profile: `Docling` (recognises any blocks,
may stop at its own timeout), then page by page `ReadLayer` or `ReadVision`, with the
deadline checked where the code checks it, then the chunker (`ChunkTable`,
`SkipBlock`, the text loop). The profiles are the shipped ones: Docling first with
vision required and no deadline (default), the same without vision and with a
deadline (docker), digital pages only. `blocks[n]` is the set of the items of page `n`
that a reader made blocks of; `Flow` puts those of all pages into reading order
(`Precedes`: by page, then by place), which is the order the chunker walks them in,
`next` being its place. `TextSplitting` is `_split_text`; its search
for `". "` is left out because the blank in it is always found too, one position
further, so that candidate never decides.

## 3. Runs

| Run | Question | Bounds, and why they are enough |
|---|---|---|
| `Service_state` | does the memory registry implement the contract; what does a poller see; are encrypted objects whole and readable? | *Registry*: two of everything but the policy: a conflict, a foreign application, a partial and a repeated deletion. *Activity*: four requests over three ids in a registry of two entries, one retried, one event kept, one report each: an eviction, a stray report, a restarted count, two applications and a request that names none. *Envelopes*: one active and one quarantined object, two threads, two keys: two stores of one object, a deletion between them, a rotation stopped between its objects, a second one back |
| `Lifecycle_stores` | are the stores consistent through overlaps, failures and restarts? | two applications share a document; one batch or set and two deletions, so that a deletion meets a batch, another deletion, and the remains of a failed one |
| `Lifecycle_reader` | what does a paged read racing writers answer from; can a recorded set bring back an erased application? | one batch of one or two documents, one deletion, one extraction; three chunks that interleave in scroll order, pages of one record, a bound of two: more pages than one, a document in two pages, an inventory beyond the bound |
| `Lifecycle_progress` | is the lock freed, does a scroll end? | two batches contend, two policies, pages of one |
| `Lifecycle_truncated` (violation) | can an answer rest on part of a document? | one document of two chunks |
| `Gpu_lease` | who uses the GPU when, and are the locks freed? | two batches of two documents and two pages, two queries: a contender for each lock, a first and a later document |
| `Gpu_stranded` (violation) | is vLLM always restored? | one batch |
| `Staging_recovery` | what survives failures, lost answers, stops and redeployments? | two metrics, two resumptions, one cancellation, two restarts, two policies: a half-answered extraction, calls that meet each other's unfinished work, a stop and a second one while recovering |
| `Evidence` | can a document, a link or an order change a figure silently; can a ratio bypass its evidence? | *Gate*: up to three of seven documents in every order, one link: two companies, three years, both bases, a mixed report, an unclear one, a superseding one. tables that continue on a second page or have two places, a paragraph of another page before a table, 500 lakh beside 5 crore. *Ledger*: up to five of the twelve operands and readings of the shipped cover disclosed, some of them for both bases, one refused at a time, and a newer report once, with up to two disclosed: five of the six formulas can be supported (the last needs six operands), alone, with a stated ratio, and two at once; a cover is refused and supported again, by another formula, in both years |
| `Answers` | is an answer grounded whatever the model says; is a page lost? | *Queries*: two questions, two scopes, two documents one of which changes, a cache of two, a model with right, misplaced and invented figures. *Parsing*: files of up to four pages of every class, the three profiles, texts of seven characters cut at four with two of overlap and blanks anywhere |
| `Query_ungrounded` (violation) | does every number of an answer come from the evidence? | the same |
| `Parsing_unread` (violation) | is every unread page shown to the vision model? | the same |

`CHECK_DEADLOCK FALSE` is set where a behaviour has an end: the activity
registry's requests are one-shot (`Service_state`), an agent whose calls are over
stops (`Staging_recovery`), an inventory and a ledger stop growing at their bounds
(`Evidence`), a document is parsed once (`Answers`, `Parsing_unread`).

### Fairness

* `DocumentLifecycle!Fairness`: a call made inside the ingestion lock returns or
  raises, and so does a page of a scroll: the parser has a deadline
  (`parse_timeout_seconds`), the Qdrant client and the vLLM requests time-outs.
  Nothing is assumed of clients, of restarts or of the order in which waiting
  threads get the lock, so nothing is claimed of a waiting batch.
* `GpuLease!LiveSpec`: the holder of the runtime lock makes progress, for the same
  reason. Python's locks are not fair: no thread is promised the lock.
* `StagingAgent!LiveSpec`: each call takes its next step (`Work`, `Control`); every
  await in it is a request with a time-out. Nobody has to call `resume`.
* `QueryPath`: the model's request returns or times out (`WF(Model)`), whatever
  it returns.

### What the violation runs show

Each is a disagreement between the code and a sentence of its documentation,
quoted in `PROJECT.json`:

1. `Lifecycle_truncated`: a deletion between two pages truncates an inventory
   unnoticed. `UndisturbedIsComplete` states what does hold.
2. `Gpu_stranded`: a failed exchange before the `try` leaves vLLM asleep.
   `AwakeUnlessFailed` states what does hold.
3. `Query_ungrounded`: pass 2 takes numbers of a label, a unit or a period for
   evidence, and pass 1 grounds only values. `FiguresAreWhereTheyAreCited` states
   what does hold.
4. `Parsing_unread`: a page on which Docling found nothing, beside one on which it
   found something, stays empty. `FallbackReadsEveryPage` states what holds once the
   fallback path is taken.

More disagreements are stated as definitions that fail when a run is pointed at
them, without a run of their own:

* `OwnershipRegistry!RegisteredIsOwned` (`Backend = "postgres"`, two policies): after
  a policy change a re-ingested document stays owned under the old policy hash
  (`security/registry.py:105`).
* `OwnershipRegistry!RepeatedDeleteRepeatsAnswer` (`"postgres"`): in the second cycle
  of ingestion and deletion, the deletion answers the first cycle's receipt
  (`security/registry.py:174`).
* `GpuLease!ModelsReleasedFirst`: from its second document on, a batch that falls back
  to vision wakes vLLM while the embedder occupies the GPU (`ingest/gpu_lease.py:103`);
  `ModelsYield` states when.
* `QueryPath!EvidenceIsCurrent`: the local profile never invalidates its query cache
  (`retrieve/pipeline.py:145`); only the production profile does, whose query path
  answers 404.
* `MetricCalculations!AlternativesDoNotBypass` (with `EbitdaPolicy` and
  `EbitdaReadings`): `calculate` stops at the first operand without a figure, so a
  missing one hides a conflicting later one and an alternative formula answers
  (`reason/calculations.py:19`, against the comment at `reason/evidence_gate.py:518`);
  for the debt service cover `DscrNeverBypasses` holds.

And consequences nobody claims otherwise of: `report()` re-creates an evicted
activity entry beyond the bound (`BoundedButStrays` allows exactly these); with a
lenient parser (`fail_on_vision_required: false`) a failed re-sleep is swallowed, so
`WorkWhileAsleep` needs the strict one, and no shipped configuration combines the
lenient one with an enabled lease; a quarantined object stored twice at once may be
torn; a rotation that ended half way cannot be resumed with the same keys, because
its first rewrapped object no longer unwraps under the old one; a conflicting
`principal_due` or `term_interest_due` stops the debt service cover though no
diagnostic names it.

## 4. Proofs

Assumptions are the modules' `ASSUME`s only: sizes are positive, sets of threads are
disjoint, absent values are none of the values they stand beside, the overlap is
shorter than a piece, the chunks of a document are a sequence with finitely many
years and at least one place to be cited at, a policy names formulas of the table, a
figure has the fields of its JSON schema, a file is a sequence of pages and a page a
sequence of items. The two theorems about the debt service cover add that the policy
offers one.

**OwnershipRegistryProofs** (any applications, documents, digests, policies):
`TypeCorrect`; `IdentityPermanent` and `DeletionRevokes` from the type invariant
and the definitions of what each call writes; `MemoryImplementsContract`, the
refinement of `RegistryContract` by the memory backend. Its mapping needs one
strengthening: after a deletion was answered, the stored receipt is that answer as
long as nothing is live.

**DocumentLifecycleProofs** (any applications, documents, chunks, policies, page
size and bound, any numbers of concurrent requests): `TypeCorrect`;
`ActiveDocumentsAreComplete` and `ErasedApplicationsAreGone`. Neither of these is inductive: why a record may be
written depends on what its batch has written so far, and why it may be forgotten on
what a deletion has removed so far. `AppInv(a)` says both of one application
(`Written`, `Removed`), as long as no batch and no deletion of it overlap; a step
works for one application and leaves the others as they are (`Untouched`), and so
does a request that only records a set. `ErasedApplicationsStayUnread` is an action
property from the same invariant: an authorization reads the registry itself, and what is
erased has no active record there, whatever sets are recorded.
`UndisturbedAnswersAreComplete` adds an invariant of the scroll: what it has found is
exactly what lies before its offset, which rests on the smallest records of a finite
set coming before the others (`SmallestComeFirst`), and the rest is still indexed,
which rests on `ActiveIsComplete` at the moment of authorization.

**GpuLeaseProofs** (any threads, documents, pages): `MutualExclusion` follows from
an invariant that ties the stage of every thread to the owner and the depth of the
re-entrant lock: whoever is in the lease owns it, at depth two for a query inside
its inner block, one otherwise. On top of it the invariants about vLLM are
inductive: awake in the generating stages (`GenerationFindsVllmAwake`), awake with
a free lock unless an exchange failed (`RestoredUnlessFailed`), asleep in the
working stages under a strict parser (`WorkFindsVllmAsleep`,
`ModelsYieldOutsideFallback`).

**ActivityRegistryProofs** (any ids, handlers, bounds): `ActivityInv` joins the types,
`DictionariesAgree`, the counts that make a window, `BoundedButStrays` and the outcome of
each handler. `DictionariesStayInStep` needs that eviction takes exactly the oldest entry
of an order without repetitions, from all four dictionaries, and that an entry no report
re-created was started by a request that has begun; `BoundIsKept` counts that order's length;
`PolledIsAnswered` says that the status of a batch id only one request carries is
the outcome that request was answered.

**EnvelopeStoreProofs** (any objects, threads, keys): `EnvelopeInv` ties what a file
holds to who has it open. A store that is not aware of another one (`shared`) is
alone with its object, so that what it has written so far is all the file holds
(`OthersAreWhole`); an ingestion is the only writer of its object and reads back its
own version (`OwnEnvelopeIsRead`); outside an interrupted rotation every whole object
is under the key in force (`ObjectsAreReadable`); the count of a rotation is the
number of the objects it has done, by induction over its steps (`RecordsAreComplete`).

**StagingAgentProofs** (any calls, metrics, policies, restarts): `AgentInv` is the
conjunction of the types, `JobInv`, `ExecutionInv`, `StoresInv`, `AnswersInv` and
`HandoverInv`. `OneExecutionAtATime` comes first: `start` takes no lock, but a resumption
needs a status no execution leaves while it goes on. It is what lets each worker's
check and save be one step, and `NothingIsAskedTwice` and `StoresStayOrdered` rest on it.
`HandedOverWasChecked` says that while policies stay, everything derived from them
agrees; `JobToldTheOutcome` ties the job to the checkpoint while no call meets
another one's unfinished work.

**EvidenceProofs** (any documents, rules, links, policies, amounts). Every inventory is
made of known documents without repetitions, and every link is one the gate offered
(`DocumentsAreListed`, `LinksAreOffered`). The gate's answer is then taken apart:

* it has a figure only if no document in it fails any test (`FailureSettles`,
  `ReadingSettles`; the first of several failures is found by the least-number
  argument), so a figure does not depend on which refusal would come first;
* what one chunk contributes depends on its document, the year and the links alone
  (`CandidatesOfPlace`), and a figure on the set of these contributions
  (`FigureOfMembers`, `SameMembersSameFigure`). `OrderIsFree` follows: exchanging two
  neighbours of the inventory changes no figure, gives none where there was none and
  takes none away. Which of several refusals is given does depend on the order, as the
  first one ends the reading;
* a link can only resolve a basis that the report leaves open, and then every candidate
  of the chunk has it: `LinksAgree` (wherever a report's own declarations resolve a
  basis, a reviewer's link gives the same one or is refused) and `LinksSettleOnly` (the
  figures with and without links agree);
* one more document leaves the year or moves it forward, and within a year it only adds
  candidates (`MoreCandidates`, `LaterYear`): `SwapsAreDeclared`.

For the calculations: `CoverIsNotBypassed` says a debt service cover is never answered
beside a conflicting operand of any of its formulas, a conflicting stated ratio or a
partly disclosed schedule, because these are looked at before the first formula
(`SupportedCover`, `ScheduleIsWhole`). `CoverNeverMoves` says that of one reporting
year there is one cover. That is not inductive, because the cover may be refused in
between and answered by another formula later. What is (`CoverRests`): the remembered
cover is what some formula of the policy, or the stated ratio, gives on figures that the
file still holds, in the open or behind a doubt (`Believed`), unless one of them
conflicts, and a conflict ends the cover for the year (`OperandStays`,
`CoverRestsPreserved`). Whenever a cover is answered again, every formula that has its
operands must agree with it, among them the remembered one (`RestingCoverAnswers`). What
the sums amount to is a matter of the runs.

**AnswersProofs** (any corpora, files, profiles, limits, replies of the model).

* Splitting: `NothingIsLost` and `EveryPieceAdvances`; the invariant ties the next start
  to the end of the last piece. `DocumentsAreSplit` is the same inside a parse, where
  each text of the file starts a new splitting.
* Queries: `QueryInv` says that a cache entry is within the scope it is stored under, the
  hits of a request are within its scope, every figure that was kept stands in the hits
  (`Stands`), and every citation of an answer is a hit. It is what
  `AnswersCiteWhatWasRetrieved`, `RepairsDoNotGuess` and `SinglePassStandsOnChunks` need
  across the retry and an ingestion that replaces the index under a cached result.
* Reading: `ReadInv` adds to the types that a parse in which Docling was cut short has
  failed, and that, read page by page under a profile that insists on vision, no page
  that needs the vision model is passed over: `TruncatedDocumentsFail`,
  `EveryPageIsRead`.
* Chunking: every block has exactly one place in the reading order. A ranking of a finite
  set by a total order is injective into `1..n`, hence onto (`FlowRanks`). `ChunkInv`
  then says of the chunks so far that their parts are blocks before `next`, none is
  dropped or repeated, and they follow the reading order, through the merging of tables
  that continue on the next page and through texts that become several chunks:
  `EvidenceIsKept`, `ReadingIsFiled`. `CaptionInv` adds, for files whose tables all have
  their caption above them, that each part of a merged table keeps its own caption and
  that a later part is called a continuation and follows the part before it with no
  table between them: `CaptionsStayWithTables`.

These modules use sets and functions where the code filters or flattens lists, so that
no definition they rest on is recursive.

Only model-checked is liveness: `LockIsFreed`, `ScrollEnds`, `RuntimeLockIsFreed`,
`ServiceLockIsFreed`, `LockIsReleased` and `QueriesEnd`. Fairness and `ENABLED` are beyond
the prover. Every other property of the passing runs is stated by a theorem.

## 5. Not modelled

* **Local SQLite registry.** The same three calls as the ownership registry for a
  single-user profile. What it adds is SQLite's locking: `delete_application` reads
  before its first write, and a `SELECT` opens no transaction
  (`security/local_registry.py:29`); whether another process comes in between is up to
  the library.
* **Service authentication and the token ledger.** Signatures are library code, and
  single use is one `INSERT` under a unique index.
* **Document safety and redaction.** The scanner's verdict is a free choice of the life
  cycle, page limits are part of parsing; redaction is pattern matching on text.
* **Observability and the evaluation harness.** Nothing reads back what the first
  records; the second is offline scoring by one process.

Left out of modelled components:

* Endpoints: authentication, request validation, and services built on first use
  without a lock (`api/app.py:183`), so that two first requests may build two; the order in
  which `vllm_ready` is reported after the lease is left (`api/ingestion.py:129`), which
  is a message and no state.
* Chunk index: ranking, and the creation of the collection. Re-ingestion under another
  chunking configuration leaves the old points beside the new ones
  (`index/store.py:107`): the life cycle's chunks of a document are fixed, because the
  configuration is that of a deployment.
* Activity registry: `finish` on an evicted entry leaves a status that no eviction
  removes (`api/activity.py:62`); it is in the model, and no property forbids it, as
  nothing reads a status without its events. The texts of events and the `after` of a
  poll, which only selects among the kept ones, are left out.
* Retrieval: how the store and the reranker order chunks, and `invalidate_application`.
* Parsing: geometry of boxes and ruled lines, OCR line restoration, image inputs. The
  paragraph before a table is part of its own chunk and also quoted in the table's text
  (`ingest/chunker.py:66`); the model keeps it as the table's context, not as a part.
* Gate: the rules of single metrics (region, borrower name, shareholders' columns).
* Calculations: the company's age, rounding to 28 digits, and deletions of documents.
* Agent: `supervisor.py`'s routing of what a human sends back, collision checks of
  staging, tracing, and a second job for the same application.
