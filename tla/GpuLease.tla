------------------------------ MODULE GpuLease ------------------------------
(***************************************************************************)
(* One GPU shared by the vLLM generation server and the models this        *)
(* process loads (Docling and OCR, BGE-M3, the reranker).  A batch or a    *)
(* query takes the process-wide model-runtime lock, puts vLLM to sleep,    *)
(* works with its own models, releases them and wakes vLLM again.  A page  *)
(* that needs vision wakes vLLM in the middle of a batch.                  *)
(*                                                                         *)
(* This is the profile with the lease enabled.  With it disabled only the  *)
(* locks remain.  One step is one exchange with vLLM (the POST, the state  *)
(* check and the health check together: only the lock's holder drives      *)
(* vLLM) or one stretch of work.  A failed exchange may have taken effect. *)
(* vLLM answers in order and never restarts or sleeps by itself.           *)
(*                                                                         *)
(* _batch_sleeping is TRUE exactly while its batch is in Body, the only    *)
(* place the fallback is called from, so it is not a variable.             *)
(***************************************************************************)
EXTENDS Naturals

CONSTANTS
  Batches,       \* threads serving ingestion
  Queries,       \* threads serving FinDocIQService.query
  Documents,     \* documents in a batch
  Pages,         \* pages in a document
  FailOnVision,  \* ParserConfig.fail_on_vision_required
  None

Threads == Batches \cup Queries

ASSUME SizeAssumption == Documents \in Nat \ {0} /\ Pages \in Nat \ {0}
ASSUME ConfigAssumption == FailOnVision \in BOOLEAN
ASSUME ThreadAssumption == Batches \cap Queries = {} /\ None \notin Threads

VARIABLES
  vllm,         \* "awake" or "asleep"
  serviceLock,  \* DocumentIngestionService._lock
  runtimeLock,  \* _MODEL_RUNTIME_LOCK: a re-entrant lock
  models,       \* the services whose models occupy the GPU
  task,         \* task[t]: where thread t stands
  trouble       \* history: the exchange that failed in the last operation

vars == <<vllm, serviceLock, runtimeLock, models, task, trouble>>

Unlocked == [owner |-> None, depth |-> 0]
Idle == [pc |-> "idle", doc |-> 1, page |-> 1, error |-> "none"]

Init ==
  /\ vllm = "awake"
  /\ serviceLock = None
  /\ runtimeLock = Unlocked
  /\ models = {}
  /\ task = [t \in Threads |-> Idle]
  /\ trouble = "none"

-----------------------------------------------------------------------------
Goto(t, pc) == task' = [task EXCEPT ![t].pc = pc]
Fail(t, pc, kind) == task' = [task EXCEPT ![t].pc = pc, ![t].error = kind]
Service(t) == IF t \in Batches THEN "ingestion" ELSE "retrieval"

\* Mutant: each service's lease makes its own lock.
MayTake_PerService(t) ==
  runtimeLock = Unlocked \/ Service(runtimeLock.owner) # Service(t)
MayTake(t) == runtimeLock = Unlocked

\* Leaving every with-block: both locks are free of t.
\* Mutant: a failed batch keeps the service's lock.
ServiceLockAfter_KeptOnError(t) ==
  IF serviceLock = t /\ task[t].error = "none" THEN None ELSE serviceLock
ServiceLockAfter(t) == IF serviceLock = t THEN None ELSE serviceLock
Exit(t) ==
  /\ runtimeLock' = Unlocked
  /\ serviceLock' = ServiceLockAfter(t)
  /\ task' = [task EXCEPT ![t] = Idle]

\* What vLLM may be once _sleep has returned (ok) or raised.
\* Mutant: the answer of /is_sleeping is not looked at.
AfterSleep_Unverified(ok) == {vllm, "asleep"}
AfterSleep(ok) == IF ok THEN {"asleep"} ELSE {vllm, "asleep"}
\* Likewise for _wake.
AfterWake_Unverified(ok) == {vllm, "awake"}
AfterWake(ok) == IF ok THEN {"awake"} ELSE {vllm, "awake"}

-----------------------------------------------------------------------------
(* Entering the lease.                                                        *)

SubmitBatch(b) ==
  /\ task[b].pc = "idle"
  /\ Goto(b, "service_lock")
  /\ UNCHANGED <<vllm, serviceLock, runtimeLock, models, trouble>>

TakeServiceLock(b) ==
  /\ task[b].pc = "service_lock"
  /\ serviceLock = None
  /\ serviceLock' = b
  /\ Goto(b, "runtime_lock")
  /\ UNCHANGED <<vllm, runtimeLock, models, trouble>>

SubmitQuery(q) ==
  /\ task[q].pc = "idle"
  /\ Goto(q, "operation")
  /\ UNCHANGED <<vllm, serviceLock, runtimeLock, models, trouble>>

\* operation() of a query; ingestion_batch() takes the same lock again.
BeginOperation(q) ==
  /\ task[q].pc = "operation"
  /\ MayTake(q)
  /\ runtimeLock' = [owner |-> q, depth |-> 1]
  /\ Goto(q, "runtime_lock")
  /\ UNCHANGED <<vllm, serviceLock, models, trouble>>

TakeRuntimeLock(t) ==
  /\ task[t].pc = "runtime_lock"
  /\ \/ /\ runtimeLock.owner = t
        /\ runtimeLock' = [runtimeLock EXCEPT !.depth = @ + 1]
     \/ /\ MayTake(t)
        /\ t \in Batches
        /\ runtimeLock' = [owner |-> t, depth |-> 1]
  /\ Goto(t, "sleeping")
  /\ UNCHANGED <<vllm, serviceLock, models, trouble>>

Sleep(t) ==
  /\ task[t].pc = "sleeping"
  /\ vllm' \in AfterSleep(TRUE)
  /\ Goto(t, IF t \in Batches THEN "parsing" ELSE "retrieving")
  /\ UNCHANGED <<serviceLock, runtimeLock, models, trouble>>

\* Mutant: the lock is not held by a with-block, and the error skips its release.
SleepFails_KeepsLock(t) ==
  /\ task[t].pc = "sleeping"
  /\ vllm' \in AfterSleep(FALSE)
  /\ trouble' = "sleep"
  /\ serviceLock' = ServiceLockAfter(t)
  /\ task' = [task EXCEPT ![t] = Idle]
  /\ UNCHANGED <<runtimeLock, models>>

\* _sleep raises before the try block: nobody wakes vLLM.
SleepFails(t) ==
  /\ task[t].pc = "sleeping"
  /\ vllm' \in AfterSleep(FALSE)
  /\ trouble' = "sleep"
  /\ Exit(t)
  /\ UNCHANGED models

-----------------------------------------------------------------------------
(* The body of a batch: parse each page, then embed the document.             *)

AtLastPage(b) == task[b].page = Pages
\* Records that page is done, with no exception pending.
PageDone(b) ==
  IF AtLastPage(b)
  THEN Fail(b, "embedding", "none")
  ELSE task' = [task EXCEPT ![b].pc = "parsing", ![b].page = @ + 1,
                            ![b].error = "none"]

\* _vision_blocks swallows a RuntimeError, GpuLeaseError included, unless
\* the parser must fail on missing vision.
VisionError(b, kind) ==
  IF kind = "runtime" /\ ~FailOnVision THEN PageDone(b)
                                       ELSE Fail(b, "releasing", kind)

ParsePage(b) ==
  /\ task[b].pc = "parsing"
  /\ PageDone(b)
  /\ UNCHANGED <<vllm, serviceLock, runtimeLock, models, trouble>>

ParseFails(b) ==
  /\ task[b].pc = "parsing"
  /\ Fail(b, "releasing", "other")
  /\ UNCHANGED <<vllm, serviceLock, runtimeLock, models, trouble>>

\* A scanned page, or a table that cannot be extracted, needs vision.
NeedVision(b) ==
  /\ task[b].pc = "parsing"
  /\ Goto(b, "fallback")
  /\ UNCHANGED <<vllm, serviceLock, runtimeLock, models, trouble>>

FallbackWake(b) ==
  /\ task[b].pc = "fallback"
  /\ vllm' \in AfterWake(TRUE)
  /\ Goto(b, "vision")
  /\ UNCHANGED <<serviceLock, runtimeLock, models, trouble>>

FallbackWakeFails(b) ==
  /\ task[b].pc = "fallback"
  /\ vllm' \in AfterWake(FALSE)
  /\ VisionError(b, "runtime")
  /\ UNCHANGED <<serviceLock, runtimeLock, models, trouble>>

\* Vision answers, is disabled or unreachable ("runtime"), or answers what
\* the schema rejects ("other").  Each way vLLM is put back to sleep.
GenerateVision(b) ==
  /\ task[b].pc = "vision"
  /\ \E kind \in {"none", "runtime", "other"} : Fail(b, "resleeping", kind)
  /\ UNCHANGED <<vllm, serviceLock, runtimeLock, models, trouble>>

Resleep(b) ==
  /\ task[b].pc = "resleeping"
  /\ vllm' \in AfterSleep(TRUE)
  /\ IF task[b].error = "none" THEN PageDone(b) ELSE VisionError(b, task[b].error)
  /\ UNCHANGED <<serviceLock, runtimeLock, models, trouble>>

\* The GpuLeaseError replaces whatever the page had raised.
ResleepFails(b) ==
  /\ task[b].pc = "resleeping"
  /\ vllm' \in AfterSleep(FALSE)
  /\ VisionError(b, "runtime")
  /\ UNCHANGED <<serviceLock, runtimeLock, models, trouble>>

\* The embedder is loaded by the first document and stays loaded.
Embed(b) ==
  /\ task[b].pc = "embedding"
  /\ models' = models \cup {"ingestion"}
  /\ IF task[b].doc = Documents
     THEN Goto(b, "releasing")
     ELSE task' = [task EXCEPT ![b].pc = "parsing", ![b].doc = @ + 1, ![b].page = 1]
  /\ UNCHANGED <<vllm, serviceLock, runtimeLock, trouble>>

EmbedFails(b) ==
  /\ task[b].pc = "embedding"
  /\ models' \in {models, models \cup {"ingestion"}}
  /\ Fail(b, "releasing", "other")
  /\ UNCHANGED <<vllm, serviceLock, runtimeLock, trouble>>

-----------------------------------------------------------------------------
(* The body of a query.  A cached answer loads no model.                      *)

Retrieve(q) ==
  /\ task[q].pc = "retrieving"
  /\ models' \in {models, models \cup {"retrieval"}}
  /\ \E kind \in {"none", "other"} : Fail(q, "releasing", kind)
  /\ UNCHANGED <<vllm, serviceLock, runtimeLock, trouble>>

\* The reasoning pipeline calls vLLM under the outer lock.
Reason(q) ==
  /\ task[q].pc = "reasoning"
  /\ Exit(q)
  /\ UNCHANGED <<vllm, models, trouble>>

-----------------------------------------------------------------------------
(* Leaving the lease.                                                         *)

\* Mutant: models are released only when the body succeeded.
ModelsAfterRelease_OnSuccess(t) ==
  IF task[t].error = "none" THEN models \ {Service(t)} ELSE models
ModelsAfterRelease(t) == models \ {Service(t)}
ReleaseModels(t) ==
  /\ task[t].pc = "releasing"
  /\ models' = ModelsAfterRelease(t)
  /\ Goto(t, "restoring")
  /\ UNCHANGED <<vllm, serviceLock, runtimeLock, trouble>>

\* vLLM is woken; a query that found its evidence goes on to reasoning.
LockAfterInner == [runtimeLock EXCEPT !.depth = @ - 1]
Restore(t) ==
  /\ task[t].pc = "restoring"
  /\ vllm' \in AfterWake(TRUE)
  /\ trouble' = "none"
  /\ IF t \in Queries /\ task[t].error = "none"
     THEN /\ Goto(t, "reasoning")
          /\ runtimeLock' = LockAfterInner
          /\ UNCHANGED serviceLock
     ELSE Exit(t)
  /\ UNCHANGED models

\* The caller sees the wake's error, grouped with the body's if it failed.
RestoreFails(t) ==
  /\ task[t].pc = "restoring"
  /\ vllm' \in AfterWake(FALSE)
  /\ trouble' = "wake"
  /\ Exit(t)
  /\ UNCHANGED models

-----------------------------------------------------------------------------
BatchStep(b) ==
  \/ TakeServiceLock(b)
  \/ ParsePage(b) \/ ParseFails(b) \/ NeedVision(b)
  \/ FallbackWake(b) \/ FallbackWakeFails(b) \/ GenerateVision(b)
  \/ Resleep(b) \/ ResleepFails(b)
  \/ Embed(b) \/ EmbedFails(b)
QueryStep(q) == BeginOperation(q) \/ Retrieve(q) \/ Reason(q)
LeaseStep(t) ==
  \/ TakeRuntimeLock(t) \/ Sleep(t) \/ SleepFails(t)
  \/ ReleaseModels(t) \/ Restore(t) \/ RestoreFails(t)

Next ==
  \/ \E b \in Batches : SubmitBatch(b) \/ BatchStep(b)
  \/ \E q \in Queries : SubmitQuery(q) \/ QueryStep(q)
  \/ \E t \in Threads : LeaseStep(t)

Spec == Init /\ [][Next]_vars

\* Every exchange and every stretch of work returns or times out.  Nothing is
\* assumed of who comes next at a lock: Python's locks are not fair.
LiveSpec ==
  /\ Spec
  /\ \A b \in Batches : WF_vars(runtimeLock.owner = b /\ (BatchStep(b) \/ LeaseStep(b)))
  /\ \A q \in Queries : WF_vars(runtimeLock.owner = q /\ (QueryStep(q) \/ LeaseStep(q)))

-----------------------------------------------------------------------------
(* Properties.                                                                *)

Body == {"parsing", "fallback", "vision", "resleeping", "embedding",
         "retrieving", "releasing"}
Working == {"parsing", "embedding", "retrieving"}
Generating == {"vision", "reasoning"}
InLease == Body \cup {"sleeping", "restoring", "reasoning"}

PCs == InLease \cup {"idle", "service_lock", "operation", "runtime_lock"}
Errors == {"none", "runtime", "other"}
Tasks == [pc : PCs, doc : 1..Documents, page : 1..Pages, error : Errors]
TypeOK ==
  /\ vllm \in {"awake", "asleep"}
  /\ serviceLock \in Batches \cup {None}
  /\ runtimeLock \in [owner : Threads \cup {None}, depth : 0..2]
  /\ models \in SUBSET {"ingestion", "retrieval"}
  /\ task \in [Threads -> Tasks]
  /\ trouble \in {"none", "sleep", "wake"}

\* One operation at a time is inside the lease, across all services and
\* through a query's nested use of the lock.
OneInLease ==
  \A s, t \in Threads : task[s].pc \in InLease /\ task[t].pc \in InLease => s = t

\* Nothing is asked of vLLM while it sleeps: a query's reasoning and a
\* batch's vision calls find it awake.
GenerationWhileAwake ==
  \A t \in Threads : task[t].pc \in Generating => vllm = "awake"

\* Docling, the embedder and retrieval run only while vLLM sleeps, provided
\* the parser fails on missing vision (a lenient one swallows a failed re-sleep).
\* "Give one complete ingestion batch exclusive use of the GPU."
WorkWhileAsleep ==
  \A t \in Threads : task[t].pc \in Working => vllm = "asleep"

\* Loaded models meet an awake vLLM only inside a batch's vision fallback, or
\* in the batch that failed there and is about to release them.
ModelsYield ==
  models # {} /\ vllm = "awake" =>
    \E b \in Batches :
      /\ serviceLock = b
      /\ \/ task[b].pc \in {"fallback", "vision", "resleeping"}
         \/ task[b].pc = "releasing" /\ task[b].error # "none"

\* When nobody holds the lease vLLM is awake, unless the last operation ended
\* with a failed exchange.
AwakeUnlessFailed ==
  runtimeLock = Unlocked /\ trouble = "none" => vllm = "awake"

\* As documented: "restore vLLM even when a batch fails".  Only a wake that
\* itself failed excuses a sleeping vLLM.
RestoredOnExit ==
  runtimeLock = Unlocked /\ trouble # "wake" => vllm = "awake"

\* As documented: models are released "before GPU ownership returns to vLLM".
ModelsReleasedFirst == models # {} => vllm = "asleep"

\* Whoever holds a lock lets go of it, whatever fails meanwhile.
RuntimeLockIsFreed ==
  \A t \in Threads : runtimeLock.owner = t ~> runtimeLock.owner # t
\* A batch that owns both locks gives both up.
ServiceLockIsFreed ==
  \A b \in Batches :
    serviceLock = b /\ runtimeLock.owner = b ~> serviceLock # b
=============================================================================
