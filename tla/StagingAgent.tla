---------------------------- MODULE StagingAgent ----------------------------
(***************************************************************************)
(* The agent that carries one borrower application through its fixed       *)
(* workers (staging_agent_impl/).  Three stores outlive a process: the     *)
(* workspace's artifacts, the graph's checkpoint and the workflow record;  *)
(* the intake job is a fourth.  Nothing spans two of them, so a worker     *)
(* that runs again has to find out what its last attempt left behind.      *)
(*                                                                         *)
(* A call of the runtime is a coroutine; an action is what it does between *)
(* two awaits.  start() takes no lock, resume() and cancel() hold the lock *)
(* of the application.  Simplifications: one application, whose artifacts  *)
(* are kept apart by its folder; a figure is reduced to whether it cites a *)
(* document of the application; policies are reduced to the funders they   *)
(* make eligible.  The graph, the workflow service and the job store are   *)
(* packages outside the repository, modelled from how they are called.     *)
(***************************************************************************)
EXTENDS Naturals, FiniteSets

CONSTANTS
  Resumers, Cancellers,  \* calls of resume() and of cancel()
  Metrics,               \* the metrics of the financial worker's specs
  Policies, Eligible,    \* deployed policies; the funders each makes eligible
  MaxRestarts,           \* bound: restarts of the process
  None

ASSUME AgentAssumption ==
  /\ Resumers \cap Cancellers = {}
  /\ "start" \notin Resumers \cup Cancellers
  /\ MaxRestarts \in Nat
  /\ None \notin Policies \cup Resumers \cup Cancellers \cup {"start"}

VARIABLES
  pc, outcome,       \* where each call is; the status its execution returned
  lock,              \* _application_locks[application_id]
  graph,             \* the checkpoint
  artifact,          \* the workspace
  workflow,          \* the workflow record: level reached, suggestion stored
  job,               \* the intake job's status
  policies,          \* WorkerDependencies.policies of this process
  checked,           \* history: the suggestion the guardrails accepted
  answered,          \* history: answers of FinDocIQ, by artifact
  disturbed,         \* history: a call met another call's unfinished work
  redeployed,        \* history: policies changed after a suggestion was stored
  restarts

vars == <<pc, outcome, lock, graph, artifact, workflow, job, policies,
          checked, answered, disturbed, redeployed, restarts>>
history == <<checked, answered, redeployed, restarts>>
stores == <<graph, artifact, workflow, job>>

Calls == {"start"} \cup Resumers \cup Cancellers

\* Mutant: the hand-over comes before the guardrails.
Stages_HandoffFirst == << <<"ingest", "ensure">>,
             <<"metrics", "extracted">>,
             <<"eligibility", "rule_gated">>,
             <<"retrieve">>,
             <<"suggest", "ai_suggested">>,
             <<"handoff">>,
             <<"guard">> >>
\* The workers in their fixed order, and the stages each goes through between
\* awaits; the last one of a worker ends in its checkpoint.
Stages == << <<"ingest", "ensure">>,
             <<"metrics", "extracted">>,
             <<"eligibility", "rule_gated">>,
             <<"retrieve">>,
             <<"suggest", "ai_suggested">>,
             <<"guard">>,
             <<"handoff">> >>
Workers == DOMAIN Stages
FirstStage(w) == Stages[w][1]
StageNames == UNION {{Stages[w][i] : i \in DOMAIN Stages[w]} : w \in Workers}
Executing(c) == pc[c] \in StageNames

\* Workflow states in their order: none, created, EXTRACTED, RULE_GATED,
\* AI_SUGGESTED, AWAITING_HUMAN.
Extracted == 2
RuleGated == 3
AiSuggested == 4
AwaitingHuman == 5

Resumable == {"failed_retryable", "needs_attention"}
Terminal == {"cancelled", "failed_terminal"}
Statuses == Resumable \cup Terminal \cup {"none", "running", "waiting_for_review"}

ArtifactNames == {"document_processing", "financial_analysis", "eligibility",
                  "precedent_retrieval", "suggestion"}

ASSUME ArtifactAssumption ==
  /\ Metrics \cap ArtifactNames = {}
  /\ None \notin {"own", "foreign"}
  /\ \A p \in Policies : \A funders \in SUBSET Eligible[p] : funders # None

Init ==
  /\ pc = [c \in Calls |-> "idle"]
  /\ outcome = [c \in Calls |-> "none"]
  /\ lock = None
  /\ graph = [status |-> "none", done |-> 0, eligibility |-> None]
  /\ artifact = [n \in ArtifactNames \cup Metrics |-> None]
  /\ workflow = [level |-> 0, suggestion |-> None]
  /\ job = "queued"
  /\ policies \in Policies
  /\ checked = None
  /\ answered = [n \in {"document_processing"} \cup Metrics |-> 0]
  /\ disturbed = FALSE
  /\ redeployed = FALSE
  /\ restarts = 0

Go(c, stage) == pc' = [pc EXCEPT ![c] = stage]
Save(name, value) == artifact' = [artifact EXCEPT ![name] = value]

\* The execution ends with a status: the graph keeps it, the caller gets it.
End(c, status) ==
  /\ graph' = [graph EXCEPT !.status = status]
  /\ outcome' = [outcome EXCEPT ![c] = status]
  /\ Go(c, "report")

\* A WorkerFailure: retryable unless it says otherwise.
Fail(c, status) ==
  /\ End(c, status)
  /\ UNCHANGED <<lock, artifact, workflow, job, policies, disturbed, history>>

\* A worker's result is checkpointed and the next worker begins.  A cancellation
\* marked meanwhile is either noticed here or overwritten.
Checkpoint(c, w, eligibility) ==
  \/ /\ graph.status = "cancelled"
     /\ outcome' = [outcome EXCEPT ![c] = "cancelled"]
     /\ Go(c, "report")
     /\ UNCHANGED graph
  \/ LET last == w = Cardinality(Workers)
         status == IF last THEN "waiting_for_review" ELSE "running"
     IN /\ graph' = [status |-> status, done |-> w, eligibility |-> eligibility]
        /\ outcome' = [outcome EXCEPT ![c] = IF last THEN status ELSE @]
        /\ Go(c, IF last THEN "report" ELSE FirstStage(w + 1))

-----------------------------------------------------------------------------
(* DocumentProcessingWorker *)

\* The staged documents are sent under the job's batch_id unless an earlier
\* attempt saved the receipt.
Ingest(c) ==
  /\ pc[c] = "ingest"
  /\ \/ /\ artifact["document_processing"] # None
        /\ UNCHANGED <<artifact, answered>>
     \/ /\ artifact["document_processing"] = None
        /\ Save("document_processing", "own")
        /\ answered' = [answered EXCEPT !["document_processing"] = @ + 1]
  /\ Go(c, "ensure")
  /\ UNCHANGED <<outcome, lock, graph, workflow, job, policies,
                 checked, disturbed, redeployed, restarts>>

\* FinDocIQ is unavailable, or its receipt does not match what was staged.
IngestFails(c) ==
  /\ pc[c] = "ingest"
  /\ artifact["document_processing"] = None
  /\ \E status \in {"failed_retryable", "failed_terminal"} : Fail(c, status)

EnsureWorkflow(c) ==
  /\ pc[c] = "ensure"
  /\ workflow' = [workflow EXCEPT !.level = IF @ = 0 THEN 1 ELSE @]
  /\ Checkpoint(c, 1, graph.eligibility)
  /\ UNCHANGED <<lock, artifact, job, policies, disturbed, history>>

-----------------------------------------------------------------------------
(* FinancialMetricExtractionWorker: one extraction per metric, each saved   *)
(* before it is examined.                                                   *)

\* Mutant: the saved extractions are not looked at.
Missing_All == Metrics
Missing == {m \in Metrics : artifact[m] = None}

Extract(c) ==
  /\ pc[c] = "metrics"
  /\ \A m \in Metrics : artifact[m] # "foreign"
  /\ \E m \in Missing, cites \in {"own", "foreign"} :
       /\ Save(m, cites)
       /\ answered' = [answered EXCEPT ![m] = @ + 1]
  /\ UNCHANGED <<pc, outcome, lock, graph, workflow, job, policies,
                 checked, disturbed, redeployed, restarts>>

ExtractFails(c) ==
  /\ pc[c] = "metrics"
  /\ Missing # {}
  /\ \A m \in Metrics : artifact[m] # "foreign"
  /\ Fail(c, "failed_retryable")

\* cross_application_evidence: the figure was saved, so every later attempt
\* finds it again.
RefuseForeign(c) ==
  /\ pc[c] = "metrics"
  /\ \E m \in Metrics : artifact[m] = "foreign"
  /\ Fail(c, "failed_terminal")

\* Mutant: the evaluated application is not saved.
SaveApplication_Unsaved(c) ==
  /\ pc[c] = "metrics"
  /\ \A m \in Metrics : artifact[m] = "own"
  /\ Go(c, "extracted")
  /\ UNCHANGED <<outcome, lock, stores, policies, disturbed, history>>
SaveApplication(c) ==
  /\ pc[c] = "metrics"
  /\ \A m \in Metrics : artifact[m] = "own"
  /\ Save("financial_analysis", "own")
  /\ Go(c, "extracted")
  /\ UNCHANGED <<outcome, lock, graph, workflow, job, policies, disturbed, history>>

\* _advance: nothing when the record is already there or further, otherwise
\* one command; a suggestion travels with the command, so only the first one is
\* stored.
Advance(target, suggestion) ==
  workflow' = IF workflow.level >= target THEN workflow
              ELSE [level |-> target,
                    suggestion |-> IF target = AiSuggested THEN suggestion
                                   ELSE workflow.suggestion]

AdvanceAndCheckpoint(c, stage, target, w, eligibility) ==
  /\ pc[c] = stage
  /\ Advance(target, artifact["suggestion"])
  /\ Checkpoint(c, w, eligibility)
  /\ UNCHANGED <<lock, artifact, job, policies, disturbed, history>>

\* The command fails, or takes effect and its answer is lost.
AdvanceFails(c) ==
  /\ \E t \in {<<"extracted", Extracted>>, <<"rule_gated", RuleGated>>,
               <<"ai_suggested", AiSuggested>>, <<"handoff", AwaitingHuman>>} :
       /\ pc[c] = t[1]
       /\ workflow.level < t[2]
       /\ \/ Advance(t[2], artifact["suggestion"])
          \/ UNCHANGED workflow
  /\ End(c, "failed_retryable")
  /\ UNCHANGED <<lock, artifact, job, policies, disturbed, history>>

FinishFinancial(c) ==
  AdvanceAndCheckpoint(c, "extracted", Extracted, 2, graph.eligibility)

-----------------------------------------------------------------------------
(* DeterministicEligibilityWorker, EligiblePrecedentRetrievalWorker,        *)
(* AdvisorySuggestionWorker                                                 *)

Evaluate(c) ==
  /\ pc[c] = "eligibility"
  /\ Save("eligibility", policies)
  /\ Go(c, "rule_gated")
  /\ UNCHANGED <<outcome, lock, graph, workflow, job, policies, disturbed, history>>

FinishEligibility(c) ==
  AdvanceAndCheckpoint(c, "rule_gated", RuleGated, 3, artifact["eligibility"])

\* The retriever gates by the policies of this process; the result is kept only
\* if that gate is the one the eligibility worker saved.
Retrieve(c) ==
  /\ pc[c] = "retrieve"
  /\ artifact["eligibility"] = policies
  /\ \E matches \in SUBSET Eligible[policies] : Save("precedent_retrieval", matches)
  /\ Checkpoint(c, 4, graph.eligibility)
  /\ UNCHANGED <<lock, workflow, job, policies, disturbed, history>>

RetrieveFails(c) ==
  /\ pc[c] = "retrieve"
  /\ \/ Fail(c, "failed_retryable")
     \/ Fail(c, "failed_terminal")
     \/ artifact["eligibility"] # policies /\ Fail(c, "needs_attention")

\* The assembler suggests what the policies of this process make eligible.
Suggest(c) ==
  /\ pc[c] = "suggest"
  /\ Save("suggestion", Eligible[policies])
  /\ Go(c, "ai_suggested")
  /\ UNCHANGED <<outcome, lock, graph, workflow, job, policies, disturbed, history>>

FinishSuggestion(c) ==
  AdvanceAndCheckpoint(c, "ai_suggested", AiSuggested, 5, graph.eligibility)

-----------------------------------------------------------------------------
(* GuardrailWorker: what it compares that can differ here.  Its ownership    *)
(* checks compare artifacts with the folder they are read from.              *)

EligibleOnly ==
  /\ artifact["precedent_retrieval"] \subseteq Eligible[graph.eligibility]
  /\ artifact["suggestion"] \subseteq Eligible[graph.eligibility]

Guard(c) ==
  /\ pc[c] = "guard"
  /\ EligibleOnly
  /\ checked' = artifact["suggestion"]
  /\ Checkpoint(c, 6, graph.eligibility)
  /\ UNCHANGED <<lock, artifact, workflow, job, policies, disturbed,
                 answered, redeployed, restarts>>

GuardRefuses(c) ==
  /\ pc[c] = "guard"
  /\ ~EligibleOnly
  /\ Fail(c, "failed_terminal")

HandOff(c) == AdvanceAndCheckpoint(c, "handoff", AwaitingHuman, 7, graph.eligibility)

-----------------------------------------------------------------------------
(* AgentIntakeRuntime *)

\* start: the files and the request are staged, then the graph begins.
Start(c) ==
  /\ pc[c] = "idle"
  /\ graph.status = "none"
  /\ job = "queued"
  /\ job' = "running"
  /\ graph' = [graph EXCEPT !.status = "running"]
  /\ Go(c, FirstStage(1))
  /\ UNCHANGED <<outcome, lock, artifact, workflow, policies, disturbed, history>>

\* Another call's execution, or its report, is not over.
Unfinished(c) == \E o \in Calls \ {c} : Executing(o) \/ pc[o] \in {"report", "finish"}

\* resume and cancel: take the application's lock, then read the graph's state.
Acquire(c) ==
  /\ pc[c] = "idle"
  /\ lock = None
  /\ graph.status # "none"
  /\ lock' = c
  /\ Go(c, "locked")
  /\ UNCHANGED <<outcome, stores, policies, disturbed, history>>

Release(c) ==
  /\ lock' = IF lock = c THEN None ELSE lock
  /\ Go(c, "done")

\* Mutant: the early return keeps the lock.
NothingToDo_KeepsLock(c) ==
  /\ pc[c] = "locked"
  /\ IF c \in Resumers THEN graph.status \notin Resumable ELSE graph.status \in Terminal
  /\ Go(c, "done")
  /\ UNCHANGED <<outcome, lock, stores, policies, disturbed, history>>
\* The state needs nothing: the call answers it.
NothingToDo(c) ==
  /\ pc[c] = "locked"
  /\ IF c \in Resumers THEN graph.status \notin Resumable ELSE graph.status \in Terminal
  /\ Release(c)
  /\ UNCHANGED <<outcome, stores, policies, disturbed, history>>

BeginResume(c) ==
  /\ pc[c] = "locked"
  /\ c \in Resumers
  /\ graph.status \in Resumable
  /\ Go(c, "resuming")
  /\ UNCHANGED <<outcome, lock, stores, policies, disturbed, history>>

\* graph.resume: the first worker without a checkpoint runs again.
Resume(c) ==
  /\ pc[c] = "resuming"
  /\ graph' = [graph EXCEPT !.status = "running"]
  /\ Go(c, FirstStage(graph.done + 1))
  /\ disturbed' = (disturbed \/ Unfinished(c))
  /\ UNCHANGED <<outcome, lock, artifact, workflow, job, policies, history>>

BeginCancel(c) ==
  /\ pc[c] = "locked"
  /\ c \in Cancellers
  /\ graph.status \notin Terminal
  /\ Go(c, "marking")
  /\ UNCHANGED <<outcome, lock, stores, policies, disturbed, history>>

MarkCancelled(c) ==
  /\ pc[c] = "marking"
  /\ graph' = [graph EXCEPT !.status = "cancelled"]
  /\ Go(c, "cancelling")
  /\ disturbed' = (disturbed \/ Unfinished(c))
  /\ UNCHANGED <<outcome, lock, artifact, workflow, job, policies, history>>

FinishCancel(c) ==
  /\ pc[c] = "cancelling"
  /\ job' = "cancelled"
  /\ Release(c)
  /\ UNCHANGED <<outcome, graph, artifact, workflow, policies, disturbed, history>>

\* _execute: the checkpoint is reported, then the job is finished by the status
\* the execution returned.
Report(c) ==
  /\ pc[c] = "report"
  /\ Go(c, "finish")
  /\ UNCHANGED <<outcome, lock, stores, policies, disturbed, history>>

\* Mutant: a terminal failure leaves the job as it is.
JobOf_OnlyRetryable(status) ==
  CASE status = "waiting_for_review" -> "completed"
    [] status \in Resumable -> "failed"
    [] OTHER -> job
JobOf(status) ==
  CASE status = "waiting_for_review" -> "completed"
    [] status \in Resumable \cup {"failed_terminal"} -> "failed"
    [] OTHER -> job

FinishJob(c) ==
  /\ pc[c] = "finish"
  /\ job' = JobOf(outcome[c])
  /\ Release(c)
  /\ UNCHANGED <<outcome, graph, artifact, workflow, policies, disturbed, history>>

-----------------------------------------------------------------------------
(* The process stops and another one is deployed, perhaps with other         *)
(* policies: only the stores are left.  AgentMaintenance flags the execution *)
(* it left behind.                                                           *)

Restart ==
  /\ restarts < MaxRestarts
  /\ restarts' = restarts + 1
  /\ lock' = None
  /\ pc' = [c \in Calls |-> IF pc[c] = "idle" THEN "idle" ELSE "done"]
  /\ \E p \in Policies :
       /\ policies' = p
       /\ redeployed' = (redeployed \/ (p # policies /\ workflow.level >= AiSuggested))
  /\ disturbed' = (disturbed \/ \E c \in Calls : pc[c] \in {"report", "finish", "cancelling"})
  /\ UNCHANGED <<outcome, stores, checked, answered>>

FlagStale ==
  /\ graph.status = "running"
  /\ \A c \in Calls : pc[c] \in {"idle", "done"}
  /\ graph' = [graph EXCEPT !.status = "needs_attention"]
  /\ UNCHANGED <<pc, outcome, lock, artifact, workflow, job, policies, disturbed, history>>

Work(c) ==
  \/ Ingest(c) \/ IngestFails(c) \/ EnsureWorkflow(c)
  \/ Extract(c) \/ ExtractFails(c) \/ RefuseForeign(c)
  \/ SaveApplication(c) \/ FinishFinancial(c)
  \/ Evaluate(c) \/ FinishEligibility(c)
  \/ Retrieve(c) \/ RetrieveFails(c)
  \/ Suggest(c) \/ FinishSuggestion(c)
  \/ Guard(c) \/ GuardRefuses(c) \/ HandOff(c) \/ AdvanceFails(c)
  \/ Report(c) \/ FinishJob(c)

Control(c) ==
  \/ NothingToDo(c) \/ BeginResume(c) \/ Resume(c)
  \/ BeginCancel(c) \/ MarkCancelled(c) \/ FinishCancel(c)

Next ==
  \/ Start("start")
  \/ \E c \in Resumers \cup Cancellers : Acquire(c) \/ Control(c)
  \/ \E c \in Calls : Work(c)
  \/ Restart
  \/ FlagStale

Spec == Init /\ [][Next]_vars

\* Every await of a call that was let in returns or raises.  Nothing is assumed
\* of clients, of restarts or of who gets the lock.
LiveSpec == Spec /\ \A c \in Calls : WF_vars(Work(c) \/ Control(c))

-----------------------------------------------------------------------------
(* Properties *)

TypeOK ==
  /\ pc \in [Calls -> StageNames \cup {"idle", "locked", "resuming", "marking",
                                       "cancelling", "report", "finish", "done"}]
  /\ outcome \in [Calls -> Statuses]
  /\ lock \in Resumers \cup Cancellers \cup {None}
  /\ graph \in [status : Statuses, done : 0..7, eligibility : Policies \cup {None}]
  /\ DOMAIN artifact = ArtifactNames \cup Metrics
  /\ artifact["eligibility"] \in Policies \cup {None}
  /\ DOMAIN workflow = {"level", "suggestion"} /\ workflow.level \in 0..5
  /\ job \in {"queued", "running", "completed", "failed", "cancelled"}
  /\ policies \in Policies
  /\ restarts \in 0..MaxRestarts

\* An answer of FinDocIQ that was saved is never asked for again: each batch and
\* each metric is answered once, through failures of later steps, resumptions
\* and restarts.
SubstepsAreNotRepeated == \A n \in DOMAIN answered : answered[n] <= 1

\* The stores agree in the order they are written: the checkpoint is never ahead
\* of the workspace, nor the workflow record of what its state claims.
StoresAreOrdered ==
  /\ graph.done >= 1 => artifact["document_processing"] # None
  /\ graph.done >= 2 => \A m \in Metrics : artifact[m] = "own"
  /\ graph.done >= 3 => graph.eligibility = artifact["eligibility"]
  /\ workflow.level >= Extracted => artifact["financial_analysis"] # None
  /\ workflow.level >= RuleGated => artifact["eligibility"] # None
  /\ workflow.level >= AiSuggested =>
       artifact["precedent_retrieval"] # None /\ workflow.suggestion # None
  /\ workflow.level >= AwaitingHuman => graph.done >= 6

\* What a human is handed for a decision is the suggestion the guardrails
\* accepted, unless the policies changed after it was stored: the record keeps
\* the first suggestion, the workspace the last.
HandedOverIsChecked ==
  workflow.level >= AwaitingHuman /\ ~redeployed => workflow.suggestion = checked

\* When no call is under way, the job tells how its execution ended, unless a
\* resumption or a cancellation met the report of another call, or the process
\* stopped within it.
JobTellsOutcome ==
  (~disturbed /\ \A c \in Calls : pc[c] \in {"idle", "done"}) =>
    /\ job = "completed" => graph.status = "waiting_for_review"
    /\ graph.status = "waiting_for_review" => job = "completed"
    /\ graph.status = "cancelled" => job = "cancelled"
    /\ graph.status = "failed_terminal" => job = "failed"

\* The lock of the application is always released, whatever the execution under
\* it runs into.
LockIsReleased == lock # None ~> lock = None
=============================================================================
