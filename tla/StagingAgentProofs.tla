-------------------------- MODULE StagingAgentProofs --------------------------
(***************************************************************************)
(* Theorems about StagingAgent, for any number of calls, metrics, policies *)
(* and restarts.                                                           *)
(***************************************************************************)
EXTENDS StagingAgent, FiniteSetTheorems, TLAPS

\* Where an execution stands when so many workers have their checkpoint.
Position(c) ==
  /\ pc[c] \in {"ingest", "ensure"} => graph.done = 0
  /\ pc[c] \in {"metrics", "extracted"} => graph.done = 1
  /\ pc[c] \in {"eligibility", "rule_gated"} => graph.done = 2
  /\ pc[c] = "retrieve" => graph.done = 3
  /\ pc[c] \in {"suggest", "ai_suggested"} => graph.done = 4
  /\ pc[c] = "guard" => graph.done = 5
  /\ pc[c] = "handoff" => graph.done = 6

\* One call executes at a time although start takes no lock: the others need a
\* status that no execution leaves while it goes on.
OneExecutes == \A c, d \in Calls : Executing(c) /\ Executing(d) => c = d
ExecutionInv ==
  /\ OneExecutes
  /\ \A c \in Calls :
       /\ Position(c)
       /\ Executing(c) => graph.status \in {"running", "cancelled"}
       /\ pc[c] = "resuming" => graph.status \in Resumable
       /\ pc[c] \in {"locked", "resuming", "marking", "cancelling"} => lock = c
  /\ graph.done = 7 => graph.status \in {"waiting_for_review", "cancelled"}
  /\ graph.status = "none" => graph.done = 0

\* What an execution has left in the stores at the places between two writes.
StoresInv ==
  /\ StoresAreOrdered
  /\ \A c \in Calls :
       /\ pc[c] = "ensure" => artifact["document_processing"] # None
       /\ pc[c] = "extracted" =>
            artifact["financial_analysis"] # None /\ \A m \in Metrics : artifact[m] = "own"
       /\ pc[c] = "rule_gated" => artifact["eligibility"] # None
       /\ pc[c] = "ai_suggested" => artifact["suggestion"] # None
  /\ graph.done >= 2 => artifact["financial_analysis"] # None
  /\ graph.done >= 3 => artifact["eligibility"] # None
  /\ graph.done >= 4 => artifact["precedent_retrieval"] # None
  /\ graph.done >= 5 => workflow.level >= AiSuggested

\* An answer is counted when it is saved.
AnswersInv ==
  /\ DOMAIN answered = {"document_processing"} \cup Metrics
  /\ \A n \in {"document_processing"} \cup Metrics :
       answered[n] = IF artifact[n] = None THEN 0 ELSE 1

\* While the policies stay what they are, everything derived from them agrees.
HandoverInv ==
  /\ \A c \in Calls : pc[c] = "ai_suggested" => artifact["suggestion"] = Eligible[policies]
  /\ workflow.level >= AiSuggested /\ ~redeployed => workflow.suggestion = Eligible[policies]
  /\ graph.done >= 5 /\ ~redeployed => artifact["suggestion"] = Eligible[policies]
  /\ graph.done >= 6 /\ ~redeployed => checked = Eligible[policies]

\* The job and the checkpoint while no call meets another one's unfinished work.
Reporting(c) == pc[c] \in {"report", "finish"}
Ended == Resumable \cup {"failed_terminal", "waiting_for_review"}
JobInv ==
  /\ graph.status = "none" => \A c \in Calls : pc[c] \in {"idle", "done"}
  /\ ~disturbed =>
       /\ \A c \in Calls : Executing(c) =>
            /\ graph.status = "running"
            /\ \A d \in Calls : ~Reporting(d) /\ pc[d] # "cancelling"
       /\ \A c \in Calls : Reporting(c) => outcome[c] = graph.status /\ graph.status \in Ended
       /\ \A c \in Calls : pc[c] = "cancelling" => graph.status = "cancelled"
       /\ job = "completed" =>
            graph.status = "waiting_for_review" \/ \E c \in Calls : pc[c] = "cancelling"
       /\ graph.status = "waiting_for_review" => job = "completed" \/ \E c \in Calls : Reporting(c)
       /\ graph.status = "cancelled" => job = "cancelled" \/ \E c \in Calls : pc[c] = "cancelling"
       /\ graph.status = "failed_terminal" => job = "failed" \/ \E c \in Calls : Reporting(c)

AgentInv == TypeOK /\ JobInv /\ ExecutionInv /\ StoresInv /\ AnswersInv /\ HandoverInv

-----------------------------------------------------------------------------
\* The stages by name.
LEMMA StageList ==
  /\ Workers = 1..7 /\ Cardinality(Workers) = 7
  /\ FirstStage(1) = "ingest" /\ FirstStage(2) = "metrics" /\ FirstStage(3) = "eligibility"
  /\ FirstStage(4) = "retrieve" /\ FirstStage(5) = "suggest" /\ FirstStage(6) = "guard"
  /\ FirstStage(7) = "handoff"
  /\ StageNames = {"ingest", "ensure", "metrics", "extracted", "eligibility", "rule_gated",
                   "retrieve", "suggest", "ai_suggested", "guard", "handoff"}
<1>1. Workers = 1..7
  BY DEF Workers, Stages
<1>2. Cardinality(Workers) = 7
  <2>1. ASSUME NEW a \in Int, NEW b \in Int PROVE Cardinality(a..b) = IF a > b THEN 0 ELSE b - a + 1
    BY FS_Interval
  <2>2. Cardinality(1..7) = IF 1 > 7 THEN 0 ELSE 7 - 1 + 1
    <3>1. 1 \in Int /\ 7 \in Int
      OBVIOUS
    <3> QED
      BY <2>1, <3>1, Zenon
  <2> QED
    BY <1>1, <2>2
<1>3. /\ FirstStage(1) = "ingest" /\ FirstStage(2) = "metrics" /\ FirstStage(3) = "eligibility"
      /\ FirstStage(4) = "retrieve" /\ FirstStage(5) = "suggest" /\ FirstStage(6) = "guard"
      /\ FirstStage(7) = "handoff"
  BY DEF FirstStage, Stages
<1>4. StageNames = UNION {{Stages[w][i] : i \in DOMAIN Stages[w]} : w \in 1..7}
  BY <1>1 DEF StageNames
<1>5. /\ Stages[1] = <<"ingest", "ensure">> /\ Stages[2] = <<"metrics", "extracted">>
      /\ Stages[3] = <<"eligibility", "rule_gated">> /\ Stages[4] = <<"retrieve">>
      /\ Stages[5] = <<"suggest", "ai_suggested">> /\ Stages[6] = <<"guard">>
      /\ Stages[7] = <<"handoff">>
  BY DEF Stages
<1> DEFINE Names(w) == {Stages[w][i] : i \in DOMAIN Stages[w]}
<1>6. /\ Names(1) = {"ingest", "ensure"} /\ Names(2) = {"metrics", "extracted"}
      /\ Names(3) = {"eligibility", "rule_gated"} /\ Names(4) = {"retrieve"}
      /\ Names(5) = {"suggest", "ai_suggested"} /\ Names(6) = {"guard"}
      /\ Names(7) = {"handoff"}
  BY <1>5
<1>7. StageNames = UNION {Names(w) : w \in 1..7}
  BY <1>4
<1> HIDE DEF Names
<1>8. StageNames = {"ingest", "ensure", "metrics", "extracted", "eligibility", "rule_gated",
                    "retrieve", "suggest", "ai_suggested", "guard", "handoff"}
  BY <1>6, <1>7
<1> QED
  BY <1>1, <1>2, <1>3, <1>8

\* What a checkpoint does: the call ends because of a cancellation, the next
\* worker begins, or the last one hands over.
LEMMA CheckpointMoves ==
  ASSUME NEW c, NEW w \in 1..7, NEW eligibility, Checkpoint(c, w, eligibility)
  PROVE  \/ /\ graph.status = "cancelled" /\ graph' = graph
            /\ outcome' = [outcome EXCEPT ![c] = "cancelled"]
            /\ pc' = [pc EXCEPT ![c] = "report"]
         \/ /\ w < 7 /\ graph' = [status |-> "running", done |-> w, eligibility |-> eligibility]
            /\ outcome' = [outcome EXCEPT ![c] = @]
            /\ pc' = [pc EXCEPT ![c] = FirstStage(w + 1)]
         \/ /\ w = 7
            /\ graph' = [status |-> "waiting_for_review", done |-> w, eligibility |-> eligibility]
            /\ outcome' = [outcome EXCEPT ![c] = "waiting_for_review"]
            /\ pc' = [pc EXCEPT ![c] = "report"]
<1>1. CASE w = 7
  BY <1>1, StageList DEF Checkpoint, Go
<1>2. CASE w # 7
  <2>1. w < 7 /\ w # Cardinality(Workers)
    BY <1>2, StageList
  <2> QED
    BY <2>1 DEF Checkpoint, Go
<1> QED
  BY <1>1, <1>2

-----------------------------------------------------------------------------
(* Three kinds of steps of an execution *)

\* It writes an artifact and goes on with the same worker.
Writes(c) == Ingest(c) \/ Extract(c) \/ SaveApplication(c) \/ Evaluate(c) \/ Suggest(c)
\* A worker ends in its checkpoint.
Checkpoints(c) ==
  \/ EnsureWorkflow(c) \/ FinishFinancial(c) \/ FinishEligibility(c) \/ Retrieve(c)
  \/ FinishSuggestion(c) \/ Guard(c) \/ HandOff(c)
\* A worker fails.
Failures(c) ==
  \/ IngestFails(c) \/ ExtractFails(c) \/ RefuseForeign(c) \/ RetrieveFails(c)
  \/ GuardRefuses(c) \/ AdvanceFails(c)

LEMMA WorkKinds ==
  ASSUME NEW c, Work(c)
  PROVE  Writes(c) \/ Checkpoints(c) \/ Failures(c) \/ Report(c) \/ FinishJob(c)
BY DEF Work, Writes, Checkpoints, Failures

LEMMA WriteMoves ==
  ASSUME TypeOK, NEW c \in Calls, Writes(c)
  PROVE  /\ UNCHANGED <<outcome, lock, graph, workflow, job, policies, disturbed,
                        checked, redeployed, restarts>>
         /\ \/ pc[c] = "ingest" /\ pc' = [pc EXCEPT ![c] = "ensure"]
            \/ pc[c] = "metrics" /\ pc' = [pc EXCEPT ![c] = "extracted"]
            \/ pc[c] = "eligibility" /\ pc' = [pc EXCEPT ![c] = "rule_gated"]
            \/ pc[c] = "suggest" /\ pc' = [pc EXCEPT ![c] = "ai_suggested"]
            \/ pc[c] = "metrics" /\ pc' = pc
         /\ DOMAIN artifact' = DOMAIN artifact
         /\ artifact'["eligibility"] \in Policies \cup {None}
<1>1. CASE Ingest(c)
  BY <1>1, ArtifactAssumption DEF Ingest, Save, Go, TypeOK, history, ArtifactNames
<1>2. CASE Extract(c)
  <2>1. PICK m \in Metrics, cites \in {"own", "foreign"} : Save(m, cites)
    BY <1>2 DEF Extract, Missing
  <2>2. m # "eligibility"
    BY ArtifactAssumption DEF ArtifactNames
  <2> QED
    BY <1>2, <2>1, <2>2 DEF Extract, Save, TypeOK, ArtifactNames
<1>3. CASE SaveApplication(c)
  BY <1>3 DEF SaveApplication, Save, Go, TypeOK, history, ArtifactNames
<1>4. CASE Evaluate(c)
  BY <1>4 DEF Evaluate, Save, Go, TypeOK, history, ArtifactNames
<1>5. CASE Suggest(c)
  BY <1>5 DEF Suggest, Save, Go, TypeOK, history, ArtifactNames
<1> QED
  BY <1>1, <1>2, <1>3, <1>4, <1>5 DEF Writes

\* The worker whose checkpoint an action writes, and the eligibility it keeps.
LEMMA CheckpointWorker ==
  ASSUME TypeOK, NEW c \in Calls, Checkpoints(c)
  PROVE  /\ \E w \in 1..7, e \in Policies \cup {None} :
              /\ Checkpoint(c, w, e)
              /\ \/ w = 1 /\ pc[c] = "ensure"
                 \/ w = 2 /\ pc[c] = "extracted"
                 \/ w = 3 /\ pc[c] = "rule_gated"
                 \/ w = 4 /\ pc[c] = "retrieve"
                 \/ w = 5 /\ pc[c] = "ai_suggested"
                 \/ w = 6 /\ pc[c] = "guard"
                 \/ w = 7 /\ pc[c] = "handoff"
              /\ e = IF w = 3 THEN artifact["eligibility"] ELSE graph.eligibility
         /\ UNCHANGED <<lock, job, policies, disturbed, answered, redeployed, restarts>>
<1>1. graph.eligibility \in Policies \cup {None} /\ artifact["eligibility"] \in Policies \cup {None}
  BY DEF TypeOK
<1>2. CASE EnsureWorkflow(c)
  BY <1>1, <1>2 DEF EnsureWorkflow, history
<1>3. CASE FinishFinancial(c)
  BY <1>1, <1>3 DEF FinishFinancial, AdvanceAndCheckpoint, history
<1>4. CASE FinishEligibility(c)
  BY <1>1, <1>4 DEF FinishEligibility, AdvanceAndCheckpoint, history
<1>5. CASE Retrieve(c)
  BY <1>1, <1>5 DEF Retrieve, history
<1>6. CASE FinishSuggestion(c)
  BY <1>1, <1>6 DEF FinishSuggestion, AdvanceAndCheckpoint, history
<1>7. CASE Guard(c)
  BY <1>1, <1>7 DEF Guard
<1>8. CASE HandOff(c)
  BY <1>1, <1>8 DEF HandOff, AdvanceAndCheckpoint, history
<1> QED
  BY <1>2, <1>3, <1>4, <1>5, <1>6, <1>7, <1>8 DEF Checkpoints

\* What a checkpointing action writes besides its checkpoint.
LEMMA CheckpointStores ==
  ASSUME TypeOK, NEW c \in Calls, Checkpoints(c)
  PROVE  /\ DOMAIN artifact' = DOMAIN artifact /\ artifact'["eligibility"] = artifact["eligibility"]
         /\ DOMAIN workflow' = {"level", "suggestion"} /\ workflow'.level \in 0..5
<1>1. CASE EnsureWorkflow(c)
  BY <1>1 DEF EnsureWorkflow, TypeOK
<1>2. ASSUME NEW stage, NEW target \in 0..5, NEW w, NEW e, AdvanceAndCheckpoint(c, stage, target, w, e)
      PROVE  /\ DOMAIN artifact' = DOMAIN artifact /\ artifact'["eligibility"] = artifact["eligibility"]
             /\ DOMAIN workflow' = {"level", "suggestion"} /\ workflow'.level \in 0..5
  BY <1>2 DEF AdvanceAndCheckpoint, Advance, TypeOK
<1>3. CASE FinishFinancial(c) \/ FinishEligibility(c) \/ FinishSuggestion(c) \/ HandOff(c)
  BY <1>2, <1>3 DEF FinishFinancial, FinishEligibility, FinishSuggestion, HandOff,
     Extracted, RuleGated, AiSuggested, AwaitingHuman
<1>4. CASE Retrieve(c)
  BY <1>4 DEF Retrieve, Save, TypeOK, ArtifactNames
<1>5. CASE Guard(c)
  BY <1>5 DEF Guard, TypeOK
<1> QED
  BY <1>1, <1>3, <1>4, <1>5 DEF Checkpoints

LEMMA FailureMoves ==
  ASSUME TypeOK, NEW c \in Calls, Failures(c)
  PROVE  /\ \E status \in {"failed_retryable", "failed_terminal", "needs_attention"} : End(c, status)
         /\ pc[c] \in {"ingest", "metrics", "extracted", "rule_gated", "retrieve",
                        "ai_suggested", "guard", "handoff"}
         /\ UNCHANGED <<lock, artifact, job, policies, disturbed, history>>
         /\ DOMAIN workflow' = {"level", "suggestion"} /\ workflow'.level \in 0..5
         /\ \/ workflow' = workflow
            \/ /\ workflow.level < Extracted /\ pc[c] = "extracted"
               /\ Advance(Extracted, artifact["suggestion"])
            \/ /\ workflow.level < RuleGated /\ pc[c] = "rule_gated"
               /\ Advance(RuleGated, artifact["suggestion"])
            \/ /\ workflow.level < AiSuggested /\ pc[c] = "ai_suggested"
               /\ Advance(AiSuggested, artifact["suggestion"])
            \/ /\ workflow.level < AwaitingHuman /\ pc[c] = "handoff"
               /\ Advance(AwaitingHuman, artifact["suggestion"])
<1>1. CASE IngestFails(c) \/ ExtractFails(c) \/ RefuseForeign(c) \/ RetrieveFails(c) \/ GuardRefuses(c)
  BY <1>1 DEF IngestFails, ExtractFails, RefuseForeign, RetrieveFails, GuardRefuses, Fail, TypeOK
<1>2. CASE AdvanceFails(c)
  BY <1>2 DEF AdvanceFails, Advance, TypeOK, Extracted, RuleGated, AiSuggested, AwaitingHuman
<1> QED
  BY <1>1, <1>2 DEF Failures

-----------------------------------------------------------------------------
(* Type correctness *)

LEMMA TypeInitial == Init => TypeOK
BY AgentAssumption
DEF Init, TypeOK, Statuses, Resumable, Terminal, ArtifactNames

LEMMA TypePreserved == TypeOK /\ ExecutionInv /\ [Next]_vars => TypeOK'
<1> SUFFICES ASSUME TypeOK, ExecutionInv, [Next]_vars PROVE TypeOK'
  OBVIOUS
<1> DEFINE Pcs == StageNames \cup {"idle", "locked", "resuming", "marking",
                                   "cancelling", "report", "finish", "done"}
<1>0. /\ \A w \in 1..7 : FirstStage(w) \in Pcs
      /\ {"ensure", "extracted", "rule_gated", "ai_suggested"} \subseteq Pcs
  BY StageList
<1> HIDE DEF Pcs
<1>p. ASSUME NEW c \in Calls, NEW p \in Pcs, pc' = [pc EXCEPT ![c] = p]
      PROVE  pc' \in [Calls -> Pcs]
  BY <1>p DEF TypeOK, Pcs
<1>s. {"running", "waiting_for_review", "cancelled", "failed_retryable", "failed_terminal",
       "needs_attention"} \subseteq Statuses
  BY DEF Statuses, Resumable, Terminal
<1>q. {"idle", "locked", "resuming", "marking", "cancelling", "report", "finish", "done"} \subseteq Pcs
  BY DEF Pcs
<1>1. ASSUME NEW c \in Calls, Writes(c) PROVE TypeOK'
  <2>1. pc' \in [Calls -> Pcs]
    BY <1>1, WriteMoves, <1>p, <1>0 DEF TypeOK, Pcs
  <2> QED
    BY <1>1, <2>1, WriteMoves DEF TypeOK, Pcs
<1>2. ASSUME NEW c \in Calls, Checkpoints(c) PROVE TypeOK'
  <2>1. PICK w \in 1..7, e \in Policies \cup {None} : Checkpoint(c, w, e)
    BY <1>2, CheckpointWorker
  <2>2. pc' \in [Calls -> Pcs]
    <3>1. CASE pc' = [pc EXCEPT ![c] = "report"]
      BY <3>1, <1>p, <1>q
    <3>2. CASE w < 7 /\ pc' = [pc EXCEPT ![c] = FirstStage(w + 1)]
      <4>1. FirstStage(w + 1) \in Pcs
        BY <3>2, <1>0
      <4> QED
        BY <3>2, <4>1, <1>p
    <3> QED
      BY <2>1, CheckpointMoves, <3>1, <3>2
  <2>o. outcome' \in [Calls -> Statuses]
    <3>1. outcome[c] \in Statuses /\ outcome \in [Calls -> Statuses]
      BY DEF TypeOK
    <3>2. \E status \in Statuses : outcome' = [outcome EXCEPT ![c] = status]
      BY <2>1, CheckpointMoves, <3>1, <1>s
    <3> QED
      BY <3>1, <3>2
  <2>3. graph' \in [status : Statuses, done : 0..7, eligibility : Policies \cup {None}]
    BY <2>1, CheckpointMoves, <1>s DEF TypeOK
  <2> QED
    BY <1>2, <2>2, <2>o, <2>3, CheckpointWorker, CheckpointStores DEF TypeOK, Pcs
<1>3. ASSUME NEW c \in Calls, Failures(c) PROVE TypeOK'
  <2>1. PICK status \in {"failed_retryable", "failed_terminal", "needs_attention"} : End(c, status)
    BY <1>3, FailureMoves
  <2>2. pc' \in [Calls -> Pcs]
    BY <2>1, <1>p, <1>q DEF End, Go
  <2>3. /\ outcome' \in [Calls -> Statuses]
        /\ graph' \in [status : Statuses, done : 0..7, eligibility : Policies \cup {None}]
    BY <2>1, <1>s DEF End, TypeOK
  <2> QED
    BY <1>3, <2>2, <2>3, FailureMoves DEF TypeOK, Pcs, history
<1>4. ASSUME NEW c \in Calls, Report(c) \/ FinishJob(c) PROVE TypeOK'
  <2>1. pc' \in [Calls -> Pcs]
    BY <1>4, <1>p, <1>q DEF Report, FinishJob, Release, Go
  <2>2. CASE Report(c)
    BY <2>1, <2>2 DEF Report, TypeOK, Pcs, stores, history
  <2>3. CASE FinishJob(c)
    <3>1. JobOf(outcome[c]) \in {"queued", "running", "completed", "failed", "cancelled"}
      BY DEF JobOf, TypeOK
    <3> QED
      BY <2>1, <2>3, <3>1 DEF FinishJob, Release, TypeOK, Pcs, history
  <2> QED
    BY <1>4, <2>2, <2>3
<1>5. CASE Start("start")
  <2>1. pc' \in [Calls -> Pcs]
    <3>1. "start" \in Calls /\ FirstStage(1) \in Pcs
      BY <1>0 DEF Calls
    <3>2. pc' = [pc EXCEPT !["start"] = FirstStage(1)]
      BY <1>5 DEF Start, Go
    <3> QED
      BY <3>1, <3>2, <1>p
  <2>2. graph' \in [status : Statuses, done : 0..7, eligibility : Policies \cup {None}]
    BY <1>5, <1>s DEF Start, TypeOK
  <2> QED
    BY <1>5, <2>1, <2>2 DEF Start, TypeOK, Pcs, history
<1>6. ASSUME NEW c \in Resumers \cup Cancellers, Acquire(c) \/ NothingToDo(c) \/ BeginResume(c)
             \/ BeginCancel(c)
      PROVE  TypeOK'
  <2>1. c \in Calls /\ pc' \in [Calls -> Pcs]
    BY <1>6, <1>p, <1>q DEF Acquire, NothingToDo, BeginResume, BeginCancel, Release, Go, Calls
  <2> QED
    BY <1>6, <2>1 DEF Acquire, NothingToDo, BeginResume, BeginCancel, Release, Go,
       TypeOK, Pcs, stores, history
<1>7. ASSUME NEW c \in Resumers \cup Cancellers, Resume(c) PROVE TypeOK'
  <2>1. c \in Calls
    BY DEF Calls
  <2>2. graph.done + 1 \in 1..7
    BY <1>7, <2>1 DEF Resume, ExecutionInv, TypeOK, Resumable
  <2>3. pc' \in [Calls -> Pcs]
    BY <1>7, <2>1, <2>2, <1>p, <1>0 DEF Resume, Go
  <2>4. graph' \in [status : Statuses, done : 0..7, eligibility : Policies \cup {None}]
    BY <1>7, <1>s DEF Resume, TypeOK
  <2> QED
    BY <1>7, <2>3, <2>4 DEF Resume, TypeOK, Pcs, history
<1>8. ASSUME NEW c \in Resumers \cup Cancellers, MarkCancelled(c) PROVE TypeOK'
  <2>1. c \in Calls /\ pc' \in [Calls -> Pcs]
    BY <1>8, <1>p, <1>q DEF MarkCancelled, Go, Calls
  <2>2. graph' \in [status : Statuses, done : 0..7, eligibility : Policies \cup {None}]
    BY <1>8, <1>s DEF MarkCancelled, TypeOK
  <2> QED
    BY <1>8, <2>1, <2>2 DEF MarkCancelled, TypeOK, Pcs, history
<1>9. ASSUME NEW c \in Resumers \cup Cancellers, FinishCancel(c) PROVE TypeOK'
  <2>1. c \in Calls /\ pc' \in [Calls -> Pcs]
    BY <1>9, <1>p, <1>q DEF FinishCancel, Release, Go, Calls
  <2> QED
    BY <1>9, <2>1 DEF FinishCancel, Release, TypeOK, Pcs, history
<1>10. CASE Restart
  BY <1>10, <1>q, AgentAssumption DEF Restart, TypeOK, Pcs, stores
<1>11. CASE FlagStale
  <2>1. graph' \in [status : Statuses, done : 0..7, eligibility : Policies \cup {None}]
    BY <1>11, <1>s DEF FlagStale, TypeOK
  <2> QED
    BY <1>11, <2>1 DEF FlagStale, TypeOK, history
<1>12. CASE UNCHANGED vars
  BY <1>12 DEF vars, history, stores, TypeOK
<1>13. \A c \in Calls : Work(c) => TypeOK'
  BY <1>1, <1>2, <1>3, <1>4, WorkKinds
<1>14. \A c \in Resumers \cup Cancellers : Acquire(c) \/ Control(c) => TypeOK'
  BY <1>6, <1>7, <1>8, <1>9 DEF Control
<1> QED
  BY <1>5, <1>10, <1>11, <1>12, <1>13, <1>14 DEF Next

-----------------------------------------------------------------------------
(* One execution at a time *)

LEMMA ExecutionInitial == Init => ExecutionInv
BY StageList DEF Init, ExecutionInv, OneExecutes, Position, Executing

\* An execution's step leaves the other calls where they are.
LEMMA ExecutionKept ==
  ASSUME TypeOK, ExecutionInv, NEW c \in Calls, NEW p,
         pc' = [pc EXCEPT ![c] = p], lock' = lock,
         p \notin {"locked", "resuming", "marking", "cancelling"},
         Position(c)', Executing(c)' => Executing(c) /\ graph'.status \in {"running", "cancelled"},
         Executing(c),
         graph'.done = 7 => graph'.status \in {"waiting_for_review", "cancelled"},
         graph'.status # "none"
  PROVE  ExecutionInv'
<1>1. \A d \in Calls : d # c => ~Executing(d) /\ pc[d] # "resuming" /\ pc'[d] = pc[d]
  BY DEF TypeOK, ExecutionInv, OneExecutes, Resumable
<1>2. ASSUME NEW d \in Calls, d # c
      PROVE  ~Executing(d)' /\ Position(d)'
  BY <1>1, <1>2, StageList DEF Executing, Position
<1>3. OneExecutes'
  BY <1>2 DEF OneExecutes
<1>4. ASSUME NEW d \in Calls
      PROVE  /\ Position(d)' /\ (Executing(d)' => graph'.status \in {"running", "cancelled"})
             /\ (pc'[d] = "resuming" => graph'.status \in Resumable)
             /\ pc'[d] \in {"locked", "resuming", "marking", "cancelling"} => lock' = d
  <2>1. CASE d = c
    BY <2>1 DEF TypeOK
  <2>2. CASE d # c
    BY <2>2, <1>1, <1>2 DEF ExecutionInv
  <2> QED
    BY <2>1, <2>2
<1> QED
  BY <1>3, <1>4 DEF ExecutionInv

LEMMA ExecutionPreserved == TypeOK /\ ExecutionInv /\ [Next]_vars => ExecutionInv'
<1> SUFFICES ASSUME TypeOK, ExecutionInv, [Next]_vars PROVE ExecutionInv'
  OBVIOUS
<1>1. ASSUME NEW c \in Calls, Writes(c) PROVE ExecutionInv'
  <2>1. CASE pc' = pc
    BY <1>1, <2>1, WriteMoves DEF ExecutionInv, OneExecutes, Position, Executing
  <2>2. CASE pc' # pc
    <3>1. PICK p \in {"ensure", "extracted", "rule_gated", "ai_suggested"} :
            /\ pc' = [pc EXCEPT ![c] = p]
            /\ \/ pc[c] = "ingest" /\ p = "ensure"
               \/ pc[c] = "metrics" /\ p = "extracted"
               \/ pc[c] = "eligibility" /\ p = "rule_gated"
               \/ pc[c] = "suggest" /\ p = "ai_suggested"
      BY <1>1, <2>2, WriteMoves
    <3>2. pc'[c] = p /\ graph' = graph /\ lock' = lock
      BY <3>1, <1>1, WriteMoves DEF TypeOK
    <3>3. Executing(c) /\ graph.status \in {"running", "cancelled"} /\ Position(c)
      BY <3>1, StageList DEF Executing, ExecutionInv
    <3>4. Position(c)'
      BY <3>1, <3>2, <3>3 DEF Position
    <3>5. graph'.done = 7 => graph'.status \in {"waiting_for_review", "cancelled"}
      BY <3>2 DEF ExecutionInv
    <3> QED
      BY <3>1, <3>2, <3>3, <3>4, <3>5, ExecutionKept
  <2> QED
    BY <2>1, <2>2
<1>2. ASSUME NEW c \in Calls, Checkpoints(c) PROVE ExecutionInv'
  <2>1. PICK w \in 1..7, e \in Policies \cup {None} :
          /\ Checkpoint(c, w, e)
          /\ \/ w = 1 /\ pc[c] = "ensure"
             \/ w = 2 /\ pc[c] = "extracted"
             \/ w = 3 /\ pc[c] = "rule_gated"
             \/ w = 4 /\ pc[c] = "retrieve"
             \/ w = 5 /\ pc[c] = "ai_suggested"
             \/ w = 6 /\ pc[c] = "guard"
             \/ w = 7 /\ pc[c] = "handoff"
    BY <1>2, CheckpointWorker
  <2>2. lock' = lock
    BY <1>2, CheckpointWorker
  <2>3. Executing(c) /\ graph.status \in {"running", "cancelled"} /\ Position(c)
    BY <2>1, StageList DEF Executing, ExecutionInv
  <2>4. CASE /\ graph' = graph /\ pc' = [pc EXCEPT ![c] = "report"]
    <3>1. pc'[c] = "report" /\ ~Executing(c)' /\ Position(c)'
      BY <2>4, StageList DEF TypeOK, Executing, Position
    <3> QED
      BY <3>1, <2>2, <2>3, <2>4, ExecutionKept DEF ExecutionInv
  <2>5. CASE /\ w < 7 /\ graph' = [status |-> "running", done |-> w, eligibility |-> e]
             /\ pc' = [pc EXCEPT ![c] = FirstStage(w + 1)]
    <3>1. pc'[c] = FirstStage(w + 1) /\ graph'.done = w /\ graph'.status = "running"
      BY <2>5 DEF TypeOK
    <3>2. \/ w = 1 /\ FirstStage(w + 1) = "metrics"
          \/ w = 2 /\ FirstStage(w + 1) = "eligibility"
          \/ w = 3 /\ FirstStage(w + 1) = "retrieve"
          \/ w = 4 /\ FirstStage(w + 1) = "suggest"
          \/ w = 5 /\ FirstStage(w + 1) = "guard"
          \/ w = 6 /\ FirstStage(w + 1) = "handoff"
      BY <2>1, <2>5, StageList
    <3>3. Position(c)' /\ FirstStage(w + 1) \notin {"locked", "resuming", "marking", "cancelling"}
      BY <3>1, <3>2 DEF Position
    <3>4. graph'.done # 7
      BY <3>1, <2>5
    <3> QED
      BY <3>1, <3>3, <3>4, <2>2, <2>3, <2>5, ExecutionKept
  <2>6. CASE /\ graph' = [status |-> "waiting_for_review", done |-> w, eligibility |-> e]
             /\ pc' = [pc EXCEPT ![c] = "report"]
    <3>1. pc'[c] = "report" /\ ~Executing(c)' /\ Position(c)'
      BY <2>6, StageList DEF TypeOK, Executing, Position
    <3> QED
      BY <3>1, <2>2, <2>3, <2>6, ExecutionKept
  <2> QED
    BY <2>1, <2>4, <2>5, <2>6, CheckpointMoves
<1>3. ASSUME NEW c \in Calls, Failures(c) PROVE ExecutionInv'
  <2>1. PICK status \in {"failed_retryable", "failed_terminal", "needs_attention"} : End(c, status)
    BY <1>3, FailureMoves
  <2>2. Executing(c) /\ Position(c) /\ lock' = lock
    BY <1>3, FailureMoves, StageList DEF Executing, ExecutionInv
  <2>3. /\ pc' = [pc EXCEPT ![c] = "report"] /\ graph'.status = status
        /\ graph'.done = graph.done
    BY <2>1 DEF End, Go, TypeOK
  <2>4. pc'[c] = "report" /\ ~Executing(c)' /\ Position(c)'
    BY <2>3, StageList DEF TypeOK, Executing, Position
  <2>5. graph.done # 7
    BY <1>3, FailureMoves, <2>2 DEF Position
  <2> QED
    BY <2>2, <2>3, <2>4, <2>5, ExecutionKept
<1>4. ASSUME NEW c \in Calls, Report(c) \/ FinishJob(c) PROVE ExecutionInv'
  BY <1>4, StageList DEF Report, FinishJob, Release, Go, stores, TypeOK, ExecutionInv, OneExecutes,
     Position, Executing
<1>5. CASE Start("start")
  <2>1. /\ "start" \in Calls /\ pc' = [pc EXCEPT !["start"] = "ingest"] /\ lock' = lock
        /\ graph.status = "none" /\ graph'.status = "running" /\ graph'.done = graph.done
        /\ graph.done = 0
    BY <1>5, StageList DEF Start, Go, Calls, TypeOK, ExecutionInv
  <2>2. \A d \in Calls : ~Executing(d) /\ pc[d] # "resuming"
    BY <2>1 DEF ExecutionInv, Resumable
  <2>3. \A d \in Calls : Executing(d)' => d = "start"
    BY <2>1, <2>2 DEF Executing, TypeOK
  <2>4. \A d \in Calls : Position(d)'
    BY <2>1, <2>2, StageList DEF Position, Executing, TypeOK
  <2>5. \A d \in Calls : pc'[d] = (IF d = "start" THEN "ingest" ELSE pc[d])
    BY <2>1 DEF TypeOK
  <2> QED
    BY <2>1, <2>2, <2>3, <2>4, <2>5 DEF ExecutionInv, OneExecutes
<1>6. ASSUME NEW c \in Resumers \cup Cancellers, Acquire(c) \/ NothingToDo(c) \/ BeginResume(c)
             \/ BeginCancel(c) \/ FinishCancel(c)
      PROVE  ExecutionInv'
  <2>1. c \in Calls
    BY DEF Calls
  <2>2. PICK p \in {"locked", "done", "resuming", "marking"} :
          /\ pc' = [pc EXCEPT ![c] = p] /\ graph' = graph
          /\ p = "resuming" => graph.status \in Resumable
          /\ p # "done" => lock' = c
          /\ lock = c \/ lock = None
          /\ lock' \in {lock, c, None}
    BY <1>6, <2>1 DEF Acquire, NothingToDo, BeginResume, BeginCancel, FinishCancel, Release, Go, stores,
       ExecutionInv
  <2>3. \A d \in Calls : pc'[d] = (IF d = c THEN p ELSE pc[d])
    BY <2>1, <2>2 DEF TypeOK
  <2>4. \A d \in Calls : d # c => pc[d] \notin {"locked", "resuming", "marking", "cancelling"}
    BY <2>2, AgentAssumption DEF ExecutionInv, Calls, TypeOK
  <2>5. \A d \in Calls : Position(d)' /\ (Executing(d)' => Executing(d))
    BY <2>2, <2>3, StageList DEF ExecutionInv, Position, Executing
  <2> QED
    BY <2>1, <2>2, <2>3, <2>4, <2>5 DEF ExecutionInv, OneExecutes
<1>7. ASSUME NEW c \in Resumers \cup Cancellers, Resume(c) PROVE ExecutionInv'
  <2>1. /\ c \in Calls /\ lock' = lock /\ lock = c /\ graph.status \in Resumable
        /\ pc' = [pc EXCEPT ![c] = FirstStage(graph.done + 1)]
        /\ graph'.status = "running" /\ graph'.done = graph.done
    BY <1>7 DEF Resume, Go, Calls, ExecutionInv, TypeOK
  <2>2. graph.done + 1 \in 1..7
    BY <2>1 DEF ExecutionInv, TypeOK, Resumable
  <2>3. \/ graph.done = 0 /\ FirstStage(graph.done + 1) = "ingest"
        \/ graph.done = 1 /\ FirstStage(graph.done + 1) = "metrics"
        \/ graph.done = 2 /\ FirstStage(graph.done + 1) = "eligibility"
        \/ graph.done = 3 /\ FirstStage(graph.done + 1) = "retrieve"
        \/ graph.done = 4 /\ FirstStage(graph.done + 1) = "suggest"
        \/ graph.done = 5 /\ FirstStage(graph.done + 1) = "guard"
        \/ graph.done = 6 /\ FirstStage(graph.done + 1) = "handoff"
    BY <2>2, StageList DEF TypeOK
  <2>4. \A d \in Calls : pc'[d] = (IF d = c THEN FirstStage(graph.done + 1) ELSE pc[d])
    BY <2>1 DEF TypeOK
  <2>5. \A d \in Calls : ~Executing(d)
    BY <2>1 DEF ExecutionInv, Resumable
  <2>6. \A d \in Calls : d # c => pc[d] \notin {"locked", "resuming", "marking", "cancelling"}
    BY <2>1 DEF ExecutionInv
  <2>7. \A d \in Calls : Executing(d)' => d = c
    BY <2>4, <2>5 DEF Executing
  <2>8. \A d \in Calls : Position(d)'
    BY <2>1, <2>3, <2>4, <2>5, StageList DEF Position, Executing
  <2>9. graph.done # 7
    BY <2>2 DEF TypeOK
  <2> QED
    BY <2>1, <2>3, <2>4, <2>6, <2>7, <2>8, <2>9 DEF ExecutionInv, OneExecutes
<1>8. ASSUME NEW c \in Resumers \cup Cancellers, MarkCancelled(c) PROVE ExecutionInv'
  <2>1. /\ c \in Calls /\ lock' = lock /\ lock = c
        /\ pc' = [pc EXCEPT ![c] = "cancelling"]
        /\ graph'.status = "cancelled" /\ graph'.done = graph.done
    BY <1>8 DEF MarkCancelled, Go, Calls, ExecutionInv, TypeOK
  <2>2. \A d \in Calls : pc'[d] = (IF d = c THEN "cancelling" ELSE pc[d])
    BY <2>1 DEF TypeOK
  <2>3. \A d \in Calls : pc'[d] \in {"locked", "resuming", "marking", "cancelling"} => d = c
    BY <2>1, <2>2 DEF ExecutionInv
  <2>4. \A d \in Calls : Position(d)' /\ (Executing(d)' => Executing(d))
    BY <2>1, <2>2, StageList DEF Position, Executing, ExecutionInv
  <2> QED
    BY <2>1, <2>2, <2>3, <2>4 DEF ExecutionInv, OneExecutes
<1>9. CASE Restart
  <2>1. graph' = graph /\ \A c \in Calls : pc'[c] \in {"idle", "done"}
    BY <1>9 DEF Restart, stores
  <2> QED
    BY <2>1, StageList DEF ExecutionInv, OneExecutes, Position, Executing
<1>10. CASE FlagStale
  <2>1. /\ pc' = pc /\ lock' = lock /\ graph.status = "running" /\ graph'.status = "needs_attention"
        /\ graph'.done = graph.done /\ \A c \in Calls : pc[c] \in {"idle", "done"}
    BY <1>10 DEF FlagStale, TypeOK
  <2> QED
    BY <2>1, StageList DEF ExecutionInv, OneExecutes, Position, Executing
<1>11. CASE UNCHANGED vars
  BY <1>11 DEF vars, stores, ExecutionInv, OneExecutes, Position, Executing
<1>12. \A c \in Calls : Work(c) => ExecutionInv'
  BY <1>1, <1>2, <1>3, <1>4, WorkKinds
<1>13. \A c \in Resumers \cup Cancellers : Acquire(c) \/ Control(c) => ExecutionInv'
  BY <1>6, <1>7, <1>8 DEF Control
<1> QED
  BY <1>5, <1>9, <1>10, <1>11, <1>12, <1>13 DEF Next

-----------------------------------------------------------------------------
(* What the stores hold *)

LEMMA AnswersPreserved == TypeOK /\ AnswersInv /\ [Next]_vars => AnswersInv'
<1> SUFFICES ASSUME TypeOK, AnswersInv, [Next]_vars PROVE AnswersInv'
  OBVIOUS
<1> DEFINE Counted == {"document_processing"} \cup Metrics
<1>0. /\ Counted \subseteq DOMAIN artifact
      /\ \A n \in {"financial_analysis", "eligibility", "precedent_retrieval", "suggestion"} :
           n \notin Counted
  BY ArtifactAssumption DEF TypeOK, ArtifactNames
<1>1. ASSUME answered' = answered, \A n \in Counted : artifact'[n] = artifact[n] PROVE AnswersInv'
  BY <1>1 DEF AnswersInv
<1>2. ASSUME NEW n \in Counted, NEW value, value # None, artifact[n] = None,
             Save(n, value), answered' = [answered EXCEPT ![n] = @ + 1]
      PROVE  AnswersInv'
  <2>1. \A m \in Counted : m # n => answered'[m] = answered[m] /\ artifact'[m] = artifact[m]
    BY <1>2 DEF Save
  <2>2. answered'[n] = 1 /\ artifact'[n] = value
    BY <1>0, <1>2 DEF Save, AnswersInv
  <2> QED
    BY <2>1, <2>2, <1>2 DEF AnswersInv
<1>3. ASSUME NEW n \in ArtifactNames \ {"document_processing"}, NEW value, Save(n, value),
             answered' = answered
      PROVE  AnswersInv'
  <2>1. \A m \in Counted : m # n
    BY <1>3, ArtifactAssumption
  <2> QED
    BY <1>1, <1>3, <2>1 DEF Save
<1> HIDE DEF Counted
<1>4. ASSUME NEW c \in Calls, Writes(c) PROVE AnswersInv'
  <2>1. CASE Ingest(c)
    <3>1. CASE artifact["document_processing"] # None
      BY <1>1, <2>1, <3>1 DEF Ingest
    <3>2. CASE artifact["document_processing"] = None
      BY <1>2, <2>1, <3>2, ArtifactAssumption DEF Ingest, Counted
    <3> QED
      BY <3>1, <3>2
  <2>2. CASE Extract(c)
    <3>1. PICK m \in Missing, cites \in {"own", "foreign"} :
            Save(m, cites) /\ answered' = [answered EXCEPT ![m] = @ + 1]
      BY <2>2 DEF Extract
    <3>2. m \in Counted /\ artifact[m] = None /\ cites # None
      BY ArtifactAssumption DEF Missing, Counted
    <3> QED
      BY <3>1, <3>2, <1>2
  <2>3. CASE SaveApplication(c)
    BY <2>3, <1>3 DEF SaveApplication, history, ArtifactNames
  <2>4. CASE Evaluate(c)
    BY <2>4, <1>3 DEF Evaluate, history, ArtifactNames
  <2>5. CASE Suggest(c)
    BY <2>5, <1>3 DEF Suggest, history, ArtifactNames
  <2> QED
    BY <1>4, <2>1, <2>2, <2>3, <2>4, <2>5 DEF Writes
<1>5. ASSUME NEW c \in Calls, Checkpoints(c) PROVE AnswersInv'
  <2>1. CASE Retrieve(c)
    <3>1. PICK matches : Save("precedent_retrieval", matches)
      BY <2>1 DEF Retrieve
    <3> QED
      BY <2>1, <3>1, <1>3 DEF Retrieve, history, ArtifactNames
  <2>2. CASE ~Retrieve(c)
    <3>1. artifact' = artifact
      BY <1>5, <2>2 DEF Checkpoints, EnsureWorkflow, FinishFinancial, FinishEligibility,
         FinishSuggestion, Guard, HandOff, AdvanceAndCheckpoint
    <3> QED
      BY <1>1, <1>5, <3>1, CheckpointWorker
  <2> QED
    BY <2>1, <2>2
<1>6. ASSUME NEW c \in Calls, Failures(c) PROVE AnswersInv'
  BY <1>1, <1>6, FailureMoves DEF history
<1>7. ASSUME NEW c, Report(c) \/ FinishJob(c) \/ Start(c) \/ Acquire(c) \/ Control(c) PROVE AnswersInv'
  BY <1>1, <1>7 DEF Report, FinishJob, Start, Acquire, Control, NothingToDo, BeginResume, Resume,
     BeginCancel, MarkCancelled, FinishCancel, stores, history
<1>8. CASE Restart \/ FlagStale \/ UNCHANGED vars
  BY <1>1, <1>8 DEF Restart, FlagStale, vars, stores, history
<1>9. \A c \in Calls : Work(c) => AnswersInv'
  BY <1>4, <1>5, <1>6, <1>7, WorkKinds
<1> QED
  BY <1>7, <1>8, <1>9 DEF Next

\* The places between two writes of a worker.
Midway == {"ensure", "extracted", "rule_gated", "ai_suggested"}

\* Steps that are no work of a worker write no artifact, no workflow record and no
\* progress, and enter no worker half way.
LEMMA QuietSteps ==
  ASSUME TypeOK, ExecutionInv,
         \/ \E c \in Calls : Report(c) \/ FinishJob(c)
         \/ Start("start")
         \/ \E c \in Resumers \cup Cancellers : Acquire(c) \/ Control(c)
         \/ Restart \/ FlagStale \/ UNCHANGED vars
  PROVE  /\ artifact' = artifact /\ workflow' = workflow /\ checked' = checked
         /\ graph'.done = graph.done /\ graph'.eligibility = graph.eligibility
         /\ \A d \in Calls : pc'[d] \in Midway => pc'[d] = pc[d]
         /\ Restart \/ (policies' = policies /\ redeployed' = redeployed)
<1>1. ASSUME NEW c \in Calls, Report(c) \/ FinishJob(c)
      PROVE  /\ artifact' = artifact /\ workflow' = workflow /\ checked' = checked
             /\ policies' = policies /\ redeployed' = redeployed
             /\ graph'.done = graph.done /\ graph'.eligibility = graph.eligibility
             /\ \A d \in Calls : pc'[d] \in Midway => pc'[d] = pc[d]
  BY <1>1 DEF Report, FinishJob, Release, Go, TypeOK, stores, history, Midway
<1>2. ASSUME NEW c \in Calls, NEW w \in 1..7, pc' = [pc EXCEPT ![c] = FirstStage(w)]
      PROVE  \A d \in Calls : pc'[d] \in Midway => pc'[d] = pc[d]
  <2>1. FirstStage(w) \notin Midway
    BY StageList DEF Midway
  <2> QED
    BY <1>2, <2>1 DEF TypeOK
<1>3. CASE Start("start")
  <2>1. pc' = [pc EXCEPT !["start"] = FirstStage(1)] /\ "start" \in Calls /\ 1 \in 1..7
    BY <1>3 DEF Start, Go, Calls
  <2>2. \A d \in Calls : pc'[d] \in Midway => pc'[d] = pc[d]
    BY <2>1, <1>2
  <2> QED
    BY <1>3, <2>2 DEF Start, history, TypeOK
<1>4. ASSUME NEW c \in Resumers \cup Cancellers, Acquire(c) \/ Control(c)
      PROVE  /\ artifact' = artifact /\ workflow' = workflow /\ checked' = checked
             /\ policies' = policies /\ redeployed' = redeployed
             /\ graph'.done = graph.done /\ graph'.eligibility = graph.eligibility
             /\ \A d \in Calls : pc'[d] \in Midway => pc'[d] = pc[d]
  <2>0. c \in Calls
    BY DEF Calls
  <2>1. CASE Resume(c)
    <3>1. graph.done + 1 \in 1..7
      BY <2>1, <2>0 DEF Resume, ExecutionInv, TypeOK, Resumable
    <3>2. pc' = [pc EXCEPT ![c] = FirstStage(graph.done + 1)]
      BY <2>1 DEF Resume, Go
    <3>3. \A d \in Calls : pc'[d] \in Midway => pc'[d] = pc[d]
      BY <3>1, <3>2, <2>0, <1>2
    <3> QED
      BY <2>1, <3>3 DEF Resume, TypeOK, history
  <2>2. CASE Acquire(c) \/ NothingToDo(c) \/ BeginResume(c) \/ BeginCancel(c)
    BY <2>2, <2>0 DEF Acquire, NothingToDo, BeginResume, BeginCancel, Release, Go, stores, history,
       TypeOK, Midway
  <2>3. CASE MarkCancelled(c) \/ FinishCancel(c)
    BY <2>3, <2>0 DEF MarkCancelled, FinishCancel, Release, Go, history, TypeOK, Midway
  <2> QED
    BY <1>4, <2>1, <2>2, <2>3 DEF Control
<1>5. CASE Restart
  BY <1>5 DEF Restart, stores, TypeOK, Midway
<1>6. CASE FlagStale
  BY <1>6 DEF FlagStale, history, TypeOK
<1>7. CASE UNCHANGED vars
  BY <1>7 DEF vars
<1>8. CASE \E c \in Calls : Report(c) \/ FinishJob(c)
  BY <1>8, <1>1
<1>9. CASE \E c \in Resumers \cup Cancellers : Acquire(c) \/ Control(c)
  BY <1>9, <1>4
<1> QED
  BY <1>3, <1>5, <1>6, <1>7, <1>8, <1>9

\* While a call executes no other one is inside a worker, before or after its step.
LEMMA OthersAreOut ==
  ASSUME TypeOK, ExecutionInv, NEW c \in Calls, Executing(c), NEW p, pc' = [pc EXCEPT ![c] = p],
         NEW d \in Calls, d # c
  PROVE  pc'[d] \notin Midway
BY StageList DEF TypeOK, ExecutionInv, OneExecutes, Executing, Midway

LEMMA StoresInitial == Init => StoresInv
BY DEF Init, StoresInv, StoresAreOrdered, Extracted, RuleGated, AiSuggested, AwaitingHuman

LEMMA StoresPreserved == TypeOK /\ ExecutionInv /\ StoresInv /\ [Next]_vars => StoresInv'
<1> SUFFICES ASSUME TypeOK, ExecutionInv, StoresInv, [Next]_vars PROVE StoresInv'
  OBVIOUS
<1> USE DEF Extracted, RuleGated, AiSuggested, AwaitingHuman
<1>1. ASSUME NEW c \in Calls, Writes(c) PROVE StoresInv'
  <2>1. PICK p : pc' = [pc EXCEPT ![c] = p]
    BY <1>1, WriteMoves DEF TypeOK
  <2>2. Executing(c) /\ Position(c) /\ graph' = graph /\ workflow' = workflow
    BY <1>1, WriteMoves, StageList DEF Executing, ExecutionInv
  <2>3. \A d \in Calls : d # c => pc'[d] \notin Midway
    BY <2>1, <2>2, OthersAreOut
  <2>4. CASE Ingest(c)
    BY <2>2, <2>3, <2>4, ArtifactAssumption
       DEF Ingest, Save, Go, StoresInv, StoresAreOrdered, Position, Midway, TypeOK, ArtifactNames
  <2>5. CASE Extract(c)
    <3>1. PICK m \in Metrics : \E cites : Save(m, cites)
      BY <2>5 DEF Extract, Missing
    <3>2. m \notin ArtifactNames /\ \A n \in ArtifactNames : artifact'[n] = artifact[n]
      BY <3>1, ArtifactAssumption DEF Save, TypeOK
    <3>3. pc[c] = "metrics" /\ pc' = pc /\ graph.done = 1
      BY <2>2, <2>5 DEF Extract, Position
    <3> QED
      BY <2>2, <2>3, <3>2, <3>3 DEF StoresInv, StoresAreOrdered, Midway, ArtifactNames
  <2>6. CASE SaveApplication(c)
    <3>1. /\ pc[c] = "metrics" /\ pc'[c] = "extracted" /\ graph.done = 1
          /\ \A m \in Metrics : artifact[m] = "own"
          /\ artifact'["financial_analysis"] # None
          /\ \A n \in DOMAIN artifact : n # "financial_analysis" => artifact'[n] = artifact[n]
      BY <2>2, <2>6, ArtifactAssumption DEF SaveApplication, Save, Go, Position, TypeOK, ArtifactNames
    <3>2. \A m \in Metrics : artifact'[m] = "own"
      BY <3>1, ArtifactAssumption DEF TypeOK, ArtifactNames
    <3> QED
      BY <2>2, <2>3, <3>1, <3>2 DEF StoresInv, StoresAreOrdered, Midway, TypeOK, ArtifactNames
  <2>7. CASE Evaluate(c)
    <3>1. /\ pc[c] = "eligibility" /\ pc'[c] = "rule_gated" /\ graph.done = 2
          /\ artifact'["eligibility"] = policies /\ policies # None
          /\ \A n \in DOMAIN artifact : n # "eligibility" => artifact'[n] = artifact[n]
      BY <2>2, <2>7, AgentAssumption DEF Evaluate, Save, Go, Position, TypeOK, ArtifactNames
    <3>2. \A m \in Metrics : artifact'[m] = artifact[m]
      BY <3>1, ArtifactAssumption DEF TypeOK, ArtifactNames
    <3> QED
      BY <2>2, <2>3, <3>1, <3>2 DEF StoresInv, StoresAreOrdered, Midway, TypeOK, ArtifactNames
  <2>8. CASE Suggest(c)
    <3>1. /\ pc[c] = "suggest" /\ pc'[c] = "ai_suggested" /\ graph.done = 4
          /\ artifact'["suggestion"] = Eligible[policies]
          /\ \A n \in DOMAIN artifact : n # "suggestion" => artifact'[n] = artifact[n]
      BY <2>2, <2>8 DEF Suggest, Save, Go, Position, TypeOK, ArtifactNames
    <3>2. \A m \in Metrics : artifact'[m] = artifact[m]
      BY <3>1, ArtifactAssumption DEF TypeOK, ArtifactNames
    <3>3. Eligible[policies] # None
      BY ArtifactAssumption DEF TypeOK
    <3> QED
      BY <2>2, <2>3, <3>1, <3>2, <3>3 DEF StoresInv, StoresAreOrdered, Midway, TypeOK, ArtifactNames
  <2> QED
    BY <1>1, <2>4, <2>5, <2>6, <2>7, <2>8 DEF Writes
<1>2. ASSUME NEW c \in Calls, Checkpoints(c) PROVE StoresInv'
  <2>1. PICK w \in 1..7, e \in Policies \cup {None} :
          /\ Checkpoint(c, w, e)
          /\ \/ w = 1 /\ pc[c] = "ensure"
             \/ w = 2 /\ pc[c] = "extracted"
             \/ w = 3 /\ pc[c] = "rule_gated"
             \/ w = 4 /\ pc[c] = "retrieve"
             \/ w = 5 /\ pc[c] = "ai_suggested"
             \/ w = 6 /\ pc[c] = "guard"
             \/ w = 7 /\ pc[c] = "handoff"
          /\ e = IF w = 3 THEN artifact["eligibility"] ELSE graph.eligibility
    BY <1>2, CheckpointWorker
  <2>2. /\ Executing(c) /\ graph.done = w - 1
    BY <2>1, StageList DEF Executing, ExecutionInv, Position
  <2>3. PICK p : pc' = [pc EXCEPT ![c] = p] /\ p \notin Midway
    <3>1. \A v \in 1..7 : FirstStage(v) \notin Midway
      BY StageList DEF Midway
    <3> QED
      BY <2>1, <3>1, CheckpointMoves DEF Midway
  <2>4. \A d \in Calls : pc'[d] \notin Midway
    BY <2>2, <2>3, OthersAreOut DEF TypeOK
  <2>5. \/ graph'.done = graph.done /\ graph'.eligibility = graph.eligibility
        \/ graph'.done = w /\ graph'.eligibility = e
    BY <2>1, CheckpointMoves
  <2>6. ASSUME NEW target \in 2..5, Advance(target, artifact["suggestion"])
        PROVE  \/ workflow.level >= target /\ workflow' = workflow
               \/ /\ workflow.level < target /\ workflow'.level = target
                  /\ workflow'.suggestion =
                       IF target = 4 THEN artifact["suggestion"] ELSE workflow.suggestion
    BY <2>6 DEF Advance, TypeOK
  <2>7. CASE w = 1
    BY <2>1, <2>2, <2>4, <2>5, <2>7, <1>2, StageList
       DEF Checkpoints, EnsureWorkflow, FinishFinancial, FinishEligibility, Retrieve, FinishSuggestion,
           Guard, HandOff, AdvanceAndCheckpoint, StoresInv, StoresAreOrdered, Midway, TypeOK
  <2>8. CASE w = 2
    <3>1. artifact' = artifact /\ Advance(2, artifact["suggestion"])
      BY <1>2, <2>1, <2>8 DEF Checkpoints, EnsureWorkflow, FinishFinancial, FinishEligibility, Retrieve,
         FinishSuggestion, Guard, HandOff, AdvanceAndCheckpoint
    <3> QED
      BY <3>1, <2>1, <2>2, <2>4, <2>5, <2>6, <2>8 DEF StoresInv, StoresAreOrdered, Midway, TypeOK
  <2>9. CASE w = 3
    <3>1. artifact' = artifact /\ Advance(3, artifact["suggestion"])
      BY <1>2, <2>1, <2>9 DEF Checkpoints, EnsureWorkflow, FinishFinancial, FinishEligibility, Retrieve,
         FinishSuggestion, Guard, HandOff, AdvanceAndCheckpoint
    <3> QED
      BY <3>1, <2>1, <2>2, <2>4, <2>5, <2>6, <2>9 DEF StoresInv, StoresAreOrdered, Midway, TypeOK
  <2>10. CASE w = 4
    <3>1. Retrieve(c)
      BY <1>2, <2>1, <2>10 DEF Checkpoints, EnsureWorkflow, FinishFinancial, FinishEligibility, Retrieve,
         FinishSuggestion, Guard, HandOff, AdvanceAndCheckpoint
    <3>2. PICK matches \in SUBSET Eligible[policies] : Save("precedent_retrieval", matches)
      BY <3>1 DEF Retrieve
    <3>3. matches # None
      BY ArtifactAssumption DEF TypeOK
    <3>4. /\ artifact'["precedent_retrieval"] # None /\ workflow' = workflow
          /\ \A n \in DOMAIN artifact : n # "precedent_retrieval" => artifact'[n] = artifact[n]
      BY <3>1, <3>2, <3>3 DEF Retrieve, Save, TypeOK, ArtifactNames
    <3>5. \A m \in Metrics : artifact'[m] = artifact[m]
      BY <3>4, ArtifactAssumption DEF TypeOK, ArtifactNames
    <3> QED
      BY <3>4, <3>5, <2>1, <2>2, <2>4, <2>5, <2>10
         DEF StoresInv, StoresAreOrdered, Midway, TypeOK, ArtifactNames
  <2>11. CASE w = 5
    <3>1. artifact' = artifact /\ Advance(4, artifact["suggestion"])
      BY <1>2, <2>1, <2>11 DEF Checkpoints, EnsureWorkflow, FinishFinancial, FinishEligibility, Retrieve,
         FinishSuggestion, Guard, HandOff, AdvanceAndCheckpoint
    <3> QED
      BY <3>1, <2>1, <2>2, <2>4, <2>5, <2>6, <2>11 DEF StoresInv, StoresAreOrdered, Midway, TypeOK
  <2>12. CASE w = 6
    <3>1. artifact' = artifact /\ workflow' = workflow
      BY <1>2, <2>1, <2>12 DEF Checkpoints, EnsureWorkflow, FinishFinancial, FinishEligibility, Retrieve,
         FinishSuggestion, Guard, HandOff, AdvanceAndCheckpoint
    <3> QED
      BY <3>1, <2>1, <2>2, <2>4, <2>5, <2>12 DEF StoresInv, StoresAreOrdered, Midway, TypeOK
  <2>13. CASE w = 7
    <3>1. artifact' = artifact /\ Advance(5, artifact["suggestion"])
      BY <1>2, <2>1, <2>13 DEF Checkpoints, EnsureWorkflow, FinishFinancial, FinishEligibility, Retrieve,
         FinishSuggestion, Guard, HandOff, AdvanceAndCheckpoint
    <3> QED
      BY <3>1, <2>1, <2>2, <2>4, <2>5, <2>6, <2>13 DEF StoresInv, StoresAreOrdered, Midway, TypeOK
  <2> QED
    BY <2>7, <2>8, <2>9, <2>10, <2>11, <2>12, <2>13
<1>3. ASSUME NEW c \in Calls, Failures(c) PROVE StoresInv'
  <2>1. PICK status : End(c, status)
    BY <1>3, FailureMoves
  <2>2. Executing(c) /\ Position(c) /\ artifact' = artifact
    BY <1>3, FailureMoves, StageList DEF Executing, ExecutionInv
  <2>3. /\ graph'.done = graph.done /\ graph'.eligibility = graph.eligibility
        /\ \A d \in Calls : pc'[d] \notin Midway
    BY <2>1, <2>2, OthersAreOut DEF End, Go, TypeOK, Midway
  <2>4. CASE workflow' = workflow
    BY <2>2, <2>3, <2>4 DEF StoresInv, StoresAreOrdered, Midway
  <2>5. CASE /\ workflow.level < Extracted /\ pc[c] = "extracted"
             /\ Advance(Extracted, artifact["suggestion"])
    BY <2>2, <2>3, <2>5 DEF StoresInv, StoresAreOrdered, Midway, Advance, Position, TypeOK
  <2>6. CASE /\ workflow.level < RuleGated /\ pc[c] = "rule_gated"
             /\ Advance(RuleGated, artifact["suggestion"])
    BY <2>2, <2>3, <2>6 DEF StoresInv, StoresAreOrdered, Midway, Advance, Position, TypeOK
  <2>7. CASE /\ workflow.level < AiSuggested /\ pc[c] = "ai_suggested"
             /\ Advance(AiSuggested, artifact["suggestion"])
    BY <2>2, <2>3, <2>7 DEF StoresInv, StoresAreOrdered, Midway, Advance, Position, TypeOK
  <2>8. CASE /\ workflow.level < AwaitingHuman /\ pc[c] = "handoff"
             /\ Advance(AwaitingHuman, artifact["suggestion"])
    BY <2>2, <2>3, <2>8 DEF StoresInv, StoresAreOrdered, Midway, Advance, Position, TypeOK
  <2> QED
    BY <1>3, <2>4, <2>5, <2>6, <2>7, <2>8, FailureMoves
<1>4. CASE \/ \E c \in Calls : Report(c) \/ FinishJob(c)
           \/ Start("start")
           \/ \E c \in Resumers \cup Cancellers : Acquire(c) \/ Control(c)
           \/ Restart \/ FlagStale \/ UNCHANGED vars
  <2>1. /\ artifact' = artifact /\ workflow' = workflow
        /\ graph'.done = graph.done /\ graph'.eligibility = graph.eligibility
        /\ \A d \in Calls : pc'[d] \in Midway => pc'[d] = pc[d]
    BY <1>4, QuietSteps
  <2> QED
    BY <2>1 DEF StoresInv, StoresAreOrdered, Midway
<1>5. \A c \in Calls : Work(c) => StoresInv' \/ Report(c) \/ FinishJob(c)
  BY <1>1, <1>2, <1>3, WorkKinds
<1> QED
  BY <1>4, <1>5 DEF Next

-----------------------------------------------------------------------------
(* What is handed over *)

LEMMA HandoverInitial == Init => HandoverInv
BY DEF Init, HandoverInv, AiSuggested

LEMMA HandoverPreserved ==
  TypeOK /\ ExecutionInv /\ StoresInv /\ HandoverInv /\ [Next]_vars => HandoverInv'
<1> SUFFICES ASSUME TypeOK, ExecutionInv, StoresInv, HandoverInv, [Next]_vars PROVE HandoverInv'
  OBVIOUS
<1> USE DEF Extracted, RuleGated, AiSuggested, AwaitingHuman
<1>1. ASSUME NEW c \in Calls, Writes(c) PROVE HandoverInv'
  <2>1. PICK p : pc' = [pc EXCEPT ![c] = p]
    BY <1>1, WriteMoves DEF TypeOK
  <2>2. /\ Executing(c) /\ Position(c) /\ graph' = graph /\ workflow' = workflow
        /\ policies' = policies /\ redeployed' = redeployed /\ checked' = checked
    BY <1>1, WriteMoves, StageList DEF Executing, ExecutionInv
  <2>3. \A d \in Calls : d # c => pc'[d] \notin Midway
    BY <2>1, <2>2, OthersAreOut
  <2>4. CASE Suggest(c)
    <3>1. /\ graph.done = 4 /\ artifact'["suggestion"] = Eligible[policies]
      BY <2>2, <2>4 DEF Suggest, Save, Position, TypeOK, ArtifactNames
    <3> QED
      BY <2>2, <2>3, <3>1 DEF HandoverInv, Midway
  <2>5. CASE ~Suggest(c)
    <3>1. pc'[c] # "ai_suggested"
      BY <1>1, <2>5 DEF Writes, Ingest, Extract, SaveApplication, Evaluate, Go, TypeOK
    <3>2. artifact'["suggestion"] = artifact["suggestion"]
      BY <1>1, <2>5, ArtifactAssumption DEF Writes, Ingest, Extract, Missing, SaveApplication, Evaluate,
         Save, TypeOK, ArtifactNames, history
    <3> QED
      BY <2>2, <2>3, <3>1, <3>2 DEF HandoverInv, Midway
  <2> QED
    BY <2>4, <2>5
<1>2. ASSUME NEW c \in Calls, Checkpoints(c) PROVE HandoverInv'
  <2>1. PICK w \in 1..7, e \in Policies \cup {None} :
          /\ Checkpoint(c, w, e)
          /\ \/ w = 1 /\ pc[c] = "ensure"
             \/ w = 2 /\ pc[c] = "extracted"
             \/ w = 3 /\ pc[c] = "rule_gated"
             \/ w = 4 /\ pc[c] = "retrieve"
             \/ w = 5 /\ pc[c] = "ai_suggested"
             \/ w = 6 /\ pc[c] = "guard"
             \/ w = 7 /\ pc[c] = "handoff"
    BY <1>2, CheckpointWorker
  <2>2. /\ Executing(c) /\ graph.done = w - 1
        /\ policies' = policies /\ redeployed' = redeployed
    BY <1>2, <2>1, CheckpointWorker, StageList DEF Executing, ExecutionInv, Position
  <2>3. PICK p : pc' = [pc EXCEPT ![c] = p] /\ p \notin Midway
    <3>1. \A v \in 1..7 : FirstStage(v) \notin Midway
      BY StageList DEF Midway
    <3> QED
      BY <2>1, <3>1, CheckpointMoves DEF Midway
  <2>4. \A d \in Calls : pc'[d] # "ai_suggested"
    BY <2>2, <2>3, OthersAreOut DEF TypeOK, Midway
  <2>5. graph'.done = graph.done \/ graph'.done = w
    BY <2>1, CheckpointMoves
  <2>6. artifact'["suggestion"] = artifact["suggestion"]
    BY <1>2 DEF Checkpoints, EnsureWorkflow, FinishFinancial, FinishEligibility, FinishSuggestion,
       Guard, HandOff, AdvanceAndCheckpoint, Retrieve, Save, TypeOK, ArtifactNames
  <2>7. CASE w = 5
    <3>1. Advance(4, artifact["suggestion"]) /\ checked' = checked
      BY <1>2, <2>1, <2>7 DEF Checkpoints, EnsureWorkflow, FinishFinancial, FinishEligibility, Retrieve,
         FinishSuggestion, Guard, HandOff, AdvanceAndCheckpoint, history
    <3>2. artifact["suggestion"] = Eligible[policies]
      BY <2>1, <2>7 DEF HandoverInv
    <3>3. /\ workflow'.level >= 4
          /\ ~redeployed => workflow'.suggestion = Eligible[policies]
      BY <3>1, <3>2 DEF Advance, HandoverInv, TypeOK
    <3> QED
      BY <2>2, <2>4, <2>5, <2>6, <2>7, <3>1, <3>2, <3>3 DEF HandoverInv, TypeOK
  <2>8. CASE w = 6
    <3>1. workflow' = workflow /\ checked' = artifact["suggestion"]
      BY <1>2, <2>1, <2>8 DEF Checkpoints, EnsureWorkflow, FinishFinancial, FinishEligibility, Retrieve,
         FinishSuggestion, Guard, HandOff, AdvanceAndCheckpoint
    <3> QED
      BY <2>2, <2>4, <2>5, <2>6, <2>8, <3>1 DEF HandoverInv, TypeOK
  <2>9. CASE w \notin {5, 6}
    <3>1. checked' = checked
      BY <1>2, <2>1, <2>9 DEF Checkpoints, EnsureWorkflow, FinishFinancial, FinishEligibility, Retrieve,
         FinishSuggestion, Guard, HandOff, AdvanceAndCheckpoint, history
    <3>2. CASE w = 1
      <4>1. workflow' = [workflow EXCEPT !.level = IF @ = 0 THEN 1 ELSE @]
        BY <1>2, <2>1, <3>2 DEF Checkpoints, EnsureWorkflow, FinishFinancial, FinishEligibility,
           Retrieve, FinishSuggestion, Guard, HandOff, AdvanceAndCheckpoint
      <4>2. workflow'.level >= 4 => workflow.level >= 4 /\ workflow'.suggestion = workflow.suggestion
        BY <4>1 DEF TypeOK
      <4> QED
        BY <2>2, <2>4, <2>5, <2>6, <3>1, <3>2, <4>2 DEF HandoverInv, TypeOK
    <3>3. CASE w \in {2, 3}
      <4>1. Advance(w, artifact["suggestion"])
        BY <1>2, <2>1, <3>3 DEF Checkpoints, EnsureWorkflow, FinishFinancial, FinishEligibility,
           Retrieve, FinishSuggestion, Guard, HandOff, AdvanceAndCheckpoint
      <4>2. workflow'.level >= 4 => workflow.level >= 4 /\ workflow'.suggestion = workflow.suggestion
        BY <3>3, <4>1 DEF Advance, TypeOK
      <4> QED
        BY <2>2, <2>4, <2>5, <2>6, <3>1, <3>3, <4>2 DEF HandoverInv, TypeOK
    <3>4. CASE w = 4
      <4>1. workflow' = workflow
        BY <1>2, <2>1, <3>4 DEF Checkpoints, EnsureWorkflow, FinishFinancial, FinishEligibility,
           Retrieve, FinishSuggestion, Guard, HandOff, AdvanceAndCheckpoint
      <4> QED
        BY <2>2, <2>4, <2>5, <2>6, <3>1, <3>4, <4>1 DEF HandoverInv, TypeOK
    <3>5. CASE w = 7
      <4>1. Advance(5, artifact["suggestion"])
        BY <1>2, <2>1, <3>5 DEF Checkpoints, EnsureWorkflow, FinishFinancial, FinishEligibility,
           Retrieve, FinishSuggestion, Guard, HandOff, AdvanceAndCheckpoint
      <4>2. workflow'.suggestion = workflow.suggestion /\ workflow.level >= 4
        BY <2>2, <3>5, <4>1 DEF Advance, StoresInv, TypeOK
      <4> QED
        BY <2>2, <2>4, <2>5, <2>6, <3>1, <3>5, <4>2 DEF HandoverInv, TypeOK
    <3> QED
      BY <2>9, <3>2, <3>3, <3>4, <3>5
  <2> QED
    BY <2>7, <2>8, <2>9
<1>3. ASSUME NEW c \in Calls, Failures(c) PROVE HandoverInv'
  <2>1. PICK status : End(c, status)
    BY <1>3, FailureMoves
  <2>2. /\ Executing(c) /\ Position(c) /\ artifact' = artifact
        /\ policies' = policies /\ redeployed' = redeployed /\ checked' = checked
    BY <1>3, FailureMoves, StageList DEF Executing, ExecutionInv, history
  <2>3. /\ graph'.done = graph.done /\ \A d \in Calls : pc'[d] # "ai_suggested"
    BY <2>1, <2>2, OthersAreOut DEF End, Go, TypeOK, Midway
  <2>4. CASE workflow' = workflow
    BY <2>2, <2>3, <2>4 DEF HandoverInv
  <2>5. CASE workflow' # workflow /\ pc[c] # "ai_suggested"
    <3>1. \/ Advance(2, artifact["suggestion"]) \/ Advance(3, artifact["suggestion"])
          \/ Advance(5, artifact["suggestion"]) /\ graph.done = 6
      BY <1>3, <2>2, <2>5, FailureMoves DEF Position
    <3>2. graph.done = 6 => workflow.level >= 4
      BY DEF StoresInv
    <3>3. workflow'.level >= 4 => workflow.level >= 4 /\ workflow'.suggestion = workflow.suggestion
      BY <3>1, <3>2 DEF Advance, TypeOK
    <3> QED
      BY <2>2, <2>3, <3>3 DEF HandoverInv, TypeOK
  <2>6. CASE workflow' # workflow /\ pc[c] = "ai_suggested"
    <3>1. /\ workflow'.suggestion = Eligible[policies]
      BY <1>3, <2>6, FailureMoves DEF Advance, HandoverInv, TypeOK
    <3> QED
      BY <2>2, <2>3, <3>1 DEF HandoverInv
  <2> QED
    BY <2>4, <2>5, <2>6
<1>4. CASE \/ \E c \in Calls : Report(c) \/ FinishJob(c)
           \/ Start("start")
           \/ \E c \in Resumers \cup Cancellers : Acquire(c) \/ Control(c)
           \/ Restart \/ FlagStale \/ UNCHANGED vars
  <2>1. /\ artifact' = artifact /\ workflow' = workflow /\ checked' = checked
        /\ graph'.done = graph.done
        /\ \A d \in Calls : pc'[d] \in Midway => pc'[d] = pc[d]
        /\ Restart \/ (policies' = policies /\ redeployed' = redeployed)
    BY <1>4, QuietSteps
  <2>2. CASE policies' = policies /\ redeployed' = redeployed
    BY <2>1, <2>2 DEF HandoverInv, Midway
  <2>3. CASE Restart
    <3>1. /\ \A d \in Calls : pc'[d] # "ai_suggested"
          /\ redeployed' = (redeployed \/ (policies' # policies /\ workflow.level >= 4))
      BY <2>3 DEF Restart
    <3>2. graph.done >= 5 => workflow.level >= 4
      BY DEF StoresInv
    <3>3. graph.done >= 6 => graph.done >= 5
      BY DEF TypeOK
    <3> QED
      BY <2>1, <3>1, <3>2, <3>3 DEF HandoverInv
  <2> QED
    BY <2>1, <2>2, <2>3
<1>5. \A c \in Calls : Work(c) => HandoverInv' \/ Report(c) \/ FinishJob(c)
  BY <1>1, <1>2, <1>3, WorkKinds
<1> QED
  BY <1>4, <1>5 DEF Next

-----------------------------------------------------------------------------
(* What the job tells *)

LEMMA JobInitial == Init => JobInv
BY StageList DEF Init, JobInv, Reporting, Executing

LEMMA JobPreserved == TypeOK /\ ExecutionInv /\ JobInv /\ [Next]_vars => JobInv'
<1> SUFFICES ASSUME TypeOK, ExecutionInv, JobInv, [Next]_vars PROVE JobInv'
  OBVIOUS
<1>0. \A c \in Calls : Executing(c) => ~Reporting(c) /\ pc[c] \notin {"cancelling", "idle", "done"}
  BY StageList DEF Executing, Reporting
\* A call that executes goes on, or ends with a status that it reports.
<1>e. ASSUME NEW c \in Calls, Executing(c), NEW p, pc' = [pc EXCEPT ![c] = p],
             disturbed' = disturbed, job' = job, p \in StageNames, graph'.status = graph.status
      PROVE  JobInv'
  <2>1. /\ pc'[c] = p /\ Executing(c)' /\ graph'.status # "none"
        /\ \A d \in Calls : d # c => pc'[d] = pc[d]
    BY <1>0, <1>e DEF TypeOK, Executing, JobInv
  <2>2. ~disturbed => /\ graph.status = "running" /\ job # "completed"
                      /\ \A d \in Calls : ~Reporting(d)' /\ pc'[d] # "cancelling"
    BY <1>0, <1>e, <2>1, StageList DEF JobInv, Reporting
  <2> QED
    BY <1>e, <2>1, <2>2 DEF JobInv
<1>f. ASSUME NEW c \in Calls, Executing(c), pc' = [pc EXCEPT ![c] = "report"],
             disturbed' = disturbed, job' = job, NEW status, graph'.status = status,
             outcome' = [outcome EXCEPT ![c] = status],
             status \in Ended \/ (graph.status = "cancelled" /\ status = "cancelled")
      PROVE  JobInv'
  <2>1. /\ pc'[c] = "report" /\ Reporting(c)' /\ graph'.status # "none" /\ outcome'[c] = status
        /\ \A d \in Calls : d # c => pc'[d] = pc[d]
    BY <1>f DEF TypeOK, Reporting, Ended, Resumable
  <2>2. ASSUME ~disturbed
        PROVE  /\ status \in Ended /\ job # "completed"
               /\ \A d \in Calls : /\ d # c => ~Reporting(d)' /\ ~Executing(d)'
                                   /\ pc'[d] # "cancelling"
    <3>1. graph.status = "running" /\ job # "completed" /\ status \in Ended
      BY <1>f, <2>2 DEF JobInv
    <3>2. \A d \in Calls : d # c => ~Executing(d)
      BY <1>f DEF ExecutionInv, OneExecutes
    <3> QED
      BY <1>f, <2>1, <2>2, <3>1, <3>2 DEF JobInv, Reporting, Executing
  <2>3. ~Executing(c)'
    BY <2>1, StageList DEF Executing
  <2> QED
    BY <1>f, <2>1, <2>2, <2>3 DEF JobInv, Ended, Resumable
<1>1. ASSUME NEW c \in Calls, Writes(c) PROVE JobInv'
  <2>1. PICK p \in StageNames : pc' = [pc EXCEPT ![c] = p]
    BY <1>1, WriteMoves, StageList DEF TypeOK
  <2>2. Executing(c) /\ graph' = graph /\ disturbed' = disturbed /\ job' = job
    BY <1>1, WriteMoves, StageList DEF Executing
  <2> QED
    BY <2>1, <2>2, <1>e
<1>2. ASSUME NEW c \in Calls, Checkpoints(c) PROVE JobInv'
  <2>0. PICK w \in 1..7 : \E e : Checkpoint(c, w, e)
    BY <1>2, CheckpointWorker
  <2>1. PICK e : Checkpoint(c, w, e)
    BY <2>0
  <2>2. Executing(c) /\ disturbed' = disturbed /\ job' = job
    BY <1>2, CheckpointWorker, StageList DEF Executing
  <2>3. CASE /\ graph.status = "cancelled" /\ graph' = graph
             /\ outcome' = [outcome EXCEPT ![c] = "cancelled"]
             /\ pc' = [pc EXCEPT ![c] = "report"]
    BY <2>2, <2>3, <1>f
  <2>4. CASE /\ w < 7 /\ graph' = [status |-> "running", done |-> w, eligibility |-> e]
             /\ pc' = [pc EXCEPT ![c] = FirstStage(w + 1)]
    <3>1. FirstStage(w + 1) \in StageNames
      BY <2>4, StageList
    <3>2. CASE graph.status = "running"
      BY <2>2, <2>4, <3>1, <3>2, <1>e
    <3>3. CASE graph.status # "running"
      <4>1. disturbed /\ disturbed' /\ graph'.status = "running"
        BY <2>2, <2>4, <3>3 DEF JobInv
      <4> QED
        BY <4>1 DEF JobInv
    <3> QED
      BY <3>2, <3>3
  <2>5. CASE /\ graph' = [status |-> "waiting_for_review", done |-> w, eligibility |-> e]
             /\ outcome' = [outcome EXCEPT ![c] = "waiting_for_review"]
             /\ pc' = [pc EXCEPT ![c] = "report"]
    <3>1. graph'.status = "waiting_for_review" /\ "waiting_for_review" \in Ended
      BY <2>5 DEF Ended
    <3> QED
      BY <2>2, <2>5, <3>1, <1>f
  <2> QED
    BY <2>1, <2>3, <2>4, <2>5, CheckpointMoves
<1>3. ASSUME NEW c \in Calls, Failures(c) PROVE JobInv'
  <2>1. PICK status \in {"failed_retryable", "failed_terminal", "needs_attention"} : End(c, status)
    BY <1>3, FailureMoves
  <2>2. Executing(c) /\ disturbed' = disturbed /\ job' = job
    BY <1>3, FailureMoves, StageList DEF Executing
  <2>3. /\ pc' = [pc EXCEPT ![c] = "report"] /\ graph'.status = status /\ status \in Ended
        /\ outcome' = [outcome EXCEPT ![c] = status]
    BY <2>1 DEF End, Go, TypeOK, Ended, Resumable
  <2> QED
    BY <2>2, <2>3, <1>f
<1>4. ASSUME NEW c \in Calls, Report(c) PROVE JobInv'
  <2>1. /\ pc[c] = "report" /\ pc'[c] = "finish" /\ \A d \in Calls : d # c => pc'[d] = pc[d]
        /\ UNCHANGED <<graph, job, disturbed, outcome>>
    BY <1>4 DEF Report, Go, stores, TypeOK
  <2>2. \A d \in Calls : /\ Reporting(d)' <=> Reporting(d)
                         /\ Executing(d)' <=> Executing(d)
                         /\ (pc'[d] = "cancelling") <=> (pc[d] = "cancelling")
    BY <2>1, StageList DEF Reporting, Executing
  <2>3. graph.status # "none"
    BY <2>1 DEF JobInv
  <2> QED
    BY <2>1, <2>2, <2>3 DEF JobInv
<1>5. ASSUME NEW c \in Calls, FinishJob(c) PROVE JobInv'
  <2>1. /\ pc[c] = "finish" /\ pc'[c] = "done" /\ \A d \in Calls : d # c => pc'[d] = pc[d]
        /\ UNCHANGED <<graph, disturbed, outcome>> /\ job' = JobOf(outcome[c])
    BY <1>5 DEF FinishJob, Release, Go, TypeOK
  <2>2. \A d \in Calls : /\ Reporting(d)' => Reporting(d)
                         /\ Executing(d)' <=> Executing(d)
                         /\ (pc'[d] = "cancelling") <=> (pc[d] = "cancelling")
    BY <2>1, StageList DEF Reporting, Executing
  <2>3. graph.status # "none" /\ Reporting(c)
    BY <2>1 DEF JobInv, Reporting
  <2>4. ~disturbed => /\ graph.status \in Ended /\ job' = JobOf(graph.status)
    BY <2>1, <2>3 DEF JobInv
  <2>5. ~disturbed => /\ job' = "completed" <=> graph.status = "waiting_for_review"
                      /\ graph.status = "failed_terminal" => job' = "failed"
                      /\ graph.status # "cancelled"
    BY <2>4 DEF JobOf, Ended, Resumable
  <2> QED
    BY <2>1, <2>2, <2>3, <2>5 DEF JobInv
<1>6. CASE Start("start")
  <2>1. /\ "start" \in Calls /\ pc'["start"] = "ingest" /\ \A d \in Calls : d # "start" => pc'[d] = pc[d]
        /\ graph.status = "none" /\ graph'.status = "running" /\ job' = "running"
    BY <1>6, StageList DEF Start, Go, Calls, TypeOK
  <2>2. \A d \in Calls : ~Reporting(d)' /\ pc'[d] # "cancelling"
    BY <2>1 DEF JobInv, Reporting
  <2> QED
    BY <2>1, <2>2 DEF JobInv
<1>7. ASSUME NEW c \in Resumers \cup Cancellers,
             Acquire(c) \/ NothingToDo(c) \/ BeginResume(c) \/ BeginCancel(c)
      PROVE  JobInv'
  <2>0. c \in Calls
    BY DEF Calls
  <2>1. /\ pc[c] \in {"idle", "locked"} /\ pc'[c] \in {"locked", "done", "resuming", "marking"}
        /\ \A d \in Calls : d # c => pc'[d] = pc[d]
        /\ UNCHANGED <<graph, job, disturbed, outcome>>
    BY <1>7, <2>0 DEF Acquire, NothingToDo, BeginResume, BeginCancel, Release, Go, stores, TypeOK
  <2>2. \A d \in Calls : /\ Reporting(d)' <=> Reporting(d)
                         /\ Executing(d)' <=> Executing(d)
                         /\ (pc'[d] = "cancelling") <=> (pc[d] = "cancelling")
    BY <2>1, StageList DEF Reporting, Executing
  <2>3. graph.status = "none" => pc'[c] = "done"
    BY <1>7, <2>0, <2>1 DEF Acquire, NothingToDo, BeginResume, BeginCancel, JobInv
  <2> QED
    BY <2>1, <2>2, <2>3 DEF JobInv
<1>8. ASSUME NEW c \in Resumers \cup Cancellers, Resume(c) PROVE JobInv'
  <2>1. /\ c \in Calls /\ pc[c] = "resuming" /\ job' = job
        /\ pc' = [pc EXCEPT ![c] = FirstStage(graph.done + 1)] /\ graph'.status = "running"
        /\ disturbed' = (disturbed \/ Unfinished(c))
    BY <1>8 DEF Resume, Go, Calls, TypeOK
  <2>2. graph.status \in Resumable /\ graph.done + 1 \in 1..7 /\ lock = c
    BY <2>1 DEF ExecutionInv, TypeOK, Resumable
  <2>3. FirstStage(graph.done + 1) \in StageNames
    BY <2>2, StageList
  <2>4. \A d \in Calls : pc[d] # "cancelling"
    BY <2>1, <2>2 DEF ExecutionInv
  <2>5. \A d \in Calls : pc'[d] = IF d = c THEN FirstStage(graph.done + 1) ELSE pc[d]
    BY <2>1 DEF TypeOK
  <2>6. ~disturbed' => \A d \in Calls : ~Reporting(d)' /\ pc'[d] # "cancelling"
    BY <2>1, <2>3, <2>4, <2>5, StageList DEF Unfinished, Reporting
  <2>7. ~disturbed' => ~disturbed /\ job # "completed"
    BY <2>1, <2>2, <2>4 DEF JobInv, Resumable
  <2> QED
    BY <2>1, <2>6, <2>7 DEF JobInv
<1>9. ASSUME NEW c \in Resumers \cup Cancellers, MarkCancelled(c) PROVE JobInv'
  <2>1. /\ c \in Calls /\ pc[c] = "marking" /\ pc'[c] = "cancelling" /\ job' = job
        /\ graph'.status = "cancelled" /\ disturbed' = (disturbed \/ Unfinished(c))
        /\ \A d \in Calls : d # c => pc'[d] = pc[d]
    BY <1>9 DEF MarkCancelled, Go, Calls, TypeOK
  <2>2. ~disturbed' => \A d \in Calls : ~Reporting(d)' /\ ~Executing(d)'
    BY <2>1, StageList DEF Unfinished, Reporting, Executing
  <2> QED
    BY <2>1, <2>2 DEF JobInv
<1>10. ASSUME NEW c \in Resumers \cup Cancellers, FinishCancel(c) PROVE JobInv'
  <2>1. /\ c \in Calls /\ pc[c] = "cancelling" /\ pc'[c] = "done" /\ job' = "cancelled"
        /\ graph' = graph /\ disturbed' = disturbed /\ outcome' = outcome
        /\ \A d \in Calls : d # c => pc'[d] = pc[d]
    BY <1>10 DEF FinishCancel, Release, Go, Calls, TypeOK
  <2>2. \A d \in Calls : /\ Reporting(d)' <=> Reporting(d)
                         /\ Executing(d)' <=> Executing(d)
                         /\ (pc'[d] = "cancelling") => (pc[d] = "cancelling")
    BY <2>1, StageList DEF Reporting, Executing
  <2>3. graph.status # "none" /\ (~disturbed => graph.status = "cancelled")
    BY <2>1 DEF JobInv
  <2> QED
    BY <2>1, <2>2, <2>3 DEF JobInv, Ended, Resumable
<1>11. CASE Restart
  <2>1. /\ graph' = graph /\ job' = job /\ outcome' = outcome
        /\ \A c \in Calls : pc'[c] \in {"idle", "done"}
        /\ disturbed' = (disturbed \/ \E c \in Calls : pc[c] \in {"report", "finish", "cancelling"})
    BY <1>11 DEF Restart, stores
  <2>2. \A c \in Calls : ~Reporting(c)' /\ ~Executing(c)' /\ pc'[c] # "cancelling"
    BY <2>1, StageList DEF Reporting, Executing
  <2> QED
    BY <2>1, <2>2 DEF JobInv, Reporting
<1>12. CASE FlagStale
  <2>1. /\ graph.status = "running" /\ graph'.status = "needs_attention" /\ pc' = pc /\ job' = job
        /\ disturbed' = disturbed /\ \A c \in Calls : pc[c] \in {"idle", "done"}
    BY <1>12 DEF FlagStale, TypeOK
  <2>2. \A c \in Calls : ~Reporting(c)' /\ ~Executing(c)' /\ pc'[c] # "cancelling"
    BY <2>1, StageList DEF Reporting, Executing
  <2> QED
    BY <2>1, <2>2 DEF JobInv
<1>13. CASE UNCHANGED vars
  BY <1>13 DEF vars, stores, JobInv, Reporting, Executing
<1>14. \A c \in Calls : Work(c) => JobInv'
  BY <1>1, <1>2, <1>3, <1>4, <1>5, WorkKinds
<1>15. \A c \in Resumers \cup Cancellers : Acquire(c) \/ Control(c) => JobInv'
  BY <1>7, <1>8, <1>9, <1>10 DEF Control
<1> QED
  BY <1>6, <1>11, <1>12, <1>13, <1>14, <1>15 DEF Next

-----------------------------------------------------------------------------
LEMMA AgentInitial == Init => AgentInv
<1>1. Init => AnswersInv
  BY ArtifactAssumption DEF Init, AnswersInv, ArtifactNames
<1> QED
  BY <1>1, TypeInitial, ExecutionInitial, JobInitial, StoresInitial, HandoverInitial DEF AgentInv

THEOREM AgentInvariant == Spec => []AgentInv
<1>1. AgentInv /\ [Next]_vars => AgentInv'
  BY TypePreserved, ExecutionPreserved, JobPreserved, StoresPreserved, AnswersPreserved, HandoverPreserved
     DEF AgentInv
<1> QED
  BY AgentInitial, <1>1, PTL DEF Spec

\* The variables keep their types (staging_agent_impl/runtime.py and workers.py).
THEOREM TypeCorrect == Spec => []TypeOK
<1>1. AgentInv => TypeOK
  BY DEF AgentInv
<1> QED
  BY <1>1, AgentInvariant, PTL

\* At most one call executes the application's workers at a time, although start
\* takes no lock (AgentIntakeRuntime.start): no worker meets another attempt of
\* itself between looking for an artifact and saving it.
THEOREM OneExecutionAtATime == Spec => []OneExecutes
<1>1. AgentInv => OneExecutes
  BY DEF AgentInv, ExecutionInv
<1> QED
  BY <1>1, AgentInvariant, PTL

\* What was answered and saved is never asked for again, for any number of
\* resumptions and restarts (DocumentProcessingWorker.run and
\* FinancialMetricExtractionWorker.run).
THEOREM NothingIsAskedTwice == Spec => []SubstepsAreNotRepeated
<1>1. AgentInv => SubstepsAreNotRepeated
  <2> SUFFICES ASSUME AgentInv, NEW n \in DOMAIN answered PROVE answered[n] <= 1
    BY DEF SubstepsAreNotRepeated
  <2>1. answered[n] = 0 \/ answered[n] = 1
    BY DEF AgentInv, AnswersInv
  <2> QED
    BY <2>1
<1> QED
  BY <1>1, AgentInvariant, PTL

\* The workspace is never behind the checkpoint, nor behind what the workflow record
\* claims (ApplicationWorkspace.save, _advance).
THEOREM StoresStayOrdered == Spec => []StoresAreOrdered
<1>1. AgentInv => StoresAreOrdered
  BY DEF AgentInv, StoresInv
<1> QED
  BY <1>1, AgentInvariant, PTL

\* A human decides on the suggestion the guardrails accepted, unless the policies
\* changed after it was stored (GuardrailWorker.run, HumanReviewHandoffWorker.run).
THEOREM HandedOverWasChecked == Spec => []HandedOverIsChecked
<1>1. ASSUME AgentInv, workflow.level >= AwaitingHuman, ~redeployed
      PROVE  workflow.suggestion = checked
  <2>1. workflow.level >= AiSuggested /\ graph.done >= 6
    BY <1>1 DEF AgentInv, StoresInv, StoresAreOrdered, AiSuggested, AwaitingHuman, TypeOK
  <2> QED
    BY <1>1, <2>1 DEF AgentInv, HandoverInv
<1>2. AgentInv => HandedOverIsChecked
  BY <1>1 DEF HandedOverIsChecked
<1> QED
  BY <1>2, AgentInvariant, PTL

\* With no call under way the job tells how its execution ended, unless calls met
\* each other's unfinished work or the process stopped within it
\* (AgentIntakeRuntime._execute, resume and cancel).
THEOREM JobToldTheOutcome == Spec => []JobTellsOutcome
<1>1. AgentInv => JobTellsOutcome
  BY DEF AgentInv, JobInv, JobTellsOutcome, Reporting
<1> QED
  BY <1>1, AgentInvariant, PTL
=============================================================================
