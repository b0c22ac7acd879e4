--------------------------- MODULE GpuLeaseProofs ---------------------------
(* Theorems about GpuLease, for any number of threads, documents and pages.   *)
EXTENDS GpuLease, TLAPS

\* Only t's task changes.
Frame(t) == \A s \in Threads : s # t => task'[s] = task[s]

\* Who holds which lock, at every place of a task.
LockInv ==
  \A t \in Threads :
    /\ task[t].pc \in InLease => runtimeLock.owner = t
    /\ runtimeLock.owner = t =>
         task[t].pc \in InLease \/ (t \in Queries /\ task[t].pc = "runtime_lock")
    /\ task[t].pc = "runtime_lock" /\ t \in Queries =>
         runtimeLock = [owner |-> t, depth |-> 1]
    /\ task[t].pc \in InLease /\ t \in Queries /\ task[t].pc # "reasoning" =>
         runtimeLock.depth = 2
    /\ t \in Batches /\ task[t].pc \notin {"idle", "service_lock"} => serviceLock = t

\* vLLM's state at the places where it matters to a thread that is awake.
AwakeInv == GenerationWhileAwake /\ AwakeUnlessFailed

\* When vision must not fail silently: vLLM sleeps wherever models work, and
\* models are only loaded by a task that is yet to release them.
SleepInv ==
  /\ WorkWhileAsleep
  /\ \A t \in Threads :
       task[t].pc = "releasing" /\ (t \in Queries \/ task[t].error = "none") =>
         vllm = "asleep"
  /\ "ingestion" \in models => \E b \in Batches : task[b].pc \in Body
  /\ "retrieval" \in models => \E q \in Queries : task[q].pc = "releasing"

-----------------------------------------------------------------------------
\* What each way of writing a task does to it.
LEMMA GotoMoves ==
  ASSUME TypeOK, NEW t \in Threads, NEW pc \in PCs, Goto(t, pc)
  PROVE  /\ task' \in [Threads -> Tasks] /\ Frame(t)
         /\ task'[t].pc = pc /\ task'[t].error = task[t].error
BY DEF TypeOK, Goto, Frame, Tasks

LEMMA FailMoves ==
  ASSUME TypeOK, NEW t \in Threads, NEW pc \in PCs, NEW kind \in Errors, Fail(t, pc, kind)
  PROVE  /\ task' \in [Threads -> Tasks] /\ Frame(t)
         /\ task'[t].pc = pc /\ task'[t].error = kind
BY DEF TypeOK, Fail, Frame, Tasks

LEMMA ExitMoves ==
  ASSUME TypeOK, NEW t \in Threads, Exit(t)
  PROVE  /\ task' \in [Threads -> Tasks] /\ Frame(t) /\ task'[t].pc = "idle"
         /\ runtimeLock' = Unlocked /\ runtimeLock' \in [owner : Threads \cup {None}, depth : 0..2]
         /\ serviceLock' = ServiceLockAfter(t) /\ serviceLock' \in Batches \cup {None}
BY SizeAssumption
   DEF TypeOK, Exit, Frame, Tasks, Idle, PCs, Errors, Unlocked, ServiceLockAfter

LEMMA PageMoves ==
  ASSUME TypeOK, NEW t \in Threads, PageDone(t)
  PROVE  /\ task' \in [Threads -> Tasks] /\ Frame(t)
         /\ task'[t].pc \in {"parsing", "embedding"} /\ task'[t].error = "none"
<1>1. CASE AtLastPage(t)
  BY <1>1, FailMoves DEF PageDone, PCs, InLease, Body, Errors
<1>2. CASE ~AtLastPage(t)
  <2>1. task[t].page + 1 \in 1..Pages
    BY <1>2, SizeAssumption DEF AtLastPage, TypeOK, Tasks
  <2>2. task' = [task EXCEPT ![t].pc = "parsing", ![t].page = task[t].page + 1,
                             ![t].error = "none"]
    BY <1>2 DEF PageDone
  <2> QED BY <2>1, <2>2 DEF TypeOK, Frame, Tasks, PCs, InLease, Body, Errors
<1> QED BY <1>1, <1>2

LEMMA VisionMoves ==
  ASSUME TypeOK, NEW t \in Threads, NEW kind \in Errors, VisionError(t, kind)
  PROVE  /\ task' \in [Threads -> Tasks] /\ Frame(t)
         /\ task'[t].pc \in {"parsing", "embedding", "releasing"}
         /\ FailOnVision => task'[t].pc = "releasing" /\ task'[t].error = kind
BY PageMoves, FailMoves, ConfigAssumption DEF VisionError, PCs, InLease, Body

\* The three ways a task may change inside the body of a batch, where the
\* locks stay as they are.
LEMMA BodyMoves ==
  ASSUME TypeOK, NEW b \in Batches, BatchStep(b), ~TakeServiceLock(b)
  PROVE  /\ task' \in [Threads -> Tasks] /\ Frame(b)
         /\ task[b].pc \in Body /\ task'[b].pc \in Body
         /\ UNCHANGED <<serviceLock, runtimeLock, trouble>>
<1> USE DEF Threads
<1>1. CASE ParsePage(b) \/ ParseFails(b) \/ NeedVision(b)
  BY <1>1, PageMoves, FailMoves, GotoMoves
     DEF ParsePage, ParseFails, NeedVision, Body, PCs, InLease, Errors
<1>2. CASE FallbackWake(b) \/ FallbackWakeFails(b)
  <2>1. CASE FallbackWake(b)
    BY <2>1, GotoMoves DEF FallbackWake, Body, PCs, InLease
  <2>2. CASE FallbackWakeFails(b)
    BY <2>2, VisionMoves DEF FallbackWakeFails, Body, Errors
  <2> QED BY <1>2, <2>1, <2>2
<1>3. CASE GenerateVision(b)
  <2>1. PICK kind \in Errors : Fail(b, "resleeping", kind)
    BY <1>3 DEF GenerateVision, Errors
  <2> QED BY <1>3, <2>1, FailMoves DEF GenerateVision, Body, PCs, InLease
<1>4. CASE Resleep(b) \/ ResleepFails(b)
  <2>1. task[b].error \in Errors
    BY DEF TypeOK, Tasks
  <2>2. CASE Resleep(b)
    BY <2>1, <2>2, PageMoves, VisionMoves DEF Resleep, Body
  <2>3. CASE ResleepFails(b)
    BY <2>3, VisionMoves DEF ResleepFails, Body, Errors
  <2> QED BY <1>4, <2>2, <2>3
<1>5. CASE Embed(b)
  <2>1. CASE task[b].doc = Documents
    BY <1>5, <2>1, GotoMoves DEF Embed, PCs, InLease, Body
  <2>2. CASE task[b].doc # Documents
    <3>1. task[b].doc + 1 \in 1..Documents /\ 1 \in 1..Pages
      BY <2>2, SizeAssumption DEF TypeOK, Tasks
    <3>2. task' = [task EXCEPT ![b].pc = "parsing", ![b].doc = task[b].doc + 1,
                               ![b].page = 1]
      BY <1>5, <2>2 DEF Embed
    <3> QED BY <1>5, <3>1, <3>2 DEF Embed, TypeOK, Tasks, Frame, PCs, InLease, Body
  <2> QED BY <2>1, <2>2
<1>6. CASE EmbedFails(b)
  BY <1>6, FailMoves DEF EmbedFails, Body, PCs, InLease, Errors
<1> QED BY <1>1, <1>2, <1>3, <1>4, <1>5, <1>6 DEF BatchStep

\* Entering and leaving, seen the same way.
LEMMA LeaseMoves ==
  ASSUME TypeOK, NEW t \in Threads, LeaseStep(t), ~TakeRuntimeLock(t)
  PROVE  /\ task' \in [Threads -> Tasks] /\ Frame(t)
         /\ task[t].pc \in InLease
         /\ \/ /\ task'[t].pc \in InLease \ {"reasoning"} /\ task[t].pc # "reasoning"
               /\ UNCHANGED <<serviceLock, runtimeLock>>
            \/ /\ t \in Queries /\ task[t].pc = "restoring" /\ task'[t].pc = "reasoning"
               /\ runtimeLock' = LockAfterInner
               /\ UNCHANGED serviceLock
            \/ Exit(t)
<1>1. CASE Sleep(t)
  BY <1>1, GotoMoves DEF Sleep, PCs, InLease, Body
<1>2. CASE SleepFails(t)
  BY <1>2, ExitMoves DEF SleepFails, InLease
<1>3. CASE ReleaseModels(t)
  BY <1>3, GotoMoves DEF ReleaseModels, PCs, InLease, Body
<1>4. CASE Restore(t)
  BY <1>4, GotoMoves, ExitMoves DEF Restore, PCs, InLease
<1>5. CASE RestoreFails(t)
  BY <1>5, ExitMoves DEF RestoreFails, InLease
<1> QED BY <1>1, <1>2, <1>3, <1>4, <1>5 DEF LeaseStep

-----------------------------------------------------------------------------
LEMMA InitTypes == Init => TypeOK
BY SizeAssumption
   DEF Init, TypeOK, Idle, Unlocked, Tasks, PCs, InLease, Body, Errors

LEMMA NextTypes == TypeOK /\ LockInv /\ [Next]_vars => TypeOK'
<1> SUFFICES ASSUME TypeOK, LockInv, [Next]_vars PROVE TypeOK'
  OBVIOUS
<1> USE DEF Threads
<1>1. CASE UNCHANGED vars
  BY <1>1 DEF vars, TypeOK
<1>2. ASSUME NEW b \in Batches, SubmitBatch(b) \/ TakeServiceLock(b) PROVE TypeOK'
  <2>1. CASE SubmitBatch(b)
    BY <2>1, GotoMoves DEF SubmitBatch, PCs, TypeOK
  <2>2. CASE TakeServiceLock(b)
    BY <2>2, GotoMoves DEF TakeServiceLock, PCs, TypeOK
  <2> QED BY <1>2, <2>1, <2>2
<1>3. ASSUME NEW b \in Batches, BatchStep(b), ~TakeServiceLock(b) PROVE TypeOK'
  <2>1. task' \in [Threads -> Tasks] /\ UNCHANGED <<serviceLock, runtimeLock, trouble>>
    BY <1>3, BodyMoves
  <2>2. vllm' \in {"awake", "asleep"} /\ models' \in SUBSET {"ingestion", "retrieval"}
    BY <1>3 DEF BatchStep, ParsePage, ParseFails, NeedVision, FallbackWake,
       FallbackWakeFails, GenerateVision, Resleep, ResleepFails, Embed, EmbedFails,
       AfterWake, AfterSleep, TypeOK
  <2> QED BY <2>1, <2>2 DEF TypeOK
<1>4. ASSUME NEW q \in Queries, SubmitQuery(q) \/ QueryStep(q) PROVE TypeOK'
  <2>1. CASE SubmitQuery(q)
    BY <2>1, GotoMoves DEF SubmitQuery, PCs, TypeOK
  <2>2. CASE BeginOperation(q)
    BY <2>2, GotoMoves DEF BeginOperation, PCs, TypeOK
  <2>3. CASE Retrieve(q)
    BY <2>3, FailMoves DEF Retrieve, PCs, InLease, Body, Errors, TypeOK
  <2>4. CASE Reason(q)
    BY <2>4, ExitMoves DEF Reason, TypeOK
  <2> QED BY <1>4, <2>1, <2>2, <2>3, <2>4 DEF QueryStep
<1>5. ASSUME NEW t \in Threads, TakeRuntimeLock(t) PROVE TypeOK'
  <2>1. runtimeLock' \in [owner : Threads \cup {None}, depth : 0..2]
    <3>1. CASE runtimeLock.owner = t /\ runtimeLock' = [runtimeLock EXCEPT !.depth = @ + 1]
      <4>1. runtimeLock = [owner |-> t, depth |-> 1]
        BY <1>5, <3>1 DEF TakeRuntimeLock, LockInv, InLease, Body
      <4> QED BY <3>1, <4>1
    <3>2. CASE runtimeLock' = [owner |-> t, depth |-> 1]
      BY <3>2
    <3> QED BY <1>5, <3>1, <3>2 DEF TakeRuntimeLock
  <2> QED BY <1>5, <2>1, GotoMoves DEF TakeRuntimeLock, PCs, InLease, TypeOK
<1>6. ASSUME NEW t \in Threads, LeaseStep(t), ~TakeRuntimeLock(t) PROVE TypeOK'
  <2>1. task' \in [Threads -> Tasks]
    BY <1>6, LeaseMoves
  <2>2. runtimeLock' \in [owner : Threads \cup {None}, depth : 0..2]
    <3>1. CASE UNCHANGED runtimeLock
      BY <3>1 DEF TypeOK
    <3>2. CASE t \in Queries /\ task[t].pc = "restoring" /\ runtimeLock' = LockAfterInner
      BY <3>2 DEF LockAfterInner, LockInv, InLease, TypeOK
    <3>3. CASE Exit(t)
      BY <3>3, ExitMoves
    <3> QED BY <1>6, <3>1, <3>2, <3>3, LeaseMoves
  <2>3. serviceLock' \in Batches \cup {None}
    BY <1>6, LeaseMoves, ExitMoves DEF TypeOK
  <2>4. /\ vllm' \in {"awake", "asleep"}
        /\ models' \in SUBSET {"ingestion", "retrieval"}
        /\ trouble' \in {"none", "sleep", "wake"}
    BY <1>6 DEF LeaseStep, Sleep, SleepFails, ReleaseModels, Restore, RestoreFails,
       AfterWake, AfterSleep, ModelsAfterRelease, Service, TypeOK
  <2> QED BY <2>1, <2>2, <2>3, <2>4 DEF TypeOK
<1> QED BY <1>1, <1>2, <1>3, <1>4, <1>5, <1>6 DEF Next

LEMMA InitLocks == Init => LockInv
BY ThreadAssumption DEF Init, LockInv, Idle, Unlocked, Threads, InLease, Body

LEMMA NextLocks == TypeOK /\ LockInv /\ [Next]_vars => LockInv'
<1> SUFFICES ASSUME TypeOK, LockInv, [Next]_vars PROVE LockInv'
  OBVIOUS
<1> USE ThreadAssumption DEF Threads
<1>1. CASE UNCHANGED vars
  BY <1>1 DEF vars, LockInv
<1>2. ASSUME NEW b \in Batches, SubmitBatch(b) PROVE LockInv'
  BY <1>2, GotoMoves DEF SubmitBatch, PCs, InLease, Body, Frame, LockInv
<1>3. ASSUME NEW b \in Batches, TakeServiceLock(b) PROVE LockInv'
  <2>1. \A s \in Batches : task[s].pc \in {"idle", "service_lock"}
    BY <1>3 DEF TakeServiceLock, LockInv
  <2>2. Frame(b) /\ task'[b].pc = "runtime_lock"
    BY <1>3, GotoMoves DEF TakeServiceLock, PCs
  <2>3. runtimeLock.owner # b
    BY <1>3 DEF TakeServiceLock, LockInv, InLease, Body
  <2> QED BY <1>3, <2>1, <2>2, <2>3 DEF TakeServiceLock, Frame, LockInv, InLease, Body
<1>4. ASSUME NEW b \in Batches, BatchStep(b), ~TakeServiceLock(b) PROVE LockInv'
  BY <1>4, BodyMoves DEF Frame, LockInv, InLease, Body
<1>5. ASSUME NEW q \in Queries, SubmitQuery(q) PROVE LockInv'
  BY <1>5, GotoMoves DEF SubmitQuery, PCs, InLease, Body, Frame, LockInv
<1>6. ASSUME NEW q \in Queries, BeginOperation(q) PROVE LockInv'
  <2>1. Frame(q) /\ task'[q].pc = "runtime_lock"
    BY <1>6, GotoMoves DEF BeginOperation, PCs
  <2> QED BY <1>6, <2>1
          DEF BeginOperation, MayTake, Unlocked, Frame, LockInv, InLease, Body
<1>7. ASSUME NEW q \in Queries, Retrieve(q) PROVE LockInv'
  <2>1. Frame(q) /\ task'[q].pc = "releasing"
    BY <1>7, FailMoves DEF Retrieve, PCs, InLease, Body, Errors
  <2> QED BY <1>7, <2>1 DEF Retrieve, Frame, LockInv, InLease, Body
<1>8. ASSUME NEW t \in Threads, TakeRuntimeLock(t) PROVE LockInv'
  <2>1. Frame(t) /\ task'[t].pc = "sleeping"
    BY <1>8, GotoMoves DEF TakeRuntimeLock, PCs, InLease
  <2> QED BY <1>8, <2>1 DEF TakeRuntimeLock, MayTake, Unlocked, Frame, LockInv, InLease,
          Body, TypeOK
<1>9. ASSUME NEW t \in Threads, task[t].pc \in InLease, Exit(t) PROVE LockInv'
  <2>1. Frame(t) /\ task'[t].pc = "idle"
    BY <1>9, ExitMoves
  <2>2. runtimeLock' = Unlocked /\ serviceLock' = ServiceLockAfter(t)
    BY <1>9, ExitMoves
  <2> QED BY <1>9, <2>1, <2>2
          DEF ServiceLockAfter, Unlocked, Frame, LockInv, InLease, Body
<1>10. ASSUME NEW t \in Threads, LeaseStep(t), ~TakeRuntimeLock(t), ~Exit(t)
       PROVE  LockInv'
  BY <1>10, LeaseMoves DEF LockAfterInner, Frame, LockInv, InLease, Body, TypeOK
<1> QED
  BY <1>1, <1>2, <1>3, <1>4, <1>5, <1>6, <1>7, <1>8, <1>9, <1>10, LeaseMoves
     DEF Next, QueryStep, Reason, InLease

\* Types and locks are invariant together (gpu_lease.py, ingestion.py).
LEMMA LocksInvariant == Spec => [](TypeOK /\ LockInv)
BY InitTypes, NextTypes, InitLocks, NextLocks, PTL DEF Spec

\* The variables keep their types, the re-entrant lock's depth included.
THEOREM TypeCorrect == Spec => []TypeOK
BY LocksInvariant, PTL

\* At most one operation is inside the lease, whatever fails: the with-blocks
\* of gpu_lease.py nest and unwind as intended.
THEOREM MutualExclusion == Spec => []OneInLease
<1>1. LockInv => OneInLease
  BY DEF LockInv, OneInLease
<1> QED BY <1>1, LocksInvariant, PTL

-----------------------------------------------------------------------------
\* A step of a task in the lease is a step while every other task is outside.
LEMMA AloneInLease ==
  ASSUME LockInv, NEW t \in Threads, task[t].pc \in InLease
  PROVE  /\ runtimeLock.owner = t /\ t # None
         /\ \A s \in Threads : s # t => task[s].pc \notin InLease
BY ThreadAssumption DEF LockInv

LEMMA InitAwake == Init => AwakeInv
BY DEF Init, AwakeInv, GenerationWhileAwake, AwakeUnlessFailed, Generating, Idle

\* No step breaks generation's claim on an awake vLLM.
LEMMA NextAwake == TypeOK /\ LockInv /\ AwakeInv /\ [Next]_vars => AwakeInv'
<1> SUFFICES ASSUME TypeOK, LockInv, AwakeInv, [Next]_vars PROVE AwakeInv'
  OBVIOUS
<1> USE DEF Threads, AwakeInv, GenerationWhileAwake, AwakeUnlessFailed, Generating
<1>1. CASE UNCHANGED vars
  BY <1>1 DEF vars
<1>2. ASSUME NEW b \in Batches, SubmitBatch(b) \/ TakeServiceLock(b) PROVE AwakeInv'
  BY <1>2, GotoMoves DEF SubmitBatch, TakeServiceLock, PCs, Frame
<1>3. ASSUME NEW b \in Batches, BatchStep(b), ~TakeServiceLock(b) PROVE AwakeInv'
  <2>1. /\ runtimeLock.owner = b /\ b # None
        /\ \A s \in Threads : s # b => task[s].pc \notin InLease
    BY <1>3, BodyMoves, AloneInLease DEF InLease
  <2>2. Frame(b) /\ UNCHANGED <<runtimeLock, trouble>>
    BY <1>3, BodyMoves
  <2>3. task'[b].pc \in {"vision", "reasoning"} => vllm' = "awake"
    <3>1. CASE ParsePage(b) \/ ParseFails(b) \/ NeedVision(b)
      BY <3>1, PageMoves, FailMoves, GotoMoves
         DEF ParsePage, ParseFails, NeedVision, PCs, InLease, Body, Errors
    <3>2. CASE FallbackWake(b)
      BY <3>2 DEF FallbackWake, AfterWake
    <3>3. CASE FallbackWakeFails(b) \/ ResleepFails(b)
      BY <3>3, VisionMoves DEF FallbackWakeFails, ResleepFails, Errors
    <3>4. CASE GenerateVision(b)
      <4>1. PICK kind \in Errors : Fail(b, "resleeping", kind)
        BY <3>4 DEF GenerateVision, Errors
      <4> QED BY <4>1, FailMoves DEF PCs, InLease, Body
    <3>5. CASE Resleep(b)
      <4>1. task[b].error \in Errors
        BY DEF TypeOK, Tasks
      <4> QED BY <3>5, <4>1, PageMoves, VisionMoves DEF Resleep
    <3>6. CASE Embed(b) \/ EmbedFails(b)
      <4>1. task'[b].pc \in {"releasing", "parsing"}
        BY <3>6 DEF Embed, EmbedFails, Goto, Fail, TypeOK, Tasks
      <4> QED BY <4>1
    <3> QED BY <1>3, <3>1, <3>2, <3>3, <3>4, <3>5, <3>6 DEF BatchStep
  <2>4. runtimeLock # Unlocked
    BY <2>1 DEF Unlocked
  <2> QED BY <2>1, <2>2, <2>3, <2>4 DEF Frame, InLease, Body
<1>4. ASSUME NEW q \in Queries, SubmitQuery(q) \/ BeginOperation(q) PROVE AwakeInv'
  BY <1>4, GotoMoves, ThreadAssumption
     DEF SubmitQuery, BeginOperation, Unlocked, PCs, Frame
<1>5. ASSUME NEW q \in Queries, Retrieve(q) PROVE AwakeInv'
  <2>1. Frame(q) /\ task'[q].pc = "releasing"
    BY <1>5, FailMoves DEF Retrieve, PCs, InLease, Body, Errors
  <2> QED BY <1>5, <2>1 DEF Retrieve, Frame
<1>6. ASSUME NEW q \in Queries, Reason(q) PROVE AwakeInv'
  BY <1>6, ExitMoves DEF Reason, Frame
<1>7. ASSUME NEW t \in Threads, TakeRuntimeLock(t) PROVE AwakeInv'
  <2>1. Frame(t) /\ task'[t].pc = "sleeping"
    BY <1>7, GotoMoves DEF TakeRuntimeLock, PCs, InLease
  <2>2. runtimeLock' # Unlocked
    BY <1>7, ThreadAssumption DEF TakeRuntimeLock, Unlocked, TypeOK
  <2> QED BY <1>7, <2>1, <2>2 DEF TakeRuntimeLock, Frame
<1>8. ASSUME NEW t \in Threads, LeaseStep(t), ~TakeRuntimeLock(t) PROVE AwakeInv'
  <2>1. /\ runtimeLock.owner = t /\ t # None
        /\ \A s \in Threads : s # t => task[s].pc \notin InLease
    BY <1>8, LeaseMoves, AloneInLease
  <2>2. CASE Sleep(t) \/ ReleaseModels(t)
    <3>1. /\ Frame(t) /\ task'[t].pc \in {"parsing", "retrieving", "restoring"}
          /\ runtimeLock' = runtimeLock
      BY <2>2, GotoMoves DEF Sleep, ReleaseModels, PCs, InLease, Body
    <3>2. runtimeLock # Unlocked
      BY <2>1 DEF Unlocked
    <3> QED BY <2>1, <3>1, <3>2 DEF Frame, InLease, Body
  <2>3. CASE SleepFails(t) \/ RestoreFails(t)
    <3>1. Frame(t) /\ task'[t].pc = "idle" /\ trouble' # "none"
      BY <2>3, ExitMoves DEF SleepFails, RestoreFails
    <3> QED BY <2>1, <3>1 DEF Frame, InLease, Body
  <2>4. CASE Restore(t)
    BY <2>1, <2>4, ExitMoves, GotoMoves
       DEF Restore, AfterWake, PCs, InLease, Frame
  <2> QED BY <1>8, <2>2, <2>3, <2>4 DEF LeaseStep
<1> QED BY <1>1, <1>2, <1>3, <1>4, <1>5, <1>6, <1>7, <1>8 DEF Next, QueryStep

LEMMA AwakeInvariant == Spec => []AwakeInv
BY LocksInvariant, InitAwake, NextAwake, PTL DEF Spec

\* Generation never meets a sleeping vLLM: the wake is verified before the
\* lease is left, and the outer lock of a query keeps others from sleeping it.
THEOREM GenerationFindsVllmAwake == Spec => []GenerationWhileAwake
BY AwakeInvariant, PTL DEF AwakeInv

\* Only an operation that ended with a failed exchange leaves vLLM asleep.
THEOREM RestoredUnlessFailed == Spec => []AwakeUnlessFailed
BY AwakeInvariant, PTL DEF AwakeInv

-----------------------------------------------------------------------------
LEMMA InitSleep == Init => SleepInv
BY DEF Init, SleepInv, WorkWhileAsleep, Working, Idle

\* SleepInv survives a step that leaves vLLM and the models alone and moves
\* one task from outside the lease to outside the lease.
LEMMA OutsideSleep ==
  ASSUME SleepInv, NEW t \in Threads, Frame(t), task[t].pc \notin InLease,
         task'[t].pc \notin InLease \/ task'[t].pc = "sleeping",
         UNCHANGED <<vllm, models>>
  PROVE  SleepInv'
BY DEF SleepInv, WorkWhileAsleep, Working, Frame, InLease, Body, Threads

\* A step of a batch's body, when a failed vision call ends the batch.
LEMMA BodySleep ==
  ASSUME TypeOK, LockInv, SleepInv, FailOnVision,
         NEW b \in Batches, BatchStep(b), ~TakeServiceLock(b)
  PROVE  SleepInv'
<1> USE DEF Threads
<1>1. /\ \A s \in Threads : s # b => task[s].pc \notin InLease
      /\ Frame(b) /\ task'[b].pc \in Body
  BY BodyMoves, AloneInLease DEF InLease
<1>2. "retrieval" \notin models
  BY <1>1, ThreadAssumption DEF SleepInv, InLease, Body
<1>3. models' \subseteq models \cup {"ingestion"}
  BY DEF BatchStep, ParsePage, ParseFails, NeedVision, FallbackWake,
     FallbackWakeFails, GenerateVision, Resleep, ResleepFails, Embed, EmbedFails
<1>4. task'[b].pc \in Working \/ (task'[b].pc = "releasing" /\ task'[b].error = "none")
        => vllm' = "asleep"
  <2> USE DEF Working
  <2>1. CASE ParsePage(b) \/ ParseFails(b) \/ NeedVision(b)
    <3>1. vllm' = vllm /\ task[b].pc = "parsing"
      BY <2>1 DEF ParsePage, ParseFails, NeedVision
    <3> QED BY <3>1 DEF SleepInv, WorkWhileAsleep
  <2>2. CASE FallbackWake(b)
    BY <2>2, GotoMoves DEF FallbackWake, PCs, InLease, Body
  <2>3. CASE FallbackWakeFails(b) \/ ResleepFails(b)
    BY <2>3, VisionMoves DEF FallbackWakeFails, ResleepFails, Errors
  <2>4. CASE GenerateVision(b)
    <3>1. PICK kind \in Errors : Fail(b, "resleeping", kind)
      BY <2>4 DEF GenerateVision, Errors
    <3> QED BY <3>1, FailMoves DEF PCs, InLease, Body
  <2>5. CASE Resleep(b)
    BY <2>5 DEF Resleep, AfterSleep
  <2>6. CASE Embed(b) \/ EmbedFails(b)
    <3>1. vllm' = vllm /\ task[b].pc = "embedding"
      BY <2>6 DEF Embed, EmbedFails
    <3> QED BY <3>1 DEF SleepInv, WorkWhileAsleep
  <2> QED BY <2>1, <2>2, <2>3, <2>4, <2>5, <2>6 DEF BatchStep
<1>5. WorkWhileAsleep'
  BY <1>1, <1>4 DEF WorkWhileAsleep, Working, Frame, InLease, Body
<1>6. \A t \in Threads :
        task'[t].pc = "releasing" /\ (t \in Queries \/ task'[t].error = "none") =>
          vllm' = "asleep"
  BY <1>1, <1>4, ThreadAssumption DEF Frame, InLease, Body
<1>7. "ingestion" \in models' => \E c \in Batches : task'[c].pc \in Body
  BY <1>1
<1> QED BY <1>2, <1>3, <1>5, <1>6, <1>7 DEF SleepInv

LEMMA NextSleep ==
  TypeOK /\ LockInv /\ SleepInv /\ FailOnVision /\ [Next]_vars => SleepInv'
<1> SUFFICES ASSUME TypeOK, LockInv, SleepInv, FailOnVision, [Next]_vars PROVE SleepInv'
  OBVIOUS
<1> USE DEF Threads
<1>1. CASE UNCHANGED vars
  BY <1>1 DEF vars, SleepInv, WorkWhileAsleep
<1>2. ASSUME NEW b \in Batches, SubmitBatch(b) \/ TakeServiceLock(b) PROVE SleepInv'
  <2>1. /\ Frame(b) /\ task[b].pc \notin InLease /\ task'[b].pc \notin InLease
        /\ UNCHANGED <<vllm, models>>
    BY <1>2, GotoMoves DEF SubmitBatch, TakeServiceLock, PCs, InLease, Body
  <2> QED BY <2>1, OutsideSleep
<1>3. ASSUME NEW b \in Batches, BatchStep(b), ~TakeServiceLock(b) PROVE SleepInv'
  BY <1>3, BodySleep
<1>4. ASSUME NEW q \in Queries, SubmitQuery(q) \/ BeginOperation(q) PROVE SleepInv'
  <2>1. /\ Frame(q) /\ task[q].pc \notin InLease /\ task'[q].pc \notin InLease
        /\ UNCHANGED <<vllm, models>>
    BY <1>4, GotoMoves DEF SubmitQuery, BeginOperation, PCs, InLease, Body
  <2> QED BY <2>1, OutsideSleep
<1>5. ASSUME NEW t \in Threads, TakeRuntimeLock(t) PROVE SleepInv'
  <2>1. /\ Frame(t) /\ task[t].pc \notin InLease /\ task'[t].pc = "sleeping"
        /\ UNCHANGED <<vllm, models>>
    BY <1>5, GotoMoves DEF TakeRuntimeLock, PCs, InLease, Body
  <2> QED BY <2>1, OutsideSleep
<1>6. ASSUME NEW t \in Threads, task[t].pc \in InLease
      PROVE  \A s \in Threads : s # t => task[s].pc \notin InLease
  BY <1>6, AloneInLease
<1>7. ASSUME NEW q \in Queries, Retrieve(q) PROVE SleepInv'
  <2>1. Frame(q) /\ task'[q].pc = "releasing" /\ vllm' = "asleep"
    BY <1>7, FailMoves
       DEF Retrieve, PCs, InLease, Body, Errors, SleepInv, WorkWhileAsleep, Working
  <2>2. \A s \in Threads : s # q => task[s].pc \notin InLease
    BY <1>6, <1>7 DEF Retrieve, InLease, Body
  <2>3. "ingestion" \notin models'
    BY <1>7, <2>2, ThreadAssumption DEF Retrieve, SleepInv, InLease, Body
  <2> QED BY <2>1, <2>2, <2>3
          DEF Frame, SleepInv, WorkWhileAsleep, Working, InLease, Body
<1>8. ASSUME NEW q \in Queries, Reason(q) PROVE SleepInv'
  <2>1. Frame(q) /\ task'[q].pc = "idle" /\ models' = models
    BY <1>8, ExitMoves DEF Reason
  <2>2. \A s \in Threads : s # q => task[s].pc \notin InLease
    BY <1>6, <1>8 DEF Reason, InLease
  <2>3. models = {}
    BY <1>8, <2>2, ThreadAssumption DEF Reason, TypeOK, SleepInv, InLease, Body
  <2> QED BY <2>1, <2>2, <2>3
          DEF Frame, SleepInv, WorkWhileAsleep, Working, InLease, Body
<1>9. ASSUME NEW t \in Threads, LeaseStep(t), ~TakeRuntimeLock(t) PROVE SleepInv'
  <2>1. Frame(t) /\ \A s \in Threads : s # t => task[s].pc \notin InLease
    BY <1>6, <1>9, LeaseMoves
  <2>2. task[t].pc \in {"sleeping", "restoring"} => models = {}
    BY <2>1, ThreadAssumption DEF TypeOK, SleepInv, InLease, Body
  <2>3. CASE Sleep(t)
    <3>1. /\ task'[t].pc \in {"parsing", "retrieving"} /\ vllm' = "asleep"
          /\ models' = {}
      BY <2>2, <2>3, GotoMoves DEF Sleep, AfterSleep, PCs, InLease, Body
    <3> QED BY <2>1, <3>1
            DEF Frame, SleepInv, WorkWhileAsleep, Working, InLease, Body
  <2>4. CASE SleepFails(t) \/ Restore(t) \/ RestoreFails(t)
    <3>1. task'[t].pc \in {"idle", "reasoning"} /\ models' = {}
      BY <2>2, <2>4, ExitMoves, GotoMoves
         DEF SleepFails, Restore, RestoreFails, PCs, InLease
    <3> QED BY <2>1, <3>1
            DEF Frame, SleepInv, WorkWhileAsleep, Working, InLease, Body
  <2>5. CASE ReleaseModels(t)
    <3>1. task'[t].pc = "restoring"
      BY <2>5, GotoMoves DEF ReleaseModels, PCs, InLease
    <3>2. models' = {}
      <4>1. models \subseteq {Service(t)}
        BY <2>1, <2>5, ThreadAssumption
           DEF ReleaseModels, Service, TypeOK, SleepInv, InLease, Body
      <4> QED BY <2>5, <4>1 DEF ReleaseModels, ModelsAfterRelease
    <3> QED BY <2>1, <3>1, <3>2
            DEF Frame, SleepInv, WorkWhileAsleep, Working, InLease, Body
  <2> QED BY <1>9, <2>3, <2>4, <2>5 DEF LeaseStep
<1> QED BY <1>1, <1>2, <1>3, <1>4, <1>5, <1>7, <1>8, <1>9 DEF Next, QueryStep

LEMMA SleepInvariant == ASSUME FailOnVision PROVE Spec => [](LockInv /\ SleepInv)
<1>1. TypeOK /\ LockInv /\ SleepInv /\ [Next]_vars => SleepInv'
  BY NextSleep
<1> QED BY <1>1, LocksInvariant, InitSleep, PTL DEF Spec

\* With fail_on_vision_required, parsing, embedding and retrieval never share
\* the GPU with an awake vLLM, whatever exchange fails.
THEOREM WorkFindsVllmAsleep ==
  ASSUME FailOnVision PROVE Spec => []WorkWhileAsleep
BY SleepInvariant, PTL DEF SleepInv

\* With fail_on_vision_required, loaded models meet an awake vLLM in a vision
\* fallback and nowhere else.
THEOREM ModelsYieldOutsideFallback ==
  ASSUME FailOnVision PROVE Spec => []ModelsYield
<1>1. LockInv /\ SleepInv /\ TypeOK => ModelsYield
  BY DEF LockInv, SleepInv, WorkWhileAsleep, ModelsYield, Working, Body, Threads, TypeOK
<1> QED BY <1>1, SleepInvariant, TypeCorrect, PTL
=============================================================================
