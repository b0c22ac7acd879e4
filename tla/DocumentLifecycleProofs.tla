----------------------- MODULE DocumentLifecycleProofs -----------------------
(* Theorems about DocumentLifecycle: any applications, documents, chunks,     *)
(* policies and numbers of concurrent batches, deletions and extractions.     *)
EXTENDS DocumentLifecycle, FiniteSetTheorems, NaturalsInduction, WellFoundedInduction, TLAPS

-----------------------------------------------------------------------------
(* Type correctness.                                                          *)

Entered(b) == batch[b].pc # "idle"

\* The ways a batch's task is written, and what each leaves of it.
LEMMA BatchTypes ==
  ASSUME TypeOK, NEW b \in Batches
  PROVE  /\ IdleBatch.pc = "idle" /\ IdleBatch.app = None
         /\ Entered(b) => /\ batch[b] \in [pc: BatchStages, app: Apps, docs: Requests, next: Nat]
                          /\ batch[b].next \in 1..Len(batch[b].docs)
                          /\ batch[b].docs \in Seq(Docs) /\ Len(batch[b].docs) \in Nat \ {0}
                          /\ Current(b) \in Docs
                          /\ DocsOf(batch[b].docs) \in SUBSET Docs
         /\ ~Entered(b) => batch[b] = IdleBatch
<1>1. IdleBatch.pc = "idle" /\ IdleBatch.app = None
  BY DEF IdleBatch
<1>2. ASSUME Entered(b)
      PROVE  /\ batch[b] \in [pc: BatchStages, app: Apps, docs: Requests, next: Nat]
             /\ batch[b].next \in 1..Len(batch[b].docs)
  BY <1>1, <1>2 DEF Entered, TypeOK, BatchTypeOK
<1>3. ASSUME Entered(b)
      PROVE  batch[b].docs \in Seq(Docs) /\ Len(batch[b].docs) \in Nat \ {0}
  BY <1>2, <1>3, RequestAssumption
<1>4. ASSUME Entered(b)
      PROVE  Current(b) \in Docs /\ DocsOf(batch[b].docs) \in SUBSET Docs
  BY <1>2, <1>3, <1>4 DEF Current, DocsOf
<1>5. ~Entered(b) => batch[b] = IdleBatch
  BY DEF Entered, TypeOK, BatchTypeOK, BatchStages
<1> QED BY <1>1, <1>2, <1>3, <1>4, <1>5

BatchesOK(f) == DOMAIN f = Batches /\ \A b \in Batches : BatchTypeOK(f[b])

\* A batch that leaves is idle again; the others stay.
LEMMA LeaveTypes ==
  ASSUME TypeOK, NEW b \in Batches, Leave(b)
  PROVE  BatchesOK(batch') /\ batch'[b] = IdleBatch
         /\ \A c \in Batches : c # b => batch'[c] = batch[c]
BY DEF Leave, TypeOK, BatchesOK, BatchTypeOK

\* A batch that moves to a stage and a document of its list stays well-typed.
LEMMA MoveTypes ==
  ASSUME TypeOK, NEW b \in Batches, Entered(b), NEW pc \in BatchStages,
         NEW next \in 1..Len(batch[b].docs),
         batch' = [batch EXCEPT ![b].pc = pc, ![b].next = next]
  PROVE  BatchesOK(batch') /\ batch'[b].pc = pc /\ batch'[b].next = next
         /\ batch'[b].app = batch[b].app /\ batch'[b].docs = batch[b].docs
         /\ \A c \in Batches : c # b => batch'[c] = batch[c]
<1>1. batch[b] \in [pc: BatchStages, app: Apps, docs: Requests, next: Nat]
  BY BatchTypes
<1>2. next \in Nat
  BY BatchTypes
<1> QED BY <1>1, <1>2 DEF TypeOK, BatchesOK, BatchTypeOK

\* A batch that moves to a stage stays well-typed.
LEMMA GotoTypes ==
  ASSUME TypeOK, NEW b \in Batches, Entered(b), NEW pc \in BatchStages, Goto(b, pc)
  PROVE  BatchesOK(batch') /\ batch'[b].pc = pc /\ batch'[b].next = batch[b].next
         /\ batch'[b].app = batch[b].app /\ batch'[b].docs = batch[b].docs
         /\ \A c \in Batches : c # b => batch'[c] = batch[c]
<1>1. batch[b] \in [pc: BatchStages, app: Apps, docs: Requests, next: Nat]
      /\ batch[b].next \in 1..Len(batch[b].docs)
  BY BatchTypes
<1> QED BY <1>1 DEF TypeOK, BatchesOK, BatchTypeOK, Goto

\* After a document that is not the last there is another.
LEMMA NextTypes ==
  ASSUME TypeOK, NEW b \in Batches, Entered(b), ~AtLast(b)
  PROVE  batch[b].next + 1 \in 1..Len(batch[b].docs)
BY BatchTypes DEF AtLast

\* A batch that moves to its next document stays well-typed.
LEMMA AdvanceTypes ==
  ASSUME TypeOK, NEW b \in Batches, Entered(b), ~AtLast(b),
         batch' = [batch EXCEPT ![b].next = @ + 1]
  PROVE  BatchesOK(batch') /\ batch'[b].pc = batch[b].pc
         /\ batch'[b].next = batch[b].next + 1
         /\ batch'[b].app = batch[b].app /\ batch'[b].docs = batch[b].docs
         /\ \A c \in Batches : c # b => batch'[c] = batch[c]
<1>1. batch[b] \in [pc: BatchStages, app: Apps, docs: Requests, next: Nat]
      /\ batch[b].next + 1 \in 1..Len(batch[b].docs)
  BY BatchTypes, NextTypes
<1> QED BY <1>1 DEF TypeOK, BatchesOK, BatchTypeOK

\* What registration and deletion write is of the registry's types.
LEMMA RegisterTypes ==
  ASSUME TypeOK, NEW a \in Apps, NEW d \in Docs
  PROVE  Registry!RecordsAfterRegister(a, d, d, policy)
              \in [Apps -> [Docs -> Registry!DocumentRecord \cup {None}]]
<1>1. Registry!Stored(a, d, d, policy) \in Registry!DocumentRecord
  BY DEF TypeOK, Registry!Stored, Registry!DocumentRecord
<1> QED BY <1>1 DEF TypeOK, Registry!RecordsAfterRegister

\* What a deletion writes to the registry is of its types.
LEMMA DeleteTypes ==
  ASSUME TypeOK, NEW a \in Apps
  PROVE  /\ Registry!RecordsAfterDelete(a)
              \in [Apps -> [Docs -> Registry!DocumentRecord \cup {None}]]
         /\ [receipts EXCEPT ![a] = Registry!ReceiptAfter(a)]
              \in [Apps -> (SUBSET Docs) \cup {None}]
<1>1. \A k \in Registry!Live(a) :
        [records[a][k] EXCEPT !.state = "deleted"] \in Registry!DocumentRecord
  BY DEF TypeOK, Registry!Live, Registry!DocumentRecord
<1>2. Registry!Live(a) \in SUBSET Docs
  BY DEF Registry!Live
<1>3. Registry!ReceiptAfter(a) \in (SUBSET Docs) \cup {None}
  BY <1>2 DEF TypeOK, Registry!ReceiptAfter
<1> QED BY <1>1, <1>3 DEF TypeOK, Registry!RecordsAfterDelete

\* Type correctness of every step of a batch.
LEMMA BatchStepTypes ==
  ASSUME TypeOK, NEW b \in Batches, BatchStep(b)
  PROVE  TypeOK'
<1> USE DEF stores, history
<1>0. Entered(b)
  BY DEF BatchStep, ScanClean, ScanUnsafe, EnterIngestion, StoreObject, IndexDocument,
         RegisterDocument, CheckOwnership, InsertSet, FailBatch, Entered
<1>1. /\ App(b) \in Apps /\ Current(b) \in Docs /\ DocsOf(batch[b].docs) \in SUBSET Docs
      /\ 1 \in 1..Len(batch[b].docs)
  BY <1>0, BatchTypes DEF App
<1>2. CASE ScanClean(b)
  <2>1. BatchesOK(batch')  BY <1>0, <1>2, GotoTypes DEF ScanClean, BatchStages
  <2> QED BY <1>2, <2>1 DEF ScanClean, TypeOK, BatchesOK
<1>3. CASE ScanUnsafe(b)
  <2>1. BatchesOK(batch')  BY <1>3, LeaveTypes DEF ScanUnsafe
  <2>2. objects' \subseteq {"active", "quarantined"} \X Apps \X Docs
    BY <1>1, <1>3 DEF ScanUnsafe, TypeOK
  <2> QED BY <1>3, <2>1, <2>2 DEF ScanUnsafe, TypeOK, BatchesOK
<1>4. CASE EnterIngestion(b)
  <2>1. BatchesOK(batch')  BY <1>0, <1>4, GotoTypes DEF EnterIngestion, BatchStages
  <2> QED BY <1>4, <2>1 DEF EnterIngestion, TypeOK, BatchesOK
<1>5. CASE StoreObject(b)
  <2>1. BatchesOK(batch')  BY <1>0, <1>5, GotoTypes DEF StoreObject, BatchStages
  <2>2. objects' \subseteq {"active", "quarantined"} \X Apps \X Docs
    BY <1>1, <1>5 DEF StoreObject, TypeOK
  <2> QED BY <1>5, <2>1, <2>2 DEF StoreObject, TypeOK, BatchesOK
<1>6. CASE IndexDocument(b)
  <2>1. BatchesOK(batch')
    BY <1>0, <1>1, <1>6, MoveTypes, NextTypes DEF IndexDocument, BatchStages
  <2>2. points' \subseteq Apps \X Chunks
    BY <1>1, <1>6 DEF IndexDocument, TypeOK, ChunksOf
  <2>3. lock' \in Batches \cup {None}
    BY <1>6 DEF IndexDocument, TypeOK
  <2> QED BY <1>6, <2>1, <2>2, <2>3 DEF IndexDocument, TypeOK, BatchesOK
<1>7. CASE RegisterDocument(b)
  <2>1. CASE AtLast(b)
    BY <1>0, <1>7, <2>1, GotoTypes, <1>1, RegisterTypes
    DEF RegisterDocument, TypeOK, BatchesOK, BatchStages
  <2>2. CASE ~AtLast(b)
    <3>1. BatchesOK(batch')
      BY <1>0, <1>7, <2>2, AdvanceTypes DEF RegisterDocument
    <3> QED BY <1>1, <1>7, <3>1, RegisterTypes DEF RegisterDocument, TypeOK, BatchesOK
  <2> QED BY <2>1, <2>2
<1>8. CASE CheckOwnership(b)
  <2>1. BatchesOK(batch')
    BY <1>0, <1>8, GotoTypes, LeaveTypes DEF CheckOwnership, BatchStages
  <2> QED BY <1>8, <2>1 DEF CheckOwnership, TypeOK, BatchesOK
<1>9. CASE InsertSet(b)
  <2>1. BatchesOK(batch')  BY <1>9, LeaveTypes DEF InsertSet
  <2>2. sets' \subseteq Apps \X (SUBSET Docs) \X Policies
    BY <1>1, <1>9 DEF InsertSet, TypeOK
  <2> QED BY <1>9, <2>1, <2>2 DEF InsertSet, TypeOK, BatchesOK
<1>10. CASE FailBatch(b)
  <2>1. BatchesOK(batch')  BY <1>10, LeaveTypes DEF FailBatch
  <2> QED BY <1>10, <2>1 DEF FailBatch, TypeOK, BatchesOK
<1> QED BY <1>2, <1>3, <1>4, <1>5, <1>6, <1>7, <1>8, <1>9, <1>10, <1>0 DEF BatchStep

\* Type correctness of every step of a deletion.
LEMMA DeletionStepTypes ==
  ASSUME TypeOK, NEW x \in Deletions, DeletionStep(x)
  PROVE  TypeOK'
<1> USE DEF stores, history
<1>1. deletion[x] \in [pc: DeletionStages, app: Apps]
  BY DEF DeletionStep, DeleteRecords, DeletePoints, DeleteActiveObjects,
         DeleteQuarantinedObjects, FailDeletion, IdleDeletion, TypeOK
<1>2. CASE DeleteRecords(x)
  <2>1. deletion' \in [Deletions -> [pc: DeletionStages, app: Apps] \cup {IdleDeletion}]
    BY <1>1, <1>2 DEF DeleteRecords, GotoDeletion, TypeOK, DeletionStages
  <2>2. overlap' \in [Apps -> BOOLEAN]
    BY <1>1, <1>2 DEF DeleteRecords, TypeOK, BatchInFlight
  <2>3. /\ records' \in [Apps -> [Docs -> Registry!DocumentRecord \cup {None}]]
        /\ receipts' \in [Apps -> (SUBSET Docs) \cup {None}]
    BY <1>1, <1>2, DeleteTypes DEF DeleteRecords
  <2> QED BY <1>2, <2>1, <2>2, <2>3 DEF DeleteRecords, TypeOK
<1>3. CASE DeletePoints(x)
  <2>1. deletion' \in [Deletions -> [pc: DeletionStages, app: Apps] \cup {IdleDeletion}]
    BY <1>1, <1>3 DEF DeletePoints, GotoDeletion, TypeOK, DeletionStages
  <2>2. extraction' \in [Extractions ->
          [pc: {"scrolling", "answered"}, app: Apps, docs: SUBSET Docs,
           offset: Nat, found: SUBSET Chunks, disturbed: BOOLEAN] \cup {IdleExtraction}]
    <3>1. ASSUME NEW e \in Extractions
          PROVE  extraction'[e] \in
            [pc: {"scrolling", "answered"}, app: Apps, docs: SUBSET Docs,
             offset: Nat, found: SUBSET Chunks, disturbed: BOOLEAN] \cup {IdleExtraction}
      <4>1. CASE extraction[e] = IdleExtraction
        BY <1>1, <1>3, <4>1, AbsenceAssumption DEF DeletePoints, Disturbed, IdleExtraction
      <4>2. CASE extraction[e] # IdleExtraction
        BY <1>3, <4>2 DEF DeletePoints, Disturbed, TypeOK
      <4> QED BY <4>1, <4>2
    <3>2. extraction' = [e \in Extractions |-> extraction'[e]]
      BY <1>3 DEF DeletePoints, Disturbed
    <3> QED BY <3>1, <3>2
  <2> QED BY <1>3, <2>1, <2>2 DEF DeletePoints, TypeOK
<1>4. CASE DeleteActiveObjects(x)
  <2>1. deletion' \in [Deletions -> [pc: DeletionStages, app: Apps] \cup {IdleDeletion}]
    BY <1>1, <1>4 DEF DeleteActiveObjects, GotoDeletion, TypeOK, DeletionStages
  <2> QED BY <1>4, <2>1 DEF DeleteActiveObjects, TypeOK
<1>5. CASE DeleteQuarantinedObjects(x)
  BY <1>1, <1>5 DEF DeleteQuarantinedObjects, TypeOK
<1>6. CASE FailDeletion(x)
  <2>1. objects' \subseteq objects
    BY <1>6 DEF FailDeletion, Objects
  <2> QED BY <1>6, <2>1 DEF FailDeletion, TypeOK
<1> QED BY <1>2, <1>3, <1>4, <1>5, <1>6 DEF DeletionStep

\* A set of natural numbers that is not empty has a least element.
LEMMA LeastInSet ==
  ASSUME NEW S, S \subseteq Nat, S # {}
  PROVE  Least(S) \in S /\ \A k \in S : Least(S) <= k
<1> DEFINE Below == {p \in Nat \X Nat : p[1] < p[2]}
<1>1. IsWellFoundedOn(Below, Nat)
  BY NatLessThanWellFounded DEF OpToRel
<1> HIDE DEF Below
<1>2. PICK c \in S : \A k \in S : ~(<<k, c>> \in Below)
  BY <1>1, WFMin
<1>3. ASSUME NEW k \in S, k < c  PROVE  FALSE
  <2>1. <<k, c>> \in Nat \X Nat  OBVIOUS
  <2>2. <<k, c>> \in Below  BY <1>3, <2>1 DEF Below
  <2> QED BY <1>2, <2>2
<1>4. \A k \in S : c <= k  BY <1>3
<1> QED BY <1>4 DEF Least

\* What a scroll has found after the next page, and what is left.
Found(e) == extraction[e].found \cup Page(e)
Rest(e) == Remaining(e) \ Page(e)
Onward(e) == [extraction[e] EXCEPT !.offset = Least(Rest(e)), !.found = Found(e)]
Answer(e) == [extraction[e] EXCEPT !.pc = "answered", !.offset = 0, !.found = Found(e)]

\* What a scroll has found and what is left are chunks.
LEMMA ScrollFinds ==
  ASSUME TypeOK, NEW e \in Extractions, extraction[e].pc = "scrolling"
  PROVE  /\ Found(e) \in SUBSET Chunks /\ Rest(e) \in SUBSET Chunks
         /\ Cardinality(Found(e)) \in Nat
         /\ Rest(e) # {} => Least(Rest(e)) \in Rest(e)
                            /\ \A c \in Rest(e) : Least(Rest(e)) <= c
<1>1. Found(e) \in SUBSET Chunks /\ Rest(e) \in SUBSET Chunks
  BY DEF TypeOK, Found, Rest, IdleExtraction, Page, Smallest, Remaining
<1>2. Cardinality(Found(e)) \in Nat
  BY <1>1, FS_Subset, FS_CardinalityType, ChunkAssumption
<1>3. Rest(e) \subseteq Nat
  BY <1>1, ChunkAssumption
<1> QED BY <1>1, <1>2, <1>3, LeastInSet

\* The three ways a page ends: refused, another page, or an answer.
LEMMA ScrollOutcomes ==
  ASSUME TypeOK, NEW e \in Extractions, Scroll(e)
  PROVE  \/ extraction' = [extraction EXCEPT ![e] = IdleExtraction]
         \/ /\ Rest(e) # {}
            /\ extraction' = [extraction EXCEPT ![e] = Onward(e)]
         \/ /\ Rest(e) = {}
            /\ Cardinality(Found(e)) <= MaxChunks
            /\ {ChunkDoc[c] : c \in Found(e)} = extraction[e].docs
            /\ extraction' = [extraction EXCEPT ![e] = Answer(e)]
<1> DEFINE next ==
      CASE Cardinality(Found(e)) > MaxChunks -> IdleExtraction
        [] Cardinality(Found(e)) <= MaxChunks /\ Rest(e) # {} -> Onward(e)
        [] OTHER -> IF {ChunkDoc[c] : c \in Found(e)} = extraction[e].docs
                      THEN Answer(e) ELSE IdleExtraction
<1>1. extraction' = [extraction EXCEPT ![e] = next]
  BY DEF Scroll, Found, Rest, Onward, Answer
<1>2. Cardinality(Found(e)) \in Nat /\ MaxChunks \in Nat
  BY ScrollFinds, LimitAssumption DEF Scroll
<1>3. CASE Cardinality(Found(e)) > MaxChunks
  <2>1. next = IdleExtraction  BY <1>2, <1>3
  <2> QED BY <1>1, <2>1
<1>4. CASE Cardinality(Found(e)) <= MaxChunks /\ Rest(e) # {}
  <2>1. next = Onward(e)  BY <1>2, <1>4
  <2> QED BY <1>1, <1>4, <2>1
<1>5. CASE Cardinality(Found(e)) <= MaxChunks /\ Rest(e) = {}
  <2>1. next = IF {ChunkDoc[c] : c \in Found(e)} = extraction[e].docs
                 THEN Answer(e) ELSE IdleExtraction
    BY <1>2, <1>5
  <2> QED BY <1>1, <1>5, <2>1
<1> QED BY <1>2, <1>3, <1>4, <1>5

\* Type correctness of a page.
LEMMA ScrollTypes ==
  ASSUME TypeOK, NEW e \in Extractions, Scroll(e)
  PROVE  TypeOK'
<1> DEFINE Record == [pc: {"scrolling", "answered"}, app: Apps, docs: SUBSET Docs,
                      offset: Nat, found: SUBSET Chunks, disturbed: BOOLEAN]
<1>1. extraction[e].pc = "scrolling" /\ extraction[e] \in Record
  BY DEF Scroll, IdleExtraction, TypeOK
<1>2. Answer(e) \in Record
  BY <1>1, ScrollFinds DEF Answer
<1>3. Rest(e) # {} => Onward(e) \in Record
  <2>1. Rest(e) # {} => Least(Rest(e)) \in Nat
    BY <1>1, ScrollFinds, ChunkAssumption
  <2> QED BY <1>1, <2>1, ScrollFinds DEF Onward
<1> HIDE DEF Record
<1>4. extraction' \in [Extractions -> Record \cup {IdleExtraction}]
  <2>1. extraction \in [Extractions -> Record \cup {IdleExtraction}]
    BY DEF TypeOK, Record
  <2> QED BY <1>2, <1>3, <2>1, ScrollOutcomes
<1> QED BY <1>4 DEF Scroll, TypeOK, Record, stores, history

\* Type correctness of a new batch.
LEMMA SubmitTypes ==
  ASSUME TypeOK, NEW b \in Batches, NEW a \in Apps, NEW request \in Requests,
         Submit(b, a, request)
  PROVE  TypeOK' /\ BatchesOK(batch')
<1>1. Len(request) \in Nat \ {0}
  BY RequestAssumption
<1>2. BatchesOK(batch')
  BY <1>1 DEF Submit, TypeOK, BatchesOK, BatchTypeOK, BatchStages
<1>3. overlap' \in [Apps -> BOOLEAN]
  BY DEF Submit, TypeOK, DeletionInFlight
<1> QED BY <1>2, <1>3 DEF Submit, TypeOK, BatchesOK, stores

\* Type correctness of a set recorded outside a batch.
LEMMA SubmitSetTypes ==
  ASSUME TypeOK, NEW b \in Batches, NEW a \in Apps, NEW request \in Requests,
         SubmitSet(b, a, request)
  PROVE  TypeOK'
<1>1. Len(request) \in Nat \ {0}
  BY RequestAssumption
<1>2. BatchesOK(batch')
  BY <1>1 DEF SubmitSet, TypeOK, BatchesOK, BatchTypeOK, BatchStages
<1> QED BY <1>2 DEF SubmitSet, TypeOK, BatchesOK, stores, history

\* Type correctness of a restart.
LEMMA RestartTypes ==
  ASSUME TypeOK, NEW p \in Policies, Restart(p)
  PROVE  TypeOK'
BY DEF Restart, TypeOK, BatchTypeOK, stores, history

\* Type correctness of the other steps.
LEMMA OtherTypes ==
  ASSUME TypeOK
  PROVE  /\ \A x \in Deletions, a \in Apps : StartDeletion(x, a) => TypeOK'
         /\ \A e \in Extractions : EndExtraction(e) => TypeOK'
         /\ \A e \in Extractions, a \in Apps, docs \in SUBSET Docs, contract \in {"2.0", "2.1"} :
              Authorize(e, a, docs, contract) => TypeOK'
<1> USE DEF stores, history
<1>1. ASSUME NEW x \in Deletions, NEW a \in Apps, StartDeletion(x, a)
      PROVE  TypeOK'
  <2>1. overlap' \in [Apps -> BOOLEAN]
    BY <1>1 DEF StartDeletion, TypeOK, BatchInFlight
  <2>2. deletion' \in [Deletions -> [pc: DeletionStages, app: Apps] \cup {IdleDeletion}]
    BY <1>1 DEF StartDeletion, TypeOK, DeletionStages
  <2> QED BY <1>1, <2>1, <2>2 DEF StartDeletion, TypeOK
<1>2. ASSUME NEW e \in Extractions, EndExtraction(e)
      PROVE  TypeOK'
  BY <1>2 DEF EndExtraction, TypeOK
<1>3. ASSUME NEW e \in Extractions, NEW a \in Apps, NEW docs \in SUBSET Docs,
             NEW contract \in {"2.0", "2.1"}, Authorize(e, a, docs, contract)
      PROVE  TypeOK'
  BY <1>3 DEF Authorize, TypeOK
<1> QED BY <1>1, <1>2, <1>3

\* TypeOK holds at first ...
LEMMA InitTypes == Init => TypeOK
BY DEF Init, TypeOK, BatchTypeOK

\* ... and every step keeps it.
LEMMA StepTypes == TypeOK /\ [Next]_vars => TypeOK'
<1> SUFFICES ASSUME TypeOK, [Next]_vars PROVE TypeOK'
  OBVIOUS
<1>1. CASE UNCHANGED vars
  BY <1>1 DEF TypeOK, vars, stores, history
<1>2. CASE Next
  BY <1>2, BatchStepTypes, SubmitTypes, SubmitSetTypes, DeletionStepTypes, ScrollTypes, RestartTypes,
     OtherTypes DEF Next
<1> QED BY <1>1, <1>2

\* Every record, point, object, set and task stays of its type, for any numbers
\* of applications, documents, chunks and concurrent requests.
THEOREM TypeCorrect == Spec => []TypeOK
BY InitTypes, StepTypes, PTL DEF Spec

-----------------------------------------------------------------------------
(* The stores.  The invariant is stated for one application at a time: a step  *)
(* disturbs the application it works for and leaves the others alone.          *)

Kept(a, d) == Indexed(a, d) /\ StoredEncrypted(a, d)

\* The i-th document of the batch is stored and indexed by now.
Done(b, i) ==
  \/ batch[b].pc = "registering"
  \/ batch[b].pc \in {"storing", "indexing"} /\ i < batch[b].next

\* What a batch has written so far is there.
Written(b) ==
  /\ \A i \in 1..Len(batch[b].docs) : Done(b, i) => Kept(App(b), batch[b].docs[i])
  /\ batch[b].pc = "indexing" => StoredEncrypted(App(b), Current(b))
  /\ batch[b].pc \in {"scanning", "waiting"} => batch[b].next = 1

\* What a deletion has removed so far is gone.
Removed(x, a) ==
  /\ deletion[x].pc # "records" => \A d \in Docs : ~ Active(a, d)
  /\ deletion[x].pc \in {"active", "quarantined"} => \A c \in Chunks : <<a, c>> \notin points
  /\ deletion[x].pc = "quarantined" => \A d \in Docs : ~ StoredEncrypted(a, d)

Undisputed(a) ==
  /\ ~ (BatchInFlight(a) /\ DeletionInFlight(a))
  /\ \A d \in Docs : Active(a, d) => Kept(a, d)
  /\ \A b \in Batches : batch[b].app = a => Written(b)
  /\ \A x \in Deletions : deletion[x].app = a => Removed(x, a)

Gone(a) ==
  /\ ~ BatchInFlight(a)
  /\ \A d \in Docs : ~ Active(a, d)
  /\ \A c \in Chunks : <<a, c>> \notin points
  /\ \A d \in Docs, state \in {"active", "quarantined"} : <<state, a, d>> \notin objects

AppInv(a) == (overlap[a] \/ Undisputed(a)) /\ (erased[a] => Gone(a))

StoresInv == \A a \in Apps : AppInv(a)

\* The stores of application a are not written, and none of its tasks moves on
\* but to record a set.
SameStores(a) ==
  /\ records'[a] = records[a]
  /\ \A c \in Chunks : <<a, c>> \in points' <=> <<a, c>> \in points
  /\ \A d \in Docs, state \in {"active", "quarantined"} :
       <<state, a, d>> \in objects' <=> <<state, a, d>> \in objects
SameTasks(a) ==
  /\ \A b \in Batches : batch'[b].app = a => batch'[b] = batch[b] \/ OnlyFreezes(b)'
  /\ \A x \in Deletions : deletion'[x].app = a => deletion'[x] = deletion[x]
  /\ overlap'[a] = overlap[a] /\ erased'[a] = erased[a]

\* The invariant of an application that nobody works for stays true.
LEMMA Untouched ==
  ASSUME TypeOK, TypeOK', NEW a \in Apps, AppInv(a), SameStores(a), SameTasks(a)
  PROVE  AppInv(a)'
<1>1. \A d \in Docs : /\ Active(a, d)' <=> Active(a, d)
                      /\ Indexed(a, d)' <=> Indexed(a, d)
                      /\ StoredEncrypted(a, d)' <=> StoredEncrypted(a, d)
  BY DEF SameStores, Active, Indexed, StoredEncrypted, ChunksOf
<1>2. /\ BatchInFlight(a)' => BatchInFlight(a)
      /\ DeletionInFlight(a)' => DeletionInFlight(a)
  BY DEF SameTasks, BatchInFlight, DeletionInFlight, OnlyFreezes
<1>3. ASSUME NEW b \in Batches, batch'[b].app = a, batch'[b] = batch[b], Written(b)
      PROVE  Written(b)'
  <2>1. batch'[b] = batch[b]
    BY <1>3
  <2>2. Entered(b)
    BY <1>3, <2>1, BatchTypes, AbsenceAssumption
  <2>3. \A i \in 1..Len(batch[b].docs) : batch[b].docs[i] \in Docs
    BY <2>2, BatchTypes
  <2>4. App(b)' = a /\ App(b) = a /\ Current(b)' = Current(b) /\ Current(b) \in Docs
    BY <1>3, <2>1, <2>2, BatchTypes DEF App, Current
  <2>5. \A i : Done(b, i)' <=> Done(b, i)
    BY <2>1 DEF Done
  <2> QED BY <1>1, <1>3, <2>1, <2>3, <2>4, <2>5 DEF Written, Kept
<1>4. ASSUME NEW x \in Deletions, deletion'[x].app = a, Removed(x, a)
      PROVE  Removed(x, a)'
  <2>1. deletion'[x] = deletion[x]
    BY <1>4 DEF SameTasks
  <2> QED BY <1>1, <1>4, <2>1 DEF Removed, SameStores
<1>5. Undisputed(a) => Undisputed(a)'
  <2> SUFFICES ASSUME Undisputed(a) PROVE Undisputed(a)'
    OBVIOUS
  <2>1. \A b \in Batches : batch'[b].app = a => Written(b)'
    <3>1. \A b \in Batches : OnlyFreezes(b)' => Written(b)'
      BY DEF OnlyFreezes, Written, Done
    <3> QED BY <1>3, <3>1 DEF SameTasks, Undisputed
  <2>2. \A x \in Deletions : deletion'[x].app = a => Removed(x, a)'
    BY <1>4 DEF SameTasks, Undisputed
  <2> QED BY <1>1, <1>2, <2>1, <2>2 DEF Undisputed, Kept
<1>6. Gone(a) => Gone(a)'
  BY <1>1, <1>2 DEF Gone, SameStores
<1> QED BY <1>5, <1>6 DEF AppInv, SameTasks

\* A batch only adds to the stores of its application, and registers only what
\* is kept: then what others have written is still there.
LEMMA BatchAdds ==
  ASSUME TypeOK, TypeOK', NEW b \in Batches, Entered(b), ~ OnlyFreezes(b), NEW a, a = App(b),
         AppInv(a), points \subseteq points', objects \subseteq objects',
         UNCHANGED <<deletion, overlap, erased>>,
         \A c \in Batches : c # b => batch'[c] = batch[c],
         ~ overlap[a] /\ Written(b) => \A d \in Docs : Active(a, d)' => Active(a, d) \/ Kept(a, d),
         ~ overlap[a] /\ Written(b) /\ batch'[b].app = a => Written(b)'
  PROVE  AppInv(a)'
<1> a \in Apps
  BY BatchTypes DEF App
<1>1. ~ erased[a]'
  BY DEF AppInv, Gone, BatchInFlight, App
<1>2. \A d \in Docs : Kept(a, d) => Kept(a, d)'
  BY DEF Kept, Indexed, StoredEncrypted
<1>3. ASSUME ~ overlap[a]
      PROVE  Undisputed(a)'
  <2>1. Undisputed(a) /\ Written(b)
    BY <1>3 DEF AppInv, Undisputed, App
  <2>2. ~ DeletionInFlight(a)'
    BY <2>1 DEF Undisputed, DeletionInFlight, BatchInFlight, App
  <2>3. \A d \in Docs : Active(a, d)' => Kept(a, d)'
    BY <1>2, <1>3, <2>1 DEF Undisputed
  <2>4. ASSUME NEW c \in Batches, batch'[c].app = a, c # b
        PROVE  Written(c)'
    <3>1. batch'[c] = batch[c] /\ Written(c)
      BY <2>1, <2>4 DEF Undisputed
    <3>2. Entered(c) /\ App(c) = a /\ App(c)' = a
      BY <2>4, <3>1, BatchTypes, AbsenceAssumption DEF App
    <3>3. /\ \A i \in 1..Len(batch[c].docs) : batch[c].docs[i] \in Docs
          /\ Current(c)' = Current(c) /\ Current(c) \in Docs
      BY <3>1, <3>2, BatchTypes DEF Current
    <3>4. \A i : Done(c, i)' <=> Done(c, i)
      BY <3>1 DEF Done
    <3>5. StoredEncrypted(a, Current(c)) => StoredEncrypted(a, Current(c))'
      BY <3>1, <3>3 DEF StoredEncrypted, Current
    <3> QED BY <1>2, <3>1, <3>2, <3>3, <3>4, <3>5 DEF Written
  <2>5. \A c \in Batches : batch'[c].app = a => Written(c)'
    BY <1>3, <2>1, <2>4
  <2>6. \A x \in Deletions : deletion'[x].app # a
    BY <2>2 DEF DeletionInFlight
  <2> QED BY <2>2, <2>3, <2>5, <2>6 DEF Undisputed
<1> QED BY <1>1, <1>3 DEF AppInv

\* The step of a batch leaves the other applications alone.
LEMMA BatchElsewhere ==
  ASSUME TypeOK, NEW b \in Batches, BatchStep(b), NEW a \in Apps, a # App(b)
  PROVE  SameStores(a) /\ SameTasks(a)
<1> USE DEF stores, history
<1>1. Entered(b)
  BY DEF BatchStep, ScanClean, ScanUnsafe, EnterIngestion, StoreObject, IndexDocument,
         RegisterDocument, CheckOwnership, InsertSet, FailBatch, Entered
<1>2. App(b) \in Apps
  BY <1>1, BatchTypes DEF App
<1>3. UNCHANGED <<deletion, overlap, erased>>
  BY DEF BatchStep, ScanClean, ScanUnsafe, EnterIngestion, StoreObject, IndexDocument,
         RegisterDocument, CheckOwnership, InsertSet, FailBatch
<1>4. /\ \A c \in Batches : c # b => batch'[c] = batch[c]
      /\ batch'[b].app # a
  <2>1. \/ Leave(b)
        \/ \E pc : Goto(b, pc)
        \/ \E pc : batch' = [batch EXCEPT ![b].pc = pc, ![b].next = 1]
        \/ \E pc : batch' = [batch EXCEPT ![b].pc = pc, ![b].next = @ + 1]
        \/ batch' = [batch EXCEPT ![b].next = @ + 1]
    BY DEF BatchStep, ScanClean, ScanUnsafe, EnterIngestion, StoreObject, IndexDocument,
           RegisterDocument, CheckOwnership, InsertSet, FailBatch
  <2>2. batch[b] \in [pc: BatchStages, app: Apps, docs: Requests, next: Nat]
    BY <1>1, BatchTypes
  <2>3. b \in DOMAIN batch
    BY DEF TypeOK
  <2>4. CASE Leave(b)
    BY <2>3, <2>4, AbsenceAssumption DEF Leave, IdleBatch, App, TypeOK
  <2>5. CASE \E pc : Goto(b, pc)
    BY <2>2, <2>3, <2>5 DEF Goto, App, TypeOK
  <2>6. CASE \E pc : batch' = [batch EXCEPT ![b].pc = pc, ![b].next = 1]
    BY <2>2, <2>3, <2>6 DEF App, TypeOK
  <2>7. CASE \E pc : batch' = [batch EXCEPT ![b].pc = pc, ![b].next = @ + 1]
    BY <2>2, <2>3, <2>7 DEF App, TypeOK
  <2>8. CASE batch' = [batch EXCEPT ![b].next = @ + 1]
    BY <2>2, <2>3, <2>8 DEF App, TypeOK
  <2> QED BY <2>1, <2>4, <2>5, <2>6, <2>7, <2>8
<1>5. records'[a] = records[a]
  BY <1>2 DEF BatchStep, ScanClean, ScanUnsafe, EnterIngestion, StoreObject, IndexDocument,
              RegisterDocument, CheckOwnership, InsertSet, FailBatch, TypeOK,
              Registry!RecordsAfterRegister
<1>6. \A c \in Chunks : <<a, c>> \in points' <=> <<a, c>> \in points
  <2>1. UNCHANGED points \/ points' = points \cup {<<App(b), c>> : c \in ChunksOf(Current(b))}
    BY DEF BatchStep, ScanClean, ScanUnsafe, EnterIngestion, StoreObject, IndexDocument,
           RegisterDocument, CheckOwnership, InsertSet, FailBatch
  <2> QED BY <2>1
<1>7. \A d \in Docs, state \in {"active", "quarantined"} :
        <<state, a, d>> \in objects' <=> <<state, a, d>> \in objects
  <2>1. UNCHANGED objects \/ \E state, d : objects' = objects \cup {<<state, App(b), d>>}
    BY DEF BatchStep, ScanClean, ScanUnsafe, EnterIngestion, StoreObject, IndexDocument,
           RegisterDocument, CheckOwnership, InsertSet, FailBatch
  <2> QED BY <2>1
<1> QED BY <1>3, <1>4, <1>5, <1>6, <1>7 DEF SameStores, SameTasks

\* The step of a batch keeps the invariant of its own application.
LEMMA BatchHere ==
  ASSUME TypeOK, TypeOK', NEW b \in Batches, BatchStep(b), NEW a, a = App(b), AppInv(a)
  PROVE  AppInv(a)'
<1> USE DEF stores, history
<1>1. Entered(b)
  BY DEF BatchStep, ScanClean, ScanUnsafe, EnterIngestion, StoreObject, IndexDocument,
         RegisterDocument, CheckOwnership, InsertSet, FailBatch, Entered
<1>2. /\ batch[b] \in [pc: BatchStages, app: Apps, docs: Requests, next: Nat]
      /\ batch[b].next \in 1..Len(batch[b].docs) /\ Len(batch[b].docs) \in Nat
      /\ \A i \in 1..Len(batch[b].docs) : batch[b].docs[i] \in Docs
      /\ a \in Apps /\ a = batch[b].app
  BY <1>1, BatchTypes DEF App
<1>3. UNCHANGED <<deletion, overlap, erased>> /\ points \subseteq points' /\ objects \subseteq objects'
  BY DEF BatchStep, ScanClean, ScanUnsafe, EnterIngestion, StoreObject, IndexDocument,
         RegisterDocument, CheckOwnership, InsertSet, FailBatch
<1>4. PICK d \in Docs : d = Current(b)
  BY <1>1, BatchTypes
<1>5. \A k : Kept(a, k) => Kept(a, k)'
  BY <1>3 DEF Kept, Indexed, StoredEncrypted
<1>6. ASSUME UNCHANGED records, \A c \in Batches : c # b => batch'[c] = batch[c], ~ OnlyFreezes(b),
             ~ overlap[a] /\ Written(b) /\ batch'[b].app = a => Written(b)'
      PROVE  AppInv(a)'
  <2>1. \A k \in Docs : Active(a, k)' => Active(a, k)
    BY <1>6 DEF Active
  <2> QED BY <1>1, <1>2, <1>3, <1>6, <2>1, BatchAdds
<1>7. ASSUME Leave(b) \/ OnlyFreezes(b)', \A c \in Batches : c # b => batch'[c] = batch[c],
             UNCHANGED <<records, points, objects>>
      PROVE  AppInv(a)'
  <2>1. batch'[b].app = a => OnlyFreezes(b)'
    BY <1>2, <1>7, LeaveTypes, AbsenceAssumption DEF IdleBatch
  <2>2. SameStores(a) /\ SameTasks(a)
    BY <1>3, <1>7, <2>1 DEF SameStores, SameTasks
  <2> QED BY <1>2, <2>2, Untouched
<1> USE DEF OnlyFreezes
<1>8. CASE ScanClean(b)
  <2>1. Written(b) => Written(b)'
    BY <1>1, <1>8, GotoTypes DEF ScanClean, Written, Done, BatchStages
  <2> QED BY <1>1, <1>6, <1>8, <2>1, GotoTypes DEF ScanClean, BatchStages
<1>9. CASE ScanUnsafe(b)
  BY <1>2, <1>6, <1>9, LeaveTypes, AbsenceAssumption DEF ScanUnsafe, IdleBatch
<1>10. CASE EnterIngestion(b)
  <2>1. Written(b) => Written(b)'
    BY <1>1, <1>2, <1>10, GotoTypes DEF EnterIngestion, Written, Done, BatchStages
  <2> QED BY <1>1, <1>6, <1>10, <2>1, GotoTypes DEF EnterIngestion, BatchStages
<1>11. CASE StoreObject(b)
  <2>1. /\ batch'[b].pc = "indexing" /\ batch'[b].next = batch[b].next
        /\ batch'[b].app = a /\ batch'[b].docs = batch[b].docs
        /\ \A c \in Batches : c # b => batch'[c] = batch[c]
    BY <1>1, <1>2, <1>11, GotoTypes DEF StoreObject, BatchStages
  <2>2. App(b)' = a /\ Current(b)' = d
    BY <1>4, <2>1 DEF App, Current
  <2>3. StoredEncrypted(a, d)'
    BY <1>2, <1>4, <1>11 DEF StoreObject, StoredEncrypted, App
  <2>4. \A i : Done(b, i)' => Done(b, i)
    BY <1>11, <2>1 DEF StoreObject, Done
  <2>5. Written(b) => Written(b)'
    BY <1>2, <1>5, <2>1, <2>2, <2>3, <2>4 DEF Written, App, StoredEncrypted
  <2> QED BY <1>6, <1>11, <2>1, <2>5 DEF StoreObject
<1>12. CASE IndexDocument(b)
  <2>1. /\ batch'[b].app = a /\ batch'[b].docs = batch[b].docs
        /\ \A c \in Batches : c # b => batch'[c] = batch[c]
        /\ \/ AtLast(b) /\ batch'[b].pc = "registering"
           \/ batch'[b].pc = "storing" /\ batch'[b].next = batch[b].next + 1
    BY <1>2, <1>12 DEF IndexDocument, TypeOK
  <2>2. App(b)' = a
    BY <2>1 DEF App
  <2>3. Indexed(a, d)'
    BY <1>2, <1>4, <1>12 DEF IndexDocument, Indexed, App
  <2>4. Written(b) => Kept(a, d)'
    BY <1>2, <1>4, <1>12, <2>3 DEF IndexDocument, Written, Kept, StoredEncrypted, App
  <2>5. ASSUME NEW i \in 1..Len(batch[b].docs), Done(b, i)'
        PROVE  Done(b, i) \/ batch[b].docs[i] = d
    BY <1>2, <1>4, <1>12, <2>1, <2>5 DEF IndexDocument, Done, AtLast, Current
  <2>6. ASSUME Written(b), NEW i \in 1..Len(batch[b].docs), Done(b, i)'
        PROVE  Kept(a, batch[b].docs[i])'
    <3>1. PICK k \in Docs : k = batch[b].docs[i]
      BY <1>2
    <3>2. k = d \/ Kept(a, k)
      BY <1>2, <2>5, <2>6, <3>1 DEF Written, App
    <3>3. Kept(a, k)'
      BY <1>5, <2>4, <2>6, <3>2
    <3>4. batch'[b].docs[i] = k
      BY <2>1, <3>1
    <3> QED BY <3>3, <3>4 DEF Kept, Indexed, StoredEncrypted
  <2>7. Written(b) => Written(b)'
    BY <2>1, <2>2, <2>6 DEF Written, Kept, Indexed, StoredEncrypted
  <2> QED BY <1>6, <1>12, <2>1, <2>7 DEF IndexDocument
<1>13. CASE RegisterDocument(b)
  <2>1. /\ batch'[b].pc \in {"registering", "freezing"}
        /\ batch'[b].app = a /\ batch'[b].docs = batch[b].docs
        /\ \A c \in Batches : c # b => batch'[c] = batch[c]
    <3>1. CASE AtLast(b)
      BY <1>1, <1>2, <1>13, <3>1, GotoTypes DEF RegisterDocument, BatchStages
    <3>2. CASE ~ AtLast(b)
      BY <1>1, <1>2, <1>13, <3>2, AdvanceTypes DEF RegisterDocument
    <3> QED BY <3>1, <3>2
  <2>2. \A i \in 1..Len(batch[b].docs) : Done(b, i)
    BY <1>13 DEF RegisterDocument, Done
  <2>3. Written(b) => Kept(a, d)
    BY <1>2, <1>4, <2>2 DEF Written, Current, App
  <2>4. \A k \in Docs : Active(a, k)' => Active(a, k) \/ k = d
    <3>1. records' = Registry!RecordsAfterRegister(a, d, d, policy)
      BY <1>2, <1>4, <1>13 DEF RegisterDocument, App
    <3>2. \A k \in Docs : k # d => records'[a][k] = records[a][k]
      BY <1>2, <3>1 DEF Registry!RecordsAfterRegister, TypeOK
    <3> QED BY <3>2 DEF Active
  <2>5. Written(b) => Written(b)'
    <3>1. UNCHANGED <<points, objects>>
      BY <1>13 DEF RegisterDocument
    <3> QED BY <1>2, <2>1, <2>2, <3>1 DEF Written, Kept, Indexed, StoredEncrypted, App
  <2>6. ~ overlap[a] /\ Written(b) => \A k \in Docs : Active(a, k)' => Active(a, k) \/ Kept(a, k)
    BY <2>3, <2>4
  <2>7. ~ OnlyFreezes(b)
    BY <1>13 DEF RegisterDocument
  <2> QED BY <1>1, <1>2, <1>3, <2>1, <2>5, <2>6, <2>7, BatchAdds
<1>14. CASE CheckOwnership(b)
  <2>1. CASE Leave(b)
    BY <1>7, <1>14, <2>1, LeaveTypes DEF CheckOwnership
  <2>2. CASE Goto(b, "inserting")
    <3>1. OnlyFreezes(b)' /\ \A c \in Batches : c # b => batch'[c] = batch[c]
      BY <1>1, <2>2, GotoTypes DEF BatchStages
    <3> QED BY <1>7, <1>14, <3>1 DEF CheckOwnership
  <2> QED BY <1>14, <2>1, <2>2 DEF CheckOwnership
<1>15. CASE InsertSet(b)
  BY <1>7, <1>15, LeaveTypes DEF InsertSet
<1>16. CASE FailBatch(b)
  BY <1>7, <1>16, LeaveTypes DEF FailBatch
<1> QED BY <1>8, <1>9, <1>10, <1>11, <1>12, <1>13, <1>14, <1>15, <1>16 DEF BatchStep

\* A deletion that takes a step is in flight.
LEMMA DeletionTypes ==
  ASSUME TypeOK, NEW x \in Deletions, DeletionStep(x)
  PROVE  deletion[x] \in [pc: DeletionStages, app: Apps]
BY DEF DeletionStep, DeleteRecords, DeletePoints, DeleteActiveObjects,
       DeleteQuarantinedObjects, FailDeletion, IdleDeletion, TypeOK

\* The step of a deletion leaves the other applications alone.
LEMMA DeletionElsewhere ==
  ASSUME TypeOK, NEW x \in Deletions, DeletionStep(x), NEW a \in Apps, a # deletion[x].app
  PROVE  SameStores(a) /\ SameTasks(a)
<1> USE DEF stores, history
<1>1. deletion[x] \in [pc: DeletionStages, app: Apps]
  BY DeletionTypes
<1>2. UNCHANGED batch
  BY DEF DeletionStep, DeleteRecords, DeletePoints, DeleteActiveObjects,
         DeleteQuarantinedObjects, FailDeletion
<1>3. \A y \in Deletions : deletion'[y].app = a => deletion'[y] = deletion[y]
  <2>1. deletion' = [deletion EXCEPT ![x] = IdleDeletion] \/ \E pc : GotoDeletion(x, pc)
    BY DEF DeletionStep, DeleteRecords, DeletePoints, DeleteActiveObjects,
           DeleteQuarantinedObjects, FailDeletion
  <2>2. CASE deletion' = [deletion EXCEPT ![x] = IdleDeletion]
    BY <2>2, AbsenceAssumption DEF IdleDeletion, TypeOK
  <2>3. CASE \E pc : GotoDeletion(x, pc)
    BY <1>1, <2>3 DEF GotoDeletion, TypeOK
  <2> QED BY <2>1, <2>2, <2>3
<1>4. overlap'[a] = overlap[a] /\ erased'[a] = erased[a]
  BY <1>1 DEF DeletionStep, DeleteRecords, DeletePoints, DeleteActiveObjects,
              DeleteQuarantinedObjects, FailDeletion, TypeOK
<1>5. records'[a] = records[a]
  BY <1>1 DEF DeletionStep, DeleteRecords, DeletePoints, DeleteActiveObjects,
              DeleteQuarantinedObjects, FailDeletion, TypeOK, Registry!RecordsAfterDelete
<1>6. \A c \in Chunks : <<a, c>> \in points' <=> <<a, c>> \in points
  BY DEF DeletionStep, DeleteRecords, DeletePoints, DeleteActiveObjects,
         DeleteQuarantinedObjects, FailDeletion
<1>7. \A d \in Docs, state \in {"active", "quarantined"} :
        <<state, a, d>> \in objects' <=> <<state, a, d>> \in objects
  <2>1. UNCHANGED objects
        \/ \E state \in {"active", "quarantined"} :
             \E gone \in SUBSET Objects(state, deletion[x].app) : objects' = objects \ gone
    BY DEF DeletionStep, DeleteRecords, DeletePoints, DeleteActiveObjects,
           DeleteQuarantinedObjects, FailDeletion
  <2> QED BY <2>1 DEF Objects
<1> QED BY <1>2, <1>3, <1>4, <1>5, <1>6, <1>7 DEF SameStores, SameTasks

\* A deletion that only removes, and only what no active record needs, leaves
\* the rest of the invariant true.
LEMMA DeletionRemoves ==
  ASSUME TypeOK, TypeOK', NEW x \in Deletions, NEW a \in Apps, a = deletion[x].app,
         AppInv(a), records'[a] = records[a], points' \subseteq points,
         objects' \subseteq objects, UNCHANGED <<batch, overlap>>,
         \A y \in Deletions : y # x => deletion'[y] = deletion[y],
         (UNCHANGED <<points, objects>> \/ deletion[x].pc # "records"),
         ~ overlap[a] /\ Removed(x, a) /\ deletion'[x].app = a => Removed(x, a)'
  PROVE  /\ overlap'[a] \/ Undisputed(a)'
         /\ Gone(a) => Gone(a)'
<1>1. ASSUME ~ overlap[a]
      PROVE  Undisputed(a)'
  <2>1. Undisputed(a) /\ Removed(x, a)
    BY <1>1 DEF AppInv, Undisputed
  <2>2. ~ BatchInFlight(a) /\ ~ BatchInFlight(a)'
    BY <2>1 DEF Undisputed, BatchInFlight, DeletionInFlight, OnlyFreezes
  <2>3. \A d \in Docs : Active(a, d)' => Kept(a, d)'
    BY <2>1 DEF Undisputed, Removed, Active, Kept, Indexed, StoredEncrypted
  <2>4. ASSUME NEW y \in Deletions, y # x, deletion'[y].app = a
        PROVE  Removed(y, a)'
    BY <2>1, <2>4 DEF Undisputed, Removed, Active, StoredEncrypted
  <2>5. \A b \in Batches : batch'[b].app = a => Written(b)'
    BY <2>2 DEF BatchInFlight, OnlyFreezes, Written, Done
  <2> QED BY <1>1, <2>1, <2>2, <2>3, <2>4, <2>5 DEF Undisputed
<1>2. Gone(a) => Gone(a)'
  BY DEF Gone, BatchInFlight, OnlyFreezes, Active
<1> QED BY <1>1, <1>2

\* The step of a deletion keeps the invariant of its own application.
LEMMA DeletionHere ==
  ASSUME TypeOK, TypeOK', NEW x \in Deletions, DeletionStep(x), NEW a, a = deletion[x].app,
         AppInv(a)
  PROVE  AppInv(a)'
<1> USE DEF stores, history
<1>1. deletion[x] \in [pc: DeletionStages, app: Apps] /\ a \in Apps
  BY DeletionTypes
<1>2. CASE DeleteRecords(x)
  <2>1. /\ deletion'[x].pc = "points" /\ deletion'[x].app = a
        /\ \A y \in Deletions : y # x => deletion'[y] = deletion[y]
    BY <1>1, <1>2 DEF DeleteRecords, GotoDeletion, TypeOK
  <2>2. \A d \in Docs : ~ Active(a, d)'
    <3>1. ASSUME NEW d \in Docs
          PROVE  records'[a][d] = IF d \in Registry!Live(a)
                                    THEN [records[a][d] EXCEPT !.state = "deleted"]
                                    ELSE records[a][d]
      BY <1>1, <1>2 DEF DeleteRecords, Registry!RecordsAfterDelete, TypeOK
    <3>2. ASSUME NEW d \in Docs, d \in Registry!Live(a)
          PROVE  records'[a][d].state = "deleted"
      <4>1. records[a][d] \in Registry!DocumentRecord
        BY <1>1, <3>2 DEF TypeOK, Registry!Live
      <4> QED BY <3>1, <3>2, <4>1 DEF Registry!DocumentRecord
    <3>3. ASSUME NEW d \in Docs, d \notin Registry!Live(a)
          PROVE  records'[a][d] = None \/ records'[a][d].state = "deleted"
      BY <3>1, <3>3 DEF Registry!Live
    <3> QED BY <3>2, <3>3 DEF Active
  <2>3. UNCHANGED <<points, objects, batch, erased>>
    BY <1>2 DEF DeleteRecords
  <2>4. ~ overlap'[a] => ~ BatchInFlight(a)
    <3>1. DeletionInFlight(a)
      BY DEF DeletionInFlight
    <3>2. overlap'[a] <=> (overlap[a] /\ (BatchInFlight(a)
            \/ \E y \in Deletions \ {x} : deletion[y].app = a))
      BY <1>1, <1>2 DEF DeleteRecords, TypeOK
    <3> QED BY <3>1, <3>2 DEF AppInv, Undisputed
  <2>5. \A y \in Deletions : deletion'[y].app = a /\ ~ overlap'[a] => Removed(y, a)'
    <3>1. Removed(x, a)'
      BY <2>1, <2>2 DEF Removed
    <3>2. ASSUME NEW y \in Deletions, y # x, deletion'[y].app = a, ~ overlap'[a]
          PROVE  Removed(y, a)'
      <4>1. ~ overlap[a]
        BY <1>1, <1>2, <2>1, <3>2 DEF DeleteRecords, TypeOK
      <4>2. Removed(y, a)
        BY <2>1, <3>2, <4>1 DEF AppInv, Undisputed
      <4> QED BY <2>1, <2>2, <2>3, <3>2, <4>2 DEF Removed, StoredEncrypted
    <3> QED BY <3>1, <3>2
  <2>6. ~ overlap'[a] => Undisputed(a)'
    <3> SUFFICES ASSUME ~ overlap'[a] PROVE Undisputed(a)'
      OBVIOUS
    <3>1. ~ BatchInFlight(a)'
      BY <2>3, <2>4 DEF BatchInFlight, OnlyFreezes
    <3>2. \A b \in Batches : batch'[b].app = a => Written(b)'
      BY <3>1 DEF BatchInFlight, OnlyFreezes, Written, Done
    <3> QED BY <2>2, <2>5, <3>1, <3>2 DEF Undisputed
  <2>7. Gone(a) => Gone(a)'
    BY <2>2, <2>3 DEF Gone, BatchInFlight, OnlyFreezes
  <2> QED BY <2>3, <2>6, <2>7 DEF AppInv
<1>3. CASE DeletePoints(x)
  <2>1. /\ deletion[x].pc = "points" /\ deletion'[x].pc = "active"
        /\ \A y \in Deletions : y # x => deletion'[y] = deletion[y]
    BY <1>1, <1>3 DEF DeletePoints, GotoDeletion, TypeOK
  <2>2. Removed(x, a) => Removed(x, a)'
    BY <1>3, <2>1 DEF DeletePoints, Removed, Active
  <2> QED BY <1>1, <1>3, <2>1, <2>2, DeletionRemoves DEF DeletePoints, AppInv
<1>4. CASE DeleteActiveObjects(x)
  <2>1. /\ deletion[x].pc = "active" /\ deletion'[x].pc = "quarantined"
        /\ \A y \in Deletions : y # x => deletion'[y] = deletion[y]
    BY <1>1, <1>4 DEF DeleteActiveObjects, GotoDeletion, TypeOK
  <2>2. Removed(x, a) => Removed(x, a)'
    BY <1>4, <2>1 DEF DeleteActiveObjects, Removed, Active, StoredEncrypted, Objects
  <2> QED BY <1>1, <1>4, <2>1, <2>2, DeletionRemoves DEF DeleteActiveObjects, AppInv
<1>5. CASE DeleteQuarantinedObjects(x)
  <2>1. /\ deletion[x].pc = "quarantined" /\ deletion'[x].app # a
        /\ \A y \in Deletions : y # x => deletion'[y] = deletion[y]
    BY <1>1, <1>5, AbsenceAssumption DEF DeleteQuarantinedObjects, IdleDeletion, TypeOK
  <2>2. (overlap'[a] \/ Undisputed(a)') /\ (Gone(a) => Gone(a)')
    BY <1>1, <1>5, <2>1, DeletionRemoves DEF DeleteQuarantinedObjects
  <2>3. ASSUME ~ overlap[a]
        PROVE  Gone(a)'
    <3>1. Undisputed(a) /\ Removed(x, a) /\ ~ BatchInFlight(a)
      BY <2>3 DEF AppInv, Undisputed, DeletionInFlight
    <3> QED BY <1>5, <2>1, <3>1
        DEF DeleteQuarantinedObjects, Gone, Removed, BatchInFlight, OnlyFreezes, Active, StoredEncrypted, Objects
  <2>4. erased'[a] => erased[a] \/ ~ overlap[a]
    BY <1>1, <1>5 DEF DeleteQuarantinedObjects, TypeOK
  <2> QED BY <2>2, <2>3, <2>4 DEF AppInv
<1>6. CASE FailDeletion(x)
  <2>1. /\ deletion'[x].app # a
        /\ \A y \in Deletions : y # x => deletion'[y] = deletion[y]
    BY <1>1, <1>6, AbsenceAssumption DEF FailDeletion, IdleDeletion, TypeOK
  <2>2. objects' \subseteq objects /\ (UNCHANGED objects \/ deletion[x].pc # "records")
    BY <1>6 DEF FailDeletion, Objects
  <2> QED BY <1>1, <1>6, <2>1, <2>2, DeletionRemoves DEF FailDeletion, AppInv
<1> QED BY <1>2, <1>3, <1>4, <1>5, <1>6 DEF DeletionStep

\* A batch that begins marks the deletion it overlaps.
LEMMA SubmitKeeps ==
  ASSUME TypeOK, TypeOK', NEW b \in Batches, NEW a \in Apps, NEW request \in Requests,
         Submit(b, a, request), NEW k \in Apps, AppInv(k)
  PROVE  AppInv(k)'
<1> USE DEF stores
<1>1. /\ \A c \in Batches : c # b => batch'[c] = batch[c]
      /\ batch'[b] = [pc |-> "scanning", app |-> a, docs |-> request, next |-> 1]
      /\ UNCHANGED <<deletion, records, points, objects>>
  BY DEF Submit, TypeOK
<1>2. CASE k # a
  <2>1. SameStores(k) /\ SameTasks(k)
    BY <1>1, <1>2 DEF Submit, TypeOK, SameStores, SameTasks
  <2> QED BY <2>1, Untouched
<1>3. CASE k = a
  <2>1. ~ erased'[k] /\ (overlap'[k] <=> overlap[k] \/ DeletionInFlight(k))
    BY <1>3 DEF Submit, TypeOK
  <2>2. ASSUME ~ overlap'[k]
        PROVE  Undisputed(k)'
    <3>1. Undisputed(k) /\ ~ DeletionInFlight(k) /\ ~ DeletionInFlight(k)'
      BY <1>1, <2>1, <2>2 DEF AppInv, DeletionInFlight
    <3>2. \A d : /\ Active(k, d)' <=> Active(k, d)
                 /\ Kept(k, d)' <=> Kept(k, d)
      BY <1>1 DEF Active, Kept, Indexed, StoredEncrypted
    <3>3. Written(b)'
      BY <1>1 DEF Written, Done
    <3>4. ASSUME NEW c \in Batches, c # b, batch'[c].app = k
          PROVE  Written(c)'
      BY <1>1, <3>1, <3>4
      DEF Undisputed, Written, Done, Kept, Indexed, StoredEncrypted, App, Current
    <3> QED BY <3>1, <3>2, <3>3, <3>4 DEF Undisputed, DeletionInFlight
  <2> QED BY <2>1, <2>2 DEF AppInv
<1> QED BY <1>2, <1>3

\* Recording a set outside a batch touches no store of the invariant.
LEMMA SubmitSetKeeps ==
  ASSUME TypeOK, TypeOK', NEW b \in Batches, NEW a \in Apps, NEW request \in Requests,
         SubmitSet(b, a, request), NEW k \in Apps, AppInv(k)
  PROVE  AppInv(k)'
<1>1. \A c \in Batches : batch'[c] = batch[c] \/ OnlyFreezes(c)'
  BY DEF SubmitSet, TypeOK, OnlyFreezes
<1>2. SameStores(k) /\ SameTasks(k)
  BY <1>1 DEF SubmitSet, SameStores, SameTasks, stores, history
<1> QED BY <1>2, Untouched

\* The same for a deletion that begins.
LEMMA StartDeletionKeeps ==
  ASSUME TypeOK, TypeOK', NEW x \in Deletions, NEW a \in Apps, StartDeletion(x, a),
         NEW k \in Apps, AppInv(k)
  PROVE  AppInv(k)'
<1> USE DEF stores
<1>1. /\ \A y \in Deletions : y # x => deletion'[y] = deletion[y]
      /\ deletion'[x] = [pc |-> "records", app |-> a]
      /\ UNCHANGED <<batch, records, points, objects, erased>>
  BY DEF StartDeletion, TypeOK
<1>2. CASE k # a
  <2>1. SameStores(k) /\ SameTasks(k)
    BY <1>1, <1>2 DEF StartDeletion, TypeOK, SameStores, SameTasks
  <2> QED BY <2>1, Untouched
<1>3. CASE k = a
  <2>1. overlap'[k] <=> overlap[k] \/ BatchInFlight(k)
    BY <1>3 DEF StartDeletion, TypeOK
  <2>2. ASSUME ~ overlap'[k]
        PROVE  Undisputed(k)'
    <3>1. Undisputed(k) /\ ~ BatchInFlight(k) /\ ~ BatchInFlight(k)'
      BY <1>1, <2>1, <2>2 DEF AppInv, BatchInFlight, OnlyFreezes
    <3>2. \A d : /\ Active(k, d)' <=> Active(k, d)
                 /\ Kept(k, d)' <=> Kept(k, d)
      BY <1>1 DEF Active, Kept, Indexed, StoredEncrypted
    <3>3. \A y \in Deletions : deletion'[y].app = k => Removed(y, k)'
      BY <1>1, <3>1 DEF Undisputed, Removed, Active, StoredEncrypted
    <3>4. \A b \in Batches : batch'[b].app = k => Written(b)'
      BY <3>1 DEF BatchInFlight, OnlyFreezes, Written, Done
    <3> QED BY <3>1, <3>2, <3>3, <3>4 DEF Undisputed
  <2>3. Gone(k) => Gone(k)'
    BY <1>1 DEF Gone, BatchInFlight, OnlyFreezes, Active
  <2> QED BY <1>1, <2>2, <2>3 DEF AppInv
<1> QED BY <1>2, <1>3

\* A restart ends every task and leaves the stores as they are.
LEMMA RestartKeeps ==
  ASSUME TypeOK, TypeOK', NEW p \in Policies, Restart(p), NEW k \in Apps, AppInv(k)
  PROVE  AppInv(k)'
<1>1. SameStores(k) /\ SameTasks(k)
  BY AbsenceAssumption
  DEF Restart, SameStores, SameTasks, stores, history, IdleBatch, IdleDeletion
<1> QED BY <1>1, Untouched

\* Every step keeps the invariant of every application.
LEMMA StoresStep == TypeOK /\ StoresInv /\ [Next]_vars => StoresInv'
<1> SUFFICES ASSUME TypeOK, StoresInv, [Next]_vars, NEW k \in Apps
             PROVE  AppInv(k)'
  BY DEF StoresInv
<1>1. TypeOK' /\ AppInv(k)
  BY StepTypes DEF StoresInv
<1>2. ASSUME UNCHANGED <<stores, batch, deletion, history>>
      PROVE  AppInv(k)'
  <2>1. SameStores(k) /\ SameTasks(k)
    BY <1>2 DEF SameStores, SameTasks, stores, history
  <2> QED BY <1>1, <2>1, Untouched
<1>3. ASSUME NEW b \in Batches, BatchStep(b)
      PROVE  AppInv(k)'
  <2>1. CASE k = App(b)
    BY <1>1, <1>3, <2>1, BatchHere
  <2>2. CASE k # App(b)
    BY <1>1, <1>3, <2>2, BatchElsewhere, Untouched
  <2> QED BY <2>1, <2>2
<1>4. ASSUME NEW x \in Deletions, DeletionStep(x)
      PROVE  AppInv(k)'
  <2>1. CASE k = deletion[x].app
    BY <1>1, <1>4, <2>1, DeletionHere
  <2>2. CASE k # deletion[x].app
    BY <1>1, <1>4, <2>2, DeletionElsewhere, Untouched
  <2> QED BY <2>1, <2>2
<1>5. ASSUME NEW e \in Extractions,
             \/ \E a \in Apps, docs \in SUBSET Docs, contract \in {"2.0", "2.1"} :
                  Authorize(e, a, docs, contract)
             \/ Scroll(e) \/ EndExtraction(e)
      PROVE  AppInv(k)'
  BY <1>2, <1>5 DEF Authorize, Scroll, EndExtraction
<1>6. CASE UNCHANGED vars
  BY <1>2, <1>6 DEF vars
<1> QED BY <1>1, <1>3, <1>4, <1>5, <1>6, SubmitKeeps, SubmitSetKeeps, StartDeletionKeeps,
        RestartKeeps DEF Next

\* It holds of empty stores ...
LEMMA StoresInit == Init => StoresInv
BY AbsenceAssumption
DEF Init, StoresInv, AppInv, Undisputed, BatchInFlight, DeletionInFlight, Active,
    IdleBatch, IdleDeletion

\* ... and so it always does.
LEMMA StoresAlways == Spec => []StoresInv
BY StoresInit, StoresStep, TypeCorrect, PTL DEF Spec

\* Without an overlap, a document the registry calls active always has its chunks
\* and its encrypted object, whatever fails and wherever the process stops.
THEOREM ActiveDocumentsAreComplete == Spec => []ActiveIsComplete
<1>1. TypeOK /\ StoresInv => ActiveIsComplete
  BY DEF StoresInv, AppInv, Undisputed, Kept, ActiveIsComplete
<1> QED BY <1>1, TypeCorrect, StoresAlways, PTL

LEMMA ErasedFromInv == TypeOK /\ StoresInv => ErasedIsGone
<1> SUFFICES ASSUME TypeOK, StoresInv, NEW a \in Apps, erased[a],
                    NEW o \in objects, o[2] = a
             PROVE  FALSE
  BY DEF StoresInv, AppInv, Gone, ErasedIsGone
<1>1. PICK state \in {"active", "quarantined"}, d \in Docs : o = <<state, a, d>>
  BY DEF TypeOK
<1> QED BY <1>1 DEF StoresInv, AppInv, Gone

\* A deletion that answered and overlapped no batch has left no active record, no
\* chunk and no encrypted object behind (retention_delete).
THEOREM ErasedApplicationsAreGone == Spec => []ErasedIsGone
BY ErasedFromInv, TypeCorrect, StoresAlways, PTL

\* An extraction begins only where it is authorized.
LEMMA OnlyAuthorizeBegins ==
  ASSUME TypeOK, [Next]_vars, NEW e \in Extractions,
         extraction[e].pc = "idle", extraction'[e].pc = "scrolling"
  PROVE  \E a \in Apps, docs \in SUBSET Docs, contract \in {"2.0", "2.1"} :
           Authorize(e, a, docs, contract)
<1> USE DEF IdleExtraction
<1>1. extraction'[e].pc # extraction[e].pc
  OBVIOUS
<1>2. ASSUME NEW f \in Extractions, NEW r, extraction' = [extraction EXCEPT ![f] = r]
      PROVE  f = e /\ extraction'[e] = r
  BY <1>1, <1>2 DEF TypeOK
<1>3. ASSUME NEW f \in Extractions, Scroll(f) PROVE FALSE
  <2>1. extraction[f].pc = "scrolling"
    BY <1>3 DEF Scroll
  <2>2. \A g \in Extractions \ {f} : extraction'[g] = extraction[g]
    BY <1>3 DEF Scroll, TypeOK
  <2> QED BY <1>1, <2>1, <2>2
<1>4. ASSUME NEW f \in Extractions, EndExtraction(f) PROVE FALSE
  <2>1. extraction' = [extraction EXCEPT ![f] = IdleExtraction]
    BY <1>4 DEF EndExtraction
  <2> QED BY <1>2, <2>1
<1>5. ASSUME NEW x \in Deletions, DeletePoints(x) PROVE FALSE
  <2>1. extraction'[e].pc = extraction[e].pc
    BY <1>5 DEF DeletePoints, Disturbed, TypeOK
  <2> QED BY <1>1, <2>1
<1>6. ASSUME NEW p \in Policies, Restart(p) PROVE FALSE
  BY <1>6 DEF Restart
<1>7. ASSUME NEW f \in Extractions, NEW a \in Apps, NEW docs \in SUBSET Docs,
             NEW contract \in {"2.0", "2.1"}, Authorize(f, a, docs, contract)
      PROVE  f = e
  BY <1>2, <1>7 DEF Authorize
<1>8. UNCHANGED extraction => FALSE
  BY <1>1
<1>9. ASSUME NEW b \in Batches, BatchStep(b) \/ \E a \in Apps, request \in Requests :
                                  Submit(b, a, request) \/ SubmitSet(b, a, request)
      PROVE  UNCHANGED extraction
  BY <1>9 DEF BatchStep, ScanClean, ScanUnsafe, EnterIngestion, StoreObject, IndexDocument,
              RegisterDocument, CheckOwnership, InsertSet, FailBatch, Submit, SubmitSet
<1>10. ASSUME NEW x \in Deletions, DeletionStep(x) \/ \E a \in Apps : StartDeletion(x, a)
      PROVE  UNCHANGED extraction \/ DeletePoints(x)
  BY <1>10 DEF DeletionStep, DeleteRecords, DeleteActiveObjects, DeleteQuarantinedObjects,
               FailDeletion, StartDeletion
<1>11. CASE UNCHANGED vars
  BY <1>8, <1>11 DEF vars
<1>12. CASE Next
  <2>1. \E f \in Extractions, a \in Apps, docs \in SUBSET Docs, contract \in {"2.0", "2.1"} :
          Authorize(f, a, docs, contract)
    BY <1>3, <1>4, <1>5, <1>6, <1>8, <1>9, <1>10, <1>12 DEF Next
  <2> QED BY <1>7, <2>1
<1> QED BY <1>11, <1>12

\* Nothing is in scope of an erased application.
LEMMA ErasedOutOfScope ==
  ASSUME ErasedIsGone, NEW a \in Apps, erased[a], NEW docs \in SUBSET Docs,
         NEW contract, InScope(a, docs, contract)
  PROVE  FALSE
<1>1. PICK d \in docs : Registry!IsOwned(a, d, policy)
  BY DEF InScope, Registry!Owns
<1>2. Active(a, d)
  BY <1>1 DEF Registry!IsOwned, Active
<1> QED BY <1>2 DEF ErasedIsGone

\* No extraction of an erased application is authorized before its next batch,
\* whatever sets are on record (DocumentSetStore.put and get).
THEOREM ErasedApplicationsStayUnread == Spec => NoScopeAfterErasure
<1>1. TypeOK /\ StoresInv => ErasedIsGone
  BY ErasedFromInv
<1>2. ASSUME TypeOK, ErasedIsGone, [Next]_vars, NEW e \in Extractions,
             extraction[e].pc = "idle", extraction'[e].pc = "scrolling"
      PROVE  ~ erased[extraction'[e].app]
  <2>1. \E a \in Apps, docs \in SUBSET Docs, contract \in {"2.0", "2.1"} :
          Authorize(e, a, docs, contract)
    BY <1>2, OnlyAuthorizeBegins
  <2>2. PICK a \in Apps, docs \in SUBSET Docs, contract \in {"2.0", "2.1"} :
          Authorize(e, a, docs, contract)
    BY <2>1
  <2>3. extraction'[e].app = a /\ InScope(a, docs, contract)
    BY <1>2, <2>2 DEF Authorize, TypeOK
  <2> QED BY <1>2, <2>3, ErasedOutOfScope
<1>3. TypeOK /\ StoresInv /\ [Next]_vars
        => [\A e \in Extractions :
              extraction[e].pc = "idle" /\ extraction'[e].pc = "scrolling"
                => ~ erased[extraction'[e].app]]_vars
  BY <1>1, <1>2
<1> QED BY <1>3, TypeCorrect, StoresAlways, PTL DEF Spec, NoScopeAfterErasure

-----------------------------------------------------------------------------
(* Complete answers.                                                          *)

\* The n smallest records of a set come before the others.
LEMMA SmallestComeFirst ==
  ASSUME NEW S, S \subseteq Nat, IsFiniteSet(S), NEW n \in Int,
         NEW c \in Smallest(S, n), NEW m \in S \ Smallest(S, n)
  PROVE  c < m
<1>1. c \in Nat /\ m \in Nat
  BY DEF Smallest
<1> SUFFICES ASSUME m <= c PROVE FALSE
  BY <1>1
<1> DEFINE Below(j) == {k \in S : k < j}
<1>2. Below(m) \subseteq Below(c)
  <2>1. \A k \in S : k < m => k < c
    BY <1>1
  <2> QED BY <2>1
<1>3. IsFiniteSet(Below(c)) /\ IsFiniteSet(Below(m))
  <2>1. Below(c) \subseteq S /\ Below(m) \subseteq S  OBVIOUS
  <2> HIDE DEF Below
  <2> QED BY <2>1, FS_Subset
<1>4. Cardinality(Below(m)) \in Nat /\ Cardinality(Below(c)) \in Nat
      /\ Cardinality(Below(m)) <= Cardinality(Below(c))
  <2> HIDE DEF Below
  <2> QED BY <1>2, <1>3, FS_Subset, FS_CardinalityType
<1>5. Cardinality(Below(c)) < n /\ ~ (Cardinality(Below(m)) < n)
  BY DEF Smallest
<1> HIDE DEF Below
<1> QED BY <1>4, <1>5

Scope(docs) == {c \in Chunks : ChunkDoc[c] \in docs}

\* An undisturbed scroll r has every chunk of its scope before its offset, and
\* those from the offset on are still indexed.
ScrollOK(r, indexed) ==
  r.pc = "scrolling" /\ ~ r.disturbed =>
    /\ \A c \in Scope(r.docs) : <<r.app, c>> \in indexed
    /\ r.found = {c \in Scope(r.docs) : c < r.offset}
AnswerOK(r) == r.pc = "answered" /\ ~ r.disturbed => r.found = Scope(r.docs)

CompleteInv == \A e \in Extractions : ScrollOK(extraction[e], points) /\ AnswerOK(extraction[e])

\* One page of an undisturbed scroll.
LEMMA PageOfUndisturbed ==
  ASSUME TypeOK, NEW e \in Extractions, ScrollOK(extraction[e], points),
         extraction[e].pc = "scrolling", ~ extraction[e].disturbed
  PROVE  /\ Rest(e) = {} => Found(e) = Scope(extraction[e].docs)
         /\ Rest(e) # {} => Found(e) = {c \in Scope(extraction[e].docs) : c < Least(Rest(e))}
<1>1. extraction[e] \in [pc: {"scrolling", "answered"}, app: Apps, docs: SUBSET Docs,
        offset: Nat, found: SUBSET Chunks, disturbed: BOOLEAN]
  BY DEF TypeOK, IdleExtraction
<1>2. Remaining(e) = {c \in Scope(extraction[e].docs) : c >= extraction[e].offset}
  BY DEF ScrollOK, Remaining, Scope
<1>3. extraction[e].found = {c \in Scope(extraction[e].docs) : c < extraction[e].offset}
  BY DEF ScrollOK
<1>4. \A c \in Scope(extraction[e].docs) : c \in Nat
  BY ChunkAssumption DEF Scope
<1>5. Found(e) \cup Rest(e) = Scope(extraction[e].docs)
  BY <1>1, <1>2, <1>3, <1>4 DEF Found, Rest, Page, Smallest
<1>6. ASSUME Rest(e) # {}
      PROVE  Found(e) = {c \in Scope(extraction[e].docs) : c < Least(Rest(e))}
  <2> DEFINE m == Least(Rest(e))
             n == Lesser(PageLimit, MaxChunks + 1 - Cardinality(extraction[e].found))
  <2>1. m \in Rest(e) /\ \A c \in Rest(e) : m <= c
    BY <1>6, ScrollFinds
  <2>2. n \in Int
    <3>1. Cardinality(extraction[e].found) \in Nat
      BY <1>1, ChunkAssumption, FS_Subset, FS_CardinalityType
    <3> QED BY <3>1, LimitAssumption DEF Lesser
  <2>3. Remaining(e) \subseteq Nat /\ IsFiniteSet(Remaining(e))
    BY ChunkAssumption, FS_Subset DEF Remaining
  <2>4. Page(e) = Smallest(Remaining(e), n) /\ m \in Remaining(e) \ Smallest(Remaining(e), n)
    BY <2>1 DEF Page, Rest
  <2> HIDE DEF m, n
  <2>5. \A c \in Page(e) : c < m
    BY <2>2, <2>3, <2>4, SmallestComeFirst
  <2>6. m \in Nat /\ m >= extraction[e].offset
    BY <1>2, <1>4, <2>4
  <2>7. \A c \in Found(e) : c < m
    BY <1>1, <1>3, <1>4, <2>5, <2>6 DEF Found
  <2>8. \A c \in Scope(extraction[e].docs) : c < m => c \in Found(e)
    BY <1>4, <1>5, <2>1, <2>6 DEF m
  <2> QED BY <1>5, <2>7, <2>8 DEF m
<1> QED BY <1>5, <1>6

\* A handler that leaves the index of undisturbed scrolls alone keeps CompleteInv.
LEMMA CompletenessKept ==
  ASSUME TypeOK, CompleteInv,
         \A e \in Extractions :
           \/ extraction'[e] = IdleExtraction
           \/ extraction'[e].disturbed
           \/ /\ extraction'[e] = extraction[e]
              /\ \A c \in Chunks : <<extraction[e].app, c>> \in points
                                     => <<extraction[e].app, c>> \in points'
  PROVE  CompleteInv'
BY DEF CompleteInv, ScrollOK, AnswerOK, Scope, IdleExtraction

\* An extraction starts with its documents active, hence indexed unless an
\* overlap disturbed them.
LEMMA AuthorizeCompletes ==
  ASSUME TypeOK, ActiveIsComplete, CompleteInv, NEW e \in Extractions, NEW a \in Apps,
         NEW docs \in SUBSET Docs, NEW contract, Authorize(e, a, docs, contract)
  PROVE  CompleteInv'
<1> DEFINE r == [pc |-> "scrolling", app |-> a, docs |-> docs, offset |-> 0,
                 found |-> {}, disturbed |-> overlap[a]]
<1>1. /\ extraction'[e] = r
      /\ \A f \in Extractions : f # e => extraction'[f] = extraction[f]
      /\ UNCHANGED points
  BY DEF Authorize, TypeOK, stores
<1>2. \A d \in docs : Active(a, d)
  BY DEF Authorize, InScope, Registry!Owns, Registry!IsOwned, Active
<1>3. ~ overlap[a] => \A c \in Scope(docs) : <<a, c>> \in points
  BY <1>2 DEF ActiveIsComplete, Indexed, ChunksOf, Scope
<1>4. {} = {c \in Scope(docs) : c < 0}
  <2>1. \A c \in Scope(docs) : c \in Nat
    BY ChunkAssumption DEF Scope
  <2>2. \A c \in Scope(docs) : ~ (c < 0)
    BY <2>1
  <2> QED BY <2>2
<1>5. ScrollOK(r, points) /\ AnswerOK(r)
  BY <1>3, <1>4 DEF ScrollOK, AnswerOK
<1> QED BY <1>1, <1>5 DEF CompleteInv

\* A page keeps CompleteInv, whichever way it ends.
LEMMA ScrollCompletes ==
  ASSUME TypeOK, CompleteInv, NEW e \in Extractions, Scroll(e)
  PROVE  CompleteInv'
<1>1. UNCHANGED points
  BY DEF Scroll, stores
<1>2. /\ extraction[e].pc = "scrolling"
      /\ extraction[e] \in [pc: {"scrolling", "answered"}, app: Apps, docs: SUBSET Docs,
           offset: Nat, found: SUBSET Chunks, disturbed: BOOLEAN]
  BY DEF Scroll, TypeOK, IdleExtraction
<1>3. ScrollOK(extraction[e], points)
  BY DEF CompleteInv
<1>4. ASSUME NEW r, ScrollOK(r, points), AnswerOK(r),
             extraction' = [extraction EXCEPT ![e] = r]
      PROVE  CompleteInv'
  <2>1. extraction'[e] = r /\ \A f \in Extractions : f # e => extraction'[f] = extraction[f]
    BY <1>4 DEF TypeOK
  <2> QED BY <1>1, <1>4, <2>1 DEF CompleteInv
<1>5. ScrollOK(IdleExtraction, points) /\ AnswerOK(IdleExtraction)
  BY DEF ScrollOK, AnswerOK, IdleExtraction
<1>6. ASSUME Rest(e) # {}
      PROVE  ScrollOK(Onward(e), points) /\ AnswerOK(Onward(e))
  <2>1. Onward(e).pc = "scrolling" /\ Onward(e).app = extraction[e].app
        /\ Onward(e).docs = extraction[e].docs /\ Onward(e).disturbed = extraction[e].disturbed
        /\ Onward(e).found = Found(e) /\ Onward(e).offset = Least(Rest(e))
    BY <1>2 DEF Onward
  <2>2. ~ extraction[e].disturbed =>
          /\ \A c \in Scope(extraction[e].docs) : <<extraction[e].app, c>> \in points
          /\ Found(e) = {c \in Scope(extraction[e].docs) : c < Least(Rest(e))}
    BY <1>2, <1>3, <1>6, PageOfUndisturbed DEF ScrollOK
  <2> QED BY <2>1, <2>2 DEF ScrollOK, AnswerOK
<1>7. ASSUME Rest(e) = {}
      PROVE  ScrollOK(Answer(e), points) /\ AnswerOK(Answer(e))
  <2>1. Answer(e).pc = "answered" /\ Answer(e).docs = extraction[e].docs
        /\ Answer(e).disturbed = extraction[e].disturbed /\ Answer(e).found = Found(e)
    BY <1>2 DEF Answer
  <2>2. ~ extraction[e].disturbed => Found(e) = Scope(extraction[e].docs)
    BY <1>2, <1>3, <1>7, PageOfUndisturbed
  <2> QED BY <2>1, <2>2 DEF ScrollOK, AnswerOK
<1> QED BY <1>4, <1>5, <1>6, <1>7, ScrollOutcomes

\* Every step keeps CompleteInv.
LEMMA CompleteStep ==
  TypeOK /\ ActiveIsComplete /\ CompleteInv /\ [Next]_vars => CompleteInv'
<1> SUFFICES ASSUME TypeOK, ActiveIsComplete, CompleteInv, [Next]_vars PROVE CompleteInv'
  OBVIOUS
<1> USE DEF stores
<1>1. ASSUME UNCHANGED extraction, points \subseteq points'
      PROVE  CompleteInv'
  BY <1>1, CompletenessKept
<1>2. ASSUME NEW x \in Deletions, DeletePoints(x)
      PROVE  CompleteInv'
  <2>1. \A e \in Extractions :
          extraction'[e] = IF extraction[e].app = deletion[x].app
                             THEN [extraction[e] EXCEPT !.disturbed = TRUE]
                             ELSE extraction[e]
    BY <1>2 DEF DeletePoints, Disturbed
  <2>2. \A e \in Extractions : [extraction[e] EXCEPT !.disturbed = TRUE].disturbed
    BY DEF TypeOK, IdleExtraction
  <2>3. \A e \in Extractions, c \in Chunks :
          extraction[e].app # deletion[x].app /\ <<extraction[e].app, c>> \in points
            => <<extraction[e].app, c>> \in points'
    BY <1>2 DEF DeletePoints
  <2> QED BY <2>1, <2>2, <2>3, CompletenessKept
<1>3. ASSUME NEW b \in Batches, BatchStep(b) \/ \E a \in Apps, request \in Requests :
                                  Submit(b, a, request) \/ SubmitSet(b, a, request)
      PROVE  CompleteInv'
  <2>1. UNCHANGED extraction /\ points \subseteq points'
    BY <1>3 DEF BatchStep, ScanClean, ScanUnsafe, EnterIngestion, StoreObject, IndexDocument,
                RegisterDocument, CheckOwnership, InsertSet, FailBatch, Submit, SubmitSet
  <2> QED BY <1>1, <2>1
<1>4. ASSUME NEW x \in Deletions, DeletionStep(x) \/ \E a \in Apps : StartDeletion(x, a)
      PROVE  CompleteInv'
  <2>1. DeletePoints(x) \/ UNCHANGED <<extraction, points>>
    BY <1>4 DEF DeletionStep, DeleteRecords, DeleteActiveObjects, DeleteQuarantinedObjects,
                FailDeletion, StartDeletion
  <2> QED BY <1>1, <1>2, <2>1
<1>5. ASSUME NEW e \in Extractions, EndExtraction(e)
      PROVE  CompleteInv'
  BY <1>5, CompletenessKept DEF EndExtraction, TypeOK
<1>6. ASSUME NEW p \in Policies, Restart(p)
      PROVE  CompleteInv'
  BY <1>6, CompletenessKept DEF Restart
<1>7. CASE UNCHANGED vars
  BY <1>1, <1>7 DEF vars
<1> QED BY <1>3, <1>4, <1>5, <1>6, <1>7, AuthorizeCompletes, ScrollCompletes DEF Next

\* An answer that no deletion disturbed rests on every chunk of its scope, for any
\* page size and bound, and whatever batches index between its pages.
THEOREM UndisturbedAnswersAreComplete == Spec => []UndisturbedIsComplete
<1>1. Init => CompleteInv
  BY DEF Init, CompleteInv, ScrollOK, AnswerOK, IdleExtraction
<1>2. CompleteInv => UndisturbedIsComplete
  BY DEF CompleteInv, AnswerOK, Scope, UndisturbedIsComplete
<1> QED BY <1>1, <1>2, CompleteStep, TypeCorrect, ActiveDocumentsAreComplete, PTL DEF Spec
=============================================================================
