------------------------- MODULE DocumentLifecycle -------------------------
(***************************************************************************)
(* The life of an application's documents in the production profile:       *)
(* ingestion batches, retention deletion and evidence extraction running   *)
(* concurrently in the API's thread pool over four durable stores that no  *)
(* transaction spans: the ownership registry and the document sets         *)
(* (Postgres), the chunk index (Qdrant) and the encrypted objects (files). *)
(*                                                                         *)
(* One step is one call to one store.  The API process may stop between    *)
(* any two steps and start again, possibly with another guardrail policy.  *)
(*                                                                         *)
(* A document's identifier is its SHA-256, so the registry's content       *)
(* conflict cannot occur here.  Chunks are numbered in the order Qdrant    *)
(* scrolls them (by point id).  Requests the service rejects before it     *)
(* touches a store are steps that change nothing and are left out, as are  *)
(* the service token, the answers' wording and the retrieval cache, which  *)
(* the production endpoints never read.                                    *)
(***************************************************************************)
EXTENDS Naturals, FiniteSets, Sequences

CONSTANTS
  Apps, Docs, Policies,
  Chunks,        \* point ids of one application's chunks, in scroll order
  ChunkDoc,      \* the document each chunk was cut from
  Batches,       \* concurrent POST /v1/document-batches and /v1/document-sets requests
  Deletions,     \* concurrent retention-delete requests
  Extractions,   \* concurrent contract 2.0 and 2.1 extraction requests
  Requests,      \* the document lists a batch or a set may name
  PageLimit,     \* records per scroll: 256 in the code
  MaxChunks,     \* EvidencePolicy.max_chunks
  None

ASSUME ChunkAssumption == /\ Chunks \subseteq Nat /\ IsFiniteSet(Chunks)
                          /\ ChunkDoc \in [Chunks -> Docs]
ASSUME RequestAssumption == Requests \subseteq Seq(Docs) \ {<<>>}
ASSUME LimitAssumption == PageLimit \in Nat \ {0} /\ MaxChunks \in Nat \ {0}
ASSUME AbsenceAssumption == None \notin Apps /\ None \notin Batches

VARIABLES
  policy,      \* hash of the policy the process runs under
  records,     \* findociq.documents
  receipts,    \* findociq.deletion_receipts
  points,      \* the Qdrant collection: <<application, chunk>>
  objects,     \* the encrypted store: <<state, application, document>>
  sets,        \* findociq.document_sets: <<application, documents, policy>>
  lock,        \* DocumentIngestionService._lock: the batch inside, or None
  batch,       \* batch[b]: where the handler of b stands
  deletion,    \* deletion[x]: where the handler of x stands
  extraction,  \* extraction[e]: where the handler of e stands; history, disturbed:
               \* a deletion has emptied the application's index meanwhile, or
               \* overlapped a batch before
  overlap,     \* history: a batch and a deletion of the application overlapped
  erased       \* history: a deletion has answered and no batch came since

stores == <<records, receipts, points, objects, sets>>
history == <<overlap, erased>>
vars == <<policy, stores, lock, batch, deletion, extraction, history>>

Registry == INSTANCE OwnershipRegistry
              WITH DocIds <- Docs, Shas <- Docs, Backend <- "postgres", reply <- None

-----------------------------------------------------------------------------
IdleBatch == [pc |-> "idle", app |-> None, docs |-> <<>>, next |-> 0]
IdleDeletion == [pc |-> "idle", app |-> None]
IdleExtraction ==
  [pc |-> "idle", app |-> None, docs |-> {}, offset |-> 0, found |-> {},
   disturbed |-> FALSE]

DocsOf(request) == {request[i] : i \in 1..Len(request)}
ChunksOf(d) == {c \in Chunks : ChunkDoc[c] = d}

\* Once its documents are registered a batch only records their set.
OnlyFreezes(b) == batch[b].pc \in {"freezing", "inserting"}
BatchInFlight(a) == \E b \in Batches : batch[b].app = a /\ ~ OnlyFreezes(b)
DeletionInFlight(a) == \E x \in Deletions : deletion[x].app = a

Init ==
  /\ policy \in Policies
  /\ records = [a \in Apps |-> [d \in Docs |-> None]]
  /\ receipts = [a \in Apps |-> None]
  /\ points = {}
  /\ objects = {}
  /\ sets = {}
  /\ lock = None
  /\ batch = [b \in Batches |-> IdleBatch]
  /\ deletion = [x \in Deletions |-> IdleDeletion]
  /\ extraction = [e \in Extractions |-> IdleExtraction]
  /\ overlap = [a \in Apps |-> FALSE]
  /\ erased = [a \in Apps |-> FALSE]

-----------------------------------------------------------------------------
(* Ingestion: ingest_document_batch, ingest_batch, _ingest_one and            *)
(* _register_document.                                                        *)

App(b) == batch[b].app
Current(b) == batch[b].docs[batch[b].next]
AtLast(b) == batch[b].next = Len(batch[b].docs)
Goto(b, pc) == batch' = [batch EXCEPT ![b].pc = pc]
Leave(b) == batch' = [batch EXCEPT ![b] = IdleBatch]

\* A validated request enters the malware scan.  History: an ingestion begins.
Submit(b, a, request) ==
  /\ batch[b] = IdleBatch
  /\ batch' = [batch EXCEPT ![b] =
                 [pc |-> "scanning", app |-> a, docs |-> request, next |-> 1]]
  /\ overlap' = [overlap EXCEPT ![a] = @ \/ DeletionInFlight(a)]
  /\ erased' = [erased EXCEPT ![a] = FALSE]
  /\ UNCHANGED <<policy, stores, lock, deletion, extraction>>

\* POST /v1/document-sets: a set of documents of earlier batches is recorded the
\* way a batch records its own.
SubmitSet(b, a, request) ==
  /\ batch[b] = IdleBatch
  /\ batch' = [batch EXCEPT ![b] =
                 [pc |-> "freezing", app |-> a, docs |-> request, next |-> 1]]
  /\ UNCHANGED <<policy, stores, lock, deletion, extraction, history>>

\* Every document is clean: the batch queues for the ingestion lock.
ScanClean(b) ==
  /\ batch[b].pc = "scanning"
  /\ Goto(b, "waiting")
  /\ UNCHANGED <<policy, stores, lock, deletion, extraction, history>>

\* One document is unsafe: it is quarantined and the whole batch rejected.
ScanUnsafe(b) ==
  /\ batch[b].pc = "scanning"
  /\ \E d \in DocsOf(batch[b].docs) :
       objects' = objects \cup {<<"quarantined", App(b), d>>}
  /\ Leave(b)
  /\ UNCHANGED <<policy, records, receipts, points, sets, lock, deletion,
                 extraction, history>>

EnterIngestion(b) ==
  /\ batch[b].pc = "waiting"
  /\ lock = None
  /\ lock' = b
  /\ Goto(b, "storing")
  /\ UNCHANGED <<policy, stores, deletion, extraction, history>>

\* The encrypted object is written before the document is parsed.
StoreObject(b) ==
  /\ batch[b].pc = "storing"
  /\ objects' = objects \cup {<<"active", App(b), Current(b)>>}
  /\ Goto(b, "indexing")
  /\ UNCHANGED <<policy, records, receipts, points, sets, lock, deletion,
                 extraction, history>>

\* All chunks of the document are upserted in one call.  After the last
\* document the lock is released and registration starts from the first.
IndexDocument(b) ==
  /\ batch[b].pc = "indexing"
  /\ points' = points \cup {<<App(b), c>> : c \in ChunksOf(Current(b))}
  /\ IF AtLast(b)
       THEN /\ batch' = [batch EXCEPT ![b].pc = "registering", ![b].next = 1]
            /\ lock' = None
       ELSE /\ batch' = [batch EXCEPT ![b].pc = "storing", ![b].next = @ + 1]
            /\ UNCHANGED lock
  /\ UNCHANGED <<policy, records, receipts, objects, sets, deletion,
                 extraction, history>>

RegisterDocument(b) ==
  /\ batch[b].pc = "registering"
  /\ ~ Registry!Conflicts(App(b), Current(b), Current(b))
  /\ records' = Registry!RecordsAfterRegister(App(b), Current(b), Current(b), policy)
  /\ IF AtLast(b)
       THEN Goto(b, "freezing")
       ELSE batch' = [batch EXCEPT ![b].next = @ + 1]
  /\ UNCHANGED <<policy, receipts, points, objects, sets, lock, deletion,
                 extraction, history>>

\* DocumentSetStore.put asks owns() and then inserts, in separate transactions.
CheckOwnership(b) ==
  /\ batch[b].pc = "freezing"
  /\ IF Registry!Owns(App(b), DocsOf(batch[b].docs), policy)
       THEN Goto(b, "inserting")
       ELSE Leave(b)
  /\ UNCHANGED <<policy, stores, lock, deletion, extraction, history>>

InsertSet(b) ==
  /\ batch[b].pc = "inserting"
  /\ sets' = sets \cup {<<App(b), DocsOf(batch[b].docs), policy>>}
  /\ Leave(b)
  /\ UNCHANGED <<policy, records, receipts, points, objects, lock, deletion,
                 extraction, history>>

\* Mutant: the lock is not released when a document fails.
FailBatch_KeepsLock(b) ==
  /\ batch[b].pc # "idle"
  /\ Leave(b)
  /\ UNCHANGED <<policy, stores, lock, deletion, extraction, history>>

\* A call of the current stage raises: the rest of the batch is abandoned, what
\* it already wrote stays, and the lock is released on the way out.
FailBatch(b) ==
  /\ batch[b].pc # "idle"
  /\ Leave(b)
  /\ lock' = IF lock = b THEN None ELSE lock
  /\ UNCHANGED <<policy, stores, deletion, extraction, history>>

BatchStep(b) ==
  \/ ScanClean(b) \/ ScanUnsafe(b) \/ EnterIngestion(b) \/ StoreObject(b)
  \/ IndexDocument(b) \/ RegisterDocument(b) \/ CheckOwnership(b)
  \/ InsertSet(b) \/ FailBatch(b)

-----------------------------------------------------------------------------
(* Retention deletion: retention_delete, one store after the other.          *)

GotoDeletion(x, pc) == deletion' = [deletion EXCEPT ![x].pc = pc]

\* History: a deletion of an application with a batch in flight overlaps it.
StartDeletion(x, a) ==
  /\ deletion[x] = IdleDeletion
  /\ deletion' = [deletion EXCEPT ![x] = [pc |-> "records", app |-> a]]
  /\ overlap' = [overlap EXCEPT ![a] = @ \/ BatchInFlight(a)]
  /\ UNCHANGED <<policy, stores, lock, batch, extraction, erased>>

\* History: once nothing is registered and nobody else works on the
\* application, an overlap of the past no longer matters.
DeleteRecords(x) ==
  LET a == deletion[x].app IN
  /\ deletion[x].pc = "records"
  /\ records' = Registry!RecordsAfterDelete(a)
  /\ receipts' = [receipts EXCEPT ![a] = Registry!ReceiptAfter(a)]
  /\ GotoDeletion(x, "points")
  /\ overlap' = [overlap EXCEPT ![a] =
       @ /\ (BatchInFlight(a) \/ \E y \in Deletions \ {x} : deletion[y].app = a)]
  /\ UNCHANGED <<policy, points, objects, sets, lock, batch, extraction, erased>>

\* Mutant: the Qdrant filter on the application is lost.
DeletePoints_Unfiltered(x) ==
  /\ deletion[x].pc = "points"
  /\ points' = {}
  /\ GotoDeletion(x, "active")
  /\ UNCHANGED <<policy, records, receipts, objects, sets, lock, batch,
                 extraction, history>>

Disturbed(a) ==
  [e \in Extractions |-> IF extraction[e].app = a
                           THEN [extraction[e] EXCEPT !.disturbed = TRUE]
                           ELSE extraction[e]]

DeletePoints(x) ==
  /\ deletion[x].pc = "points"
  /\ points' = {p \in points : p[1] # deletion[x].app}
  /\ GotoDeletion(x, "active")
  /\ extraction' = Disturbed(deletion[x].app)
  /\ UNCHANGED <<policy, records, receipts, objects, sets, lock, batch, history>>

Objects(state, a) == {o \in objects : o[1] = state /\ o[2] = a}

\* The folder of active objects is removed, then the quarantined one.
DeleteActiveObjects(x) ==
  /\ deletion[x].pc = "active"
  /\ objects' = objects \ Objects("active", deletion[x].app)
  /\ GotoDeletion(x, "quarantined")
  /\ UNCHANGED <<policy, records, receipts, points, sets, lock, batch,
                 extraction, history>>

\* Mutant: quarantined objects are forgotten.
DeleteQuarantinedObjects_Forgotten(x) ==
  LET a == deletion[x].app IN
  /\ deletion[x].pc = "quarantined"
  /\ deletion' = [deletion EXCEPT ![x] = IdleDeletion]
  /\ erased' = [erased EXCEPT ![a] = @ \/ ~ overlap[a]]
  /\ UNCHANGED <<policy, records, receipts, points, objects, sets, lock, batch,
                 extraction, overlap>>

\* ... and the receipt is answered.
DeleteQuarantinedObjects(x) ==
  LET a == deletion[x].app IN
  /\ deletion[x].pc = "quarantined"
  /\ objects' = objects \ Objects("quarantined", a)
  /\ deletion' = [deletion EXCEPT ![x] = IdleDeletion]
  /\ erased' = [erased EXCEPT ![a] = @ \/ ~ overlap[a]]
  /\ UNCHANGED <<policy, records, receipts, points, sets, lock, batch,
                 extraction, overlap>>

\* A store raises; a folder removal that raises may have removed some files.
FailDeletion(x) ==
  /\ deletion[x].pc # "idle"
  /\ deletion' = [deletion EXCEPT ![x] = IdleDeletion]
  /\ IF deletion[x].pc \in {"active", "quarantined"}
       THEN \E gone \in SUBSET Objects(deletion[x].pc, deletion[x].app) :
              objects' = objects \ gone
       ELSE UNCHANGED objects
  /\ UNCHANGED <<policy, records, receipts, points, sets, lock, batch,
                 extraction, history>>

DeletionStep(x) ==
  \/ DeleteRecords(x) \/ DeletePoints(x) \/ DeleteActiveObjects(x)
  \/ DeleteQuarantinedObjects(x) \/ FailDeletion(x)

-----------------------------------------------------------------------------
(* Evidence extraction: extract, extract_metrics and scoped_chunks.          *)

Smallest(S, n) == {c \in S : Cardinality({k \in S : k < c}) < n}
Least(S) == CHOOSE c \in S : \A k \in S : c <= k
Lesser(m, n) == IF m < n THEN m ELSE n

\* Mutant: a recorded set is trusted without asking the registry again.
InScope_TrustsTheSet(a, docs, contract) ==
  IF contract = "2.1" THEN <<a, docs, policy>> \in sets
                      ELSE Registry!Owns(a, docs, policy)

\* Contract 2.0 names the documents, contract 2.1 a recorded set of them: both
\* are checked against the registry under the policy in force.
InScope(a, docs, contract) ==
  /\ contract = "2.1" => <<a, docs, policy>> \in sets
  /\ Registry!Owns(a, docs, policy)

Authorize(e, a, docs, contract) ==
  /\ extraction[e] = IdleExtraction
  /\ InScope(a, docs, contract)
  /\ extraction' = [extraction EXCEPT ![e] =
       [pc |-> "scrolling", app |-> a, docs |-> docs, offset |-> 0, found |-> {},
        disturbed |-> overlap[a]]]
  /\ UNCHANGED <<policy, stores, lock, batch, deletion, history>>

\* The records of the scope from the scroll offset on.
Remaining(e) ==
  {c \in Chunks : /\ <<extraction[e].app, c>> \in points
                  /\ ChunkDoc[c] \in extraction[e].docs
                  /\ c >= extraction[e].offset}

\* Mutant: the bound itself is asked for, not one record more.
Page_AtBound(e) ==
  Smallest(Remaining(e), Lesser(PageLimit, MaxChunks - Cardinality(extraction[e].found)))

\* One page asks for at most one record more than the inventory may hold.
Page(e) ==
  Smallest(Remaining(e),
           Lesser(PageLimit, MaxChunks + 1 - Cardinality(extraction[e].found)))

\* Mutant: the read stops quietly at the bound.
Scroll_StopsAtBound(e) ==
  LET found == extraction[e].found \cup Page_AtBound(e)
      rest == Remaining(e) \ Page_AtBound(e)
  IN
  /\ extraction[e].pc = "scrolling"
  /\ extraction' = [extraction EXCEPT ![e] =
       IF Cardinality(found) < MaxChunks /\ rest # {}
         THEN [@ EXCEPT !.offset = Least(rest), !.found = found]
         ELSE IF {ChunkDoc[c] : c \in found} = extraction[e].docs
           THEN [@ EXCEPT !.pc = "answered", !.offset = 0, !.found = found]
           ELSE IdleExtraction]
  /\ UNCHANGED <<policy, stores, lock, batch, deletion, history>>

\* evidence_inventory_limit, the next page, or the end of the scroll: there the
\* documents present must be those of the scope, or evidence_document_missing.
Scroll(e) ==
  LET found == extraction[e].found \cup Page(e)
      rest == Remaining(e) \ Page(e)
  IN
  /\ extraction[e].pc = "scrolling"
  /\ extraction' = [extraction EXCEPT ![e] =
       CASE Cardinality(found) > MaxChunks -> IdleExtraction
         [] Cardinality(found) <= MaxChunks /\ rest # {} ->
              [@ EXCEPT !.offset = Least(rest), !.found = found]
         [] OTHER ->
              IF {ChunkDoc[c] : c \in found} = extraction[e].docs
                THEN [@ EXCEPT !.pc = "answered", !.offset = 0, !.found = found]
                ELSE IdleExtraction]
  /\ UNCHANGED <<policy, stores, lock, batch, deletion, history>>

\* The evidence gate has answered from the inventory, or a call raised.
EndExtraction(e) ==
  /\ extraction[e].pc # "idle"
  /\ extraction' = [extraction EXCEPT ![e] = IdleExtraction]
  /\ UNCHANGED <<policy, stores, lock, batch, deletion, history>>

-----------------------------------------------------------------------------
(* The process stops and starts again: only the stores survive.              *)
Restart(p) ==
  /\ policy' = p
  /\ lock' = None
  /\ batch' = [b \in Batches |-> IdleBatch]
  /\ deletion' = [x \in Deletions |-> IdleDeletion]
  /\ extraction' = [e \in Extractions |-> IdleExtraction]
  /\ UNCHANGED <<stores, history>>

Next ==
  \/ \E b \in Batches :
       \/ BatchStep(b)
       \/ \E a \in Apps, request \in Requests :
            Submit(b, a, request) \/ SubmitSet(b, a, request)
  \/ \E x \in Deletions :
       DeletionStep(x) \/ \E a \in Apps : StartDeletion(x, a)
  \/ \E e \in Extractions :
       \/ \E a \in Apps, docs \in SUBSET Docs, contract \in {"2.0", "2.1"} :
            Authorize(e, a, docs, contract)
       \/ Scroll(e)
       \/ EndExtraction(e)
  \/ \E p \in Policies : Restart(p)

Spec == Init /\ [][Next]_vars

-----------------------------------------------------------------------------
(* Properties.                                                               *)

BatchStages == {"scanning", "waiting", "storing", "indexing", "registering",
                "freezing", "inserting"}
DeletionStages == {"records", "points", "active", "quarantined"}

BatchTypeOK(r) ==
  \/ r = IdleBatch
  \/ /\ r \in [pc: BatchStages, app: Apps, docs: Requests, next: Nat]
     /\ r.next \in 1..Len(r.docs)

TypeOK ==
  /\ policy \in Policies
  /\ records \in [Apps -> [Docs -> Registry!DocumentRecord \cup {None}]]
  /\ receipts \in [Apps -> (SUBSET Docs) \cup {None}]
  /\ points \subseteq Apps \X Chunks
  /\ objects \subseteq {"active", "quarantined"} \X Apps \X Docs
  /\ sets \subseteq Apps \X (SUBSET Docs) \X Policies
  /\ lock \in Batches \cup {None}
  /\ DOMAIN batch = Batches /\ \A b \in Batches : BatchTypeOK(batch[b])
  /\ deletion \in [Deletions -> [pc: DeletionStages, app: Apps] \cup {IdleDeletion}]
  /\ extraction \in [Extractions ->
       [pc: {"scrolling", "answered"}, app: Apps, docs: SUBSET Docs,
        offset: Nat, found: SUBSET Chunks, disturbed: BOOLEAN] \cup {IdleExtraction}]
  /\ overlap \in [Apps -> BOOLEAN]
  /\ erased \in [Apps -> BOOLEAN]

Indexed(a, d) == \A c \in ChunksOf(d) : <<a, c>> \in points
StoredEncrypted(a, d) == <<"active", a, d>> \in objects
Active(a, d) == records[a][d] # None /\ records[a][d].state = "active"

\* The registry is written last by an ingestion and first by a deletion, so a
\* document it calls active has all its chunks indexed and its encrypted object
\* kept, whatever calls fail and wherever the process stops - as long as no
\* batch and no deletion of that application overlapped.
ActiveIsComplete ==
  \A a \in Apps, d \in Docs :
    Active(a, d) /\ ~ overlap[a] => Indexed(a, d) /\ StoredEncrypted(a, d)

\* Once a deletion has answered that no batch overlapped, no active record, no
\* chunk and no encrypted object of the application is left until its next batch,
\* quarantined objects and the leftovers of failed batches and failed deletions
\* included.  The recorded sets and the receipt stay.
ErasedIsGone ==
  \A a \in Apps : erased[a] =>
    /\ \A d \in Docs : ~ Active(a, d)
    /\ \A c \in Chunks : <<a, c>> \notin points
    /\ \A o \in objects : o[2] # a

\* Once a deletion has answered that no batch overlapped, no extraction gets past
\* its authorization until the application's next batch: neither over named
\* documents nor over a recorded set, not even one whose recording had asked the
\* registry before the deletion and inserts after it (DocumentSetStore.put).
NoScopeAfterErasure ==
  [][\A e \in Extractions :
       extraction[e].pc = "idle" /\ extraction'[e].pc = "scrolling"
         => ~ erased[extraction'[e].app]]_vars

\* An extraction that no deletion disturbed answers from every chunk of its
\* scope, however many pages it reads, and even while batches index into it.
UndisturbedIsComplete ==
  \A e \in Extractions :
    extraction[e].pc = "answered" /\ ~ extraction[e].disturbed =>
      extraction[e].found = {c \in Chunks : ChunkDoc[c] \in extraction[e].docs}

\* "Read bounded source evidence; never silently use a truncated inventory"
\* (scoped_chunks): the answer rests on every chunk of the scope's documents.
InventoryUntruncated ==
  \A e \in Extractions : extraction[e].pc = "answered" =>
    extraction[e].found = {c \in Chunks : ChunkDoc[c] \in extraction[e].docs}

-----------------------------------------------------------------------------
(* Every call inside the lock returns or raises (the parser has a deadline, the *)
(* Qdrant client a timeout), and so does a scroll.  Nothing is assumed of the   *)
(* clients, of the lock's queue or of restarts.                                 *)
Fairness ==
  /\ \A b \in Batches : WF_vars(StoreObject(b) \/ IndexDocument(b) \/ FailBatch(b))
  /\ \A e \in Extractions : WF_vars(Scroll(e))

LiveSpec == Spec /\ Fairness

\* No batch keeps the ingestion lock for ever, failing documents included.
LockIsFreed == \A b \in Batches : lock = b ~> lock # b

\* A scroll ends even while batches keep adding chunks to the collection.
ScrollEnds ==
  \A e \in Extractions :
    extraction[e].pc = "scrolling" ~> extraction[e].pc # "scrolling"
=============================================================================
