------------------------------ MODULE QueryPath ------------------------------
(***************************************************************************)
(* The query path of the local profile: service.query, the retrieval       *)
(* pipeline with its cache (retrieve/pipeline.py), and single-pass or      *)
(* two-pass reasoning over what was retrieved (reason/pipeline.py,         *)
(* pass1_extract.py, pass2_reason.py, single_pass.py, schema.py).          *)
(*                                                                         *)
(* service.query holds the process-wide lease from retrieval to the        *)
(* answer, and a batch holds it while it writes the index, so one request  *)
(* runs at a time; the order of requests and batches is free.  The model   *)
(* is external: a call may fail or return anything, and what the code      *)
(* repairs, refuses or retries is the subject here.  The production        *)
(* profile answers 404 to this path and alone calls                        *)
(* invalidate_application, whose cache is then empty; it is left out.      *)
(*                                                                         *)
(* A text is its numbers and its words; a number has a scale (crore, lakh),*)
(* 1 when it has none.  A proposed citation names a page and a box, exactly*)
(* or only near it (an overlap below the exact threshold).                 *)
(***************************************************************************)
EXTENDS Integers, FiniteSets, Sequences

CONSTANTS
  Versions,    \* document -> the chunk sets it may be indexed as
  Questions,   \* question -> its words
  Scopes,      \* sets of documents a request may name; {} means all
  Relevance,   \* question -> chunks in the order the search ranks them
  Reranked,    \* question -> chunks in the order the reranker ranks them
  TopK, RerankK, MaxEntries,
  Figures,     \* figures the model may return in pass 1
  Selections,  \* answers and evidence numbers it may return in pass 2
  Answers,     \* answers and citations it may return in a single pass
  MaxFigures,  \* bound: figures per reply
  None

ASSUME QueryAssumption ==
  /\ TopK \in Nat \ {0} /\ RerankK \in 1..TopK /\ MaxEntries \in Nat \ {0} /\ MaxFigures \in Nat
  /\ \A f \in Figures : DOMAIN f = {"label", "value", "citation"}

VARIABLES
  index,   \* document -> its chunks in the store
  cache,   \* pairs <<key, hits>>, the least recently used first
  query    \* the request in hand: step, question, scope, hits, figures, answer

queryVars == <<index, cache, query>>

Idle == [step |-> "idle", question |-> None, scope |-> {}, hits |-> {}, figures |-> <<>>,
         answer |-> None]

-----------------------------------------------------------------------------
(* Text: _numeric_groups, _numeric_variants and _grounding_terms *)

Variants(n) == {n[1], n[1] * n[2]}
AllVariants(text) == UNION {Variants(n) : n \in text.numbers}
NumbersIn(text, numbers) == \A n \in text.numbers : Variants(n) \cap numbers # {}
Joined(texts) ==
  [numbers |-> UNION {t.numbers : t \in texts}, words |-> UNION {t.words : t \in texts}]

\* The numbers of a value occur in a text, or, without numbers, the value itself does.
Occurs(value, text) ==
  IF value.numbers # {} THEN NumbersIn(value, AllVariants(text))
  ELSE value.words \subseteq text.words

-----------------------------------------------------------------------------
(* schema.ground_citation and the repairs of pass 1 *)

Citations(chunk) ==
  {[document |-> chunk.document, page |-> chunk.page, box |-> b] : b \in chunk.boxes}
Allowed(hits) == UNION {Citations(h) : h \in hits}
OnPage(c, allowed) == {a \in allowed : a.document = c.document /\ a.page = c.page}

\* The box on that page that overlaps enough: exactly, or at all.
Ground(c, allowed, strict) ==
  {a \in OnPage(c, allowed) : a.box = c.box /\ (strict => c.exact)}

\* A unique page settles a citation, several are told apart by the overlap.
Snap(c, candidates) ==
  IF c = None THEN {}
  ELSE IF Cardinality(OnPage(c, candidates)) = 1 THEN OnPage(c, candidates)
  ELSE Ground(c, candidates, FALSE)

\* _unique_value_citation: a value found in one place is cited there.
Matching(value, hits) ==
  Allowed({h \in hits :
    IF value.numbers # {}
    THEN Cardinality(value.numbers) = 1 /\ AllVariants(value) \cap AllVariants(h.text) # {}
    ELSE value.words \subseteq h.text.words})
ValueCitation(figure, hits) ==
  LET matching == Matching(figure.value, hits)
  IN IF Cardinality(matching) = 1 THEN matching ELSE Snap(figure.citation, matching)

\* _repair_grounded_output: what cannot be repaired keeps what the model proposed.
Exactly(a) == [document |-> a.document, page |-> a.page, box |-> a.box, exact |-> TRUE]
Repaired(figure, hits) ==
  LET byValue == ValueCitation(figure, hits)
      byPage == Snap(figure.citation, Allowed(hits))
      found == IF byValue # {} THEN byValue ELSE byPage
  IN IF found = {} THEN figure
     ELSE [figure EXCEPT !.citation = Exactly(CHOOSE a \in found : TRUE)]

\* _ground_citations: every figure needs a retrieved citation that carries its value.
Cited(a, hits) == {h \in hits : a \in Citations(h)}
\* Mutant: any retrieved place will do.
Grounded_AnyPlace(figure, hits) ==
  figure.citation # None /\ Ground(figure.citation, Allowed(hits), TRUE) # {}
Grounded(figure, hits) ==
  /\ figure.citation # None
  /\ \E a \in Ground(figure.citation, Allowed(hits), TRUE) :
       \E h \in Cited(a, hits) : Occurs(figure.value, h.text)
CitationOf(figure, hits) == CHOOSE a \in Ground(figure.citation, Allowed(hits), TRUE) : TRUE

-----------------------------------------------------------------------------
(* Retrieval: RetrievalPipeline.retrieve and its cache *)

Indexed == UNION {index[d] : d \in DOMAIN index}
InScope(scope) == {c \in Indexed : scope = {} \/ c.document \in scope}

\* The first k places of a ranking that hold one of S.
Best(ranking, S, k) ==
  LET places == {i \in DOMAIN ranking : ranking[i] \in S}
  IN {ranking[i] : i \in {j \in places : Cardinality({h \in places : h <= j}) <= k}}

\* The store's best TopK, of which the reranker keeps its best RerankK.
Search(question, scope) ==
  Best(Reranked[question], Best(Relevance[question], InScope(scope), TopK), RerankK)

\* Mutant: the scope is no part of the key that is searched for.
Key_Unscoped(question, scope) == <<question, {}>>
Key(question, scope) == <<question, scope>>
Entry(key) == {i \in DOMAIN cache : cache[i][1] = key}
Without(entries, key) ==
  LET i == CHOOSE n \in DOMAIN entries : entries[n][1] = key
  IN IF \E n \in DOMAIN entries : entries[n][1] = key
     THEN SubSeq(entries, 1, i - 1) \o SubSeq(entries, i + 1, Len(entries)) ELSE entries

\* The newest entries survive.
Evict(entries) ==
  SubSeq(entries, IF Len(entries) > MaxEntries THEN Len(entries) - MaxEntries + 1 ELSE 1, Len(entries))

Retrieve(key) ==
  IF Entry(key) # {} THEN cache[CHOOSE i \in Entry(key) : TRUE][2] ELSE Search(key[1], key[2])
Remember(key, hits) == Evict(Append(Without(cache, key), <<key, hits>>))

-----------------------------------------------------------------------------
QueryInit == index = [d \in DOMAIN Versions |-> {}] /\ cache = <<>> /\ query = Idle

\* A batch replaces the chunks of a document; the cache is not told.
Ingest(d, chunks) ==
  /\ query.step \in {"idle", "done", "failed"} /\ index[d] # chunks
  /\ index' = [index EXCEPT ![d] = chunks]
  /\ UNCHANGED <<cache, query>>

\* query: retrieval, then the pass of the requested mode; no evidence is an error.
Ask(question, scope, mode) ==
  LET key == Key(question, scope)
      hits == Retrieve(key)
  IN /\ query.step \in {"idle", "done", "failed"}
     /\ cache' = Remember(key, hits)
     /\ query' = [Idle EXCEPT !.question = question, !.scope = scope, !.hits = hits,
                              !.step = IF hits = {} THEN "failed" ELSE mode]
     /\ UNCHANGED index

\* LocalGemmaClient.complete: an endpoint that does not answer, or answers without
\* content, or with what is no JSON object of the expected shape.
NoReply ==
  /\ query.step \in {"single_pass", "two_pass"}
  /\ query' = [query EXCEPT !.step = "failed"]
  /\ UNCHANGED <<index, cache>>

Goto(step) == query' = [query EXCEPT !.step = step]

\* Pass1Extractor.extract
Extract(figures) ==
  LET hits == query.hits
      repaired == [i \in DOMAIN figures |-> Repaired(figures[i], hits)]
  IN /\ query.step = "two_pass"
     /\ IF /\ figures # <<>>
           /\ \A i \in DOMAIN repaired : Grounded(repaired[i], hits)
        THEN query' = [query EXCEPT !.step = "pass2", !.figures =
               [i \in DOMAIN repaired |-> [repaired[i] EXCEPT !.citation = CitationOf(repaired[i], hits)]]]
        ELSE Goto("failed")
     /\ UNCHANGED <<index, cache>>

\* _validate_selection and _validate_answer_support: the answer uses the numbers and
\* the words of the selected figures, their labels included, and of the question.
FigureText(f) == Joined({f.label, f.value})
Supports(selection, figures) ==
  LET chosen == {figures[i] : i \in selection.ids}
      evidence == Joined({FigureText(f) : f \in chosen})
  IN /\ NumbersIn(selection.text, AllVariants(evidence))
     /\ selection.text.numbers = {} =>
          \E f \in chosen : f.value.numbers = {} /\ f.value.words \subseteq selection.text.words
     /\ selection.text.words \subseteq Questions[query.question] \cup evidence.words
ValidSelection(selection) ==
  /\ selection # None /\ selection.ids # {} /\ selection.ids \subseteq DOMAIN query.figures
  /\ Supports(selection, query.figures)

\* Mutant: the second attempt is followed by another.
Reason_RetriesForever(selection) ==
  /\ query.step \in {"pass2", "pass2_retry"}
  /\ IF ValidSelection(selection) THEN Goto("done")
     ELSE Goto(IF query.step = "pass2" THEN "pass2_retry" ELSE "pass2")
  /\ UNCHANGED <<index, cache>>
\* Pass2Reasoner.reason: one retry, with the error fed back, then the request fails.
Reason(selection) ==
  /\ query.step \in {"pass2", "pass2_retry"}
  /\ IF ValidSelection(selection)
     THEN query' = [query EXCEPT !.step = "done", !.answer =
            [text |-> selection.text,
             citations |-> {query.figures[i].citation : i \in selection.ids}]]
     ELSE Goto(IF query.step = "pass2" THEN "pass2_retry" ELSE "failed")
  /\ UNCHANGED <<index, cache>>

\* An endpoint failure in pass 2 is not retried.
NoSelection ==
  /\ query.step \in {"pass2", "pass2_retry"}
  /\ Goto("failed") /\ UNCHANGED <<index, cache>>

\* SinglePassReasoner.reason
Answer(reply) ==
  LET grounded == [c \in reply.citations |-> Ground(c, Allowed(query.hits), TRUE)]
      citations == UNION {grounded[c] : c \in reply.citations}
      evidence == Joined({h.text : h \in UNION {Cited(a, query.hits) : a \in citations}})
  IN /\ query.step = "single_pass"
     /\ IF /\ reply.citations # {} /\ \A c \in reply.citations : grounded[c] # {}
           /\ NumbersIn(reply.text, AllVariants(evidence))
           /\ reply.text.words \subseteq Questions[query.question] \cup evidence.words
        THEN query' = [query EXCEPT !.step = "done",
                         !.answer = [text |-> reply.text, citations |-> citations]]
        ELSE Goto("failed")
     /\ UNCHANGED <<index, cache>>

FigureLists == UNION {[1..n -> Figures] : n \in 0..MaxFigures}

Model ==
  \/ NoReply \/ NoSelection
  \/ \E figures \in FigureLists : Extract(figures)
  \/ \E selection \in Selections \cup {None} : Reason(selection)
  \/ \E reply \in Answers : Answer(reply)

QueryNext ==
  \/ \E d \in DOMAIN Versions : \E chunks \in Versions[d] : Ingest(d, chunks)
  \/ \E q \in DOMAIN Questions, scope \in Scopes, mode \in {"single_pass", "two_pass"} :
       Ask(q, scope, mode)
  \/ Model

\* Every call to the model ends: the client gives it timeout_seconds.
QuerySpec == QueryInit /\ [][QueryNext]_queryVars /\ WF_queryVars(Model)

-----------------------------------------------------------------------------
Open == query.step \in {"single_pass", "two_pass", "pass2", "pass2_retry"}

\* Type invariant: the cache keeps one entry per key and never more than MaxEntries.
AllChunks == UNION {UNION Versions[d] : d \in DOMAIN Versions}
Entries == ((DOMAIN Questions) \X Scopes) \X SUBSET AllChunks
QueryTypeOK ==
  /\ DOMAIN index = DOMAIN Versions
  /\ \A d \in DOMAIN Versions : index[d] \in Versions[d] \cup {{}}
  /\ cache \in Seq(Entries) /\ Len(cache) <= MaxEntries
  /\ \A i, j \in DOMAIN cache : cache[i][1] = cache[j][1] => i = j
  /\ DOMAIN query = DOMAIN Idle /\ query.hits \subseteq AllChunks
  /\ Open \/ query.step \in {"idle", "done", "failed"}

\* Whatever the model proposes and whatever the cache returns, an answer cites only
\* places that were retrieved for this request, in documents the request named.
CitationsAreRetrieved ==
  query.answer # None =>
    /\ query.answer.citations # {}
    /\ \A a \in query.answer.citations :
         a \in Allowed(query.hits) /\ (query.scope = {} \/ a.document \in query.scope)

\* A repaired citation is never a guess: every figure that passed pass 1 can be read
\* in a retrieved chunk at the place it is cited.
FiguresAreWhereTheyAreCited ==
  \A i \in DOMAIN query.figures : \E h \in Cited(query.figures[i].citation, query.hits) :
    Occurs(query.figures[i].value, h.text)

\* The numbers of a single-pass answer stand in the chunks it cites.
SinglePassIsGrounded ==
  query.answer # None /\ query.figures = <<>> =>
    NumbersIn(query.answer.text,
              AllVariants(Joined({h.text : h \in UNION {Cited(a, query.hits) : a \in query.answer.citations}})))

\* Every request ends in an answer or an error, even if the model never returns
\* anything the reasoner accepts.
QueriesEnd == Open ~> ~Open

\* An answer is grounded or the request fails: every number of an answer occurs in
\* the evidence that was retrieved for it.
NumbersAreRetrieved ==
  query.answer # None =>
    NumbersIn(query.answer.text, AllVariants(Joined({h.text : h \in query.hits})))

\* Cached evidence is dropped after the indexed content changes: what a request is
\* answered from is what its search would find now.
EvidenceIsCurrent ==
  \A i \in DOMAIN cache : cache[i][2] = Search(cache[i][1][1], cache[i][1][2])
=============================================================================
