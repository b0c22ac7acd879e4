---------------------------- MODULE AnswersProofs ----------------------------
(***************************************************************************)
(* Questions, documents and texts, for all corpora, files, profiles and    *)
(* limits: a text is split without a gap; an answer cites what its own     *)
(* request retrieved; what is printed on a page is parsed, put into        *)
(* reading order and filed in one chunk.                                   *)
(***************************************************************************)
EXTENDS QueryPath, DocumentParsing, FiniteSetTheorems, SequenceTheorems, TLAPS

-----------------------------------------------------------------------------
(* Splitting a text *)

SplitTypeOK ==
  /\ text \in SomeText
  /\ start \in 0..text.length
  /\ pieces \in Seq(Nat \X Nat)

\* The next start lies behind the last piece's, and not behind its end: the pieces
\* leave no gap.
Attached ==
  pieces # <<>> =>
    pieces[Len(pieces)][1] < start /\ start <= pieces[Len(pieces)][2]

SplitInv == SplitTypeOK /\ Attached /\ NoTextIsLost /\ PiecesAdvance

\* The cut of a piece lies behind its start and within the limit.
LEMMA CutIsInLimit ==
  ASSUME NEW t \in SomeText, NEW from \in Nat, NEW end \in Nat, from < t.length,
         CutsAt(t, from, end)
  PROVE  end - from <= Maximum
<1>1. Upper(t, from) \in Nat /\ Upper(t, from) - from <= Maximum
  BY LimitAssumption DEF Upper, SomeText
<1>2. \A p \in Breaks(t, from, Upper(t, from)) : p \in Nat /\ p < Upper(t, from)
  BY <1>1 DEF Breaks, SomeText
<1> QED
  BY <1>1, <1>2, LimitAssumption DEF CutsAt

\* The next piece starts behind this one's start and not behind its end.
LEMMA NextStartAdvances ==
  ASSUME NEW from \in Nat, NEW end \in Nat, from < end
  PROVE  /\ NextStart(from, end) \in Nat
         /\ from < NextStart(from, end) /\ NextStart(from, end) <= end
  BY LimitAssumption DEF NextStart

LEMMA PositionsBelow ==
  ASSUME NEW n \in Nat, NEW p \in 0..(n - 1)
  PROVE  p \in Nat /\ p < n
  OBVIOUS

LEMMA SplitInitial == SplitInit => SplitInv
<1> SUFFICES ASSUME SplitInit PROVE SplitInv
  OBVIOUS
<1>1. SplitTypeOK
  BY TextAssumption DEF SplitInit, SplitTypeOK, SomeText
<1>2. Attached /\ NoTextIsLost /\ PiecesAdvance
  BY DEF SplitInit, Attached, NoTextIsLost, PiecesAdvance, Covered
<1> QED
  BY <1>1, <1>2 DEF SplitInv

LEMMA SplitPreserves == SplitInv /\ [SplitStep]_splitVars => SplitInv'
<1> SUFFICES ASSUME SplitInv, [SplitStep]_splitVars PROVE SplitInv'
  OBVIOUS
<1>1. CASE UNCHANGED splitVars
  BY <1>1 DEF splitVars, SplitInv, SplitTypeOK, Attached, NoTextIsLost, PiecesAdvance, Covered
<1>2. CASE SplitStep
  <2>1. PICK end \in (start + 1)..text.length :
          /\ CutsAt(text, start, end)
          /\ pieces' = Append(pieces, <<start, end>>)
          /\ start' = IF end >= text.length THEN text.length ELSE NextStart(start, end)
    BY <1>2 DEF SplitStep
  <2>2. /\ text' = text /\ start < text.length /\ text \in SomeText
        /\ start \in Nat /\ text.length \in Nat /\ end \in Nat /\ start < end /\ end <= text.length
    BY <1>2, <2>1 DEF SplitStep, SplitInv, SplitTypeOK, SomeText
  <2>3. start' \in Nat /\ start < start' /\ start' <= end
    BY <2>1, <2>2, NextStartAdvances
  <2>4. end - start <= Maximum
    BY <2>1, <2>2, CutIsInLimit
  <2>5. /\ pieces \in Seq(Nat \X Nat) /\ pieces' \in Seq(Nat \X Nat)
        /\ DOMAIN pieces = 1..Len(pieces) /\ DOMAIN pieces' = 1..Len(pieces') /\ Len(pieces) \in Nat
        /\ Len(pieces') = Len(pieces) + 1 /\ pieces'[Len(pieces) + 1] = <<start, end>>
        /\ \A i \in 1..Len(pieces) : pieces'[i] = pieces[i] /\ pieces[i] \in Nat \X Nat
    BY <2>1, <2>2 DEF SplitInv, SplitTypeOK
  <2>n. Len(pieces) \in Nat
    BY <2>5
  <2> DEFINE k == Len(pieces) + 1
  <2>k. pieces'[k][1] = start /\ pieces'[k][2] = end /\ k \in DOMAIN pieces'
    BY <2>2, <2>5
  <2> HIDE DEF k
  <2>6. SplitTypeOK'
    BY <2>2, <2>3, <2>5 DEF SplitTypeOK
  <2>7. Attached'
    BY <2>3, <2>5 DEF Attached
  <2>8. NoTextIsLost'
    <3> SUFFICES ASSUME NEW p \in 0..(start' - 1)
                 PROVE  \E i \in DOMAIN pieces' : pieces'[i][1] <= p /\ p < pieces'[i][2]
      BY DEF NoTextIsLost, Covered
    <3>0. p \in Nat /\ p < start'
      <4>1. start' \in Nat
        BY <2>3
      <4> QED
        BY <4>1, PositionsBelow, Zenon
    <3>1. CASE p < start
      <4>0. p \in 0..(start - 1)
        BY <3>0, <3>1, <2>2, <2>3
      <4>1. PICK i \in DOMAIN pieces : pieces[i][1] <= p /\ p < pieces[i][2]
        BY <4>0 DEF SplitInv, NoTextIsLost, Covered
      <4>2. i \in 1..Len(pieces) /\ i \in DOMAIN pieces'
        BY <2>5, <4>1
      <4> QED
        BY <4>1, <4>2, <2>5
    <3>2. CASE start <= p
      <4>1. start <= p /\ p < end
        BY <3>0, <3>2, <2>2, <2>3
      <4> QED
        BY <4>1, <2>k
    <3> QED
      BY <3>0, <3>1, <3>2, <2>2, <2>3
  <2>9. PiecesAdvance'
    <3>1. ASSUME NEW i \in 1..Len(pieces) PROVE pieces'[i][1] < pieces'[i + 1][1]
      <4>1. CASE i < Len(pieces)
        <5>1. i \in 1..(Len(pieces) - 1) /\ i + 1 \in 1..Len(pieces)
          BY <4>1, <2>5
        <5> QED
          BY <5>1, <2>5 DEF SplitInv, PiecesAdvance
      <4>2. CASE i = Len(pieces)
        <5>1. pieces # <<>> /\ i \in 1..Len(pieces)
          BY <4>2, <2>5
        <5>2. pieces'[i][1] < start /\ i + 1 = k
          BY <5>1, <4>2, <2>5 DEF SplitInv, Attached, k
        <5> QED
          BY <5>2, <2>k
      <4>3. i < Len(pieces) \/ i = Len(pieces)
        BY <2>n
      <4> QED
        BY <4>1, <4>2, <4>3
    <3>2. ASSUME NEW i \in 1..Len(pieces') PROVE pieces'[i][2] - pieces'[i][1] <= Maximum
      <4>1. CASE i \in 1..Len(pieces)
        BY <4>1, <2>5 DEF SplitInv, PiecesAdvance
      <4>2. CASE i = Len(pieces) + 1
        BY <4>2, <2>4, <2>5
      <4> QED
        BY <4>1, <4>2, <2>5
    <3>3. Len(pieces') - 1 = Len(pieces)
      BY <2>5
    <3> QED
      BY <3>1, <3>2, <3>3 DEF PiecesAdvance
  <2> QED
    BY <2>6, <2>7, <2>8, <2>9 DEF SplitInv
<1> QED
  BY <1>1, <1>2

\* What the splitting of a text keeps (LayoutAwareChunker._split_text).
THEOREM SplitInvariant == SplitSpec => []SplitInv
  BY SplitInitial, SplitPreserves, PTL DEF SplitSpec

\* Splitting loses nothing: once the text is split every position is in a piece
\* (LayoutAwareChunker._split_text).
THEOREM NothingIsLost == SplitSpec => []NoTextIsLost
<1>1. SplitInv => NoTextIsLost
  BY DEF SplitInv
<1> QED
  BY <1>1, SplitInvariant, PTL

\* Every piece starts behind the one before it and none exceeds the limit
\* (LayoutAwareChunker._split_text): the loop makes progress on every text.
THEOREM EveryPieceAdvances == SplitSpec => []PiecesAdvance
<1>1. SplitInv => PiecesAdvance
  BY DEF SplitInv
<1> QED
  BY <1>1, SplitInvariant, PTL

-----------------------------------------------------------------------------
(* A question: what its hits, its figures and its answer stand on *)

\* Chunks of the documents a request named, or of any when it named none.
InScopeOf(scope, hits) == scope = {} \/ \A h \in hits : h.document \in scope

\* A citation that stands in a retrieved chunk, with the value it is cited for.
Stands(figure, hits) ==
  \E h \in Cited(figure.citation, hits) : Occurs(figure.value, h.text)

\* What retrieval kept was searched within its own scope, and so was what the request
\* in hand works with; its figures and its answer are cited there.
QueryInv ==
  /\ QueryTypeOK
  /\ \A i \in DOMAIN cache : InScopeOf(cache[i][1][2], cache[i][2])
  /\ InScopeOf(query.scope, query.hits)
  /\ FiguresAreWhereTheyAreCited
  /\ CitationsAreRetrieved
  /\ SinglePassIsGrounded

-----------------------------------------------------------------------------
(* The cache *)

LEMMA KeptWithout ==
  ASSUME NEW s \in Seq(Entries), NEW key,
         \A i, j \in DOMAIN s : s[i][1] = s[j][1] => i = j
  PROVE  LET t == Without(s, key)
         IN /\ t \in Seq(Entries) /\ Len(t) <= Len(s)
            /\ \A i, j \in DOMAIN t : t[i][1] = t[j][1] => i = j
            /\ \A i \in DOMAIN t : t[i][1] # key /\ \E j \in DOMAIN s : t[i] = s[j]
<1>0. Len(s) \in Nat /\ DOMAIN s = 1..Len(s)
  OBVIOUS
<1>1. CASE ~\E n \in DOMAIN s : s[n][1] = key
  <2>1. Without(s, key) = s
    BY <1>1 DEF Without
  <2> QED
    BY <1>0, <1>1, <2>1
<1>2. CASE \E n \in DOMAIN s : s[n][1] = key
  <2> DEFINE i == CHOOSE n \in DOMAIN s : s[n][1] = key
             a == SubSeq(s, 1, i - 1)
             b == SubSeq(s, i + 1, Len(s))
             n == Len(s)
  <2>1. i \in DOMAIN s /\ s[i][1] = key
    BY <1>2
  <2>2. Without(s, key) = a \o b
    BY <1>2 DEF Without
  <2> HIDE DEF i
  <2>3. /\ a \in Seq(Entries) /\ Len(a) = i - 1 /\ \A k \in 1..(i - 1) : a[k] = s[k]
        /\ b \in Seq(Entries) /\ Len(b) = n - i /\ \A k \in 1..(n - i) : b[k] = s[i + k]
    BY <1>0, <2>1
  <2>4. i \in 1..n /\ n \in Nat /\ n = Len(s)
    BY <1>0, <2>1
  <2> HIDE DEF a, b, n
  <2>5. /\ a \o b \in Seq(Entries) /\ Len(a \o b) = Len(a) + Len(b)
        /\ \A k \in 1..(Len(a) + Len(b)) : (a \o b)[k] = IF k <= Len(a) THEN a[k] ELSE b[k - Len(a)]
    <3>1. a \in Seq(Entries) /\ b \in Seq(Entries)
      BY <2>3
    <3> QED
      BY <3>1, ConcatProperties, Zenon
  <2> DEFINE t == a \o b
             From(k) == IF k < i THEN k ELSE k + 1
  <2>6. Len(t) = n - 1 /\ DOMAIN t = 1..(n - 1)
    <3>1. Len(a) + Len(b) = n - 1
      BY <2>3, <2>4
    <3>2. t \in Seq(Entries) /\ Len(t) = n - 1
      BY <2>5, <3>1
    <3> HIDE DEF t
    <3> QED
      BY <3>2
  <2>7. ASSUME NEW k \in 1..(n - 1) PROVE t[k] = s[From(k)]
    <3>1. CASE k <= i - 1
      <4>1. k \in 1..(i - 1) /\ k < i
        BY <2>4, <3>1
      <4>2. t[k] = a[k]
        BY <2>3, <2>4, <2>5, <3>1
      <4> QED
        BY <2>3, <4>1, <4>2
    <3>2. CASE ~(k <= i - 1)
      <4>1. k - (i - 1) \in 1..(n - i) /\ i + (k - (i - 1)) = k + 1 /\ ~(k < i)
        BY <2>4, <3>2
      <4>2. t[k] = b[k - (i - 1)]
        BY <2>3, <2>4, <2>5, <3>2
      <4> QED
        BY <2>3, <4>1, <4>2
    <3> QED
      BY <3>1, <3>2
  <2>8. \A k \in 1..(n - 1) : From(k) \in 1..n /\ From(k) # i
    BY <2>4
  <2>9. \A k, l \in 1..(n - 1) : From(k) = From(l) => k = l
    BY <2>4
  <2> HIDE DEF From, t
  <2>10. \A k \in 1..(n - 1) : t[k][1] # key
    BY <1>0, <2>1, <2>4, <2>7, <2>8
  <2>11. \A k, l \in 1..(n - 1) : t[k][1] = t[l][1] => k = l
    BY <1>0, <2>4, <2>7, <2>8, <2>9
  <2>12. \A k \in 1..(n - 1) : \E j \in DOMAIN s : t[k] = s[j]
    BY <1>0, <2>4, <2>7, <2>8
  <2>13. t \in Seq(Entries) /\ Len(t) <= Len(s)
    BY <2>4, <2>5, <2>6 DEF t
  <2>14. Without(s, key) = t
    BY <2>2 DEF t
  <2> QED
    BY <2>6, <2>10, <2>11, <2>12, <2>13, <2>14
<1> QED
  BY <1>1, <1>2

LEMMA Evicted ==
  ASSUME NEW s \in Seq(Entries),
         \A i, j \in DOMAIN s : s[i][1] = s[j][1] => i = j
  PROVE  LET t == Evict(s)
         IN /\ t \in Seq(Entries) /\ Len(t) <= MaxEntries
            /\ \A i, j \in DOMAIN t : t[i][1] = t[j][1] => i = j
            /\ \A i \in DOMAIN t : \E j \in DOMAIN s : t[i] = s[j]
<1> DEFINE first == IF Len(s) > MaxEntries THEN Len(s) - MaxEntries + 1 ELSE 1
           t == SubSeq(s, first, Len(s))
<1>1. Len(s) \in Nat /\ DOMAIN s = 1..Len(s) /\ MaxEntries \in Nat
  BY QueryAssumption
<1>2. first \in Nat /\ 1 <= first /\ first <= Len(s) + 1 /\ Len(s) - first + 1 <= MaxEntries
  BY <1>1, QueryAssumption
<1>3. Evict(s) = t
  BY DEF Evict
<1> HIDE DEF first
<1>4. /\ t \in Seq(Entries) /\ Len(t) = Len(s) - first + 1 /\ DOMAIN t = 1..(Len(s) - first + 1)
      /\ \A k \in 1..(Len(s) - first + 1) : t[k] = s[first + k - 1] /\ first + k - 1 \in DOMAIN s
  BY <1>1, <1>2
<1> HIDE DEF t
<1>5. \A i, j \in DOMAIN t : t[i][1] = t[j][1] => i = j
  <2> SUFFICES ASSUME NEW i \in DOMAIN t, NEW j \in DOMAIN t, t[i][1] = t[j][1] PROVE i = j
    OBVIOUS
  <2>1. first + i - 1 = first + j - 1
    BY <1>4
  <2> QED
    BY <1>1, <1>2, <1>4, <2>1
<1> QED
  BY <1>1, <1>2, <1>3, <1>4, <1>5

\* What is remembered is what was kept, and the new entry.
LEMMA RememberedEntries ==
  ASSUME QueryTypeOK, NEW key, NEW hits, <<key, hits>> \in Entries
  PROVE  LET t == Remember(key, hits)
         IN /\ t \in Seq(Entries) /\ Len(t) <= MaxEntries
            /\ \A i, j \in DOMAIN t : t[i][1] = t[j][1] => i = j
            /\ \A i \in DOMAIN t : t[i] = <<key, hits>> \/ \E j \in DOMAIN cache : t[i] = cache[j]
<1> DEFINE w == Without(cache, key)
           e == <<key, hits>>
           s == Append(w, e)
<1>1. /\ w \in Seq(Entries)
      /\ \A i, j \in DOMAIN w : w[i][1] = w[j][1] => i = j
      /\ \A i \in DOMAIN w : w[i][1] # key /\ \E j \in DOMAIN cache : w[i] = cache[j]
  <2>1. cache \in Seq(Entries) /\ \A i, j \in DOMAIN cache : cache[i][1] = cache[j][1] => i = j
    BY DEF QueryTypeOK
  <2> QED
    BY <2>1, KeptWithout
<1>2. Remember(key, hits) = Evict(s)
  BY DEF Remember
<1>3. e[1] = key /\ e \in Entries
  OBVIOUS
<1> HIDE DEF w, e
<1>4. /\ s \in Seq(Entries) /\ DOMAIN s = 1..(Len(w) + 1) /\ DOMAIN w = 1..Len(w) /\ Len(w) \in Nat
      /\ \A k \in 1..Len(w) : s[k] = w[k]
      /\ s[Len(w) + 1] = e
  BY <1>1, <1>3
<1> HIDE DEF s
<1>5. \A i, j \in DOMAIN s : s[i][1] = s[j][1] => i = j
  BY <1>1, <1>3, <1>4
<1>6. /\ Evict(s) \in Seq(Entries) /\ Len(Evict(s)) <= MaxEntries
      /\ \A i, j \in DOMAIN Evict(s) : Evict(s)[i][1] = Evict(s)[j][1] => i = j
      /\ \A i \in DOMAIN Evict(s) : \E j \in DOMAIN s : Evict(s)[i] = s[j]
  BY <1>4, <1>5, Evicted
<1>7. \A j \in DOMAIN s : s[j] = e \/ \E k \in DOMAIN cache : s[j] = cache[k]
  BY <1>1, <1>4
<1> QED
  BY <1>2, <1>6, <1>7 DEF e

\* The search finds indexed chunks of the scope only.
LEMMA SearchIsScoped ==
  ASSUME QueryTypeOK, NEW q, NEW scope
  PROVE  Search(q, scope) \subseteq AllChunks /\ InScopeOf(scope, Search(q, scope))
<1>1. \A ranking, S, k : Best(ranking, S, k) \subseteq S
  BY DEF Best
<1>2. Search(q, scope) \subseteq InScope(scope)
  BY <1>1 DEF Search
<1>3. InScope(scope) \subseteq AllChunks
  BY DEF InScope, Indexed, AllChunks, QueryTypeOK
<1> QED
  BY <1>2, <1>3 DEF InScope, InScopeOf

\* Cached or searched, what is retrieved for a request lies in its scope.
LEMMA RetrievedInScope ==
  ASSUME QueryTypeOK, \A i \in DOMAIN cache : InScopeOf(cache[i][1][2], cache[i][2]),
         NEW q, NEW scope
  PROVE  LET hits == Retrieve(Key(q, scope))
         IN hits \subseteq AllChunks /\ InScopeOf(scope, hits)
<1> DEFINE key == Key(q, scope)
<1>1. key = <<q, scope>> /\ key[1] = q /\ key[2] = scope
  BY DEF Key
<1> HIDE DEF key
<1>2. CASE Entry(key) # {}
  <2> DEFINE i == CHOOSE n \in Entry(key) : TRUE
  <2>1. i \in DOMAIN cache /\ cache[i][1] = key
    BY <1>2 DEF Entry
  <2>2. Retrieve(key) = cache[i][2]
    BY <1>2 DEF Retrieve
  <2> HIDE DEF i
  <2>3. cache[i] \in Entries
    BY <2>1 DEF QueryTypeOK
  <2>4. cache[i][2] \subseteq AllChunks
    BY <2>3 DEF Entries
  <2>5. InScopeOf(scope, cache[i][2])
    BY <1>1, <2>1
  <2> QED
    BY <2>2, <2>4, <2>5 DEF key
<1>3. CASE Entry(key) = {}
  <2>1. Retrieve(key) = Search(q, scope)
    BY <1>1, <1>3 DEF Retrieve
  <2> QED
    BY <2>1, SearchIsScoped DEF key
<1> QED
  BY <1>2, <1>3

-----------------------------------------------------------------------------
(* Grounding *)

\* A place is told by its document, page and box: a grounded citation is one place.
LEMMA OnePlace ==
  ASSUME NEW c, NEW hits, NEW strict,
         NEW a \in Ground(c, Allowed(hits), strict), NEW b \in Ground(c, Allowed(hits), strict)
  PROVE  a = b
<1>1. \A p \in Allowed(hits) : \E h \in hits : \E x \in h.boxes :
        p = [document |-> h.document, page |-> h.page, box |-> x]
  BY DEF Allowed, Citations
<1>2. /\ a \in Allowed(hits) /\ a.document = c.document /\ a.page = c.page /\ a.box = c.box
      /\ b \in Allowed(hits) /\ b.document = c.document /\ b.page = c.page /\ b.box = c.box
  BY DEF Ground, OnPage
<1>3. PICK g \in hits : \E x \in g.boxes : a = [document |-> g.document, page |-> g.page, box |-> x]
  BY <1>1, <1>2
<1>4. PICK h \in hits : \E y \in h.boxes : b = [document |-> h.document, page |-> h.page, box |-> y]
  BY <1>1, <1>2
<1> QED
  BY <1>2, <1>3, <1>4

\* The citation a figure gets is one where its value stands.
LEMMA GroundedStands ==
  ASSUME NEW figure, NEW hits, Grounded(figure, hits)
  PROVE  \E h \in Cited(CitationOf(figure, hits), hits) : Occurs(figure.value, h.text)
<1> DEFINE G == Ground(figure.citation, Allowed(hits), TRUE)
<1>1. PICK a \in G : \E h \in Cited(a, hits) : Occurs(figure.value, h.text)
  BY DEF Grounded
<1>2. CitationOf(figure, hits) \in G
  BY <1>1 DEF CitationOf
<1>3. a = CitationOf(figure, hits)
  BY <1>1, <1>2, OnePlace
<1> QED
  BY <1>1, <1>3

\* A place where a retrieved chunk stands is a retrieved place of a document in scope.
LEMMA CitedIsAllowed ==
  ASSUME NEW a, NEW hits, NEW scope, InScopeOf(scope, hits), NEW h \in Cited(a, hits)
  PROVE  a \in Allowed(hits) /\ (scope = {} \/ a.document \in scope)
BY DEF Cited, Allowed, Citations, InScopeOf

LEMMA AllowedIsInScope ==
  ASSUME NEW hits, NEW scope, InScopeOf(scope, hits), NEW a \in Allowed(hits)
  PROVE  scope = {} \/ a.document \in scope
BY DEF Allowed, Citations, InScopeOf

LEMMA RepairKeepsShape ==
  ASSUME NEW figure \in Figures, NEW hits
  PROVE  DOMAIN Repaired(figure, hits) = {"label", "value", "citation"}
BY QueryAssumption DEF Repaired

-----------------------------------------------------------------------------
(* The steps *)

LEMMA QueryInitial == QueryInit => QueryInv
<1> SUFFICES ASSUME QueryInit PROVE QueryInv
  OBVIOUS
<1>1. index = [d \in DOMAIN Versions |-> {}] /\ cache = <<>> /\ query = Idle
  BY DEF QueryInit
<1>2. /\ query.step = "idle" /\ query.scope = {} /\ query.hits = {} /\ query.figures = <<>>
      /\ query.answer = None
  BY <1>1 DEF Idle
<1>3. QueryTypeOK
  BY <1>1, <1>2, QueryAssumption DEF QueryTypeOK
<1> QED
  BY <1>1, <1>2, <1>3
     DEF QueryInv, InScopeOf, FiguresAreWhereTheyAreCited, CitationsAreRetrieved, SinglePassIsGrounded

\* What a step that only moves the request on, or writes the index, leaves alone.
LEMMA SameEvidence ==
  ASSUME QueryInv, QueryTypeOK', cache' = cache, query'.scope = query.scope,
         query'.hits = query.hits, query'.figures = query.figures, query'.answer = query.answer
  PROVE  QueryInv'
BY DEF QueryInv, FiguresAreWhereTheyAreCited, CitationsAreRetrieved, SinglePassIsGrounded

LEMMA MovesOn ==
  ASSUME QueryInv, UNCHANGED <<index, cache>>, NEW s, Goto(s),
         s \in {"single_pass", "two_pass", "pass2", "pass2_retry", "idle", "done", "failed"}
  PROVE  QueryInv'
<1>1. DOMAIN query = {"step", "question", "scope", "hits", "figures", "answer"} /\ QueryTypeOK
  BY DEF QueryInv, QueryTypeOK, Idle
<1>2. query' = [query EXCEPT !.step = s]
  BY DEF Goto
<1>3. /\ DOMAIN query' = DOMAIN query /\ query'.step = s /\ query'.scope = query.scope
      /\ query'.hits = query.hits /\ query'.figures = query.figures /\ query'.answer = query.answer
  BY <1>1, <1>2
<1>4. QueryTypeOK'
  BY <1>1, <1>3 DEF QueryTypeOK, Open, Idle
<1> QED
  BY <1>3, <1>4, SameEvidence

LEMMA IngestPreserves ==
  ASSUME QueryInv, NEW d \in DOMAIN Versions, NEW version \in Versions[d], Ingest(d, version)
  PROVE  QueryInv'
<1>1. /\ index' = [index EXCEPT ![d] = version] /\ cache' = cache /\ query' = query
  BY DEF Ingest
<1>2. QueryTypeOK'
  BY <1>1 DEF QueryInv, QueryTypeOK, Open
<1> QED
  BY <1>1, <1>2, SameEvidence

LEMMA AskPreserves ==
  ASSUME QueryInv, NEW q \in DOMAIN Questions, NEW scope \in Scopes,
         NEW mode \in {"single_pass", "two_pass"}, Ask(q, scope, mode)
  PROVE  QueryInv'
<1> DEFINE key == Key(q, scope)
           hits == Retrieve(key)
<1>1. /\ cache' = Remember(key, hits) /\ index' = index
      /\ query' = [Idle EXCEPT !.question = q, !.scope = scope, !.hits = hits,
                               !.step = IF hits = {} THEN "failed" ELSE mode]
  BY DEF Ask
<1>2. hits \subseteq AllChunks /\ InScopeOf(scope, hits)
  BY RetrievedInScope DEF QueryInv
<1>3. key = <<q, scope>> /\ <<key, hits>> \in Entries
  BY <1>2 DEF Key, Entries
<1> HIDE DEF key, hits
<1>4. /\ cache' \in Seq(Entries) /\ Len(cache') <= MaxEntries
      /\ \A i, j \in DOMAIN cache' : cache'[i][1] = cache'[j][1] => i = j
      /\ \A i \in DOMAIN cache' : cache'[i] = <<key, hits>> \/ \E j \in DOMAIN cache : cache'[i] = cache[j]
  BY <1>1, <1>3, RememberedEntries DEF QueryInv
<1>5. /\ DOMAIN query' = DOMAIN Idle /\ query'.scope = scope /\ query'.hits = hits
      /\ query'.figures = <<>> /\ query'.answer = None
      /\ query'.step \in {"failed", "single_pass", "two_pass"}
  BY <1>1 DEF Idle
<1>6. QueryTypeOK'
  BY <1>1, <1>2, <1>4, <1>5 DEF QueryInv, QueryTypeOK, Open
<1>7. \A i \in DOMAIN cache' : InScopeOf(cache'[i][1][2], cache'[i][2])
  <2> SUFFICES ASSUME NEW i \in DOMAIN cache' PROVE InScopeOf(cache'[i][1][2], cache'[i][2])
    OBVIOUS
  <2>1. CASE cache'[i] = <<key, hits>>
    BY <1>2, <1>3, <2>1
  <2>2. CASE \E j \in DOMAIN cache : cache'[i] = cache[j]
    BY <2>2 DEF QueryInv
  <2> QED
    BY <1>4, <2>1, <2>2
<1> QED
  BY <1>2, <1>5, <1>6, <1>7
     DEF QueryInv, FiguresAreWhereTheyAreCited, CitationsAreRetrieved, SinglePassIsGrounded

LEMMA ExtractPreserves ==
  ASSUME QueryInv, NEW figures \in FigureLists, Extract(figures)
  PROVE  QueryInv'
<1> DEFINE hits == query.hits
           repaired == [i \in DOMAIN figures |-> Repaired(figures[i], hits)]
           kept == [i \in DOMAIN figures |->
                      [Repaired(figures[i], hits) EXCEPT
                         !.citation = CitationOf(Repaired(figures[i], hits), hits)]]
           passes == figures # <<>> /\ \A i \in DOMAIN figures : Grounded(Repaired(figures[i], hits), hits)
<1>1. /\ query.step = "two_pass" /\ UNCHANGED <<index, cache>>
      /\ IF passes THEN query' = [query EXCEPT !.step = "pass2", !.figures = kept] ELSE Goto("failed")
  BY DEF Extract
<1>2. CASE ~passes
  BY <1>1, <1>2, MovesOn
<1>3. CASE passes
  <2>1. query' = [query EXCEPT !.step = "pass2", !.figures = kept]
    BY <1>1, <1>3
  <2>2. \A i \in DOMAIN figures : \E h \in Cited(kept[i].citation, hits) : Occurs(kept[i].value, h.text)
    <3> SUFFICES ASSUME NEW i \in DOMAIN figures
                 PROVE  \E h \in Cited(kept[i].citation, hits) : Occurs(kept[i].value, h.text)
      OBVIOUS
    <3> DEFINE f == Repaired(figures[i], hits)
    <3>1. figures[i] \in Figures
      BY DEF FigureLists
    <3>2. DOMAIN f = {"label", "value", "citation"}
      BY <3>1, RepairKeepsShape
    <3>3. Grounded(f, hits)
      BY <1>3
    <3> HIDE DEF f
    <3>4. kept[i] = [f EXCEPT !.citation = CitationOf(f, hits)]
      BY DEF f
    <3>5. kept[i].citation = CitationOf(f, hits) /\ kept[i].value = f.value
      BY <3>2, <3>4
    <3> QED
      BY <3>3, <3>5, GroundedStands
  <2>3. figures # <<>> /\ DOMAIN kept = DOMAIN figures /\ kept # <<>>
    BY <1>3 DEF FigureLists
  <2> HIDE DEF kept
  <2>4. DOMAIN query = {"step", "question", "scope", "hits", "figures", "answer"} /\ QueryTypeOK
    BY DEF QueryInv, QueryTypeOK, Idle
  <2>5. /\ DOMAIN query' = DOMAIN query /\ query'.step = "pass2" /\ query'.scope = query.scope
        /\ query'.hits = query.hits /\ query'.figures = kept /\ query'.answer = query.answer
    BY <2>1, <2>4
  <2>6. QueryTypeOK'
    BY <1>1, <2>4, <2>5 DEF QueryTypeOK, Open, Idle
  <2>7. FiguresAreWhereTheyAreCited'
    BY <2>2, <2>3, <2>5 DEF FiguresAreWhereTheyAreCited
  <2>8. CitationsAreRetrieved' /\ SinglePassIsGrounded'
    BY <2>3, <2>5 DEF QueryInv, CitationsAreRetrieved, SinglePassIsGrounded
  <2> QED
    BY <1>1, <2>5, <2>6, <2>7, <2>8 DEF QueryInv
<1> QED
  BY <1>2, <1>3

LEMMA ReasonPreserves ==
  ASSUME QueryInv, NEW selection, Reason(selection)
  PROVE  QueryInv'
<1> DEFINE cited == {query.figures[i].citation : i \in selection.ids}
           reply == [text |-> selection.text, citations |-> cited]
<1>1. UNCHANGED <<index, cache>>
  BY DEF Reason
<1>2. CASE ~ValidSelection(selection)
  <2>1. Goto("pass2_retry") \/ Goto("failed")
    BY <1>2 DEF Reason
  <2> QED
    BY <1>1, <2>1, MovesOn
<1>3. CASE ValidSelection(selection)
  <2>1. query' = [query EXCEPT !.step = "done", !.answer = reply]
    BY <1>3 DEF Reason
  <2>2. selection.ids # {} /\ selection.ids \subseteq DOMAIN query.figures
    BY <1>3 DEF ValidSelection
  <2>3. cited # {} /\ \A a \in cited : a \in Allowed(query.hits) /\ (query.scope = {} \/ a.document \in query.scope)
    <3>1. cited # {}
      BY <2>2
    <3>2. ASSUME NEW i \in selection.ids
          PROVE  LET a == query.figures[i].citation
                 IN a \in Allowed(query.hits) /\ (query.scope = {} \/ a.document \in query.scope)
      <4>1. PICK h \in Cited(query.figures[i].citation, query.hits) : TRUE
        BY <2>2 DEF QueryInv, FiguresAreWhereTheyAreCited
      <4> QED
        BY <4>1, CitedIsAllowed DEF QueryInv
    <3> QED
      BY <3>1, <3>2
  <2>4. reply.citations = cited
    OBVIOUS
  <2> HIDE DEF cited, reply
  <2>5. DOMAIN query = {"step", "question", "scope", "hits", "figures", "answer"} /\ QueryTypeOK
    BY DEF QueryInv, QueryTypeOK, Idle
  <2>6. /\ DOMAIN query' = DOMAIN query /\ query'.step = "done" /\ query'.scope = query.scope
        /\ query'.hits = query.hits /\ query'.figures = query.figures /\ query'.answer = reply
    BY <2>1, <2>5
  <2>7. QueryTypeOK'
    BY <1>1, <2>5, <2>6 DEF QueryTypeOK, Open, Idle
  <2>8. query.figures # <<>>
    <3> SUFFICES ASSUME query.figures = <<>> PROVE FALSE
      OBVIOUS
    <3>1. DOMAIN query.figures = {}
      OBVIOUS
    <3> QED
      BY <2>2, <3>1
  <2>9. FiguresAreWhereTheyAreCited' /\ CitationsAreRetrieved' /\ SinglePassIsGrounded'
    BY <2>3, <2>4, <2>6, <2>8
       DEF QueryInv, FiguresAreWhereTheyAreCited, CitationsAreRetrieved, SinglePassIsGrounded
  <2> QED
    BY <1>1, <2>6, <2>7, <2>9 DEF QueryInv
<1> QED
  BY <1>2, <1>3

LEMMA AnswerPreserves ==
  ASSUME QueryInv, NEW reply, Answer(reply)
  PROVE  QueryInv'
<1> DEFINE grounded == [c \in reply.citations |-> Ground(c, Allowed(query.hits), TRUE)]
           cited == UNION {grounded[c] : c \in reply.citations}
           evidence == Joined({h.text : h \in UNION {Cited(a, query.hits) : a \in cited}})
           passes == /\ reply.citations # {} /\ \A c \in reply.citations : grounded[c] # {}
                     /\ NumbersIn(reply.text, AllVariants(evidence))
                     /\ reply.text.words \subseteq Questions[query.question] \cup evidence.words
           answer == [text |-> reply.text, citations |-> cited]
<1>1. /\ query.step = "single_pass" /\ UNCHANGED <<index, cache>>
      /\ IF passes THEN query' = [query EXCEPT !.step = "done", !.answer = answer] ELSE Goto("failed")
  BY Zenon DEF Answer
<1>2. CASE ~passes
  BY <1>1, <1>2, MovesOn
<1>3. CASE passes
  <2>1. query' = [query EXCEPT !.step = "done", !.answer = answer]
    BY <1>1, <1>3
  <2>2. cited # {} /\ cited \subseteq Allowed(query.hits)
    <3>1. \A c \in reply.citations : grounded[c] \subseteq Allowed(query.hits)
      BY DEF Ground, OnPage
    <3>2. PICK c \in reply.citations : grounded[c] # {}
      BY <1>3
    <3> HIDE DEF grounded
    <3> QED
      BY <3>1, <3>2
  <2>3. \A a \in cited : query.scope = {} \/ a.document \in query.scope
    BY <2>2, AllowedIsInScope DEF QueryInv
  <2>4. /\ answer.citations = cited /\ answer.text = reply.text
        /\ NumbersIn(reply.text, AllVariants(evidence))
    BY <1>3
  <2>a. evidence = Joined({h.text : h \in UNION {Cited(a, query.hits) : a \in cited}})
    OBVIOUS
  <2> HIDE DEF cited, answer, evidence
  <2>5. DOMAIN query = {"step", "question", "scope", "hits", "figures", "answer"} /\ QueryTypeOK
    BY DEF QueryInv, QueryTypeOK, Idle
  <2>6. /\ DOMAIN query' = DOMAIN query /\ query'.step = "done" /\ query'.scope = query.scope
        /\ query'.hits = query.hits /\ query'.figures = query.figures /\ query'.answer = answer
    BY <2>1, <2>5
  <2>7. QueryTypeOK'
    BY <1>1, <2>5, <2>6 DEF QueryTypeOK, Open, Idle
  <2>8. FiguresAreWhereTheyAreCited' /\ CitationsAreRetrieved'
    BY <2>2, <2>3, <2>4, <2>6 DEF QueryInv, FiguresAreWhereTheyAreCited, CitationsAreRetrieved
  <2>9. SinglePassIsGrounded'
    BY <2>4, <2>6, <2>a DEF SinglePassIsGrounded
  <2> QED
    BY <1>1, <2>6, <2>7, <2>8, <2>9 DEF QueryInv
<1> QED
  BY <1>2, <1>3

LEMMA QueryPreserves == QueryInv /\ [QueryNext]_queryVars => QueryInv'
<1> SUFFICES ASSUME QueryInv, [QueryNext]_queryVars PROVE QueryInv'
  OBVIOUS
<1>1. CASE UNCHANGED queryVars
  <2>1. index' = index /\ cache' = cache /\ query' = query
    BY <1>1 DEF queryVars
  <2>2. QueryTypeOK'
    BY <2>1 DEF QueryInv, QueryTypeOK, Open
  <2> QED
    BY <2>1, <2>2, SameEvidence
<1>2. CASE NoReply
  <2>1. Goto("failed") /\ UNCHANGED <<index, cache>>
    BY <1>2 DEF NoReply, Goto
  <2> QED
    BY <2>1, MovesOn
<1>3. CASE NoSelection
  <2>1. Goto("failed") /\ UNCHANGED <<index, cache>>
    BY <1>3 DEF NoSelection
  <2> QED
    BY <2>1, MovesOn
<1> QED
  BY <1>1, <1>2, <1>3, IngestPreserves, AskPreserves, ExtractPreserves, ReasonPreserves, AnswerPreserves
     DEF QueryNext, Model

\* What the cache, the hits in hand, the figures and the answer of a question keep
\* (retrieve, extract, reason).
THEOREM QueryInvariant == QuerySpec => []QueryInv
  BY QueryInitial, QueryPreserves, PTL DEF QuerySpec

\* Whatever the model proposes and the cache returns, an answer cites places that were
\* retrieved for this request, in documents it named.
THEOREM AnswersCiteWhatWasRetrieved == QuerySpec => []CitationsAreRetrieved
<1>1. QueryInv => CitationsAreRetrieved
  BY DEF QueryInv
<1> QED
  BY <1>1, QueryInvariant, PTL

\* A figure that passed pass 1 stands in a retrieved chunk where it is cited, however
\* its citation was repaired (_repair_grounded_output, _ground_citations).
THEOREM RepairsDoNotGuess == QuerySpec => []FiguresAreWhereTheyAreCited
<1>1. QueryInv => FiguresAreWhereTheyAreCited
  BY DEF QueryInv
<1> QED
  BY <1>1, QueryInvariant, PTL

\* The numbers of a single-pass answer stand in the chunks it cites
\* (SinglePassReasoner.reason).
THEOREM SinglePassStandsOnChunks == QuerySpec => []SinglePassIsGrounded
<1>1. QueryInv => SinglePassIsGrounded
  BY DEF QueryInv
<1> QED
  BY <1>1, QueryInvariant, PTL

\* The store, the cache and the question in hand have their types; no key is cached twice
\* and the cache stays within its size (HybridRetriever).
THEOREM QueriesAreTyped == QuerySpec => []QueryTypeOK
<1>1. QueryInv => QueryTypeOK
  BY DEF QueryInv
<1> QED
  BY <1>1, QueryInvariant, PTL

-----------------------------------------------------------------------------
(* Reading a document *)

pvars == <<parseVars, splitVars>>

(* What parsing keeps true: the items found on a page are printed on it, a         *)
(* truncated conversion has failed, and the fallback leaves no page out.           *)
Readable ==
  /\ clock \in Nat
  /\ file \in Files \cup {<<>>}
  /\ blocks \in Seq(SUBSET Nat) /\ Len(blocks) <= Len(file)
  /\ \A n \in 1..Len(blocks) : blocks[n] \subseteq DOMAIN file[n].items
CutHasFailed == cut => step = "failed"
NoPageIsLeftOut ==
  reader = "pages" /\ profile.failOnVision =>
    /\ Parsed => Len(blocks) = Len(file)
    /\ \A n \in 1..Len(blocks) : NeedsVision(n) => n \in rendered
ReadInv == Readable /\ CutHasFailed /\ NoPageIsLeftOut

\* A PDF is a sequence of pages, a page a sequence of items.
LEMMA FilesAreSequences ==
  ASSUME Readable
  PROVE  /\ Len(file) \in Nat /\ DOMAIN file = 1..Len(file)
         /\ \A n \in DOMAIN file : /\ Len(file[n].items) \in Nat
                                   /\ DOMAIN file[n].items = 1..Len(file[n].items)
<1>1. CASE file = <<>>
  BY <1>1
<1>2. CASE file \in Files
  <2>1. file \in Seq({file[n] : n \in DOMAIN file})
    BY <1>2, FilesAssumption
  <2>2. Len(file) \in Nat /\ DOMAIN file = 1..Len(file)
    BY <2>1, LenProperties
  <2>3. ASSUME NEW n \in DOMAIN file
        PROVE  Len(file[n].items) \in Nat /\ DOMAIN file[n].items = 1..Len(file[n].items)
    <3>1. file[n].items \in Seq({file[n].items[i] : i \in DOMAIN file[n].items})
      BY <1>2, FilesAssumption
    <3> QED  BY <3>1, LenProperties
  <2> QED  BY <2>2, <2>3
<1> QED  BY <1>1, <1>2 DEF Readable

LEMMA ReadInit == ParseInit => ReadInv
<1> SUFFICES ASSUME ParseInit PROVE ReadInv
  OBVIOUS
<1>1. blocks = <<>> /\ file = <<>> /\ clock = 0 /\ cut = FALSE /\ step = "idle"
  BY DEF ParseInit
<1>2. <<>> \in Seq(SUBSET Nat) /\ Len(<<>>) = 0
  OBVIOUS
<1> QED  BY <1>1, <1>2 DEF ReadInv, Readable, CutHasFailed, NoPageIsLeftOut, Parsed

(* A step that reads nothing and may fail the call, or hand it to the chunker when *)
(* every page has been read.                                                       *)
Quiet ==
  /\ UNCHANGED <<profile, file, clock, blocks, reader, rendered, cut>>
  /\ step # "failed"
  /\ step' \in {"chunking", "splitting", "done"} => Parsed \/ Len(blocks) = Len(file)

LEMMA QuietKeepsReading == ReadInv /\ Quiet => ReadInv'
<1> SUFFICES ASSUME ReadInv, Quiet PROVE ReadInv'
  OBVIOUS
<1>0. profile' = profile /\ file' = file /\ clock' = clock /\ blocks' = blocks /\ reader' = reader
      /\ rendered' = rendered /\ cut' = cut
  BY DEF Quiet
<1>1. Readable'
  BY <1>0 DEF ReadInv, Readable
<1>2. CutHasFailed'
  BY <1>0 DEF ReadInv, CutHasFailed, Quiet
<1>3. NoPageIsLeftOut'
  <2>1. \A n \in 1..Len(blocks) : NeedsVision(n)' = NeedsVision(n)
    BY <1>0 DEF NeedsVision, Route, Classify
  <2> QED  BY <2>1, <1>0 DEF ReadInv, NoPageIsLeftOut, Quiet, Parsed
<1> QED  BY <1>1, <1>2, <1>3 DEF ReadInv

\* A page of the fallback, read from the text layer, by vision, or left empty.
LEMMA AddedPages ==
  ASSUME ReadInv, NEW n \in Pages, NEW found \in SUBSET DOMAIN file[n].items, NEW ticks \in Nat,
         Reading(n), AddPage(found, ticks), file' = file, profile' = profile, reader' = reader,
         cut' = cut, rendered' \in {rendered, rendered \cup {n}},
         NeedsVision(n) /\ profile.failOnVision => n \in rendered'
  PROVE  ReadInv'
<1>0. blocks' = Append(blocks, found) /\ clock' = clock + ticks /\ step' = step /\ step = "pages"
      /\ n = Len(blocks) + 1
  BY DEF AddPage, Reading
<1>1. Len(file) \in Nat /\ DOMAIN file = 1..Len(file) /\ DOMAIN file[n].items \subseteq Nat
  BY FilesAreSequences DEF ReadInv, Pages
<1>2. blocks \in Seq(SUBSET Nat) /\ found \in SUBSET Nat
  BY <1>1 DEF ReadInv, Readable
<1>3. /\ blocks' \in Seq(SUBSET Nat) /\ Len(blocks') = Len(blocks) + 1
      /\ \A m \in 1..Len(blocks) : blocks'[m] = blocks[m]
      /\ blocks'[Len(blocks) + 1] = found
  BY <1>0, <1>2, AppendProperties
<1>4. Readable'
  <2>1. Len(blocks') <= Len(file')
    BY <1>0, <1>1, <1>3 DEF Pages
  <2>2. ASSUME NEW m \in 1..Len(blocks') PROVE blocks'[m] \subseteq DOMAIN file'[m].items
    <3>1. CASE m = Len(blocks) + 1
      BY <3>1, <1>0, <1>3
    <3>2. CASE m # Len(blocks) + 1
      <4>1. m \in 1..Len(blocks)
        BY <3>2, <1>2, <1>3, LenProperties
      <4> QED  BY <4>1, <1>3 DEF ReadInv, Readable
    <3> QED  BY <3>1, <3>2
  <2> QED  BY <2>1, <2>2, <1>0, <1>3 DEF ReadInv, Readable
<1>5. CutHasFailed'
  BY <1>0 DEF ReadInv, CutHasFailed
<1>6. NoPageIsLeftOut'
  <2>1. \A m : NeedsVision(m)' = NeedsVision(m)
    BY DEF NeedsVision, Route, Classify
  <2>2. ASSUME reader = "pages", profile.failOnVision, NEW m \in 1..Len(blocks'), NeedsVision(m)
        PROVE  m \in rendered'
    <3>1. CASE m = n
      BY <3>1, <2>2
    <3>2. CASE m # n
      <4>1. m \in 1..Len(blocks)
        BY <3>2, <1>0, <1>2, <1>3, LenProperties
      <4> QED  BY <4>1, <2>2 DEF ReadInv, NoPageIsLeftOut
    <3> QED  BY <3>1, <3>2
  <2>3. ~Parsed'
    BY <1>0 DEF Parsed
  <2> QED  BY <2>1, <2>2, <2>3 DEF NoPageIsLeftOut
<1> QED  BY <1>4, <1>5, <1>6 DEF ReadInv

LEMMA BeginReads ==
  ASSUME ReadInv, NEW f \in Files, NEW ticks \in 0..1, Begin(f, ticks)
  PROVE  ReadInv'
<1>0. blocks' = <<>> /\ file' = f /\ clock' = ticks /\ cut' = FALSE
      /\ step' \in {"failed", "docling", "pages"}
  BY DEF Begin
<1>1. <<>> \in Seq(SUBSET Nat) /\ Len(<<>>) = 0 /\ f \in Seq({f[n] : n \in DOMAIN f})
  BY FilesAssumption
<1>2. Len(f) \in Nat
  BY <1>1, LenProperties
<1>3. Readable'
  BY <1>0, <1>1, <1>2 DEF Readable
<1>4. CutHasFailed' /\ NoPageIsLeftOut'
  BY <1>0, <1>1 DEF CutHasFailed, NoPageIsLeftOut, Parsed
<1> QED  BY <1>3, <1>4 DEF ReadInv

LEMMA DoclingReads ==
  ASSUME ReadInv, NEW recognised \in SUBSET Pages, NEW ticks \in Ticks,
         Docling(recognised, ticks)
  PROVE  ReadInv'
<1> DEFINE truncated == profile.limited /\ ticks > DoclingBudget
           nothing == \A n \in recognised : file[n].items = <<>>
<1>0. step = "docling" /\ clock' = clock + (IF truncated THEN DoclingBudget ELSE ticks)
      /\ file' = file /\ profile' = profile /\ rendered' = rendered
  BY DEF Docling
<1>1. Len(file) \in Nat /\ DOMAIN file = 1..Len(file)
      /\ \A n \in DOMAIN file : DOMAIN file[n].items \subseteq Nat
  BY FilesAreSequences DEF ReadInv
<1>2. clock \in Nat /\ clock' \in Nat
  BY <1>0, ParsingAssumption DEF ReadInv, Readable, Ticks, DoclingBudget
<1>3. CASE nothing
  <2>1. step' = "pages" /\ UNCHANGED <<blocks, reader, cut>>
    BY <1>3 DEF Docling
  <2>2. Readable'
    BY <2>1, <1>0, <1>2 DEF ReadInv, Readable
  <2>3. CutHasFailed'
    BY <2>1, <1>0 DEF ReadInv, CutHasFailed
  <2>4. \A m : NeedsVision(m)' = NeedsVision(m)
    BY <1>0 DEF NeedsVision, Route, Classify
  <2>5. NoPageIsLeftOut'
    BY <2>1, <2>4, <1>0 DEF ReadInv, NoPageIsLeftOut, Parsed
  <2> QED  BY <2>2, <2>3, <2>5 DEF ReadInv
<1>4. CASE ~nothing
  <2>1. /\ step' = IF Late(clock') THEN "failed" ELSE "chunking"
        /\ blocks' = [n \in Pages |-> IF n \in recognised THEN AllBlocks(n) ELSE {}]
        /\ reader' = "docling" /\ cut' = truncated
    BY <1>4 DEF Docling
  <2>2. blocks' \in Seq(SUBSET Nat) /\ Len(blocks') = Len(file)
    <3>1. blocks' \in [1..Len(file) -> SUBSET Nat]
      BY <2>1, <1>1 DEF Pages, AllBlocks
    <3> QED  BY <3>1, <1>1
  <2>3. \A n \in 1..Len(blocks') : blocks'[n] \subseteq DOMAIN file'[n].items
    BY <2>1, <2>2, <1>0, <1>1 DEF Pages, AllBlocks
  <2>4. Readable'
    BY <2>2, <2>3, <1>0, <1>1, <1>2 DEF ReadInv, Readable
  <2>5. CutHasFailed'
    <3> SUFFICES ASSUME truncated PROVE step' = "failed"
      BY <2>1 DEF CutHasFailed
    <3>1. clock' = clock + Timeout
      BY <1>0 DEF DoclingBudget
    <3>2. clock' >= Timeout
      BY <3>1, <1>2, ParsingAssumption
    <3> QED  BY <3>2, <2>1 DEF Late
  <2>6. NoPageIsLeftOut'
    BY <2>1 DEF NoPageIsLeftOut
  <2> QED  BY <2>4, <2>5, <2>6 DEF ReadInv
<1> QED  BY <1>3, <1>4

LEMMA QuietSteps ==
  NoDocling \/ DoclingFails \/ EndParse \/ ChunkTable \/ SkipBlock \/ BeginText \/ SplitText
    \/ EndText \/ EndChunking \/ (\E n \in Pages : DeadlinePasses(n)) => Quiet
<1> USE DEF Quiet, Parsed
<1>1. NoDocling \/ DoclingFails \/ EndParse => Quiet
  BY DEF NoDocling, DoclingFails, EndParse
<1>2. ChunkTable => Quiet
  BY DEF ChunkTable
<1>3. SkipBlock \/ BeginText \/ EndText \/ EndChunking => Quiet
  BY DEF SkipBlock, BeginText, EndText, EndChunking
<1>4. SplitText => Quiet
  BY DEF SplitText, parseVars
<1>5. ASSUME NEW n \in Pages, DeadlinePasses(n) PROVE Quiet
  BY <1>5 DEF DeadlinePasses, Reading
<1> QED  BY <1>1, <1>2, <1>3, <1>4, <1>5

LEMMA ReadStep == ReadInv /\ [ParseNext]_pvars => ReadInv'
<1> SUFFICES ASSUME ReadInv, [ParseNext]_pvars PROVE ReadInv'
  OBVIOUS
<1>1. ASSUME NEW f \in Files, NEW ticks \in 0..1, Begin(f, ticks) PROVE ReadInv'
  BY <1>1, BeginReads
<1>2. ASSUME NEW recognised \in SUBSET Pages, NEW ticks \in Ticks, Docling(recognised, ticks)
      PROVE  ReadInv'
  BY <1>2, DoclingReads
<1>3. ASSUME NEW n \in Pages, NEW ticks \in 0..1, ReadLayer(n, ticks) PROVE ReadInv'
  <2>1. LayerBlocks(n) \in SUBSET DOMAIN file[n].items
    BY DEF LayerBlocks, TablesOn
  <2>2. /\ Reading(n) /\ AddPage(LayerBlocks(n), ticks) /\ ~NeedsVision(n)
        /\ file' = file /\ profile' = profile /\ reader' = reader /\ cut' = cut
        /\ rendered' = rendered
    BY <1>3 DEF ReadLayer
  <2> QED  BY <2>1, <2>2, AddedPages
<1>4. ASSUME NEW n \in Pages, NEW ticks \in 0..1, ReadVision(n, ticks) PROVE ReadInv'
  <2>1. PICK S \in SUBSET DOMAIN file[n].items : AddPage(S, ticks)
    BY <1>4 DEF ReadVision
  <2>2. /\ Reading(n)
        /\ file' = file /\ profile' = profile /\ reader' = reader /\ cut' = cut
        /\ rendered' = rendered \cup {n}
    BY <1>4 DEF ReadVision
  <2> QED  BY <2>1, <2>2, AddedPages
<1>5. ASSUME NEW n \in Pages, VisionFails(n) PROVE ReadInv'
  <2>1. /\ Reading(n)
        /\ file' = file /\ profile' = profile /\ reader' = reader /\ cut' = cut
        /\ rendered' = rendered
    BY <1>5 DEF VisionFails
  <2>2. CASE step' = "failed" /\ UNCHANGED <<blocks, clock>>
    <3>1. Quiet
      BY <2>1, <2>2 DEF Quiet, Reading
    <3> QED  BY <3>1, QuietKeepsReading
  <2>3. CASE ~profile.failOnVision /\ AddPage({}, 0)
    <3>1. {} \in SUBSET DOMAIN file[n].items
      OBVIOUS
    <3> QED  BY <2>1, <2>3, <3>1, AddedPages
  <2> QED  BY <2>2, <2>3, <1>5 DEF VisionFails
<1>6. CASE NoDocling \/ DoclingFails \/ EndParse \/ ChunkTable \/ SkipBlock \/ BeginText
             \/ SplitText \/ EndText \/ EndChunking \/ (\E n \in Pages : DeadlinePasses(n))
  BY <1>6, QuietSteps, QuietKeepsReading
<1>7. CASE UNCHANGED pvars
  <2>1. /\ profile' = profile /\ file' = file /\ clock' = clock /\ blocks' = blocks
        /\ reader' = reader /\ rendered' = rendered /\ cut' = cut /\ step' = step
    BY <1>7 DEF pvars, parseVars
  <2>2. \A m : NeedsVision(m)' = NeedsVision(m)
    BY <2>1 DEF NeedsVision, Route, Classify
  <2>3. NoPageIsLeftOut'
    BY <2>1, <2>2 DEF ReadInv, NoPageIsLeftOut, Parsed
  <2> QED  BY <2>1, <2>3 DEF ReadInv, Readable, CutHasFailed
<1> QED  BY <1>1, <1>2, <1>3, <1>4, <1>5, <1>6, <1>7 DEF ParseNext, ParseStep

\* What parsing keeps, whatever Docling recognises, the vision model answers and the
\* clock shows (DocumentParser.parse).
THEOREM ReadInvariant == ParseSpec => []ReadInv
<1> QED  BY ReadInit, ReadStep, PTL DEF ParseSpec, pvars

\* A document that Docling stopped reading at its own timeout is never chunked: that
\* timeout is not shorter than the call's deadline (DocumentParser.parse).
THEOREM TruncatedDocumentsFail == ParseSpec => []TruncatedIsNeverUsed
<1>1. ReadInv => TruncatedIsNeverUsed
  BY DEF ReadInv, CutHasFailed, TruncatedIsNeverUsed, Parsed
<1> QED  BY <1>1, ReadInvariant, PTL

\* When the profile asks for it, a document the fallback has parsed has shown every page
\* that needed it to the vision model (_parse_pages).
THEOREM EveryPageIsRead == ParseSpec => []FallbackReadsEveryPage
<1>1. ReadInv => FallbackReadsEveryPage
  <2> SUFFICES ASSUME ReadInv, Parsed, reader = "pages", profile.failOnVision,
                      NEW n \in Pages, NeedsVision(n)
               PROVE  n \in rendered
    BY DEF FallbackReadsEveryPage
  <2>1. n \in 1..Len(blocks)
    BY FilesAreSequences DEF ReadInv, NoPageIsLeftOut, Pages
  <2> QED  BY <2>1 DEF ReadInv, NoPageIsLeftOut
<1> QED  BY <1>1, ReadInvariant, PTL

-----------------------------------------------------------------------------
(* The reading order of what was found *)

(* The blocks found are finitely many, and the reading order ranks them one by one. *)
LEMMA FoundIsFinite == Readable => IsFiniteSet(Found)
<1> SUFFICES ASSUME Readable PROVE IsFiniteSet(Found)
  OBVIOUS
<1> DEFINE On(n) == {Block(n, i) : i \in blocks[n]}
<1>1. DOMAIN blocks = 1..Len(blocks) /\ Len(blocks) \in Nat /\ Len(file) \in Nat
  BY FilesAreSequences, LenProperties DEF Readable
<1>2. ASSUME NEW n \in DOMAIN blocks PROVE IsFiniteSet(On(n))
  <2>1. blocks[n] \in SUBSET (1..Len(file[n].items)) /\ Len(file[n].items) \in Nat
    BY <1>1, FilesAreSequences DEF Readable
  <2>2. IsFiniteSet(blocks[n])
    <3>1. IsFiniteSet(1..Len(file[n].items))
      BY <2>1, FS_Interval
    <3> QED  BY <2>1, <3>1, FS_Subset
  <2>3. [i \in blocks[n] |-> Block(n, i)] \in Surjection(blocks[n], On(n))
    BY DEF Surjection
  <2> QED  BY <2>2, <2>3, FS_Surjection
<1>3. IsFiniteSet(DOMAIN blocks)
  BY <1>1, FS_Interval
<1>4. IsFiniteSet({On(n) : n \in DOMAIN blocks})
  <2>1. [n \in DOMAIN blocks |-> On(n)] \in Surjection(DOMAIN blocks, {On(n) : n \in DOMAIN blocks})
    BY DEF Surjection
  <2> QED  BY <2>1, <1>3, FS_Surjection
<1>5. IsFiniteSet(UNION {On(n) : n \in DOMAIN blocks})
  BY <1>2, <1>4, FS_UNION
<1> QED  BY <1>5 DEF Found

\* Reading order is a strict total order on the blocks.
LEMMA FoundIsOrdered ==
  ASSUME Readable, NEW a \in Found, NEW b \in Found
  PROVE  /\ a.page \in DOMAIN blocks /\ a.item \in blocks[a.page] /\ a = Block(a.page, a.item)
         /\ ~Precedes(a, a)
         /\ a # b => Precedes(a, b) \/ Precedes(b, a)
         /\ \A c \in Found : Precedes(a, b) /\ Precedes(b, c) => Precedes(a, c)
<1>1. ASSUME NEW c \in Found
      PROVE  /\ c.page \in DOMAIN blocks /\ c.item \in blocks[c.page] /\ c = Block(c.page, c.item)
             /\ c.page \in Nat /\ c.item \in Nat
  <2>1. PICK n \in DOMAIN blocks : c \in {Block(n, i) : i \in blocks[n]}
    BY DEF Found
  <2>2. PICK i \in blocks[n] : c = Block(n, i)
    BY <2>1
  <2>3. c = [page |-> n, item |-> i]
    BY <2>2 DEF Block
  <2>4. n \in 1..Len(blocks) /\ Len(blocks) \in Nat
    BY LenProperties DEF Readable
  <2>5. n \in Nat /\ i \in Nat
    BY <2>4, ElementOfSeq DEF Readable
  <2>6. c.page = n /\ c.item = i
    BY <2>3
  <2> QED  BY <2>2, <2>5, <2>6
<1>2. \A c, d \in Found : c # d => c.page # d.page \/ c.item # d.item
  BY <1>1
<1> QED  BY <1>1, <1>2 DEF Precedes

\* Every rank below the number of blocks is taken, each by one block: the ranks are an
\* injection into as many numbers, and so a surjection.
LEMMA FlowRanks ==
  ASSUME Readable
  PROVE  /\ Cardinality(Found) \in Nat
         /\ DOMAIN Flow = 1..Cardinality(Found)
         /\ \A k \in DOMAIN Flow : Flow[k] \in Found /\ Cardinality(Earlier(Flow[k])) = k - 1
         /\ \A b \in Found : Cardinality(Earlier(b)) \in 0..(Cardinality(Found) - 1)
         /\ \A a, b \in Found : Cardinality(Earlier(a)) = Cardinality(Earlier(b)) => a = b
         /\ \A a, b \in Found : Precedes(a, b) => Cardinality(Earlier(a)) < Cardinality(Earlier(b))
<1> DEFINE N == Cardinality(Found)
           rank == [b \in Found |-> Cardinality(Earlier(b))]
<1>1. IsFiniteSet(Found) /\ N \in Nat
  BY FoundIsFinite, FS_CardinalityType
<1>2. ASSUME NEW b \in Found
      PROVE  /\ IsFiniteSet(Earlier(b)) /\ Cardinality(Earlier(b)) \in Nat
             /\ Cardinality(Earlier(b)) \in 0..(N - 1)
  <2>1. Earlier(b) \in SUBSET Found /\ b \notin Earlier(b)
    BY FoundIsOrdered DEF Earlier
  <2>2. IsFiniteSet(Earlier(b)) /\ Cardinality(Earlier(b)) <= N /\ Cardinality(Earlier(b)) # N
    BY <2>1, <1>1, FS_Subset
  <2> QED  BY <2>2, <1>1, FS_CardinalityType
<1>3. ASSUME NEW a \in Found, NEW b \in Found, Precedes(a, b)
      PROVE  Cardinality(Earlier(a)) < Cardinality(Earlier(b))
  <2>1. Earlier(a) \in SUBSET Earlier(b) /\ a \in Earlier(b) /\ a \notin Earlier(a)
    BY <1>3, FoundIsOrdered DEF Earlier
  <2>2. Cardinality(Earlier(a)) <= Cardinality(Earlier(b))
        /\ Cardinality(Earlier(a)) # Cardinality(Earlier(b))
    BY <2>1, <1>2, FS_Subset
  <2> QED  BY <2>2, <1>2
<1>4. rank \in Injection(Found, 0..(N - 1))
  <2>1. rank \in [Found -> 0..(N - 1)]
    BY <1>2
  <2>2. ASSUME NEW a \in Found, NEW b \in Found, rank[a] = rank[b] PROVE a = b
    <3>1. ~Precedes(a, b) /\ ~Precedes(b, a)
      BY <2>2, <1>2, <1>3
    <3> QED  BY <3>1, FoundIsOrdered
  <2> QED  BY <2>1, <2>2 DEF Injection, IsInjective
<1>5. IsFiniteSet(0..(N - 1)) /\ Cardinality(0..(N - 1)) = N
  BY <1>1, FS_Interval
<1>6. rank \in Surjection(Found, 0..(N - 1))
  BY <1>4, <1>5, FS_Injection
<1>7. ASSUME NEW k \in 1..N PROVE Flow[k] \in Found /\ Cardinality(Earlier(Flow[k])) = k - 1
  <2>1. k - 1 \in 0..(N - 1)
    BY <1>1
  <2>2. PICK b \in Found : rank[b] = k - 1
    BY <2>1, <1>6 DEF Surjection
  <2>3. \E x \in Found : Cardinality(Earlier(x)) = k - 1
    BY <2>2
  <2>4. Flow[k] = CHOOSE x \in Found : Cardinality(Earlier(x)) = k - 1
    BY DEF Flow
  <2> QED  BY <2>3, <2>4
<1>8. DOMAIN Flow = 1..N
  BY DEF Flow
<1>9. \A a, b \in Found : Cardinality(Earlier(a)) = Cardinality(Earlier(b)) => a = b
  BY <1>4 DEF Injection, IsInjective
<1> QED  BY <1>1, <1>2, <1>3, <1>7, <1>8, <1>9

LEMMA FlowIsASequence ==
  ASSUME Readable
  PROVE  /\ Flow \in Seq(Found) /\ Len(Flow) \in Nat /\ DOMAIN Flow = 1..Len(Flow)
         /\ \A i, j \in DOMAIN Flow : Flow[i] = Flow[j] => i = j
<1>1. Flow \in [1..Cardinality(Found) -> Found]
  <2>1. Flow = [k \in DOMAIN Flow |-> Flow[k]]
    BY DEF Flow
  <2> QED  BY <2>1, FlowRanks
<1>2. Flow \in Seq(Found)
  BY <1>1, FlowRanks
<1>3. \A i, j \in DOMAIN Flow : Flow[i] = Flow[j] => i = j
  BY FlowRanks
<1> QED  BY <1>2, <1>3, LenProperties

\* Flow is all that was found, in reading order.
LEMMA FlowIsInOrder ==
  ASSUME Readable
  PROVE  /\ \A b \in Found : \E k \in DOMAIN Flow : Flow[k] = b
         /\ \A i, j \in DOMAIN Flow : i < j => Precedes(Flow[i], Flow[j])
<1>1. ASSUME NEW b \in Found PROVE \E k \in DOMAIN Flow : Flow[k] = b
  <2> DEFINE k == Cardinality(Earlier(b)) + 1
  <2>1. k \in DOMAIN Flow /\ Cardinality(Earlier(b)) = k - 1
    BY FlowRanks
  <2>2. Flow[k] \in Found /\ Cardinality(Earlier(Flow[k])) = Cardinality(Earlier(b))
    BY <2>1, FlowRanks
  <2> QED  BY <2>1, <2>2, FlowRanks
<1>2. ASSUME NEW i \in DOMAIN Flow, NEW j \in DOMAIN Flow, i < j
      PROVE  Precedes(Flow[i], Flow[j])
  <2>1. /\ Flow[i] \in Found /\ Flow[j] \in Found /\ i \in Nat /\ j \in Nat
        /\ Cardinality(Earlier(Flow[i])) = i - 1 /\ Cardinality(Earlier(Flow[j])) = j - 1
    BY FlowRanks
  <2>2. Flow[i] # Flow[j] /\ ~Precedes(Flow[j], Flow[i])
    BY <2>1, <1>2, FlowRanks
  <2> QED  BY <2>1, <2>2, FoundIsOrdered
<1> QED  BY <1>1, <1>2

-----------------------------------------------------------------------------
(* Sequences *)

IsSequence(s) == s \in Seq({s[i] : i \in DOMAIN s})

\* A sequence, whatever its members are, grows by one.
LEMMA AppendedSequence ==
  ASSUME NEW s, IsSequence(s), NEW e
  PROVE  /\ IsSequence(Append(s, e)) /\ Len(Append(s, e)) = Len(s) + 1
         /\ DOMAIN Append(s, e) = 1..(Len(s) + 1) /\ DOMAIN s = 1..Len(s) /\ Len(s) \in Nat
         /\ \A i \in DOMAIN s : Append(s, e)[i] = s[i]
         /\ Append(s, e)[Len(s) + 1] = e
<1> DEFINE S == {s[i] : i \in DOMAIN s} \cup {e}
           t == Append(s, e)
<1>1. s \in Seq(S) /\ DOMAIN s = 1..Len(s) /\ Len(s) \in Nat
  <2>1. DOMAIN s = 1..Len(s) /\ Len(s) \in Nat
    BY LenProperties DEF IsSequence
  <2>2. s \in [1..Len(s) -> S]
    <3>1. s = [i \in DOMAIN s |-> s[i]]
      BY DEF IsSequence
    <3> QED  BY <3>1, <2>1
  <2> QED  BY <2>1, <2>2
<1>2. /\ t \in Seq(S) /\ Len(t) = Len(s) + 1 /\ \A i \in 1..Len(s) : t[i] = s[i]
      /\ t[Len(s) + 1] = e
  BY <1>1, AppendProperties
<1>3. t \in [1..(Len(s) + 1) -> S]
  BY <1>1, <1>2, LenProperties
<1> HIDE DEF t
<1>4. DOMAIN t = 1..(Len(s) + 1)
  BY <1>3
<1>5. t \in [1..(Len(s) + 1) -> {t[i] : i \in DOMAIN t}]
  BY <1>3
<1>6. t \in Seq({t[i] : i \in DOMAIN t})
  <2> DEFINE R == {t[i] : i \in DOMAIN t}
             n == Len(s) + 1
  <2>1. n \in Nat /\ t \in [1..n -> R]
    BY <1>1, <1>5
  <2> HIDE DEF R, n
  <2>2. t \in Seq(R)
    BY <2>1
  <2> QED  BY <2>2 DEF R
<1> QED  BY <1>1, <1>2, <1>4, <1>6 DEF IsSequence

LEMMA ReplacedSequence ==
  ASSUME NEW s, IsSequence(s), NEW c \in DOMAIN s, NEW e
  PROVE  LET t == [s EXCEPT ![c] = e]
         IN  /\ IsSequence(t) /\ DOMAIN t = DOMAIN s /\ Len(t) = Len(s)
             /\ DOMAIN s = 1..Len(s) /\ Len(s) \in Nat
             /\ \A i \in DOMAIN s : i # c => t[i] = s[i]
             /\ t[c] = e
<1> DEFINE t == [s EXCEPT ![c] = e]
           S == {s[i] : i \in DOMAIN s} \cup {e}
<1>1. s \in Seq(S) /\ DOMAIN s = 1..Len(s) /\ Len(s) \in Nat
  <2>1. DOMAIN s = 1..Len(s) /\ Len(s) \in Nat
    BY LenProperties DEF IsSequence
  <2>2. s \in [1..Len(s) -> S]
    <3>1. s = [i \in DOMAIN s |-> s[i]]
      BY DEF IsSequence
    <3> QED  BY <3>1, <2>1
  <2> QED  BY <2>1, <2>2
<1>2. t \in Seq(S) /\ Len(t) = Len(s) /\ \A j \in 1..Len(s) : t[j] = IF j = c THEN e ELSE s[j]
  BY <1>1, ExceptSeq
<1> HIDE DEF t
<1>3. DOMAIN t = 1..Len(s) /\ t \in [1..Len(s) -> S]
  BY <1>2, LenProperties
<1>4. t \in [1..Len(s) -> {t[i] : i \in DOMAIN t}]
  BY <1>3
<1>5. t \in Seq({t[i] : i \in DOMAIN t})
  <2> DEFINE R == {t[i] : i \in DOMAIN t}
             n == Len(s)
  <2>1. n \in Nat /\ t \in [1..n -> R]
    BY <1>1, <1>4
  <2> HIDE DEF R, n
  <2>2. t \in Seq(R)
    BY <2>1
  <2> QED  BY <2>2 DEF R
<1>6. /\ IsSequence(t) /\ DOMAIN t = DOMAIN s /\ Len(t) = Len(s)
      /\ DOMAIN s = 1..Len(s) /\ Len(s) \in Nat
      /\ \A i \in DOMAIN s : i # c => t[i] = s[i]
      /\ t[c] = e
  BY <1>1, <1>2, <1>3, <1>5 DEF IsSequence
<1> QED  BY <1>6 DEF t

Extended(t, s, e) ==
  /\ t \in Seq(Found) /\ Len(t) = Len(s) + 1
  /\ (\A k \in 1..Len(s) : t[k] = s[k]) /\ t[Len(s) + 1] = e
LEMMA Concatenated ==
  ASSUME NEW S, NEW s \in Seq(S), NEW e \in S, NEW p, p = <<e>>, NEW t, t = s \o p
  PROVE  /\ t \in Seq(S) /\ Len(t) = Len(s) + 1
         /\ \A k \in 1..Len(s) : t[k] = s[k]
         /\ t[Len(s) + 1] = e
<1>1. p \in Seq(S) /\ Len(p) = 1 /\ p[1] = e /\ Len(s) \in Nat
  BY LenProperties
<1>2. /\ s \o p \in Seq(S) /\ Len(s \o p) = Len(s) + Len(p)
      /\ \A k \in 1..Len(s) + Len(p) :
           (s \o p)[k] = IF k <= Len(s) THEN s[k] ELSE p[k - Len(s)]
  BY <1>1, ConcatProperties
<1>3. t = s \o p
  OBVIOUS
<1>4. \A k \in 1..Len(s) : k \in 1..(Len(s) + 1) /\ k <= Len(s)
  BY <1>1
<1>5. Len(s) + 1 \in 1..(Len(s) + 1) /\ ~(Len(s) + 1 <= Len(s)) /\ (Len(s) + 1) - Len(s) = 1
  BY <1>1
<1> QED  BY <1>1, <1>2, <1>3, <1>4, <1>5

(* Every text and table block before next is part of one chunk, and of no other.   *)
Unstarted == step \in {"idle", "docling", "pages"} => next = 1 /\ chunks = <<>> /\ lastTable = 0
Stepping ==
  /\ next \in 1..(Len(Flow) + 1)
  /\ IsSequence(chunks) /\ lastTable \in 0..Len(chunks)
  /\ step = "splitting" => next <= Len(Flow) /\ Kind(Here) \in {"paragraph", "heading"}
  /\ step = "done" => next > Len(Flow)
PartsAreEvidence ==
  \A c \in DOMAIN chunks :
    /\ chunks[c].parts \in Seq(Found) /\ chunks[c].parts # <<>>
    /\ \A k \in DOMAIN chunks[c].parts : \E i \in Evidence : i < next /\ chunks[c].parts[k] = Flow[i]
NothingIsDropped ==
  \A i \in Evidence : i < next =>
    \E c \in DOMAIN chunks : \E k \in DOMAIN chunks[c].parts : chunks[c].parts[k] = Flow[i]
NothingIsRepeated ==
  \A c, d \in DOMAIN chunks : \A k \in DOMAIN chunks[c].parts : \A l \in DOMAIN chunks[d].parts :
    chunks[c].parts[k] = chunks[d].parts[l] => c = d /\ k = l
PartsAreInOrder ==
  \A c \in DOMAIN chunks : \A k \in 1..(Len(chunks[c].parts) - 1) :
    \E i, j \in Evidence : /\ i < j /\ Flow[i] = chunks[c].parts[k]
                           /\ Flow[j] = chunks[c].parts[k + 1]
TablesAreRecords ==
  \A c \in DOMAIN chunks :
    chunks[c].kind = "table" => {"kind", "parts", "captions", "size"} \subseteq DOMAIN chunks[c]
LastTableIsATable == lastTable # 0 => chunks[lastTable].kind = "table"

Placed == /\ Stepping /\ PartsAreEvidence /\ NothingIsDropped /\ NothingIsRepeated
          /\ PartsAreInOrder
ChunkInv == Unstarted /\ (Parsed => Placed /\ TablesAreRecords /\ LastTableIsATable)

(* The chunker leaves the blocks alone, and so their order.                        *)
Still == file' = file /\ blocks' = blocks
LEMMA StillFlow ==
  ASSUME Still
  PROVE  /\ Flow' = Flow /\ Found' = Found /\ Evidence' = Evidence /\ Tables' = Tables
         /\ \A b : Data(b)' = Data(b) /\ Kind(b)' = Kind(b)
<1>1. Found' = Found
  BY DEF Still, Found
<1>2. Flow' = Flow
  BY <1>1 DEF Flow, Earlier
<1>3. \A b : Data(b)' = Data(b) /\ Kind(b)' = Kind(b)
  BY DEF Still, Data, Kind, Item
<1>4. Evidence' = Evidence /\ Tables' = Tables
  BY <1>2, <1>3 DEF Evidence, Tables
<1> QED  BY <1>1, <1>2, <1>3, <1>4

(* What a chunk's parts mean when a block is added as a chunk of its own.          *)
LEMMA PlaceOwn ==
  ASSUME Readable, Placed, Still, next \in Evidence, NEW chunk, chunk.parts = <<Flow[next]>>,
         chunks' = Append(chunks, chunk), next' = next + 1, lastTable' \in {lastTable, Len(chunks) + 1},
         step' = "chunking"
  PROVE  Placed'
<1>0. Flow' = Flow /\ Found' = Found /\ Evidence' = Evidence
  BY StillFlow
<1>1. /\ Flow \in Seq(Found) /\ Len(Flow) \in Nat /\ DOMAIN Flow = 1..Len(Flow)
      /\ \A i, j \in DOMAIN Flow : Flow[i] = Flow[j] => i = j
      /\ Evidence \subseteq DOMAIN Flow
  BY FlowIsASequence DEF Evidence
<1> DEFINE C == Len(chunks) + 1
<1>2. /\ IsSequence(chunks') /\ Len(chunks') = C /\ DOMAIN chunks' = 1..C
      /\ DOMAIN chunks = 1..Len(chunks) /\ Len(chunks) \in Nat
      /\ \A c \in DOMAIN chunks : chunks'[c] = chunks[c]
      /\ chunks'[C] = chunk
  BY AppendedSequence DEF Placed, Stepping
<1>3. Flow[next] \in Found
  BY <1>1
<1>4. /\ chunk.parts \in Seq(Found) /\ DOMAIN chunk.parts = {1} /\ chunk.parts[1] = Flow[next]
      /\ Len(chunk.parts) = 1 /\ chunk.parts # <<>>
  BY <1>3
<1>5. next \in 1..Len(Flow)
  BY <1>1
<1>6. Stepping'
  BY <1>0, <1>1, <1>2, <1>5 DEF Placed, Stepping
<1>7. PartsAreEvidence'
  <2> SUFFICES ASSUME NEW c \in DOMAIN chunks'
               PROVE /\ chunks'[c].parts \in Seq(Found) /\ chunks'[c].parts # <<>>
                     /\ \A k \in DOMAIN chunks'[c].parts :
                          \E i \in Evidence : i < next + 1 /\ chunks'[c].parts[k] = Flow[i]
    BY <1>0 DEF PartsAreEvidence
  <2>1. CASE c = C
    <3>1. chunks'[c].parts = chunk.parts /\ next < next + 1
      BY <2>1, <1>2, <1>5
    <3> QED  BY <3>1, <1>4
  <2>2. CASE c # C
    <3>1. c \in DOMAIN chunks /\ chunks'[c] = chunks[c]
      BY <2>2, <1>2
    <3> QED  BY <3>1, <1>1, <1>5 DEF Placed, PartsAreEvidence
  <2> QED  BY <2>1, <2>2
<1>8. NothingIsDropped'
  <2> SUFFICES ASSUME NEW i \in Evidence, i < next + 1
               PROVE \E c \in DOMAIN chunks' : \E k \in DOMAIN chunks'[c].parts :
                       chunks'[c].parts[k] = Flow[i]
    BY <1>0 DEF NothingIsDropped
  <2>1. CASE i = next
    BY <2>1, <1>2, <1>4
  <2>2. CASE i # next
    <3>1. i < next
      BY <2>2, <1>1, <1>5
    <3>2. PICK c \in DOMAIN chunks : \E k \in DOMAIN chunks[c].parts : chunks[c].parts[k] = Flow[i]
      BY <3>1 DEF Placed, NothingIsDropped
    <3>3. c \in DOMAIN chunks' /\ chunks'[c] = chunks[c]
      BY <1>2
    <3> QED  BY <3>2, <3>3
  <2> QED  BY <2>1, <2>2
<1>9. \A c \in DOMAIN chunks : \A k \in DOMAIN chunks[c].parts : chunks[c].parts[k] # Flow[next]
  <2> SUFFICES ASSUME NEW c \in DOMAIN chunks, NEW k \in DOMAIN chunks[c].parts
               PROVE  chunks[c].parts[k] # Flow[next]
    OBVIOUS
  <2>1. PICK i \in Evidence : i < next /\ chunks[c].parts[k] = Flow[i]
    BY DEF Placed, PartsAreEvidence
  <2> QED  BY <2>1, <1>1, <1>5
<1>10. NothingIsRepeated'
  <2> SUFFICES ASSUME NEW c \in DOMAIN chunks', NEW d \in DOMAIN chunks',
                      NEW k \in DOMAIN chunks'[c].parts, NEW l \in DOMAIN chunks'[d].parts,
                      chunks'[c].parts[k] = chunks'[d].parts[l]
               PROVE  c = d /\ k = l
    BY DEF NothingIsRepeated
  <2>1. CASE c = C /\ d = C
    BY <2>1, <1>2, <1>4
  <2>2. CASE c = C /\ d # C
    <3>1. d \in DOMAIN chunks /\ chunks'[d] = chunks[d] /\ chunks'[c].parts[k] = Flow[next]
      BY <2>2, <1>2, <1>4
    <3> QED  BY <3>1, <1>9
  <2>3. CASE c # C /\ d = C
    <3>1. c \in DOMAIN chunks /\ chunks'[c] = chunks[c] /\ chunks'[d].parts[l] = Flow[next]
      BY <2>3, <1>2, <1>4
    <3> QED  BY <3>1, <1>9
  <2>4. CASE c # C /\ d # C
    <3>1. c \in DOMAIN chunks /\ d \in DOMAIN chunks /\ chunks'[c] = chunks[c] /\ chunks'[d] = chunks[d]
      BY <2>4, <1>2
    <3> QED  BY <3>1 DEF Placed, NothingIsRepeated
  <2> QED  BY <2>1, <2>2, <2>3, <2>4
<1>11. PartsAreInOrder'
  <2> SUFFICES ASSUME NEW c \in DOMAIN chunks', NEW k \in 1..(Len(chunks'[c].parts) - 1)
               PROVE  \E i, j \in Evidence : /\ i < j /\ Flow[i] = chunks'[c].parts[k]
                                             /\ Flow[j] = chunks'[c].parts[k + 1]
    BY <1>0 DEF PartsAreInOrder
  <2>1. CASE c = C
    BY <2>1, <1>2, <1>4
  <2>2. CASE c # C
    <3>1. c \in DOMAIN chunks /\ chunks'[c].parts = chunks[c].parts
      BY <2>2, <1>2
    <3>2. k \in 1..(Len(chunks[c].parts) - 1)
      BY <3>1
    <3> QED  BY <3>1, <3>2 DEF Placed, PartsAreInOrder
  <2> QED  BY <2>1, <2>2
<1> QED  BY <1>6, <1>7, <1>8, <1>10, <1>11 DEF Placed

(* ... and when it is joined to the last table.                                    *)
LEMMA PlaceMerged ==
  ASSUME Readable, Placed, Still, next \in Evidence, lastTable # 0, NEW chunk,
         Extended(chunk.parts, chunks[lastTable].parts, Flow[next]),
         chunks' = [chunks EXCEPT ![lastTable] = chunk], next' = next + 1,
         lastTable' = lastTable, step' = "chunking"
  PROVE  Placed'
<1>0. Flow' = Flow /\ Found' = Found /\ Evidence' = Evidence
  BY StillFlow
<1>1. /\ Flow \in Seq(Found) /\ Len(Flow) \in Nat /\ DOMAIN Flow = 1..Len(Flow)
      /\ \A i, j \in DOMAIN Flow : Flow[i] = Flow[j] => i = j
      /\ Evidence \subseteq DOMAIN Flow
  BY FlowIsASequence DEF Evidence
<1> DEFINE C == lastTable
           old == chunks[C].parts
           m == Len(old)
<1>2. DOMAIN chunks = 1..Len(chunks) /\ Len(chunks) \in Nat /\ C \in DOMAIN chunks
  BY LenProperties DEF Placed, Stepping, IsSequence
<1>3. /\ IsSequence(chunks') /\ DOMAIN chunks' = DOMAIN chunks /\ Len(chunks') = Len(chunks)
      /\ \A c \in DOMAIN chunks : c # C => chunks'[c] = chunks[c]
      /\ chunks'[C] = chunk
  BY <1>2, ReplacedSequence DEF Placed, Stepping
<1>4. Flow[next] \in Found /\ next \in 1..Len(Flow)
  BY <1>1
<1>5. old \in Seq(Found) /\ old # <<>>
  BY <1>2 DEF Placed, PartsAreEvidence
<1>6. m \in Nat /\ DOMAIN old = 1..m /\ m >= 1
  <2>1. m \in Nat /\ DOMAIN old = 1..m
    BY <1>5, LenProperties
  <2> QED  BY <2>1, <1>5, EmptySeq
<1>7. /\ chunk.parts \in Seq(Found) /\ Len(chunk.parts) = m + 1 /\ DOMAIN chunk.parts = 1..(m + 1)
      /\ (\A k \in 1..m : chunk.parts[k] = old[k]) /\ chunk.parts[m + 1] = Flow[next]
      /\ chunk.parts # <<>>
  <2>2. /\ chunk.parts \in Seq(Found) /\ Len(chunk.parts) = m + 1
        /\ (\A k \in 1..m : chunk.parts[k] = old[k]) /\ chunk.parts[m + 1] = Flow[next]
    BY DEF Extended
  <2>3. DOMAIN chunk.parts = 1..(m + 1) /\ chunk.parts # <<>>
    BY <2>2, <1>6, LenProperties, EmptySeq
  <2> QED  BY <2>2, <2>3
<1> HIDE DEF m, old
<1>8. Stepping'
  BY <1>0, <1>1, <1>2, <1>3, <1>4 DEF Placed, Stepping
<1>9. PartsAreEvidence'
  <2> SUFFICES ASSUME NEW c \in DOMAIN chunks'
               PROVE /\ chunks'[c].parts \in Seq(Found) /\ chunks'[c].parts # <<>>
                     /\ \A k \in DOMAIN chunks'[c].parts :
                          \E i \in Evidence : i < next + 1 /\ chunks'[c].parts[k] = Flow[i]
    BY <1>0 DEF PartsAreEvidence
  <2>1. CASE c = C
    <3>1. ASSUME NEW k \in 1..(m + 1)
          PROVE  \E i \in Evidence : i < next + 1 /\ chunk.parts[k] = Flow[i]
      <4>1. CASE k = m + 1
        <5>1. chunk.parts[k] = Flow[next]
          BY <4>1, <1>7
        <5>2. next < next + 1
          BY <1>4
        <5> QED  BY <5>1, <5>2
      <4>2. CASE k # m + 1
        <5>1. k \in DOMAIN chunks[C].parts /\ chunk.parts[k] = chunks[C].parts[k]
          BY <4>2, <1>6, <1>7 DEF old
        <5>2. PICK i \in Evidence : i < next /\ chunks[C].parts[k] = Flow[i]
          BY <5>1, <1>2 DEF Placed, PartsAreEvidence
        <5> QED  BY <5>1, <5>2, <1>1, <1>4
      <4> QED  BY <4>1, <4>2
    <3> QED  BY <3>1, <2>1, <1>3, <1>7
  <2>2. CASE c # C
    <3>1. c \in DOMAIN chunks /\ chunks'[c] = chunks[c]
      BY <2>2, <1>3
    <3> QED  BY <3>1, <1>1, <1>4 DEF Placed, PartsAreEvidence
  <2> QED  BY <2>1, <2>2
<1>10. NothingIsDropped'
  <2> SUFFICES ASSUME NEW i \in Evidence, i < next + 1
               PROVE \E c \in DOMAIN chunks' : \E k \in DOMAIN chunks'[c].parts :
                       chunks'[c].parts[k] = Flow[i]
    BY <1>0 DEF NothingIsDropped
  <2>1. CASE i = next
    <3>1. m + 1 \in DOMAIN chunks'[C].parts /\ chunks'[C].parts[m + 1] = Flow[i]
      BY <2>1, <1>3, <1>6, <1>7
    <3> QED  BY <3>1, <1>2, <1>3
  <2>2. CASE i # next
    <3>1. i < next
      BY <2>2, <1>1, <1>4
    <3>2. PICK c \in DOMAIN chunks : \E k \in DOMAIN chunks[c].parts : chunks[c].parts[k] = Flow[i]
      BY <3>1 DEF Placed, NothingIsDropped
    <3>3. PICK k \in DOMAIN chunks[c].parts : chunks[c].parts[k] = Flow[i]
      BY <3>2
    <3>4. k \in DOMAIN chunks'[c].parts /\ chunks'[c].parts[k] = chunks[c].parts[k]
      <4>1. CASE c = C
        <5>1. k \in 1..m
          BY <4>1, <1>6 DEF old
        <5>2. k \in 1..(m + 1)
          BY <5>1, <1>6
        <5> QED  BY <4>1, <5>1, <5>2, <1>3, <1>7 DEF old
      <4>2. CASE c # C
        BY <4>2, <1>3
      <4> QED  BY <4>1, <4>2
    <3> QED  BY <3>3, <3>4, <1>3
  <2> QED  BY <2>1, <2>2
<1>11. \A c \in DOMAIN chunks : \A k \in DOMAIN chunks[c].parts : chunks[c].parts[k] # Flow[next]
  <2> SUFFICES ASSUME NEW c \in DOMAIN chunks, NEW k \in DOMAIN chunks[c].parts
               PROVE  chunks[c].parts[k] # Flow[next]
    OBVIOUS
  <2>1. PICK i \in Evidence : i < next /\ chunks[c].parts[k] = Flow[i]
    BY DEF Placed, PartsAreEvidence
  <2> QED  BY <2>1, <1>1, <1>4
<1> DEFINE New(c, k) == c = C /\ k = m + 1
<1>12. ASSUME NEW c \in DOMAIN chunks', NEW k \in DOMAIN chunks'[c].parts
       PROVE  \/ New(c, k) /\ chunks'[c].parts[k] = Flow[next]
              \/ /\ c \in DOMAIN chunks /\ k \in DOMAIN chunks[c].parts
                 /\ chunks'[c].parts[k] = chunks[c].parts[k]
  <2>1. CASE c = C
    <3>1. k \in 1..(m + 1) /\ chunks'[c].parts[k] = chunk.parts[k]
      BY <2>1, <1>3, <1>7
    <3>2. CASE k = m + 1
      BY <3>1, <3>2, <2>1, <1>7
    <3>3. CASE k # m + 1
      <4>1. k \in 1..m
        BY <3>1, <3>3, <1>6
      <4> QED  BY <4>1, <3>1, <2>1, <1>2, <1>6, <1>7 DEF old
    <3> QED  BY <3>2, <3>3
  <2>2. CASE c # C
    BY <2>2, <1>3
  <2> QED  BY <2>1, <2>2
<1>13. NothingIsRepeated'
  <2> SUFFICES ASSUME NEW c \in DOMAIN chunks', NEW d \in DOMAIN chunks',
                      NEW k \in DOMAIN chunks'[c].parts, NEW l \in DOMAIN chunks'[d].parts,
                      chunks'[c].parts[k] = chunks'[d].parts[l]
               PROVE  c = d /\ k = l
    BY DEF NothingIsRepeated
  <2> QED  BY <1>11, <1>12 DEF Placed, NothingIsRepeated
<1>14. PartsAreInOrder'
  <2>0. ASSUME NEW c \in DOMAIN chunks', NEW k \in 1..(Len(chunks'[c].parts) - 1)
        PROVE  \E i, j \in Evidence : /\ i < j /\ Flow[i] = chunks'[c].parts[k]
                                      /\ Flow[j] = chunks'[c].parts[k + 1]
    <3>1. CASE c = C /\ k = m
      <4>1. m \in DOMAIN chunks[C].parts /\ chunk.parts[m] = chunks[C].parts[m]
        BY <1>6, <1>7 DEF old
      <4>2. PICK i \in Evidence : i < next /\ chunks[C].parts[m] = Flow[i]
        BY <4>1, <1>2 DEF Placed, PartsAreEvidence
      <4> QED  BY <3>1, <4>1, <4>2, <1>3, <1>7
    <3>2. CASE c = C /\ k # m
      <4>1. k \in 1..(m - 1) /\ k \in 1..m /\ k + 1 \in 1..m
        <5>1. k \in 1..((m + 1) - 1)
          BY <3>2, <1>3, <1>7
        <5> QED  BY <5>1, <3>2, <1>6
      <4>2. chunks'[c].parts[k] = chunks[C].parts[k] /\ chunks'[c].parts[k + 1] = chunks[C].parts[k + 1]
        BY <3>2, <4>1, <1>3, <1>7 DEF old
      <4>3. k \in 1..(Len(chunks[C].parts) - 1)
        BY <4>1 DEF m, old
      <4> QED  BY <4>2, <4>3, <1>2 DEF Placed, PartsAreInOrder
    <3>3. CASE c # C
      <4>1. c \in DOMAIN chunks /\ chunks'[c] = chunks[c]
        BY <3>3, <1>3
      <4> QED  BY <4>1 DEF Placed, PartsAreInOrder
    <3> QED  BY <3>1, <3>2, <3>3
  <2>1. ASSUME NEW c \in DOMAIN chunks', NEW k \in 1..(Len(chunks'[c].parts) - 1)
        PROVE  \E i, j \in Evidence' : /\ i < j /\ Flow'[i] = chunks'[c].parts[k]
                                       /\ Flow'[j] = chunks'[c].parts[k + 1]
    <3>1. PICK i, j \in Evidence : /\ i < j /\ Flow[i] = chunks'[c].parts[k]
                                   /\ Flow[j] = chunks'[c].parts[k + 1]
      BY <2>0
    <3>2. i \in Evidence' /\ j \in Evidence' /\ Flow'[i] = Flow[i] /\ Flow'[j] = Flow[j]
      BY <1>0
    <3> QED  BY <3>1, <3>2, Zenon
  <2> QED  BY <2>1, Zenon DEF PartsAreInOrder
<1> QED  BY <1>8, <1>9, <1>10, <1>13, <1>14 DEF Placed

LEMMA ChunkInit == ParseInit => ChunkInv
  BY DEF ParseInit, ChunkInv, Unstarted, Parsed

(* A document reaches the chunker with no chunk yet.                               *)
NotStarted == step \notin {"splitting", "done"} /\ next = 1 /\ chunks = <<>> /\ lastTable = 0
FreshIsPlaced == Readable /\ NotStarted => Placed /\ TablesAreRecords /\ LastTableIsATable
LEMMA Fresh == FreshIsPlaced
<1> SUFFICES ASSUME Readable, NotStarted PROVE Placed /\ TablesAreRecords /\ LastTableIsATable
  BY DEF FreshIsPlaced
<1>1. Len(Flow) \in Nat /\ \A i \in Evidence : ~(i < next)
  BY FlowIsASequence DEF Evidence, NotStarted
<1>2. DOMAIN chunks = {} /\ Len(chunks) = 0 /\ IsSequence(chunks)
  BY DEF NotStarted, IsSequence
<1>3. Stepping
  BY <1>1, <1>2 DEF Stepping, NotStarted
<1> QED  BY <1>1, <1>2, <1>3 DEF Placed, PartsAreEvidence, NothingIsDropped, NothingIsRepeated,
           PartsAreInOrder, TablesAreRecords, LastTableIsATable, NotStarted

Starting ==
  /\ step \in {"idle", "docling", "pages"} /\ step' \notin {"splitting", "done"}
  /\ UNCHANGED chunkVars

LEMMA StartingSteps ==
  ASSUME \/ NoDocling \/ DoclingFails \/ EndParse
         \/ \E recognised \in SUBSET Pages, ticks \in Ticks : Docling(recognised, ticks)
         \/ \E n \in Pages, ticks \in 0..1 : ReadLayer(n, ticks) \/ ReadVision(n, ticks)
         \/ \E n \in Pages : VisionFails(n) \/ DeadlinePasses(n)
  PROVE  Starting
<1>1. NoDocling \/ DoclingFails \/ EndParse => Starting
  BY DEF NoDocling, DoclingFails, EndParse, Starting, chunkVars
<1>2. ASSUME NEW recognised \in SUBSET Pages, NEW ticks \in Ticks, Docling(recognised, ticks)
      PROVE  Starting
  <2>1. step = "docling" /\ UNCHANGED chunkVars /\ step' \in {"pages", "failed", "chunking"}
    BY <1>2 DEF Docling
  <2> QED  BY <2>1 DEF Starting
<1>3. ASSUME NEW n \in Pages, NEW ticks \in 0..1, ReadLayer(n, ticks) \/ ReadVision(n, ticks)
      PROVE  Starting
  BY <1>3 DEF ReadLayer, ReadVision, AddPage, Reading, Starting, chunkVars
<1>4. ASSUME NEW n \in Pages, VisionFails(n) \/ DeadlinePasses(n) PROVE Starting
  BY <1>4 DEF VisionFails, DeadlinePasses, AddPage, Reading, Starting, chunkVars
<1> QED  BY <1>1, <1>2, <1>3, <1>4

LEMMA StartingKeepsChunks == Readable' /\ ChunkInv /\ Starting => ChunkInv'
<1> SUFFICES ASSUME Readable', ChunkInv, Starting PROVE ChunkInv'
  OBVIOUS
<1>1. NotStarted'
  BY DEF ChunkInv, Unstarted, Starting, chunkVars, NotStarted
<1>2. FreshIsPlaced'
  BY Fresh, PTL
<1>3. (Placed /\ TablesAreRecords /\ LastTableIsATable)'
  BY <1>1, <1>2 DEF FreshIsPlaced
<1> QED  BY <1>1, <1>3 DEF ChunkInv, Unstarted, NotStarted

(* What a table adds.                                                              *)
LEMMA NextIsEvidence ==
  ASSUME Readable, Placed, next <= Len(Flow), Kind(Here) \notin {"caption", "image"}
  PROVE  next \in Evidence
  BY FlowIsASequence DEF Evidence, Here, Placed, Stepping

LEMMA MergedFields ==
  ASSUME NEW first, NEW continuation, {"kind", "parts", "captions", "size"} \subseteq DOMAIN first
  PROVE  /\ Merged(first, continuation).parts = first.parts \o continuation.parts
         /\ Merged(first, continuation).captions = first.captions \o continuation.captions
         /\ Merged(first, continuation).kind = first.kind
         /\ DOMAIN Merged(first, continuation) = DOMAIN first
  BY DEF Merged

LEMMA TablesKeepChunks ==
  ASSUME Readable, ChunkInv, ChunkTable
  PROVE  ChunkInv'
<1> DEFINE chunk == TableChunk(next)
           merged == Merged(chunks[lastTable], chunk)
           merges == IsContinuation(chunk) /\ lastTable # 0
<1>0. /\ step = "chunking" /\ next <= Len(Flow) /\ Kind(Here) = "table" /\ Still
      /\ Placed /\ TablesAreRecords /\ LastTableIsATable
  BY DEF ChunkTable, Still, ChunkInv, Parsed
<1>1. /\ chunk.parts = <<Flow[next]>> /\ chunk.kind = "table"
      /\ {"kind", "parts", "captions", "size"} \subseteq DOMAIN chunk
  BY DEF TableChunk
<1>2. next \in Evidence
  BY <1>0, NextIsEvidence
<1>3. IsSequence(chunks) /\ DOMAIN chunks = 1..Len(chunks) /\ Len(chunks) \in Nat
      /\ lastTable \in 0..Len(chunks)
  BY <1>0, AppendedSequence DEF Placed, Stepping
<1> HIDE DEF chunk
<1>4. CASE step' = "failed"
  BY <1>4 DEF ChunkInv, Unstarted, Parsed
<1>5. CASE merges /\ step' = step /\ next' = next + 1 /\ chunks' = [chunks EXCEPT ![lastTable] = merged]
           /\ lastTable' = lastTable
  <2>1. /\ chunks[lastTable].kind = "table" /\ lastTable \in DOMAIN chunks
        /\ {"kind", "parts", "captions", "size"} \subseteq DOMAIN chunks[lastTable]
    BY <1>5, <1>0, <1>3 DEF TablesAreRecords, LastTableIsATable
  <2>2. /\ merged.parts = chunks[lastTable].parts \o chunk.parts /\ merged.kind = "table"
        /\ DOMAIN merged = DOMAIN chunks[lastTable]
    <3>1. /\ merged.parts = chunks[lastTable].parts \o chunk.parts
          /\ merged.kind = chunks[lastTable].kind /\ DOMAIN merged = DOMAIN chunks[lastTable]
      BY <2>1, MergedFields, Zenon
    <3> HIDE DEF merged
    <3> QED  BY <3>1, <2>1, <1>1
  <2> HIDE DEF merged
  <2>3. Placed'
    <3>1. chunks[lastTable].parts \in Seq(Found) /\ Flow[next] \in Found
      BY <2>1, <1>0, <1>2, FlowIsASequence DEF Placed, PartsAreEvidence, Evidence
    <3>2. Extended(merged.parts, chunks[lastTable].parts, Flow[next])
      BY <3>1, <2>2, <1>1, Concatenated DEF Extended
    <3> QED  BY <3>2, <1>0, <1>2, <1>5, PlaceMerged
  <2>4. DOMAIN chunks' = DOMAIN chunks /\ chunks'[lastTable] = merged
        /\ \A c \in DOMAIN chunks : c # lastTable => chunks'[c] = chunks[c]
    BY <1>3, <1>5, <2>1
  <2>5. TablesAreRecords' /\ LastTableIsATable'
    BY <2>1, <2>2, <2>4, <1>0, <1>5 DEF TablesAreRecords, LastTableIsATable
  <2> QED  BY <2>3, <2>5, <1>0, <1>5 DEF ChunkInv, Unstarted
<1>6. CASE step' = step /\ next' = next + 1 /\ chunks' = Append(chunks, chunk)
           /\ lastTable' = Len(chunks) + 1
  <2>1. Placed'
    BY <1>0, <1>1, <1>2, <1>6, PlaceOwn
  <2>2. /\ DOMAIN chunks' = 1..(Len(chunks) + 1) /\ chunks'[Len(chunks) + 1] = chunk
        /\ \A c \in DOMAIN chunks : chunks'[c] = chunks[c]
    BY <1>3, <1>6, AppendedSequence
  <2>3. ASSUME NEW c \in DOMAIN chunks'
        PROVE  (c \in DOMAIN chunks /\ chunks'[c] = chunks[c]) \/ chunks'[c] = chunk
    BY <2>2, <1>3
  <2>4. TablesAreRecords'
    BY <2>3, <1>0, <1>1 DEF TablesAreRecords
  <2>5. LastTableIsATable'
    BY <2>2, <1>1, <1>6 DEF LastTableIsATable
  <2> QED  BY <2>1, <2>4, <2>5, <1>0, <1>6 DEF ChunkInv, Unstarted
<1>7. \/ step' = "failed"
      \/ merges /\ step' = step /\ next' = next + 1
           /\ chunks' = [chunks EXCEPT ![lastTable] = merged] /\ lastTable' = lastTable
      \/ step' = step /\ next' = next + 1 /\ chunks' = Append(chunks, chunk)
           /\ lastTable' = Len(chunks) + 1
  BY Zenon DEF ChunkTable, chunk
<1> QED  BY <1>4, <1>5, <1>6, <1>7

LEMMA TextsKeepChunks ==
  ASSUME Readable, ChunkInv, EndText
  PROVE  ChunkInv'
<1>0. /\ step = "splitting" /\ Still /\ chunks' = Append(chunks, TextChunk(Here)) /\ next' = next + 1
      /\ step' = "chunking" /\ lastTable' = lastTable
      /\ Placed /\ TablesAreRecords /\ LastTableIsATable
  BY DEF EndText, Still, ChunkInv, Parsed
<1>1. TextChunk(Here).parts = <<Flow[next]>> /\ TextChunk(Here).kind = "text"
  BY DEF TextChunk, Here
<1>2. next \in Evidence
  BY <1>0, NextIsEvidence DEF Placed, Stepping
<1>3. IsSequence(chunks) /\ DOMAIN chunks = 1..Len(chunks) /\ Len(chunks) \in Nat
      /\ lastTable \in 0..Len(chunks)
  BY <1>0, AppendedSequence DEF Placed, Stepping
<1>4. Placed'
  BY <1>0, <1>1, <1>2, PlaceOwn
<1>5. /\ DOMAIN chunks' = 1..(Len(chunks) + 1)
      /\ \A c \in DOMAIN chunks : chunks'[c] = chunks[c]
      /\ chunks'[Len(chunks) + 1] = TextChunk(Here)
  BY <1>0, <1>3, AppendedSequence
<1>6. ASSUME NEW c \in DOMAIN chunks'
      PROVE  (c \in DOMAIN chunks /\ chunks'[c] = chunks[c]) \/ chunks'[c].kind = "text"
  BY <1>1, <1>3, <1>5
<1>7. TablesAreRecords'
  BY <1>6, <1>0 DEF TablesAreRecords
<1>8. LastTableIsATable'
  BY <1>0, <1>3, <1>5 DEF LastTableIsATable
<1> QED  BY <1>0, <1>4, <1>7, <1>8 DEF ChunkInv, Unstarted

(* Steps of the chunker that make no chunk.                                        *)
LEMMA OthersKeepChunks ==
  ASSUME Readable, ChunkInv, Still, chunks' = chunks, lastTable' = lastTable,
         \/ next' = next /\ step' = step
         \/ /\ step = "chunking" /\ step' = "chunking" /\ next <= Len(Flow)
            /\ Kind(Here) \in {"caption", "image"} /\ next' = next + 1
         \/ /\ step = "chunking" /\ step' = "splitting" /\ next <= Len(Flow)
            /\ Kind(Here) \in {"paragraph", "heading"} /\ next' = next
         \/ /\ step = "chunking" /\ step' = "done" /\ next > Len(Flow) /\ next' = next
  PROVE  ChunkInv'
<1>1. Flow' = Flow /\ Found' = Found /\ Evidence' = Evidence /\ \A b : Kind(b)' = Kind(b)
  BY StillFlow
<1>2. Here = Flow[next] /\ (next' = next => Here' = Here)
  BY <1>1 DEF Here
<1>3. Unstarted'
  BY DEF ChunkInv, Unstarted
<1>4. CASE ~Parsed
  BY <1>3, <1>4 DEF ChunkInv, Parsed
<1>5. CASE Parsed
  <2>1. Placed /\ TablesAreRecords /\ LastTableIsATable
    BY <1>5 DEF ChunkInv
  <2>2. Len(Flow) \in Nat /\ DOMAIN Flow = 1..Len(Flow) /\ next \in Nat
    BY <2>1, FlowIsASequence DEF Placed, Stepping
  <2>3. \A i \in Evidence : i \in Nat /\ (i < next' <=> i < next)
    <3> SUFFICES ASSUME NEW i \in Evidence PROVE i \in Nat /\ (i < next' <=> i < next)
      OBVIOUS
    <3>1. i \in Nat /\ (i = next => Kind(Here) \notin {"caption", "image"})
      BY <2>2, <1>2 DEF Evidence
    <3>2. CASE next' = next
      BY <3>1, <3>2
    <3>3. CASE next' = next + 1 /\ Kind(Here) \in {"caption", "image"}
      BY <3>1, <3>3, <2>2
    <3> QED  BY <3>2, <3>3
  <2>4. Stepping'
    <3>1. next' \in 1..(Len(Flow) + 1)
      BY <2>1, <2>2 DEF Placed, Stepping
    <3>2. step' = "splitting" => next' <= Len(Flow) /\ Kind(Here') \in {"paragraph", "heading"}
      BY <2>1, <1>2 DEF Placed, Stepping
    <3>3. Kind(Here)' = Kind(Here')
      BY DEF Still, Kind, Item
    <3>4. step' = "done" => next' > Len(Flow)
      BY <2>1 DEF Placed, Stepping
    <3> QED  BY <3>1, <3>2, <3>3, <3>4, <2>1, <1>1 DEF Placed, Stepping
  <2>5. PartsAreEvidence'
    BY <2>1, <2>3, <1>1 DEF Placed, PartsAreEvidence
  <2>6. NothingIsDropped'
    BY <2>1, <2>3, <1>1 DEF Placed, NothingIsDropped
  <2>7. NothingIsRepeated' /\ PartsAreInOrder'
    BY <2>1, <1>1 DEF Placed, NothingIsRepeated, PartsAreInOrder
  <2>8. TablesAreRecords' /\ LastTableIsATable'
    BY <2>1 DEF TablesAreRecords, LastTableIsATable
  <2> QED  BY <2>4, <2>5, <2>6, <2>7, <2>8, <1>3 DEF ChunkInv, Placed
<1> QED  BY <1>4, <1>5

LEMMA ChunkStep == ReadInv /\ ReadInv' /\ ChunkInv /\ [ParseNext]_pvars => ChunkInv'
<1> SUFFICES ASSUME ReadInv, ReadInv', ChunkInv, [ParseNext]_pvars PROVE ChunkInv'
  OBVIOUS
<1>0. Readable /\ Readable'
  BY DEF ReadInv
<1>1. ASSUME NEW f \in Files, NEW ticks \in 0..1, Begin(f, ticks) PROVE ChunkInv'
  <2>1. step' \in {"failed", "docling", "pages"} /\ next' = 1 /\ chunks' = <<>> /\ lastTable' = 0
    BY <1>1 DEF Begin
  <2> QED  BY <2>1 DEF ChunkInv, Unstarted, Parsed
<1>2. CASE \/ NoDocling \/ DoclingFails \/ EndParse
           \/ \E recognised \in SUBSET Pages, ticks \in Ticks : Docling(recognised, ticks)
           \/ \E n \in Pages, ticks \in 0..1 : ReadLayer(n, ticks) \/ ReadVision(n, ticks)
           \/ \E n \in Pages : VisionFails(n) \/ DeadlinePasses(n)
  BY <1>0, <1>2, StartingSteps, StartingKeepsChunks
<1>3. CASE ChunkTable
  BY <1>0, <1>3, TablesKeepChunks
<1>4. CASE EndText
  BY <1>0, <1>4, TextsKeepChunks
<1>5. CASE SkipBlock
  BY <1>0, <1>5, OthersKeepChunks DEF SkipBlock, Still
<1>6. CASE BeginText
  BY <1>0, <1>6, OthersKeepChunks DEF BeginText, Still, chunkVars
<1>7. CASE EndChunking
  BY <1>0, <1>7, OthersKeepChunks DEF EndChunking, Still, chunkVars
<1>8. CASE SplitText \/ UNCHANGED pvars
  BY <1>0, <1>8, OthersKeepChunks DEF SplitText, Still, pvars, parseVars
<1> QED  BY <1>1, <1>2, <1>3, <1>4, <1>5, <1>6, <1>7, <1>8 DEF ParseNext, ParseStep

\* What the loop over the blocks keeps (LayoutAwareChunker.chunk).
THEOREM ChunkInvariant == ParseSpec => [](ReadInv /\ ChunkInv)
<1>1. ParseInit => ReadInv /\ ChunkInv
  BY ReadInit, ChunkInit
<1>2. ReadInv /\ ChunkInv /\ [ParseNext]_pvars => (ReadInv /\ ChunkInv)'
  BY ReadStep, ChunkStep
<1> QED  BY <1>1, <1>2, PTL DEF ParseSpec, pvars

\* Once every block has been taken, the invariant says what was to be shown.
LEMMA DoneIsKept == ReadInv /\ ChunkInv => EvidenceIsKeptOnce
<1> SUFFICES ASSUME ReadInv, ChunkInv, step = "done" PROVE EvidenceIsKeptOnce
  BY DEF EvidenceIsKeptOnce
<1> DEFINE places == UNION {{<<c, k>> : k \in DOMAIN chunks[c].parts} : c \in DOMAIN chunks}
<1>1. Readable /\ Placed
  BY DEF ReadInv, ChunkInv, Parsed
<1>2. ASSUME NEW i \in Evidence
      PROVE  Cardinality({p \in places : chunks[p[1]].parts[p[2]] = Flow[i]}) = 1
  <2> DEFINE at == {p \in places : chunks[p[1]].parts[p[2]] = Flow[i]}
  <2>1. i < next
    BY <1>1, FlowIsASequence DEF Evidence, Placed, Stepping
  <2>2. PICK c \in DOMAIN chunks : \E k \in DOMAIN chunks[c].parts : chunks[c].parts[k] = Flow[i]
    BY <1>1, <2>1 DEF Placed, NothingIsDropped
  <2>3. PICK k \in DOMAIN chunks[c].parts : chunks[c].parts[k] = Flow[i]
    BY <2>2
  <2>4. <<c, k>> \in places
    BY <2>3
  <2>5. <<c, k>> \in at
    BY <2>3, <2>4
  <2>6. ASSUME NEW p \in at PROVE p = <<c, k>>
    <3>1. p \in places /\ chunks[p[1]].parts[p[2]] = Flow[i]
      OBVIOUS
    <3>2. PICK d \in DOMAIN chunks : p \in {<<d, l>> : l \in DOMAIN chunks[d].parts}
      BY <3>1
    <3>3. PICK l \in DOMAIN chunks[d].parts : p = <<d, l>>
      BY <3>2
    <3>4. chunks[d].parts[l] = chunks[c].parts[k]
      BY <3>1, <3>3, <2>3
    <3> QED  BY <3>3, <3>4, <2>3, <1>1 DEF Placed, NothingIsRepeated
  <2>7. at = {<<c, k>>}
    BY <2>5, <2>6
  <2> QED  BY <2>7, FS_Singleton
<1>3. ASSUME NEW c \in DOMAIN chunks, NEW k \in 1..(Len(chunks[c].parts) - 1)
      PROVE  \E i, j \in Evidence : /\ i < j /\ Flow[i] = chunks[c].parts[k]
                                    /\ Flow[j] = chunks[c].parts[k + 1]
  BY <1>1 DEF Placed, PartsAreInOrder
<1> QED  BY <1>2, <1>3 DEF EvidenceIsKeptOnce

\* Every text and every table of a chunked document is part of exactly one chunk, and
\* the parts of a chunk stand in reading order (LayoutAwareChunker.chunk,
\* _merge_table_parts).
THEOREM EvidenceIsKept == ParseSpec => []EvidenceIsKeptOnce
<1> QED  BY DoneIsKept, ChunkInvariant, PTL

\* What is chunked is what was read: every block found on a page, but captions and
\* images, is part of a chunk, and the parts of a chunk follow the pages.
WhatIsReadIsFiled ==
  step = "done" =>
    /\ \A b \in Found : Kind(b) \notin {"caption", "image"} =>
         \E c \in DOMAIN chunks : \E k \in DOMAIN chunks[c].parts : chunks[c].parts[k] = b
    /\ \A c \in DOMAIN chunks : \A k \in 1..(Len(chunks[c].parts) - 1) :
         Precedes(chunks[c].parts[k], chunks[c].parts[k + 1])

\* A chunked document holds every block that was read, in the order of its pages and of
\* the items on a page (ParsedDocument.blocks, LayoutAwareChunker.chunk).
THEOREM ReadingIsFiled == ParseSpec => []WhatIsReadIsFiled
<1>1. ReadInv /\ ChunkInv => WhatIsReadIsFiled
  <2> SUFFICES ASSUME ReadInv, ChunkInv, step = "done" PROVE WhatIsReadIsFiled
    BY DEF WhatIsReadIsFiled
  <2>1. Readable /\ Placed
    BY DEF ReadInv, ChunkInv, Parsed
  <2>2. ASSUME NEW b \in Found, Kind(b) \notin {"caption", "image"}
        PROVE  \E c \in DOMAIN chunks : \E k \in DOMAIN chunks[c].parts : chunks[c].parts[k] = b
    <3>1. PICK i \in DOMAIN Flow : Flow[i] = b
      BY <2>1, FlowIsInOrder
    <3>2. i \in Evidence
      BY <3>1, <2>2 DEF Evidence
    <3>3. i < next
      BY <2>1, <3>1, FlowIsASequence DEF Placed, Stepping
    <3> QED  BY <2>1, <3>1, <3>2, <3>3 DEF Placed, NothingIsDropped
  <2>3. ASSUME NEW c \in DOMAIN chunks, NEW k \in 1..(Len(chunks[c].parts) - 1)
        PROVE  Precedes(chunks[c].parts[k], chunks[c].parts[k + 1])
    <3>1. PICK i, j \in Evidence : /\ i < j /\ Flow[i] = chunks[c].parts[k]
                                   /\ Flow[j] = chunks[c].parts[k + 1]
      BY <2>1 DEF Placed, PartsAreInOrder
    <3> QED  BY <2>1, <3>1, FlowIsInOrder DEF Evidence
  <2> QED  BY <2>2, <2>3 DEF WhatIsReadIsFiled
<1> QED  BY <1>1, ChunkInvariant, PTL

-----------------------------------------------------------------------------
(* Captions *)

(* Part k of a table is Flow[i], under its own caption; part k > 1 is called a     *)
(* continuation, and Flow[h], the part before it, is the table before it.          *)
Follows(h, i) == \A j \in Tables : j < i => j <= h
PartIsCaptioned(chunk, k) ==
  \E i \in Tables :
    /\ chunk.parts[k] = Flow[i] /\ chunk.captions[k] = Flow[i - 1]
    /\ k > 1 => /\ Data(Flow[i - 1]).continued
                /\ \E h \in Tables : Flow[h] = chunk.parts[k - 1] /\ Follows(h, i)
ChunkIsCaptioned(chunk) ==
  /\ chunk.captions \in Seq(Found) /\ Len(chunk.captions) = Len(chunk.parts)
  /\ \A k \in DOMAIN chunk.parts : PartIsCaptioned(chunk, k)
TablesAreCaptioned ==
  \A c \in DOMAIN chunks : chunks[c].kind = "table" => ChunkIsCaptioned(chunks[c])
LastPart(chunk) == chunk.parts[Len(chunk.parts)]
LastTableIsLatest ==
  /\ lastTable = 0 => \A j \in Tables : ~(j < next)
  /\ lastTable # 0 => \E h \in Tables : Flow[h] = LastPart(chunks[lastTable]) /\ Follows(h, next)
CaptionInv == Parsed /\ Captioned => TablesAreCaptioned /\ LastTableIsLatest

LEMMA StillCaptions ==
  ASSUME Still
  PROVE  /\ Captioned' = Captioned
         /\ \A chunk : ChunkIsCaptioned(chunk)' = ChunkIsCaptioned(chunk)
         /\ \A h, i : Follows(h, i)' = Follows(h, i)
<1>1. /\ Flow' = Flow /\ Found' = Found /\ Tables' = Tables
      /\ \A b : Data(b)' = Data(b) /\ Kind(b)' = Kind(b)
  BY StillFlow
<1>2. \A h, i : Follows(h, i)' = Follows(h, i)
  BY <1>1 DEF Follows
<1>3. \A chunk, k : PartIsCaptioned(chunk, k)' = PartIsCaptioned(chunk, k)
  BY <1>1, <1>2 DEF PartIsCaptioned
<1>4. \A chunk : ChunkIsCaptioned(chunk)' = ChunkIsCaptioned(chunk)
  BY <1>1, <1>3 DEF ChunkIsCaptioned
<1>5. \A i, j : CaptionAt(i, j)' = CaptionAt(i, j)
  BY <1>1 DEF CaptionAt
<1>6. Captioned' = Captioned
  BY <1>1, <1>5 DEF Captioned
<1> QED  BY <1>2, <1>4, <1>6

LEMMA CaptionAbove ==
  ASSUME Readable, Captioned, NEW i \in Tables
  PROVE  /\ i \in Nat /\ i - 1 \in DOMAIN Flow /\ Flow[i - 1] \in Found /\ Flow[i] \in Found
         /\ TableChunk(i).captions = <<Flow[i - 1]>>
<1>1. CaptionAt(i, i - 1)
  BY DEF Captioned
<1>2. DOMAIN Flow = 1..Len(Flow) /\ Len(Flow) \in Nat /\ Flow \in Seq(Found)
  BY FlowIsASequence
<1>3. i \in 1..Len(Flow) /\ i - 1 \in 1..Len(Flow)
  BY <1>1, <1>2 DEF CaptionAt, Tables
<1>4. CaptionOf(i) = i - 1 /\ i - 1 # 0
  BY <1>1, <1>3 DEF CaptionOf
<1>5. TableChunk(i).captions = <<Flow[i - 1]>>
  BY <1>4 DEF TableChunk
<1> QED  BY <1>2, <1>3, <1>5

LEMMA TablesKeepCaptions ==
  ASSUME Readable, ChunkInv, CaptionInv, Captioned, ChunkTable, step' # "failed"
  PROVE  TablesAreCaptioned' /\ LastTableIsLatest'
<1> DEFINE chunk == TableChunk(next)
           merged == Merged(chunks[lastTable], chunk)
           merges == IsContinuation(chunk) /\ lastTable # 0
<1>0. /\ step = "chunking" /\ next <= Len(Flow) /\ Kind(Here) = "table" /\ Still
      /\ Placed /\ TablesAreRecords /\ LastTableIsATable /\ TablesAreCaptioned /\ LastTableIsLatest
  BY DEF ChunkTable, Still, ChunkInv, CaptionInv, Parsed
<1>1. next \in Tables /\ next \in Nat
  BY <1>0, FlowIsASequence DEF Tables, Here, Placed, Stepping
<1>2. /\ chunk.captions = <<Flow[next - 1]>> /\ Flow[next - 1] \in Found /\ Flow[next] \in Found
      /\ chunk.parts = <<Flow[next]>> /\ chunk.kind = "table"
  BY <1>1, CaptionAbove DEF TableChunk
<1>3. IsSequence(chunks) /\ DOMAIN chunks = 1..Len(chunks) /\ Len(chunks) \in Nat
      /\ lastTable \in 0..Len(chunks)
  BY <1>0, AppendedSequence DEF Placed, Stepping
<1>4. /\ Flow' = Flow /\ Tables' = Tables
      /\ \A x : ChunkIsCaptioned(x)' = ChunkIsCaptioned(x)
      /\ \A h, i : Follows(h, i)' = Follows(h, i)
  BY <1>0, StillFlow, StillCaptions
<1>5. Follows(next, next + 1)
  <2>1. \A j \in Tables : j \in Nat
    BY FlowIsASequence DEF Tables
  <2> QED  BY <2>1, <1>1 DEF Follows
<1>6. merges => Data(Flow[next - 1]).continued
  BY <1>2 DEF IsContinuation
<1>7. \/ merges /\ next' = next + 1 /\ chunks' = [chunks EXCEPT ![lastTable] = merged]
           /\ lastTable' = lastTable
      \/ next' = next + 1 /\ chunks' = Append(chunks, chunk) /\ lastTable' = Len(chunks) + 1
  BY Zenon DEF ChunkTable
<1>8. CASE merges /\ next' = next + 1 /\ chunks' = [chunks EXCEPT ![lastTable] = merged]
           /\ lastTable' = lastTable
  <2> DEFINE first == chunks[lastTable]
             m == Len(first.parts)
  <2>1. /\ first.kind = "table" /\ lastTable \in DOMAIN chunks /\ ChunkIsCaptioned(first)
        /\ {"kind", "parts", "captions", "size"} \subseteq DOMAIN first
    BY <1>8, <1>0, <1>3 DEF TablesAreRecords, LastTableIsATable, TablesAreCaptioned
  <2>2. /\ merged.parts = first.parts \o chunk.parts
        /\ merged.captions = first.captions \o chunk.captions /\ merged.kind = first.kind
    BY <2>1, MergedFields, Zenon
  <2>3. /\ first.parts \in Seq(Found) /\ first.captions \in Seq(Found) /\ Len(first.captions) = m
        /\ m \in Nat /\ m >= 1 /\ DOMAIN first.parts = 1..m
    <3>1. first.parts \in Seq(Found) /\ first.parts # <<>>
      BY <2>1, <1>0 DEF Placed, PartsAreEvidence
    <3> HIDE DEF first
    <3> QED  BY <3>1, <2>1, LenProperties, EmptySeq DEF ChunkIsCaptioned
  <2> HIDE DEF first, merged, chunk
  <2>4. /\ merged.parts \in Seq(Found) /\ Len(merged.parts) = m + 1
        /\ \A k \in 1..m : merged.parts[k] = first.parts[k]
        /\ merged.parts[m + 1] = Flow[next]
    BY <2>2, <2>3, <1>2, Concatenated
  <2>5. /\ merged.captions \in Seq(Found) /\ Len(merged.captions) = m + 1
        /\ \A k \in 1..m : merged.captions[k] = first.captions[k]
        /\ merged.captions[m + 1] = Flow[next - 1]
    <3> DEFINE l == Len(first.captions)
               e == Flow[next - 1]
    <3>2. /\ merged.captions \in Seq(Found) /\ Len(merged.captions) = l + 1
          /\ \A k \in 1..l : merged.captions[k] = first.captions[k]
          /\ merged.captions[l + 1] = Flow[next - 1]
      <4>1. /\ e \in Found /\ first.captions \in Seq(Found) /\ chunk.captions = <<e>>
            /\ merged.captions = first.captions \o chunk.captions
        BY <2>2, <2>3, <1>2
      <4> HIDE DEF e
      <4>2. /\ merged.captions \in Seq(Found) /\ Len(merged.captions) = l + 1
            /\ (\A k \in 1..l : merged.captions[k] = first.captions[k])
            /\ merged.captions[l + 1] = e
        BY <4>1, Concatenated
      <4> QED  BY <4>2 DEF e
    <3>3. l = m
      BY <2>3
    <3> HIDE DEF l, m
    <3> QED  BY <3>2, <3>3
  <2>6. PartIsCaptioned(merged, m + 1)
    <3>1. PICK h \in Tables : Flow[h] = LastPart(first) /\ Follows(h, next)
      BY <1>0, <1>8 DEF LastTableIsLatest, first
    <3>2. Flow[h] = merged.parts[(m + 1) - 1]
      BY <3>1, <2>3, <2>4 DEF LastPart, m
    <3> HIDE DEF m
    <3> QED  BY <3>1, <3>2, <2>4, <2>5, <1>1, <1>6, <1>8 DEF PartIsCaptioned
  <2>7. ASSUME NEW k \in 1..m PROVE PartIsCaptioned(merged, k)
    <3>1. PICK i \in Tables :
            /\ first.parts[k] = Flow[i] /\ first.captions[k] = Flow[i - 1]
            /\ k > 1 => /\ Data(Flow[i - 1]).continued
                        /\ \E h \in Tables : Flow[h] = first.parts[k - 1] /\ Follows(h, i)
      BY <2>1, <2>3 DEF ChunkIsCaptioned, PartIsCaptioned
    <3>2. merged.parts[k] = first.parts[k] /\ merged.captions[k] = first.captions[k]
          /\ (k > 1 => merged.parts[k - 1] = first.parts[k - 1])
      BY <2>3, <2>4, <2>5
    <3> HIDE DEF m
    <3> QED  BY <3>1, <3>2 DEF PartIsCaptioned
  <2>8. ChunkIsCaptioned(merged)
    <3>1. DOMAIN merged.parts = 1..(m + 1)
      BY <2>4, LenProperties
    <3>2. \A k \in 1..(m + 1) : k = m + 1 \/ k \in 1..m
      BY <2>3
    <3> HIDE DEF m
    <3> QED  BY <3>1, <3>2, <2>4, <2>5, <2>6, <2>7 DEF ChunkIsCaptioned
  <2>9. DOMAIN chunks' = DOMAIN chunks /\ chunks'[lastTable] = merged
        /\ \A c \in DOMAIN chunks : c # lastTable => chunks'[c] = chunks[c]
    BY <1>3, <1>8, <2>1
  <2>10. TablesAreCaptioned'
    <3>1. ASSUME NEW c \in DOMAIN chunks', chunks'[c].kind = "table"
          PROVE  ChunkIsCaptioned(chunks'[c])
      BY <3>1, <2>8, <2>9, <1>0 DEF TablesAreCaptioned
    <3> QED  BY <3>1, <1>4 DEF TablesAreCaptioned
  <2>11. LastTableIsLatest'
    <3>1. lastTable' # 0 /\ LastPart(chunks'[lastTable]) = Flow[next]
      BY <1>8, <2>4, <2>9 DEF LastPart
    <3>2. Flow'[next] = LastPart(chunks'[lastTable']) /\ Follows(next, next')
      BY <3>1, <1>4, <1>5, <1>8
    <3> QED  BY <3>1, <3>2, <1>1, <1>4 DEF LastTableIsLatest, LastPart
  <2> QED  BY <2>10, <2>11
<1>9. CASE next' = next + 1 /\ chunks' = Append(chunks, chunk) /\ lastTable' = Len(chunks) + 1
  <2> HIDE DEF chunk
  <2>1. /\ DOMAIN chunks' = 1..(Len(chunks) + 1) /\ chunks'[Len(chunks) + 1] = chunk
        /\ \A c \in DOMAIN chunks : chunks'[c] = chunks[c]
    BY <1>3, <1>9, AppendedSequence
  <2>2. /\ DOMAIN chunk.parts = {1} /\ chunk.parts[1] = Flow[next] /\ Len(chunk.parts) = 1
        /\ chunk.captions[1] = Flow[next - 1] /\ Len(chunk.captions) = 1
        /\ chunk.captions \in Seq(Found)
    BY <1>2
  <2>3. ChunkIsCaptioned(chunk)
    BY <2>2, <1>1 DEF ChunkIsCaptioned, PartIsCaptioned
  <2>4. ASSUME NEW c \in DOMAIN chunks'
        PROVE  (c \in DOMAIN chunks /\ chunks'[c] = chunks[c]) \/ chunks'[c] = chunk
    BY <2>1, <1>3
  <2>5. TablesAreCaptioned'
    <3>1. ASSUME NEW c \in DOMAIN chunks', chunks'[c].kind = "table"
          PROVE  ChunkIsCaptioned(chunks'[c])
      BY <3>1, <2>3, <2>4, <1>0 DEF TablesAreCaptioned
    <3> QED  BY <3>1, <1>4 DEF TablesAreCaptioned
  <2>6. LastTableIsLatest'
    <3>1. lastTable' # 0 /\ LastPart(chunks'[lastTable']) = Flow[next]
      BY <1>3, <1>9, <2>1, <2>2 DEF LastPart
    <3>2. Flow'[next] = LastPart(chunks'[lastTable']) /\ Follows(next, next')
      BY <3>1, <1>4, <1>5, <1>9
    <3> QED  BY <3>1, <3>2, <1>1, <1>4 DEF LastTableIsLatest, LastPart
  <2> QED  BY <2>5, <2>6
<1> QED  BY <1>7, <1>8, <1>9

\* Steps that add no table.
LEMMA OthersKeepCaptions ==
  ASSUME Readable, Placed, Still, TablesAreCaptioned, LastTableIsLatest,
         lastTable' = lastTable, next' \in {next, next + 1},
         next' = next + 1 => next \notin Tables,
         \/ chunks' = chunks
         \/ \E chunk : chunk.kind = "text" /\ chunks' = Append(chunks, chunk)
  PROVE  TablesAreCaptioned' /\ LastTableIsLatest'
<1>1. /\ Flow' = Flow /\ Tables' = Tables
      /\ \A x : ChunkIsCaptioned(x)' = ChunkIsCaptioned(x)
      /\ \A h, i : Follows(h, i)' = Follows(h, i)
  BY StillFlow, StillCaptions
<1>2. IsSequence(chunks) /\ DOMAIN chunks = 1..Len(chunks) /\ Len(chunks) \in Nat
      /\ lastTable \in 0..Len(chunks) /\ next \in Nat
  BY AppendedSequence, FlowIsASequence DEF Placed, Stepping
<1>3. /\ \A c \in DOMAIN chunks : c \in DOMAIN chunks' /\ chunks'[c] = chunks[c]
      /\ \A c \in DOMAIN chunks' : c \in DOMAIN chunks \/ chunks'[c].kind = "text"
  <2>1. CASE chunks' = chunks
    BY <2>1
  <2>2. ASSUME NEW chunk, chunk.kind = "text", chunks' = Append(chunks, chunk)
        PROVE  /\ \A c \in DOMAIN chunks : c \in DOMAIN chunks' /\ chunks'[c] = chunks[c]
               /\ \A c \in DOMAIN chunks' : c \in DOMAIN chunks \/ chunks'[c].kind = "text"
    <3> DEFINE longer == Append(chunks, chunk)
    <3>0. IsSequence(chunks)
      BY <1>2
    <3>1. /\ DOMAIN longer = 1..(Len(chunks) + 1) /\ longer[Len(chunks) + 1] = chunk
          /\ \A c \in DOMAIN chunks : longer[c] = chunks[c]
      BY <3>0, AppendedSequence, ZenonT(60)
    <3> HIDE DEF longer
    <3>2. /\ \A c \in DOMAIN chunks : c \in DOMAIN longer
          /\ \A c \in DOMAIN longer : c \in DOMAIN chunks \/ longer[c] = chunk
      BY <3>1, <1>2
    <3>3. chunks' = longer
      BY <2>2 DEF longer
    <3> QED  BY <3>1, <3>2, <3>3, <2>2, Zenon
  <2> QED  BY <2>1, <2>2
<1>4. TablesAreCaptioned'
  <2>1. ASSUME NEW c \in DOMAIN chunks', chunks'[c].kind = "table"
        PROVE  ChunkIsCaptioned(chunks'[c])
    BY <2>1, <1>3 DEF TablesAreCaptioned
  <2> QED  BY <2>1, <1>1 DEF TablesAreCaptioned
<1>5. \A j \in Tables : j < next' => j < next
  <2>1. \A j \in Tables : j \in Nat
    BY FlowIsASequence DEF Tables
  <2> QED  BY <2>1, <1>2
<1>6. LastTableIsLatest'
  <2>1. CASE lastTable = 0
    BY <2>1, <1>1, <1>5 DEF LastTableIsLatest
  <2>2. CASE lastTable # 0
    <3>1. PICK h \in Tables : Flow[h] = LastPart(chunks[lastTable]) /\ Follows(h, next)
      BY <2>2 DEF LastTableIsLatest
    <3>2. Follows(h, next')
      BY <3>1, <1>5 DEF Follows
    <3>3. chunks'[lastTable] = chunks[lastTable]
      BY <2>2, <1>2, <1>3
    <3>4. Flow'[h] = LastPart(chunks'[lastTable']) /\ Follows(h, next)'
      BY <3>1, <3>2, <3>3, <1>1 DEF Follows
    <3> QED  BY <3>4, <2>2, <1>1 DEF LastTableIsLatest, LastPart
  <2> QED  BY <2>1, <2>2
<1> QED  BY <1>4, <1>6

FreshIsCaptioned == Readable /\ NotStarted => TablesAreCaptioned /\ LastTableIsLatest
LEMMA FreshCaptions == FreshIsCaptioned
<1> SUFFICES ASSUME Readable, NotStarted PROVE TablesAreCaptioned /\ LastTableIsLatest
  BY DEF FreshIsCaptioned
<1>1. DOMAIN chunks = {} /\ \A j \in Tables : ~(j < next)
  BY FlowIsASequence DEF NotStarted, Tables
<1> QED  BY <1>1 DEF NotStarted, TablesAreCaptioned, LastTableIsLatest

LEMMA CaptionStep ==
  ASSUME ReadInv, ReadInv', ChunkInv, ChunkInv', CaptionInv, [ParseNext]_pvars
  PROVE  CaptionInv'
<1> SUFFICES ASSUME Parsed', Captioned' PROVE TablesAreCaptioned' /\ LastTableIsLatest'
  BY DEF CaptionInv
<1>0. Readable /\ Readable'
  BY DEF ReadInv
<1> DEFINE Calm == Still /\ Parsed /\ lastTable' = lastTable
<1>1. ASSUME Calm, next' \in {next, next + 1}, next' = next + 1 => next \notin Tables,
             \/ chunks' = chunks
             \/ \E chunk : chunk.kind = "text" /\ chunks' = Append(chunks, chunk)
      PROVE  TablesAreCaptioned' /\ LastTableIsLatest'
  <2>1. Captioned /\ Placed
    BY <1>1, StillCaptions DEF ChunkInv
  <2> QED  BY <2>1, <1>0, <1>1, OthersKeepCaptions DEF CaptionInv
<1>2. ASSUME NEW f \in Files, NEW ticks \in 0..1, Begin(f, ticks) PROVE FALSE
  BY <1>2 DEF Begin, Parsed
<1>3. CASE \/ NoDocling \/ DoclingFails \/ EndParse
           \/ \E recognised \in SUBSET Pages, ticks \in Ticks : Docling(recognised, ticks)
           \/ \E n \in Pages, ticks \in 0..1 : ReadLayer(n, ticks) \/ ReadVision(n, ticks)
           \/ \E n \in Pages : VisionFails(n) \/ DeadlinePasses(n)
  <2>1. NotStarted'
    BY <1>3, StartingSteps DEF ChunkInv, Unstarted, Starting, chunkVars, NotStarted
  <2>2. FreshIsCaptioned'
    BY FreshCaptions, PTL
  <2> QED  BY <2>1, <2>2, <1>0 DEF FreshIsCaptioned
<1>4. CASE ChunkTable
  <2>1. Still
    BY <1>4 DEF ChunkTable, Still
  <2>2. Captioned /\ step' # "failed"
    BY <2>1, StillCaptions DEF Parsed
  <2> QED  BY <2>2, <1>0, <1>4, TablesKeepCaptions
<1>5. CASE EndText
  <2>1. /\ Calm /\ next' = next + 1 /\ chunks' = Append(chunks, TextChunk(Here))
        /\ TextChunk(Here).kind = "text"
    BY <1>5 DEF EndText, Still, Parsed, TextChunk
  <2>2. next \notin Tables
    BY <2>1, <1>5 DEF ChunkInv, Placed, Stepping, EndText, Tables, Here
  <2> QED  BY <2>1, <2>2, <1>1
<1>6. CASE SkipBlock
  <2>1. Calm /\ next' = next + 1 /\ chunks' = chunks
    BY <1>6 DEF SkipBlock, Still, Parsed
  <2>2. next \notin Tables
    BY <1>6 DEF SkipBlock, Tables, Here
  <2> QED  BY <2>1, <2>2, <1>1
<1>7. CASE BeginText \/ EndChunking \/ SplitText \/ UNCHANGED pvars
  <2>1. Calm /\ next' = next /\ chunks' = chunks
    BY <1>7 DEF BeginText, EndChunking, SplitText, pvars, parseVars, chunkVars, Still, Parsed
  <2>2. next' # next + 1
    BY <2>1 DEF ChunkInv, Placed, Stepping
  <2> QED  BY <2>1, <2>2, <1>1
<1> QED  BY <1>2, <1>3, <1>4, <1>5, <1>6, <1>7 DEF ParseNext, ParseStep

LEMMA DoneIsCaptioned == ReadInv /\ ChunkInv /\ CaptionInv => CaptionsGoWithTheirTables
<1> SUFFICES ASSUME ReadInv, ChunkInv, CaptionInv, step = "done", Captioned,
                    NEW c \in DOMAIN chunks, chunks[c].kind = "table",
                    NEW k \in DOMAIN chunks[c].parts
             PROVE  LET chunk == chunks[c]
                        i == PlaceOf(chunk.parts[k])
                    IN /\ chunk.captions[k] = Flow[i - 1]
                       /\ k > 1 => /\ Data(Flow[i - 1]).continued
                                   /\ \A j \in Tables : j < i => j <= PlaceOf(chunk.parts[k - 1])
  BY DEF CaptionsGoWithTheirTables
<1> DEFINE chunk == chunks[c]
<1>1. \A i \in DOMAIN Flow : PlaceOf(Flow[i]) = i
  BY FlowIsASequence DEF PlaceOf, ReadInv
<1>2. PartIsCaptioned(chunk, k)
  BY DEF CaptionInv, Parsed, TablesAreCaptioned, ChunkIsCaptioned
<1> HIDE DEF chunk
<1>3. PICK i \in Tables :
        /\ chunk.parts[k] = Flow[i] /\ chunk.captions[k] = Flow[i - 1]
        /\ k > 1 => /\ Data(Flow[i - 1]).continued
                    /\ \E h \in Tables : Flow[h] = chunk.parts[k - 1] /\ Follows(h, i)
  BY <1>2 DEF PartIsCaptioned
<1>4. PlaceOf(chunk.parts[k]) = i
  BY <1>1, <1>3 DEF Tables
<1>5. ASSUME k > 1, NEW j \in Tables, j < i PROVE j <= PlaceOf(chunk.parts[k - 1])
  <2>1. PICK h \in Tables : Flow[h] = chunk.parts[k - 1] /\ Follows(h, i)
    BY <1>3, <1>5
  <2>2. PlaceOf(chunk.parts[k - 1]) = h
    BY <1>1, <2>1 DEF Tables
  <2> QED  BY <2>1, <2>2, <1>5 DEF Follows
<1> QED  BY <1>3, <1>4, <1>5 DEF chunk

\* What the captions of the tables keep while they are joined (_merge_table_parts).
THEOREM CaptionInvariant == ParseSpec => [](ReadInv /\ ChunkInv /\ CaptionInv)
<1>1. ParseInit => ReadInv /\ ChunkInv /\ CaptionInv
  BY ReadInit, ChunkInit DEF ParseInit, CaptionInv, Parsed
<1>2. ReadInv /\ ChunkInv /\ CaptionInv /\ [ParseNext]_pvars => (ReadInv /\ ChunkInv /\ CaptionInv)'
  BY ReadStep, ChunkStep, CaptionStep
<1> QED  BY <1>1, <1>2, PTL DEF ParseSpec, pvars

\* Where every table has its caption right above it, joined tables keep their captions
\* part by part, and only a table that is called a continuation joins the one before it.
THEOREM CaptionsStayWithTables == ParseSpec => []CaptionsGoWithTheirTables
<1> QED  BY DoneIsCaptioned, CaptionInvariant, PTL

-----------------------------------------------------------------------------
(* The text of a block, split within the chunking of its document *)

LEMMA BegunText ==
  ASSUME Readable, Placed, next <= Len(Flow), Kind(Here) \in {"paragraph", "heading"},
         BeginSplit(Data(Here).text)
  PROVE  SplitInv'
<1> DEFINE t == Data(Here).text
<1>1. next \in DOMAIN Flow /\ Here = Flow[next] /\ Here \in Found
  BY FlowIsASequence DEF Here, Placed, Stepping
<1>2. Here.page \in DOMAIN blocks /\ Here.item \in blocks[Here.page]
  BY <1>1, FoundIsOrdered
<1>3. Here.page \in 1..Len(blocks) /\ Here.page \in DOMAIN file
      /\ Here.item \in DOMAIN file[Here.page].items
  <2>1. Here.page \in 1..Len(blocks) /\ Len(blocks) \in Nat
    BY <1>2, LenProperties DEF Readable
  <2> QED
    BY <2>1, <1>2, FilesAreSequences DEF Readable
<1>4. file \in Files
  BY <1>3 DEF Readable
<1>5. t \in SomeText
  BY <1>3, <1>4, FilesAssumption DEF Data, Kind, Item
<1>6. text' = t /\ start' = 0 /\ pieces' = <<>>
  BY DEF BeginSplit
<1> HIDE DEF t
<1>7. SplitTypeOK'
  BY <1>5, <1>6 DEF SplitTypeOK, SomeText
<1>8. Attached' /\ NoTextIsLost' /\ PiecesAdvance'
  BY <1>6 DEF Attached, NoTextIsLost, PiecesAdvance, Covered
<1> QED
  BY <1>7, <1>8 DEF SplitInv

LEMMA ParsingKeepsTexts ==
  ASSUME ReadInv, ChunkInv, SplitInv, [ParseNext]_pvars
  PROVE  SplitInv'
<1>1. CASE UNCHANGED splitVars
  BY <1>1, SplitPreserves
<1>2. CASE BeginText
  BY <1>2, BegunText DEF BeginText, ReadInv, ChunkInv, Parsed
<1>3. CASE SplitText
  BY <1>3, SplitPreserves DEF SplitText
<1>4. ASSUME NEW f \in Files, NEW ticks \in 0..1, Begin(f, ticks) PROVE UNCHANGED splitVars
  BY <1>4 DEF Begin
<1>5. ASSUME NEW recognised \in SUBSET Pages, NEW ticks \in Ticks, Docling(recognised, ticks)
      PROVE  UNCHANGED splitVars
  BY <1>5 DEF Docling
<1>6. ASSUME NEW n \in Pages, NEW ticks \in 0..1, ReadLayer(n, ticks) \/ ReadVision(n, ticks)
      PROVE  UNCHANGED splitVars
  BY <1>6 DEF ReadLayer, ReadVision
<1>7. ASSUME NEW n \in Pages, VisionFails(n) \/ DeadlinePasses(n) PROVE UNCHANGED splitVars
  BY <1>7 DEF VisionFails, DeadlinePasses
<1>8. NoDocling \/ DoclingFails \/ EndParse \/ ChunkTable \/ SkipBlock \/ EndText \/ EndChunking
        \/ UNCHANGED pvars => UNCHANGED splitVars
  BY DEF NoDocling, DoclingFails, EndParse, ChunkTable, SkipBlock, EndText, EndChunking, pvars
<1> QED
  BY <1>1, <1>2, <1>3, <1>4, <1>5, <1>6, <1>7, <1>8 DEF ParseNext, ParseStep

\* Within the chunking of any document too, each text is split without a gap, into
\* pieces that advance and stay within the limit (LayoutAwareChunker.chunk).
THEOREM DocumentsAreSplit == ParseSpec => []NoTextIsLost /\ []PiecesAdvance
<1>1. ParseInit => ReadInv /\ ChunkInv /\ SplitInv
  BY ReadInit, ChunkInit, SplitInitial DEF ParseInit
<1>2. ReadInv /\ ChunkInv /\ SplitInv /\ [ParseNext]_pvars => (ReadInv /\ ChunkInv /\ SplitInv)'
  BY ReadStep, ChunkStep, ParsingKeepsTexts
<1>3. SplitInv => NoTextIsLost /\ PiecesAdvance
  BY DEF SplitInv
<1> QED
  BY <1>1, <1>2, <1>3, PTL DEF ParseSpec, pvars
=============================================================================
