--------------------------- MODULE EvidenceProofs ---------------------------
(***************************************************************************)
(* The borrower evidence gate and the debt service cover computed from     *)
(* what it finds, for all documents, rules, links, policies and amounts.   *)
(* The answer of the gate is a function of the set of indexed documents;   *)
(* the candidates of one chunk depend on its document, the links and the   *)
(* year alone.  The proofs hold whichever of several refusals that apply   *)
(* the gate answers with.                                                  *)
(***************************************************************************)
EXTENDS EvidenceGate, MetricCalculations, FiniteSetTheorems, SequenceTheorems,
        WellFoundedInduction, TLAPS

\* Every link is one the gate offered, for a document it knows.
Offered ==
  \A k \in links : k.document \in DOMAIN Documents

-----------------------------------------------------------------------------
\* A set of bases with one member, as its cardinality tells it.
LEMMA OneBasis ==
  ASSUME NEW S \in SUBSET Bases
  PROVE  /\ Cardinality(S) \in Nat
         /\ Cardinality(S) = 1 => S = {Only(S)}
         /\ \A b \in S : Cardinality(S) <= 1 => S = {b}
<1>1. IsFiniteSet({"standalone"})
  BY FS_Singleton
<1>2. IsFiniteSet(Bases)
  <2>1. Bases = {"standalone"} \cup {"consolidated"}
    BY DEF Bases
  <2>2. IsFiniteSet({"consolidated"})
    BY FS_Singleton
  <2> QED
    BY <1>1, <2>1, <2>2, FS_Union
<1>3. IsFiniteSet(S)
  BY <1>2, FS_Subset
<1>4. Cardinality(S) \in Nat
  BY <1>3, FS_CardinalityType
<1>5. Cardinality(S) = 1 => \E x : S = {x}
  BY <1>3, FS_Singleton
<1>6. ASSUME NEW b \in S, Cardinality(S) <= 1 PROVE S = {b}
  <2>1. Cardinality(S) # 0
    BY <1>3, <1>6, FS_EmptySet
  <2>2. Cardinality(S) = 1
    BY <1>4, <1>6, <2>1
  <2> QED
    BY <1>5, <1>6, <2>2
<1> QED
  BY <1>4, <1>5, <1>6 DEF Only

LEMMA BasesOfADocument ==
  ASSUME NEW d \in DOMAIN Documents
  PROVE  /\ AllBases(d) \subseteq Bases
         /\ \A c \in Chunks[d] : c.bases \subseteq AllBases(d)
         /\ \A page : PageBases(d, page) \subseteq AllBases(d)
BY BasesAssumption DEF AllBases, PageBases, OnPages

\* What an answer of resolve_basis rests on.
LEMMA OwnBasis ==
  ASSUME NEW d \in DOMAIN Documents, NEW c, NEW period, ~Failed(ResolveBasis(d, c, period))
  PROVE  LET own == ResolveBasis(d, c, period).basis
         IN \/ PageBases(d, Pages(c)) = {own}
            \/ /\ own \in AllBases(d) /\ Cardinality(AllBases(d)) <= 1
               /\ \A k \in Declarations(d) : Cardinality(k.bases) = 1
<1> DEFINE local == PageBases(d, Pages(c))
           declared == UNION {k.bases : k \in {k \in Declarations(d) : period \in PageYears(d, Pages(k))}}
<1>1. local \subseteq Bases /\ declared \subseteq AllBases(d) /\ AllBases(d) \subseteq Bases
  BY BasesOfADocument DEF Declarations
<1>2. CASE Cardinality(local) = 1
  <2>1. ResolveBasis(d, c, period) = [basis |-> Only(local), by |-> "same_page"]
    BY <1>2, <1>1, OneBasis DEF ResolveBasis, Failed, Error
  <2> QED
    BY <1>1, <1>2, <2>1, OneBasis
<1>3. CASE Cardinality(local) # 1
  <2>1. /\ Cardinality(declared) = 1 /\ ~(Cardinality(AllBases(d)) > 1)
        /\ \A k \in Declarations(d) : Cardinality(k.bases) = 1
        /\ ResolveBasis(d, c, period) = [basis |-> Only(declared), by |-> "report_declaration"]
    BY <1>3 DEF ResolveBasis, Failed, Error
  <2>2. Only(declared) \in AllBases(d)
    BY <1>1, <2>1, OneBasis
  <2>3. Cardinality(AllBases(d)) <= 1
    BY <1>1, <2>1, OneBasis
  <2> QED
    BY <2>1, <2>2, <2>3
<1> QED
  BY <1>2, <1>3

\* What an answer of resolve_interpretation rests on.
LEMMA LinkedBasis ==
  ASSUME NEW link, link.document \in DOMAIN Documents, NEW c, NEW period,
         ~Failed(ResolveLink(link, c, period))
  PROVE  /\ ResolveLink(link, c, period).basis = link.basis
         /\ \/ AllBases(link.document) = {}
            \/ /\ \E k \in Cited(link) : k.declares
               /\ UNION {k.bases : k \in Cited(link)} = {link.basis}
               /\ PageBases(link.document, Pages(c)) \in {{}, {link.basis}}
<1>1. CASE link.authority = "reporting_scope"
  <2>1. ResolveLink(link, c, period) = ResolveScope(link, period)
    BY <1>1 DEF ResolveLink, Failed, Error
  <2>2. /\ ResolveScope(link, period).basis = link.basis
        /\ AllBases(link.document) = {}
    BY <2>1 DEF ResolveScope, Failed, Error
  <2> QED
    BY <2>1, <2>2
<1>2. CASE link.authority # "reporting_scope"
  BY <1>2 DEF ResolveLink, Failed, Error
<1> QED
  BY <1>1, <1>2

\* Where the gate and the reviewer both have an answer it is the same one.
LEMMA LinkAgrees ==
  ASSUME NEW link, link.document \in DOMAIN Documents, NEW c, NEW period,
         ~Failed(ResolveBasis(link.document, c, period)),
         ~Failed(ResolveLink(link, c, period))
  PROVE  ResolveBasis(link.document, c, period).basis = ResolveLink(link, c, period).basis
<1> DEFINE d == link.document
           own == ResolveBasis(d, c, period).basis
<1>1. /\ ResolveLink(link, c, period).basis = link.basis
      /\ \/ AllBases(d) = {}
         \/ /\ \E k \in Cited(link) : k.declares
            /\ UNION {k.bases : k \in Cited(link)} = {link.basis}
            /\ PageBases(d, Pages(c)) \in {{}, {link.basis}}
  BY LinkedBasis
<1>2. \/ PageBases(d, Pages(c)) = {own}
      \/ /\ own \in AllBases(d) /\ Cardinality(AllBases(d)) <= 1
         /\ \A k \in Declarations(d) : Cardinality(k.bases) = 1
  BY OwnBasis
<1>3. AllBases(d) \subseteq Bases /\ PageBases(d, Pages(c)) \subseteq AllBases(d)
  BY BasesOfADocument
<1>4. own \in AllBases(d)
  BY <1>2, <1>3
<1>5. PICK k \in Cited(link) : k.declares /\ UNION {j.bases : j \in Cited(link)} = {link.basis}
  BY <1>1, <1>4
<1>6. PageBases(d, Pages(c)) \in {{}, {link.basis}}
  BY <1>1, <1>4
<1>7. CASE PageBases(d, Pages(c)) = {own}
  BY <1>1, <1>6, <1>7
<1>8. CASE /\ Cardinality(AllBases(d)) <= 1
           /\ \A j \in Declarations(d) : Cardinality(j.bases) = 1
  <2>1. k \in Declarations(d) /\ k \in Chunks[d]
    BY <1>5 DEF Cited, Declarations
  <2>2. k.bases \subseteq AllBases(d) /\ k.bases \subseteq {link.basis}
    BY <1>5, <2>1, BasesOfADocument
  <2>3. k.bases = {Only(k.bases)}
    BY <1>3, <1>8, <2>1, <2>2, OneBasis
  <2>4. link.basis \in AllBases(d)
    BY <2>2, <2>3
  <2> QED
    BY <1>1, <1>3, <1>4, <1>8, <2>4, OneBasis
<1> QED
  BY <1>2, <1>7, <1>8

-----------------------------------------------------------------------------
LEMMA ScopeLinkIsOwn ==
  ASSUME NEW d, NEW T, NEW l \in {ScopeLink(d, t) : t \in T}
  PROVE  l.document = d
BY DEF ScopeLink, Link

\* A link the gate offers for a document is a link of that document.
LEMMA OfferedLinkIsOwn ==
  ASSUME NEW d \in DOMAIN Documents, NEW l \in ContextLinks[d] \cup ScopeLinks[d]
  PROVE  l.document = d
<1>1. CASE l \in ContextLinks[d]
  BY <1>1 DEF ContextLinks, Link
<1>2. CASE l \in ScopeLinks[d]
  <2> DEFINE T == {c \in Chunks[d] :
                     /\ Cardinality(ScopePacket(d)) \in 1..8 /\ Cardinality(c.own) = 1
                     /\ Cardinality(TargetPeriods[d][c]) = 1 /\ None \notin TargetPeriods[d][c]
                     /\ ~Failed(ResolveLink(ScopeLink(d, c), c, Only(TargetPeriods[d][c])))}
  <2>1. ScopeLinks[d] = {ScopeLink(d, t) : t \in T}
    BY Zenon DEF ScopeLinks
  <2> HIDE DEF T
  <2> QED
    BY <1>2, <2>1, ScopeLinkIsOwn, Zenon
<1> QED
  BY <1>1, <1>2

LEMMA OfferedInitial == GateInit => Offered
BY DEF GateInit, Offered

LEMMA OfferedPreserved == Offered /\ [GateNext]_gateVars => Offered'
<1> SUFFICES ASSUME Offered, [GateNext]_gateVars PROVE Offered'
  OBVIOUS
<1>1. ASSUME NEW d \in DOMAIN Documents, IndexDocument(d) \/ DropDocument(d) PROVE Offered'
  BY <1>1 DEF IndexDocument, DropDocument, Offered
<1>2. ASSUME NEW d \in DOMAIN Documents, NEW link \in ContextLinks[d] \cup ScopeLinks[d], AcceptLink(link)
      PROVE  Offered'
  <2>1. link.document = d
    BY OfferedLinkIsOwn
  <2> QED
    BY <1>2, <2>1 DEF AcceptLink, Offered
<1>3. CASE UNCHANGED gateVars
  BY <1>3 DEF gateVars, Offered
<1> QED
  BY <1>1, <1>2, <1>3 DEF GateNext

THEOREM LinksAreOffered == GateSpec => []Offered
  BY OfferedInitial, OfferedPreserved, PTL DEF GateSpec

\* A link settles a basis the gate could not and never contradicts one it could
\* (resolve_interpretation and resolve_reporting_scope against resolve_basis).
THEOREM LinksAgree == GateSpec => []LinksAgreeWithDeclarations
<1>1. Offered => LinksAgreeWithDeclarations
  <2> SUFFICES ASSUME Offered, NEW k \in links, NEW c \in Chunks[k.document], c.id = k.target,
                      ~Failed(ResolveBasis(k.document, c, k.period)),
                      ~Failed(ResolveLink(k, c, k.period))
               PROVE  ResolveBasis(k.document, c, k.period).basis = ResolveLink(k, c, k.period).basis
    BY DEF LinksAgreeWithDeclarations
  <2> QED
    BY LinkAgrees DEF Offered
<1> QED
  BY <1>1, LinksAreOffered, PTL

-----------------------------------------------------------------------------
(* Readings: one failure fails them all, and their order does not matter *)

\* Every nonempty set of numbers has a smallest one.
LEMMA SmallestNumber ==
  ASSUME NEW T \in SUBSET Nat, T # {}
  PROVE  \E x \in T : \A y \in T : x <= y
<1>1. IsWellFoundedOn(OpToRel(<, Nat), Nat)
  BY NatLessThanWellFounded
<1>2. PICK x \in T : \A y \in T : <<y, x>> \notin OpToRel(<, Nat)
  BY <1>1, WFMin, Zenon
<1>3. \A y \in T : ~(y < x)
  BY <1>2 DEF OpToRel
<1> QED
  BY <1>3

\* Of any places one comes first.
LEMMA FirstPlace ==
  ASSUME NEW P, P # {}, \A p \in P : p[1] \in Nat /\ p[2] \in Nat
  PROVE  \E p \in P : \A q \in P : Before(p, q)
<1> DEFINE rows == {p[1] : p \in P}
<1>1. PICK i \in rows : \A k \in rows : i <= k
  <2>1. rows \in SUBSET Nat /\ rows # {}
    OBVIOUS
  <2> HIDE DEF rows
  <2> QED
    BY <2>1, SmallestNumber
<1> DEFINE columns == {p[2] : p \in {q \in P : q[1] = i}}
<1>2. PICK j \in columns : \A k \in columns : j <= k
  <2>1. columns \in SUBSET Nat /\ columns # {}
    BY <1>1
  <2> HIDE DEF columns
  <2> QED
    BY <2>1, SmallestNumber
<1>3. PICK p \in P : p[1] = i /\ p[2] = j
  BY <1>2
<1>4. ASSUME NEW q \in P PROVE Before(p, q)
  <2>1. i \in Nat /\ q[1] \in Nat /\ i <= q[1]
    BY <1>1
  <2>2. q[1] = i => j <= q[2]
    BY <1>2
  <2> QED
    BY <1>3, <2>1, <2>2 DEF Before
<1> QED
  BY <1>4

\* A failed outcome at any place fails the reading.
LEMMA FailureSettles ==
  ASSUME NEW O, \A o \in O : o[1][1] \in Nat /\ o[1][2] \in Nat,
         NEW f \in O, Failed(f[2])
  PROVE  Failed(Settled(O))
<1> DEFINE bad == {o \in O : Failed(o[2])}
           places == {o[1] : o \in bad}
           first == CHOOSE q \in bad : \A r \in bad : Before(q[1], r[1])
<1>1. places # {} /\ \A p \in places : p[1] \in Nat /\ p[2] \in Nat
  OBVIOUS
<1>2. \E p \in places : \A q \in places : Before(p, q)
  <2> HIDE DEF places
  <2> QED
    BY <1>1, FirstPlace
<1>3. first \in bad
  BY <1>2
<1>4. Settled(O) = first[2]
  <2>1. bad # {}
    OBVIOUS
  <2> QED
    BY <2>1 DEF Settled
<1> QED
  BY <1>3, <1>4

LEMMA NoFailureSettles ==
  ASSUME NEW O, \A o \in O : ~Failed(o[2])
  PROVE  Settled(O) = Found(UNION {o[2].rows : o \in O}) /\ ~Failed(Settled(O))
<1>1. {o \in O : Failed(o[2])} = {}
  OBVIOUS
<1> QED
  BY <1>1 DEF Settled, Found, Failed

\* What the gate reads at a place: the document itself, or one of its chunks.
ReadAt(m, borrower, year, notes, d, j) ==
  IF j = 0 THEN SourceOutcome(d) ELSE ChunkOutcome(m, borrower, year, notes, d, j)
ReadAll(m, borrower, year, notes, docs) ==
  UNION {{ReadAt(m, borrower, year, notes, d, j) : j \in 0..Len(Documents[d])} :
           d \in SourceDocs(Rules[m], docs)}
RowsOf(reads) == UNION {r.rows : r \in reads}

LEMMA ReadsOfOutcomes ==
  ASSUME NEW m, NEW b, NEW y, NEW notes, NEW order
  PROVE  ReadAll(m, b, y, notes, Members(order)) = {o[2] : o \in Outcomes(m, b, y, order, notes)}
<1> DEFINE R == ReadAll(m, b, y, notes, Members(order))
           O == Outcomes(m, b, y, order, notes)
           P == Places(Rules[m], order)
           At(p) == ReadAt(m, b, y, notes, order[p[1]], p[2])
<1>1. O = {<<p, At(p)>> : p \in P}
  BY Zenon DEF Outcomes, ReadAt
<1>2. ASSUME NEW r \in R PROVE \E p \in P : r = At(p)
  <2>1. PICK d \in SourceDocs(Rules[m], Members(order)) :
          \E j \in 0..Len(Documents[d]) : r = ReadAt(m, b, y, notes, d, j)
    BY <1>2 DEF ReadAll
  <2>2. PICK j \in 0..Len(Documents[d]) : r = ReadAt(m, b, y, notes, d, j)
    BY <2>1
  <2>3. PICK i \in DOMAIN order : d = order[i]
    BY <2>1 DEF SourceDocs, Members
  <2>4. i \in {k \in DOMAIN order : IsSource(Rules[m], order[k])}
    BY <2>1, <2>3 DEF SourceDocs
  <2>5. <<i, j>> \in P
    BY <2>3, <2>4, <2>2 DEF Places
  <2>6. r = At(<<i, j>>)
    BY <2>2, <2>3
  <2> QED
    BY <2>5, <2>6
<1>3. ASSUME NEW p \in P PROVE At(p) \in R
  <2>1. PICK i \in {k \in DOMAIN order : IsSource(Rules[m], order[k])} :
          p \in {<<i, j>> : j \in 0..Len(Documents[order[i]])}
    BY <1>3 DEF Places
  <2>2. PICK j \in 0..Len(Documents[order[i]]) : p = <<i, j>>
    BY <2>1
  <2>3. order[i] \in SourceDocs(Rules[m], Members(order))
    BY <2>1 DEF SourceDocs, Members
  <2>4. At(p) = ReadAt(m, b, y, notes, order[i], j)
    BY <2>2
  <2> QED
    BY <2>2, <2>3, <2>4 DEF ReadAll
<1> HIDE DEF At, P, R, O
<1>4. ASSUME NEW r \in R PROVE \E o \in O : r = o[2]
  <2>1. PICK p \in P : r = At(p)
    BY <1>2
  <2>2. <<p, At(p)>> \in O
    BY <1>1
  <2> QED
    BY <2>1, <2>2
<1>5. ASSUME NEW o \in O PROVE o[2] \in R
  <2>1. PICK p \in P : o = <<p, At(p)>>
    BY <1>1
  <2> QED
    BY <2>1, <1>3
<1> QED
  BY <1>4, <1>5, Zenon DEF R, O

\* A reading without a failure gives its rows; one with a failure fails.
LEMMA ReadingSettles ==
  ASSUME NEW m, NEW b, NEW y, NEW notes, NEW order, DOMAIN order \subseteq Nat,
         NEW R, R = ReadAll(m, b, y, notes, Members(order)),
         NEW S, S = Settled(Outcomes(m, b, y, order, notes))
  PROVE  /\ Failed(S) <=> \E r \in R : Failed(r)
         /\ ~Failed(S) => S.rows = RowsOf(R)
<1> DEFINE O == Outcomes(m, b, y, order, notes)
<1>1. R = {o[2] : o \in O}
  BY ReadsOfOutcomes
<1>2. \A o \in O : o[1] \in Places(Rules[m], order)
  BY DEF Outcomes
<1>3. \A p \in Places(Rules[m], order) : p[1] \in Nat /\ p[2] \in Nat
  <2> SUFFICES ASSUME NEW p \in Places(Rules[m], order) PROVE p[1] \in Nat /\ p[2] \in Nat
    OBVIOUS
  <2>1. PICK i \in {k \in DOMAIN order : IsSource(Rules[m], order[k])} :
          p \in {<<i, j>> : j \in 0..Len(Documents[order[i]])}
    BY DEF Places
  <2>2. PICK j \in 0..Len(Documents[order[i]]) : p = <<i, j>>
    BY <2>1
  <2> QED
    BY <2>2
<1> HIDE DEF O
<1>4. CASE \E r \in R : Failed(r)
  <2>1. PICK o \in O : Failed(o[2])
    BY <1>1, <1>4
  <2>2. Failed(Settled(O))
    BY <2>1, <1>2, <1>3, FailureSettles
  <2> QED
    BY <2>2, <1>4 DEF O
<1>5. CASE \A r \in R : ~Failed(r)
  <2>1. \A o \in O : ~Failed(o[2])
    BY <1>1, <1>5
  <2>2. Settled(O) = Found(UNION {o[2].rows : o \in O}) /\ ~Failed(Settled(O))
    BY <2>1, NoFailureSettles
  <2>3. UNION {o[2].rows : o \in O} = RowsOf(R)
    BY <1>1 DEF RowsOf
  <2>4. Settled(O).rows = RowsOf(R)
    BY <2>2, <2>3 DEF Found
  <2> QED
    BY <2>2, <2>4, <1>5 DEF O
<1> QED
  BY <1>4, <1>5

\* The answer is a function of the set of documents: their order decides at most
\* which refusal is given.
LEMMA FigureOfMembers ==
  ASSUME NEW m \in DOMAIN Rules, NEW notes, NEW order, DOMAIN order \subseteq Nat,
         NEW docs, docs = Members(order),
         NEW year, year = Latest(SourceYears(Rules[m], docs)),
         NEW R, R = ReadAll(m, Only(Borrowers(docs)), year, notes, docs)
  PROVE  /\ HasFigure(Direct(m, order, notes)) =>
              /\ Precheck(Rules[m], docs) = None
              /\ \A r \in R : ~Failed(r)
         /\ (Precheck(Rules[m], docs) = None /\ \A r \in R : ~Failed(r)) =>
              Direct(m, order, notes) = Select(m, docs, year, RowsOf(R))
<1> DEFINE S == Settled(Outcomes(m, Only(Borrowers(docs)), year, order, notes))
<1>1. /\ Failed(S) <=> \E r \in R : Failed(r)
      /\ ~Failed(S) => S.rows = RowsOf(R)
  BY ReadingSettles
<1> HIDE DEF S
<1>2. Direct(m, order, notes) =
        IF Precheck(Rules[m], docs) # None THEN Error(Precheck(Rules[m], docs))
        ELSE Answered(m, docs, year, S)
  BY Zenon DEF Direct, DirectOver, S
<1>3. \A e : ~HasFigure(Error(e))
  BY DEF HasFigure, Failed, Error
<1>4. CASE Precheck(Rules[m], docs) = None
  <2>1. Direct(m, order, notes) = IF Failed(S) THEN S ELSE Select(m, docs, year, S.rows)
    BY <1>2, <1>4 DEF Answered
  <2>2. Failed(S) => ~HasFigure(S)
    BY DEF HasFigure
  <2> QED
    BY <2>1, <2>2, <1>1, <1>4
<1> QED
  BY <1>2, <1>3, <1>4

\* What is indexed is a sequence of known documents, each of them once.
Listed ==
  /\ inventory \in Seq(DOMAIN Documents)
  /\ \A i, j \in DOMAIN inventory : inventory[i] = inventory[j] => i = j

LEMMA ListedPreserved == Listed /\ [GateNext]_gateVars => Listed'
<1> SUFFICES ASSUME Listed, [GateNext]_gateVars PROVE Listed'
  OBVIOUS
<1>0. inventory \in Seq(DOMAIN Documents) /\ Len(inventory) \in Nat /\ DOMAIN inventory = 1..Len(inventory)
  BY DEF Listed
<1>1. ASSUME NEW d \in DOMAIN Documents, IndexDocument(d) PROVE Listed'
  <2>1. inventory' = Append(inventory, d) /\ \A i \in DOMAIN inventory : inventory[i] # d
    BY <1>1 DEF IndexDocument, Indexed, Members
  <2>2. /\ inventory' \in Seq(DOMAIN Documents) /\ DOMAIN inventory' = 1..(Len(inventory) + 1)
        /\ \A i \in 1..Len(inventory) : inventory'[i] = inventory[i]
        /\ inventory'[Len(inventory) + 1] = d
    BY <1>0, <2>1
  <2> QED
    BY <1>0, <2>1, <2>2 DEF Listed
<1>2. ASSUME NEW d \in DOMAIN Documents, DropDocument(d) PROVE Listed'
  <2>1. PICK i \in DOMAIN inventory :
          inventory' = SubSeq(inventory, 1, i - 1) \o SubSeq(inventory, i + 1, Len(inventory))
    BY <1>2 DEF DropDocument
  <2> DEFINE n == Len(inventory)
             s == SubSeq(inventory, 1, i - 1)
             t == SubSeq(inventory, i + 1, n)
  <2>2. /\ s \in Seq(DOMAIN Documents) /\ Len(s) = i - 1 /\ \A k \in 1..(i - 1) : s[k] = inventory[k]
        /\ t \in Seq(DOMAIN Documents) /\ Len(t) = n - i /\ \A k \in 1..(n - i) : t[k] = inventory[i + k]
    BY <1>0
  <2>3. inventory' = s \o t /\ i \in 1..n /\ n \in Nat
    BY <1>0, <2>1
  <2> HIDE DEF s, t, n
  <2>4. /\ inventory' \in Seq(DOMAIN Documents) /\ Len(inventory') = n - 1
        /\ \A k \in 1..(n - 1) : inventory'[k] = IF k <= i - 1 THEN s[k] ELSE t[k - (i - 1)]
    <3>1. Len(s) + Len(t) = n - 1 /\ s \in Seq(DOMAIN Documents) /\ t \in Seq(DOMAIN Documents)
      BY <2>2, <2>3
    <3>2. /\ s \o t \in Seq(DOMAIN Documents) /\ Len(s \o t) = Len(s) + Len(t)
          /\ \A k \in 1..(Len(s) + Len(t)) : (s \o t)[k] = IF k <= Len(s) THEN s[k] ELSE t[k - Len(s)]
      BY <3>1, ConcatProperties, Zenon
    <3> QED
      BY <2>2, <2>3, <3>1, <3>2
  <2>5. \A k \in 1..(n - 1) : inventory'[k] = IF k < i THEN inventory[k] ELSE inventory[k + 1]
    <3> SUFFICES ASSUME NEW k \in 1..(n - 1)
                 PROVE  inventory'[k] = IF k < i THEN inventory[k] ELSE inventory[k + 1]
      OBVIOUS
    <3>1. CASE k <= i - 1
      <4>1. k \in 1..(i - 1) /\ k < i
        BY <2>3, <3>1
      <4> QED
        BY <2>2, <2>4, <3>1, <4>1
    <3>2. CASE ~(k <= i - 1)
      <4>1. k - (i - 1) \in 1..(n - i) /\ i + (k - (i - 1)) = k + 1 /\ ~(k < i)
        BY <2>3, <3>2
      <4> QED
        BY <2>2, <2>4, <3>2, <4>1
    <3> QED
      BY <3>1, <3>2
  <2>6. DOMAIN inventory' = 1..(n - 1)
    BY <2>4
  <2>7. ASSUME NEW k \in DOMAIN inventory', NEW l \in DOMAIN inventory', inventory'[k] = inventory'[l]
        PROVE  k = l
    <3> DEFINE At(j) == IF j < i THEN j ELSE j + 1
    <3>1. k \in 1..(n - 1) /\ l \in 1..(n - 1)
      BY <2>6
    <3>2. At(k) \in 1..n /\ At(l) \in 1..n /\ (At(k) = At(l) => k = l)
      BY <2>3, <3>1
    <3>3. inventory'[k] = inventory[At(k)] /\ inventory'[l] = inventory[At(l)]
      BY <2>5, <3>1
    <3> HIDE DEF At
    <3>4. At(k) = At(l)
      BY <1>0, <2>7, <3>2, <3>3 DEF Listed, n
    <3> QED
      BY <3>2, <3>4
  <2> QED
    BY <2>4, <2>7 DEF Listed
<1>3. ASSUME NEW link, AcceptLink(link) PROVE Listed'
  BY <1>3 DEF AcceptLink, Listed
<1>4. CASE UNCHANGED gateVars
  BY <1>4 DEF gateVars, Listed
<1> QED
  BY <1>1, <1>2, <1>3, <1>4 DEF GateNext

THEOREM DocumentsAreListed == GateSpec => []Listed
<1>1. GateInit => Listed
  BY DEF GateInit, Listed
<1> QED
  BY <1>1, ListedPreserved, PTL DEF GateSpec

LEMMA SwappedMembers ==
  ASSUME inventory \in Seq(DOMAIN Documents), NEW i \in 1..(Len(inventory) - 1)
  PROVE  /\ Members(Swapped(i)) = Members(inventory)
         /\ DOMAIN Swapped(i) = DOMAIN inventory
<1> DEFINE s == Swapped(i)
<1>0. DOMAIN inventory = 1..Len(inventory) /\ Len(inventory) \in Nat
      /\ i \in DOMAIN inventory /\ i + 1 \in DOMAIN inventory /\ i + 1 # i
  OBVIOUS
<1>1. /\ DOMAIN s = DOMAIN inventory
      /\ s[i] = inventory[i + 1] /\ s[i + 1] = inventory[i]
      /\ \A k \in DOMAIN inventory : k # i /\ k # i + 1 => s[k] = inventory[k]
  BY <1>0 DEF Swapped
<1> HIDE DEF s
<1>2. \A k \in DOMAIN s : \E j \in DOMAIN inventory : s[k] = inventory[j]
  BY <1>0, <1>1
<1>3. \A k \in DOMAIN inventory : \E j \in DOMAIN s : inventory[k] = s[j]
  BY <1>0, <1>1
<1>4. Members(s) = Members(inventory)
  BY <1>2, <1>3 DEF Members
<1> QED
  BY <1>1, <1>4 DEF s

\* With a figure every place was read without a refusal, so any other order of the
\* same documents gives the same figure.
LEMMA SameMembersSameFigure ==
  ASSUME NEW m \in DOMAIN Rules, NEW notes, NEW first, NEW second,
         DOMAIN first \subseteq Nat, DOMAIN second \subseteq Nat,
         Members(first) = Members(second), HasFigure(Direct(m, first, notes))
  PROVE  Direct(m, second, notes) = Direct(m, first, notes)
<1> DEFINE docs == Members(first)
           year == Latest(SourceYears(Rules[m], docs))
           R == ReadAll(m, Only(Borrowers(docs)), year, notes, docs)
<1> HIDE DEF docs, year, R
<1>1. /\ Precheck(Rules[m], docs) = None /\ \A r \in R : ~Failed(r)
      /\ Direct(m, first, notes) = Select(m, docs, year, RowsOf(R))
  BY FigureOfMembers DEF docs, year, R
<1>2. Direct(m, second, notes) = Select(m, docs, year, RowsOf(R))
  <2>1. docs = Members(second)
    BY DEF docs
  <2> QED
    BY <1>1, <2>1, FigureOfMembers DEF year, R
<1> QED
  BY <1>1, <1>2

\* In which order the index returns the documents decides neither whether a metric is
\* supported nor by which figure (BorrowerEvidenceGate._direct); which of several
\* refusals is given it may decide.
THEOREM OrderIsFree == GateSpec => []OrderDoesNotMatter
<1>1. Listed => OrderDoesNotMatter
  <2> SUFFICES ASSUME Listed, NEW m \in DOMAIN Rules, NEW i \in 1..(Len(inventory) - 1)
               PROVE  IF HasFigure(Direct(m, inventory, links))
                      THEN Direct(m, Swapped(i), links) = Direct(m, inventory, links)
                      ELSE ~HasFigure(Direct(m, Swapped(i), links))
    BY DEF OrderDoesNotMatter, WithFigure
  <2>1. DOMAIN inventory \subseteq Nat /\ inventory \in Seq(DOMAIN Documents)
    BY DEF Listed
  <2>2. Members(Swapped(i)) = Members(inventory) /\ DOMAIN Swapped(i) \subseteq Nat
    BY <2>1, SwappedMembers
  <2>3. CASE HasFigure(Direct(m, inventory, links))
    BY <2>1, <2>2, <2>3, SameMembersSameFigure
  <2>4. CASE HasFigure(Direct(m, Swapped(i), links))
    <3>1. Direct(m, inventory, links) = Direct(m, Swapped(i), links)
      BY <2>1, <2>2, <2>4, SameMembersSameFigure
    <3> QED
      BY <2>4, <3>1
  <2> QED
    BY <2>3, <2>4
<1> QED
  BY <1>1, DocumentsAreListed, PTL

-----------------------------------------------------------------------------
(* Candidates: what a chunk contributes, with and without links *)

\* The rows of a chunk that are not outdated, and the basis they are read under.
RowsLeft(m, year, d, j) == {row \in RowsAt[m][d][j].rows : ~Older(Rules[m], row, year)}
PeriodRead(m, year, d, j) == Only({row[2] : row \in RowsLeft(m, year, d, j)})
BasisRead(m, year, notes, d, j) ==
  IF Rules[m].basis THEN BasisOf(notes, d, Documents[d][j], PeriodRead(m, year, d, j))
  ELSE [basis |-> None, by |-> None]
CandidatesAt(m, year, notes, d, j) ==
  {Candidate(Rules[m], d, Documents[d][j], row, BasisRead(m, year, notes, d, j)) :
     row \in RowsLeft(m, year, d, j)}

\* A place that is not refused has one candidate for each of its rows.
LEMMA CandidatesOfPlace ==
  ASSUME NEW m \in DOMAIN Rules, NEW b, NEW y, NEW notes, NEW d \in DOMAIN Documents,
         NEW j \in 1..Len(Documents[d]), ~Failed(ReadAt(m, b, y, notes, d, j))
  PROVE  /\ ~Failed(RowsAt[m][d][j])
         /\ RowsLeft(m, y, d, j) # {} => Owner[d] = b /\ ~Failed(BasisRead(m, y, notes, d, j))
         /\ ReadAt(m, b, y, notes, d, j).rows = CandidatesAt(m, y, notes, d, j)
<1> DEFINE c == Documents[d][j]
           rows == RowsLeft(m, y, d, j)
           basis == BasisRead(m, y, notes, d, j)
<1>1. ReadAt(m, b, y, notes, d, j) = ChunkOutcome(m, b, y, notes, d, j)
  BY DEF ReadAt
<1>2. ~Failed(RowsAt[m][d][j]) /\ ReadAt(m, b, y, notes, d, j) = Outcome(Rules[m], b, notes, d, c, rows)
  BY <1>1 DEF ChunkOutcome, RowsLeft
<1>3. CASE rows = {}
  <2>1. ReadAt(m, b, y, notes, d, j).rows = {}
    BY <1>1, <1>2, <1>3 DEF Outcome, Found
  <2>2. CandidatesAt(m, y, notes, d, j) = {}
    BY <1>3 DEF CandidatesAt
  <2> QED
    BY <2>1, <2>2, <1>2, <1>3
<1>4. CASE rows # {}
  <2>1. Outcome(Rules[m], b, notes, d, c, rows) = Judge(Rules[m], b, d, c, rows, basis)
    BY <1>4 DEF Outcome, BasisRead, PeriodRead
  <2> HIDE DEF basis, c, rows
  <2>2. ~Failed(Judge(Rules[m], b, d, c, rows, basis))
    BY <1>1, <1>2, <2>1
  <2>3. \A e : Failed(Error(e))
    BY DEF Failed, Error
  <2>4. /\ Owner[d] = b /\ ~Failed(basis)
        /\ Judge(Rules[m], b, d, c, rows, basis) =
             Found({Candidate(Rules[m], d, c, row, basis) : row \in rows})
    BY <2>2, <2>3, Zenon DEF Judge
  <2>5. ReadAt(m, b, y, notes, d, j) = Found(CandidatesAt(m, y, notes, d, j))
    BY <1>2, <2>1, <2>4, Zenon DEF CandidatesAt, c, rows, basis
  <2>6. ReadAt(m, b, y, notes, d, j).rows = CandidatesAt(m, y, notes, d, j)
    BY <2>5 DEF Found
  <2> QED
    BY <1>2, <2>4, <2>6 DEF basis
<1> QED
  BY <1>3, <1>4

\* The document itself is read for its kind only.
LEMMA NoCandidatesOfDocument ==
  ASSUME NEW m, NEW b, NEW y, NEW notes, NEW d, ~Failed(ReadAt(m, b, y, notes, d, 0))
  PROVE  ReadAt(m, b, y, notes, d, 0).rows = {}
BY DEF ReadAt, SourceOutcome, Found, Failed, Error

\* Every candidate of a reading without refusals is a row of a chunk of a source.
LEMMA CandidateOfRows ==
  ASSUME NEW m \in DOMAIN Rules, NEW b, NEW y, NEW notes, NEW docs \in SUBSET DOMAIN Documents,
         NEW R, R = ReadAll(m, b, y, notes, docs), \A r \in R : ~Failed(r)
  PROVE  \A f : f \in RowsOf(R) <=>
           \E d \in SourceDocs(Rules[m], docs) : \E j \in 1..Len(Documents[d]) :
             f \in CandidatesAt(m, y, notes, d, j)
<1> DEFINE At(d, j) == ReadAt(m, b, y, notes, d, j)
           Sources == SourceDocs(Rules[m], docs)
<1>0. Sources \subseteq DOMAIN Documents /\ \A d \in Sources : Len(Documents[d]) \in Nat
  BY ChunksAssumption DEF SourceDocs
<1>1. \A d \in Sources : \A j \in 0..Len(Documents[d]) : At(d, j) \in R
  BY DEF ReadAll
<1>2. \A r \in R : \E d \in Sources : \E j \in 0..Len(Documents[d]) : r = At(d, j)
  <2> SUFFICES ASSUME NEW r \in R PROVE \E d \in Sources : \E j \in 0..Len(Documents[d]) : r = At(d, j)
    OBVIOUS
  <2>1. PICK d \in Sources : r \in {At(d, j) : j \in 0..Len(Documents[d])}
    BY DEF ReadAll
  <2> QED
    BY <2>1
<1>3. ASSUME NEW d \in Sources, NEW j \in 1..Len(Documents[d])
      PROVE  At(d, j) \in R /\ At(d, j).rows = CandidatesAt(m, y, notes, d, j)
  <2>1. j \in 0..Len(Documents[d])
    BY <1>0
  <2>2. ~Failed(At(d, j)) /\ At(d, j) \in R
    BY <1>1, <2>1
  <2>3. d \in DOMAIN Documents
    BY <1>0
  <2>4. At(d, j).rows = CandidatesAt(m, y, notes, d, j)
    <3> HIDE DEF At, CandidatesAt
    <3>1. ~Failed(ReadAt(m, b, y, notes, d, j))
      BY <2>2 DEF At
    <3> QED
      BY <2>3, <3>1, CandidatesOfPlace DEF At
  <2> QED
    BY <2>2, <2>4
<1>4. ASSUME NEW d \in Sources PROVE At(d, 0).rows = {}
  <2>1. 0 \in 0..Len(Documents[d])
    BY <1>0
  <2> QED
    BY <1>1, <2>1, NoCandidatesOfDocument
<1> HIDE DEF At, Sources
<1>5. ASSUME NEW f, f \in RowsOf(R)
      PROVE  \E d \in Sources : \E j \in 1..Len(Documents[d]) : f \in CandidatesAt(m, y, notes, d, j)
  <2>1. PICK r \in R : f \in r.rows
    BY <1>5 DEF RowsOf
  <2>2. PICK d \in Sources : \E j \in 0..Len(Documents[d]) : r = At(d, j)
    BY <1>2
  <2>3. PICK j \in 0..Len(Documents[d]) : r = At(d, j)
    BY <2>2
  <2>4. j # 0
    BY <1>4, <2>1, <2>3
  <2>5. j \in 1..Len(Documents[d])
    BY <2>4, <1>0
  <2> QED
    BY <2>1, <2>3, <2>5, <1>3
<1>6. ASSUME NEW f, NEW d \in Sources, NEW j \in 1..Len(Documents[d]), f \in CandidatesAt(m, y, notes, d, j)
      PROVE  f \in RowsOf(R)
  BY <1>3, <1>6 DEF RowsOf
<1> QED
  BY <1>5, <1>6 DEF Sources

\* What a candidate says for the answer.
View(f) == <<f.value, f.period, f.basis, f.nic>>

Agreeing(figures) == \A f, g \in figures : Answer(f) = Answer(g)

\* What a figure that was selected rests on.
LEMMA SelectedFigure ==
  ASSUME NEW m \in DOMAIN Rules, NEW docs, NEW year, NEW C,
         \A f \in C : f.document \in Nat /\ f.page \in Nat,
         NEW answer, answer = Select(m, docs, year, C), HasFigure(answer)
  PROVE  /\ answer.figure \in Chosen(Rules[m], year, C)
         /\ Agreeing(Chosen(Rules[m], year, C))
         /\ Rules[m].period => IsLatest(year, {f.period : f \in Ranked(C)})
<1> DEFINE chosen == Chosen(Rules[m], year, C)
           place(f) == <<f.document, f.page>>
           best == CHOOSE f \in chosen : \A g \in chosen : Before(place(f), place(g))
           places == {place(f) : f \in chosen}
<1>1. \A e : ~HasFigure(Error(e))
  BY DEF HasFigure, Failed, Error
<1>2. /\ C # {}
      /\ Rules[m].period => IsLatest(year, {f.period : f \in Ranked(C)})
      /\ \A f, g \in chosen : Answer(f) = Answer(g)
      /\ answer = [figure |-> best]
  <2> HIDE DEF chosen
  <2> QED
    BY <1>1, Zenon DEF Select, chosen
<1>3. Ranked(C) # {} /\ Ranked(C) \subseteq C
  BY <1>2 DEF Ranked
<1>4. chosen # {} /\ chosen \subseteq C
  BY <1>2, <1>3 DEF Chosen, IsLatest
<1>5. places # {} /\ \A p \in places : p[1] \in Nat /\ p[2] \in Nat
  <2>1. \A f \in chosen : place(f)[1] \in Nat /\ place(f)[2] \in Nat
    BY <1>4
  <2> HIDE DEF place
  <2> QED
    BY <1>4, <2>1
<1>6. PICK f \in chosen : \A g \in chosen : Before(place(f), place(g))
  <2>1. PICK p \in places : \A q \in places : Before(p, q)
    <3> HIDE DEF places
    <3> QED
      BY <1>5, FirstPlace
  <2> QED
    BY <2>1
<1>7. best \in chosen
  BY <1>6
<1> QED
  BY <1>2, <1>7 DEF Agreeing

\* Figures that say the same answer alike.
LEMMA SameViews ==
  ASSUME NEW m \in DOMAIN Rules, NEW docs, NEW year, NEW C, NEW D,
         \A f \in C \cup D : f.document \in Nat /\ f.page \in Nat,
         \A f \in C : \E g \in D : View(g) = View(f),
         \A g \in D : \E f \in C : View(f) = View(g)
  PROVE  Keeps(Select(m, docs, year, C), Select(m, docs, year, D))
<1> DEFINE old == Select(m, docs, year, C)
           new == Select(m, docs, year, D)
<1> SUFFICES ASSUME HasFigure(old), HasFigure(new) PROVE Answer(new.figure) = Answer(old.figure)
  BY DEF Keeps
<1>0. /\ \A f \in C : f.document \in Nat /\ f.page \in Nat
      /\ \A f \in D : f.document \in Nat /\ f.page \in Nat
  OBVIOUS
<1>1. old.figure \in Chosen(Rules[m], year, C)
  BY <1>0, SelectedFigure
<1> HIDE DEF old, new
<1>2. /\ new.figure \in Chosen(Rules[m], year, D)
      /\ \A f, g \in Chosen(Rules[m], year, D) : Answer(f) = Answer(g)
  <2>1. new = Select(m, docs, year, D)
    BY DEF new
  <2>2. new.figure \in Chosen(Rules[m], year, D)
    BY <1>0, <2>1, SelectedFigure
  <2>3. Agreeing(Chosen(Rules[m], year, D))
    BY <1>0, <2>1, SelectedFigure
  <2> QED
    BY <2>2, <2>3 DEF Agreeing
<1>3. Chosen(Rules[m], year, C) \subseteq C
  BY DEF Chosen, Ranked
<1>4. PICK g \in D : View(g) = View(old.figure)
  BY <1>1, <1>3
<1>5. /\ g.value = old.figure.value /\ g.period = old.figure.period /\ g.basis = old.figure.basis
      /\ g.nic = old.figure.nic
  BY <1>4 DEF View
<1>6. (\E f \in C : f.nic) <=> (\E f \in D : f.nic)
  <2>1. \A f, h : View(f) = View(h) => f.nic = h.nic
    BY DEF View
  <2>2. ASSUME NEW f \in C, f.nic PROVE \E h \in D : h.nic
    <3>1. PICK h \in D : View(h) = View(f)
      OBVIOUS
    <3> QED
      BY <2>1, <2>2, <3>1
  <2>3. ASSUME NEW f \in D, f.nic PROVE \E h \in C : h.nic
    <3>1. PICK h \in C : View(h) = View(f)
      OBVIOUS
    <3> QED
      BY <2>1, <2>3, <3>1
  <2> QED
    BY <2>2, <2>3
<1>7. g \in Ranked(D)
  BY <1>1, <1>5, <1>6 DEF Chosen, Ranked
<1>8. g \in Chosen(Rules[m], year, D)
  BY <1>1, <1>5, <1>7 DEF Chosen
<1> QED
  BY <1>2, <1>5, <1>8 DEF Answer

LEMMA CandidateIsPlaced ==
  ASSUME NEW m \in DOMAIN Rules, NEW y, NEW notes, NEW d \in DOMAIN Documents,
         NEW j \in 1..Len(Documents[d]), NEW f \in CandidatesAt(m, y, notes, d, j)
  PROVE  f.document \in Nat /\ f.page \in Nat
<1>1. PICK row : f = Candidate(Rules[m], d, Documents[d][j], row, BasisRead(m, y, notes, d, j))
  BY DEF CandidatesAt
<1> DEFINE c == Documents[d][j]
<1>2. f.document = d /\ f.page = Only(c.own)[1]
  BY <1>1 DEF Candidate
<1>3. c \in Chunks[d]
  BY ChunksAssumption
<1>4. c.own \subseteq Nat \X Nat /\ c.own # {}
  BY <1>3, ChunksAssumption
<1>5. Only(c.own) \in c.own
  BY <1>4 DEF Only
<1> QED
  BY <1>2, <1>4, <1>5, GateAssumption

LEMMA CandidatesArePlaced ==
  ASSUME NEW m \in DOMAIN Rules, NEW b, NEW y, NEW notes, NEW docs \in SUBSET DOMAIN Documents,
         NEW R, R = ReadAll(m, b, y, notes, docs), \A r \in R : ~Failed(r)
  PROVE  \A f \in RowsOf(R) : f.document \in Nat /\ f.page \in Nat
<1> SUFFICES ASSUME NEW f \in RowsOf(R) PROVE f.document \in Nat /\ f.page \in Nat
  OBVIOUS
<1>1. PICK d \in SourceDocs(Rules[m], docs) : \E j \in 1..Len(Documents[d]) :
        f \in CandidatesAt(m, y, notes, d, j)
  BY CandidateOfRows
<1>2. d \in DOMAIN Documents
  BY DEF SourceDocs
<1> QED
  BY <1>1, <1>2, CandidateIsPlaced

\* A link changes nothing of a candidate but how its basis was found.
LEMMA SameBasisSameViews ==
  ASSUME NEW m \in DOMAIN Rules, NEW y, NEW N1, NEW N2, NEW d, NEW j,
         BasisRead(m, y, N1, d, j).basis = BasisRead(m, y, N2, d, j).basis,
         NEW f \in CandidatesAt(m, y, N1, d, j)
  PROVE  \E g \in CandidatesAt(m, y, N2, d, j) : View(g) = View(f)
<1>1. PICK row \in RowsLeft(m, y, d, j) :
        f = Candidate(Rules[m], d, Documents[d][j], row, BasisRead(m, y, N1, d, j))
  BY DEF CandidatesAt
<1> DEFINE g == Candidate(Rules[m], d, Documents[d][j], row, BasisRead(m, y, N2, d, j))
<1>2. g \in CandidatesAt(m, y, N2, d, j)
  BY DEF CandidatesAt
<1>3. View(g) = View(f)
  BY <1>1 DEF Candidate, View
<1> QED
  BY <1>2, <1>3

LEMMA LinkedBasisIsTheSame ==
  ASSUME Offered, NEW m, NEW y, NEW d \in DOMAIN Documents, NEW j,
         ~Failed(BasisRead(m, y, {}, d, j)), ~Failed(BasisRead(m, y, links, d, j))
  PROVE  BasisRead(m, y, {}, d, j).basis = BasisRead(m, y, links, d, j).basis
<1> DEFINE c == Documents[d][j]
           p == PeriodRead(m, y, d, j)
           linked == {k \in links : k.document = d /\ k.target = c.id}
<1>1. CASE ~Rules[m].basis
  BY <1>1 DEF BasisRead
<1>2. CASE Rules[m].basis /\ linked = {}
  <2>1. BasisRead(m, y, links, d, j) = ResolveBasis(d, c, p)
    BY <1>2 DEF BasisRead, BasisOf
  <2>2. BasisRead(m, y, {}, d, j) = ResolveBasis(d, c, p)
    BY <1>2 DEF BasisRead, BasisOf
  <2> QED
    BY <2>1, <2>2
<1>3. CASE Rules[m].basis /\ linked # {}
  <2> DEFINE link == Only(linked)
  <2>1. link \in linked
    BY <1>3 DEF Only
  <2>2. link.document = d
    BY <2>1
  <2>3. BasisRead(m, y, links, d, j) = ResolveLink(link, c, p)
    BY <1>3, Zenon DEF BasisRead, BasisOf
  <2>4. BasisRead(m, y, {}, d, j) = ResolveBasis(link.document, c, p)
    BY <1>3, <2>2 DEF BasisRead, BasisOf
  <2> HIDE DEF link, c, p
  <2> QED
    BY <2>2, <2>3, <2>4, LinkAgrees
<1> QED
  BY <1>1, <1>2, <1>3

\* Where every place can be read with and without the links, the same is read.
LEMMA SameReadings ==
  ASSUME Offered, NEW m \in DOMAIN Rules, NEW b, NEW y, NEW docs \in SUBSET DOMAIN Documents,
         NEW R, R = ReadAll(m, b, y, {}, docs), \A r \in R : ~Failed(r),
         NEW S, S = ReadAll(m, b, y, links, docs), \A r \in S : ~Failed(r)
  PROVE  /\ \A f \in RowsOf(R) : \E g \in RowsOf(S) : View(g) = View(f)
         /\ \A g \in RowsOf(S) : \E f \in RowsOf(R) : View(f) = View(g)
<1>1. ASSUME NEW d \in SourceDocs(Rules[m], docs), NEW j \in 1..Len(Documents[d]),
             RowsLeft(m, y, d, j) # {}
      PROVE  BasisRead(m, y, {}, d, j).basis = BasisRead(m, y, links, d, j).basis
  <2>1. d \in DOMAIN Documents /\ j \in 0..Len(Documents[d])
    BY ChunksAssumption DEF SourceDocs
  <2>2. ReadAt(m, b, y, {}, d, j) \in R /\ ReadAt(m, b, y, links, d, j) \in S
    BY <2>1 DEF ReadAll
  <2>3. ~Failed(ReadAt(m, b, y, {}, d, j)) /\ ~Failed(ReadAt(m, b, y, links, d, j))
    BY <2>2
  <2>4. ~Failed(BasisRead(m, y, {}, d, j))
    BY <1>1, <2>1, <2>3, CandidatesOfPlace
  <2>5. ~Failed(BasisRead(m, y, links, d, j))
    BY <1>1, <2>1, <2>3, CandidatesOfPlace
  <2> QED
    BY <2>1, <2>4, <2>5, LinkedBasisIsTheSame
<1>2. \A N, d, j : CandidatesAt(m, y, N, d, j) # {} => RowsLeft(m, y, d, j) # {}
  BY DEF CandidatesAt
<1>3. ASSUME NEW f \in RowsOf(R) PROVE \E g \in RowsOf(S) : View(g) = View(f)
  <2>1. PICK d \in SourceDocs(Rules[m], docs) : \E j \in 1..Len(Documents[d]) :
          f \in CandidatesAt(m, y, {}, d, j)
    BY CandidateOfRows
  <2>2. PICK j \in 1..Len(Documents[d]) : f \in CandidatesAt(m, y, {}, d, j)
    BY <2>1
  <2>3. PICK g \in CandidatesAt(m, y, links, d, j) : View(g) = View(f)
    BY <1>1, <1>2, <2>2, SameBasisSameViews
  <2>4. g \in RowsOf(S)
    BY CandidateOfRows
  <2> QED
    BY <2>3, <2>4
<1>4. ASSUME NEW g \in RowsOf(S) PROVE \E f \in RowsOf(R) : View(f) = View(g)
  <2>1. PICK d \in SourceDocs(Rules[m], docs) : \E j \in 1..Len(Documents[d]) :
          g \in CandidatesAt(m, y, links, d, j)
    BY CandidateOfRows
  <2>2. PICK j \in 1..Len(Documents[d]) : g \in CandidatesAt(m, y, links, d, j)
    BY <2>1
  <2>3. PICK f \in CandidatesAt(m, y, {}, d, j) : View(f) = View(g)
    BY <1>1, <1>2, <2>2, SameBasisSameViews
  <2>4. f \in RowsOf(R)
    BY CandidateOfRows
  <2> QED
    BY <2>3, <2>4
<1> QED
  BY <1>3, <1>4

\* With the reviewer's links a figure keeps its value, period and basis, or there is
\* an abstention (resolve_interpretation within _direct): a link that is accepted
\* beside an own basis agrees with it.
THEOREM LinksSettleOnly == GateSpec => []LinksNeverRewrite
<1>1. Offered /\ Listed => LinksNeverRewrite
  <2> SUFFICES ASSUME Offered, Listed, NEW m \in DOMAIN Rules
               PROVE  Keeps(Direct(m, inventory, {}), Direct(m, inventory, links))
    BY DEF LinksNeverRewrite
  <2> DEFINE docs == Members(inventory)
             b == Only(Borrowers(docs))
             year == Latest(SourceYears(Rules[m], docs))
             R == ReadAll(m, b, year, {}, docs)
             S == ReadAll(m, b, year, links, docs)
  <2> SUFFICES ASSUME HasFigure(Direct(m, inventory, {})), HasFigure(Direct(m, inventory, links))
               PROVE  Keeps(Direct(m, inventory, {}), Direct(m, inventory, links))
    BY Zenon DEF Keeps
  <2>1. DOMAIN inventory \subseteq Nat /\ docs \in SUBSET DOMAIN Documents
    BY DEF Listed, Members
  <2> HIDE DEF docs
  <2>2. docs = Members(inventory)
    BY DEF docs
  <2> HIDE DEF b, year, R, S
  <2>3. /\ \A r \in R : ~Failed(r)
        /\ Direct(m, inventory, {}) = Select(m, docs, year, RowsOf(R))
    BY <2>1, <2>2, FigureOfMembers DEF b, year, R
  <2>4. /\ \A r \in S : ~Failed(r)
        /\ Direct(m, inventory, links) = Select(m, docs, year, RowsOf(S))
    BY <2>1, <2>2, FigureOfMembers DEF b, year, S
  <2>5. /\ \A f \in RowsOf(R) : f.document \in Nat /\ f.page \in Nat
        /\ \A f \in RowsOf(S) : f.document \in Nat /\ f.page \in Nat
    BY <2>1, <2>3, <2>4, CandidatesArePlaced DEF R, S
  <2>6. /\ \A f \in RowsOf(R) : \E g \in RowsOf(S) : View(g) = View(f)
        /\ \A g \in RowsOf(S) : \E f \in RowsOf(R) : View(f) = View(g)
    BY <2>1, <2>3, <2>4, SameReadings DEF R, S
  <2>7. Keeps(Select(m, docs, year, RowsOf(R)), Select(m, docs, year, RowsOf(S)))
    BY <2>5, <2>6, SameViews
  <2> QED
    BY <2>3, <2>4, <2>7
<1> QED
  BY <1>1, LinksAreOffered, DocumentsAreListed, PTL

-----------------------------------------------------------------------------
(* One document more: the years and the candidates grow *)

LEMMA FiniteImage ==
  ASSUME NEW S, NEW T, NEW f \in [S -> T], IsFiniteSet(S)
  PROVE  IsFiniteSet({f[x] : x \in S})
<1> DEFINE I == {f[x] : x \in S}
<1>1. f \in Surjection(S, I)
  BY DEF Surjection
<1> HIDE DEF I
<1>2. IsFiniteSet(I)
  BY <1>1, FS_Surjection
<1> QED
  BY <1>2 DEF I

\* The largest of finitely many numbers exists: a smallest set without one would lack
\* one still without any of its members.
LEMMA LatestOfFinite ==
  ASSUME NEW S \in SUBSET Nat, IsFiniteSet(S), S # {}
  PROVE  Latest(S) \in S /\ \A y \in S : y <= Latest(S)
<1> DEFINE HasLatest(T) == \E y \in T : \A z \in T : z <= y
           bad == {T \in SUBSET S : T # {} /\ ~HasLatest(T)}
           sizes == {Cardinality(T) : T \in bad}
<1>0. \A T \in SUBSET S : IsFiniteSet(T) /\ Cardinality(T) \in Nat
  BY FS_Subset, FS_CardinalityType
<1>1. HasLatest(S)
  <2> SUFFICES ASSUME ~HasLatest(S) PROVE FALSE
    OBVIOUS
  <2>1. sizes \in SUBSET Nat /\ sizes # {}
    BY <1>0
  <2>2. PICK n \in sizes : \A k \in sizes : n <= k
    <3> HIDE DEF sizes
    <3> QED
      BY <2>1, SmallestNumber
  <2>3. PICK T \in bad : Cardinality(T) = n
    BY <2>2
  <2>4. PICK x \in T : TRUE
    BY <2>3
  <2> DEFINE U == T \ {x}
  <2>5. U \in SUBSET S /\ Cardinality(U) = n - 1 /\ n \in Nat
    BY <1>0, <2>3, <2>4, FS_RemoveElement
  <2>6. U \notin bad
    <3> SUFFICES ASSUME U \in bad PROVE FALSE
      OBVIOUS
    <3>1. Cardinality(U) \in sizes
      OBVIOUS
    <3> HIDE DEF sizes, U
    <3>2. n <= n - 1
      BY <2>2, <2>5, <3>1
    <3> QED
      BY <2>5, <3>2
  <2>7. CASE U = {}
    <3>1. T = {x} /\ x \in Nat
      BY <2>3, <2>4, <2>7
    <3> QED
      BY <2>3, <3>1
  <2>8. CASE HasLatest(U)
    <3>1. PICK y \in U : \A z \in U : z <= y
      BY <2>8
    <3>2. x \in Nat /\ y \in Nat /\ T \subseteq Nat /\ y \in T
      BY <2>3, <2>4, <3>1
    <3>3. CASE x <= y
      BY <2>3, <3>1, <3>2, <3>3
    <3>4. CASE ~(x <= y)
      <4>1. \A z \in T : z <= x
        <5> SUFFICES ASSUME NEW z \in T PROVE z <= x
          OBVIOUS
        <5>1. z \in Nat
          BY <3>2
        <5>2. z = x \/ z <= y
          BY <3>1
        <5> QED
          BY <3>2, <3>4, <5>1, <5>2
      <4> QED
        BY <2>3, <2>4, <4>1
    <3> QED
      BY <3>3, <3>4
  <2> QED
    BY <2>5, <2>6, <2>7, <2>8
<1> QED
  BY <1>1 DEF Latest

LEMMA MembersAreFinite ==
  ASSUME NEW T, NEW s \in Seq(T)
  PROVE  IsFiniteSet(Members(s))
<1>1. s \in [1..Len(s) -> T] /\ DOMAIN s = 1..Len(s) /\ Len(s) \in Nat
  OBVIOUS
<1>2. IsFiniteSet(1..Len(s))
  BY <1>1, FS_Interval
<1>3. IsFiniteSet({s[i] : i \in 1..Len(s)})
  BY <1>1, <1>2, FiniteImage
<1> QED
  BY <1>1, <1>3 DEF Members

LEMMA YearsAreFinite ==
  ASSUME NEW rule, NEW docs \in SUBSET DOMAIN Documents, IsFiniteSet(docs)
  PROVE  SourceYears(rule, docs) \in SUBSET Nat /\ IsFiniteSet(SourceYears(rule, docs))
<1> DEFINE Sources == SourceDocs(rule, docs)
           chunks == [d \in Sources |-> Chunks[d]]
           C == UNION {chunks[d] : d \in Sources}
           years == [c \in C |-> c.years]
<1>1. IsFiniteSet(Sources) /\ Sources \subseteq DOMAIN Documents
  BY FS_Subset DEF SourceDocs
<1>2. \A d \in Sources : IsFiniteSet(Chunks[d])
  <2> SUFFICES ASSUME NEW d \in Sources PROVE IsFiniteSet(Chunks[d])
    OBVIOUS
  <2>1. Documents[d] \in Seq(Chunks[d])
    BY <1>1, ChunksAssumption
  <2>2. Chunks[d] = Members(Documents[d])
    BY <1>1 DEF Chunks, Members
  <2> QED
    BY <2>1, <2>2, MembersAreFinite
<1>3. IsFiniteSet(C)
  <2> DEFINE T == {Chunks[d] : d \in Sources}
  <2>1. chunks \in [Sources -> T]
    OBVIOUS
  <2>2. \A d \in Sources : IsFiniteSet(chunks[d])
    BY <1>2
  <2> HIDE DEF chunks, Sources, T
  <2>3. IsFiniteSet({chunks[d] : d \in Sources})
    BY <1>1, <2>1, FiniteImage
  <2> QED
    BY <2>2, <2>3, FS_UNION
<1>4. \A c \in C : c.years \in SUBSET Nat /\ IsFiniteSet(c.years)
  BY <1>1, ChunksAssumption
<1>5. SourceYears(rule, docs) = UNION {years[c] : c \in C}
  BY DEF SourceYears
<1>6. IsFiniteSet(UNION {years[c] : c \in C})
  <2>1. years \in [C -> SUBSET Nat]
    BY <1>4
  <2>2. \A c \in C : IsFiniteSet(years[c])
    BY <1>4
  <2> HIDE DEF years, C
  <2>3. IsFiniteSet({years[c] : c \in C})
    BY <1>3, <2>1, FiniteImage
  <2> QED
    BY <2>2, <2>3, FS_UNION
<1>7. SourceYears(rule, docs) \in SUBSET Nat
  BY <1>4, <1>5
<1> QED
  BY <1>5, <1>6, <1>7

\* With more candidates of the same year the answer stays, or the official codes come
\* first.
LEMMA MoreCandidates ==
  ASSUME NEW m \in DOMAIN Rules, NEW docs, NEW more, NEW year, NEW later, NEW C, NEW D,
         \A f \in D : f.document \in Nat /\ f.page \in Nat,
         C \subseteq D, Rules[m].period => later = year,
         NEW old, old = Select(m, docs, year, C), HasFigure(old),
         NEW new, new = Select(m, more, later, D), HasFigure(new)
  PROVE  Answer(new.figure) = Answer(old.figure) \/ (new.figure.nic /\ ~old.figure.nic)
<1>0. \A f \in C : f.document \in Nat /\ f.page \in Nat
  OBVIOUS
<1>1. old.figure \in Chosen(Rules[m], year, C)
  BY <1>0, SelectedFigure
<1>2. new.figure \in Chosen(Rules[m], later, D)
  BY SelectedFigure
<1>3. \A f, g \in Chosen(Rules[m], later, D) : Answer(f) = Answer(g)
  <2>1. Agreeing(Chosen(Rules[m], later, D))
    BY SelectedFigure
  <2> QED
    BY <2>1 DEF Agreeing
<1>4. old.figure \in Ranked(C) /\ (Rules[m].period => old.figure.period = year)
  BY <1>1 DEF Chosen
<1>5. new.figure \in Ranked(D)
  BY <1>2 DEF Chosen
<1>6. CASE old.figure \in Ranked(D)
  <2>1. old.figure \in Chosen(Rules[m], later, D)
    BY <1>4, <1>6 DEF Chosen
  <2> QED
    BY <1>2, <1>3, <2>1
<1>7. CASE old.figure \notin Ranked(D)
  <2>1. old.figure \in D
    BY <1>4 DEF Ranked
  <2>2. ~old.figure.nic /\ \E f \in D : f.nic
    BY <1>7, <2>1 DEF Ranked
  <2>3. new.figure.nic
    BY <1>5, <2>2 DEF Ranked
  <2> QED
    BY <2>2, <2>3
<1> QED
  BY <1>6, <1>7

\* What was read of the documents is read again with more of them, under the same year.
LEMMA MoreDocuments ==
  ASSUME NEW m \in DOMAIN Rules, NEW b, NEW c, NEW y, NEW z, NEW notes,
         NEW docs \in SUBSET DOMAIN Documents, NEW more \in SUBSET DOMAIN Documents, docs \subseteq more,
         NEW R, R = ReadAll(m, b, y, notes, docs), \A r \in R : ~Failed(r),
         NEW S, S = ReadAll(m, c, z, notes, more), \A r \in S : ~Failed(r),
         Rules[m].period => z = y
  PROVE  RowsOf(R) \subseteq RowsOf(S)
<1> SUFFICES ASSUME NEW f \in RowsOf(R) PROVE f \in RowsOf(S)
  OBVIOUS
<1>1. PICK d \in SourceDocs(Rules[m], docs) : \E j \in 1..Len(Documents[d]) :
        f \in CandidatesAt(m, y, notes, d, j)
  BY CandidateOfRows
<1>2. PICK j \in 1..Len(Documents[d]) : f \in CandidatesAt(m, y, notes, d, j)
  BY <1>1
<1>3. RowsLeft(m, z, d, j) = RowsLeft(m, y, d, j)
  BY DEF RowsLeft, Older
<1>4. CandidatesAt(m, z, notes, d, j) = CandidatesAt(m, y, notes, d, j)
  <2>1. BasisRead(m, z, notes, d, j) = BasisRead(m, y, notes, d, j)
    BY <1>3 DEF BasisRead, PeriodRead
  <2> QED
    BY <1>3, <2>1 DEF CandidatesAt
<1>5. d \in SourceDocs(Rules[m], more)
  BY DEF SourceDocs
<1> QED
  BY <1>2, <1>4, <1>5, CandidateOfRows

\* More documents have no earlier latest year.
LEMMA LaterYear ==
  ASSUME NEW m \in DOMAIN Rules, Rules[m].period,
         NEW docs, NEW more \in SUBSET DOMAIN Documents, IsFiniteSet(more), docs \subseteq more,
         Precheck(Rules[m], docs) = None, Precheck(Rules[m], more) = None
  PROVE  LET y == Latest(SourceYears(Rules[m], docs))
             z == Latest(SourceYears(Rules[m], more))
         IN y \in Nat /\ z \in Nat /\ y <= z
<1> DEFINE Y == SourceYears(Rules[m], docs)
           Z == SourceYears(Rules[m], more)
<1>1. docs \in SUBSET DOMAIN Documents /\ IsFiniteSet(docs)
  BY FS_Subset
<1>2. Y \in SUBSET Nat /\ IsFiniteSet(Y) /\ Z \in SUBSET Nat /\ IsFiniteSet(Z)
  BY <1>1, YearsAreFinite
<1>3. Y \subseteq Z
  BY DEF SourceYears, SourceDocs
<1>4. Y # {}
  BY NoneAssumption DEF Precheck
<1> HIDE DEF Y, Z
<1>5. Latest(Y) \in Y /\ Latest(Z) \in Z /\ \A x \in Z : x <= Latest(Z)
  BY <1>2, <1>3, <1>4, LatestOfFinite
<1> QED
  BY <1>2, <1>3, <1>5 DEF Y, Z

\* The year of a figure that answers is the year it was looked for.
LEMMA FigureIsOfYear ==
  ASSUME NEW m \in DOMAIN Rules, Rules[m].period, NEW docs, NEW year, NEW C,
         \A f \in C : f.document \in Nat /\ f.page \in Nat,
         NEW answer, answer = Select(m, docs, year, C), HasFigure(answer)
  PROVE  answer.figure.period = year
<1>1. answer.figure \in Chosen(Rules[m], year, C)
  BY SelectedFigure
<1> QED
  BY <1>1 DEF Chosen

LEMMA ShorterInventory ==
  ASSUME Listed, inventory # <<>>,
         NEW shorter, shorter = SubSeq(inventory, 1, Len(inventory) - 1)
  PROVE  /\ DOMAIN shorter \subseteq Nat /\ DOMAIN inventory \subseteq Nat
         /\ Members(shorter) \subseteq Members(inventory)
         /\ Members(inventory) \in SUBSET DOMAIN Documents
         /\ IsFiniteSet(Members(inventory))
<1>1. inventory \in Seq(DOMAIN Documents) /\ Len(inventory) \in Nat /\ DOMAIN inventory = 1..Len(inventory)
  BY DEF Listed
<1>2. Len(inventory) - 1 \in Nat
  BY <1>1
<1>3. /\ DOMAIN shorter = 1..(Len(inventory) - 1)
      /\ \A i \in DOMAIN shorter : i \in DOMAIN inventory /\ shorter[i] = inventory[i]
  BY <1>1, <1>2
<1>4. Members(shorter) \subseteq Members(inventory)
  BY <1>3 DEF Members
<1>5. IsFiniteSet(Members(inventory))
  BY <1>1, MembersAreFinite
<1> QED
  BY <1>1, <1>3, <1>4, <1>5 DEF Members

\* One document more never replaces a supported figure without saying so.
LEMMA OneMoreDocument ==
  ASSUME Listed, inventory # <<>>, NEW m \in DOMAIN Rules
  PROVE  Succeeds(Rules[m], Direct(m, SubSeq(inventory, 1, Len(inventory) - 1), links),
                  Direct(m, inventory, links))
<1> DEFINE shorter == SubSeq(inventory, 1, Len(inventory) - 1)
           docs == Members(shorter)
           more == Members(inventory)
           y == Latest(SourceYears(Rules[m], docs))
           z == Latest(SourceYears(Rules[m], more))
           b == Only(Borrowers(docs))
           c == Only(Borrowers(more))
           R == ReadAll(m, b, y, links, docs)
           S == ReadAll(m, c, z, links, more)
           old == Direct(m, shorter, links)
           new == Direct(m, inventory, links)
<1>1. /\ DOMAIN shorter \subseteq Nat /\ DOMAIN inventory \subseteq Nat
      /\ docs \subseteq more /\ more \in SUBSET DOMAIN Documents /\ IsFiniteSet(more)
  BY ShorterInventory
<1> SUFFICES ASSUME HasFigure(old), HasFigure(new)
             PROVE  \/ Answer(new.figure) = Answer(old.figure)
                    \/ Rules[m].period /\ new.figure.period > old.figure.period
                    \/ new.figure.nic /\ ~old.figure.nic
  BY Zenon DEF Succeeds
<1> HIDE DEF shorter
<1>a. docs = Members(shorter) /\ more = Members(inventory)
  OBVIOUS
<1> HIDE DEF docs, more, y, z, b, c, R, S
<1>2. /\ Precheck(Rules[m], docs) = None /\ \A r \in R : ~Failed(r)
      /\ old = Select(m, docs, y, RowsOf(R))
  BY <1>1, <1>a, FigureOfMembers DEF y, b, R
<1>3. /\ Precheck(Rules[m], more) = None /\ \A r \in S : ~Failed(r)
      /\ new = Select(m, more, z, RowsOf(S))
  BY <1>1, <1>a, FigureOfMembers DEF z, c, S
<1>4. docs \in SUBSET DOMAIN Documents
  BY <1>1
<1>5. \A f \in RowsOf(R) : f.document \in Nat /\ f.page \in Nat
  BY <1>2, <1>4, CandidatesArePlaced DEF R
<1>6. \A f \in RowsOf(S) : f.document \in Nat /\ f.page \in Nat
  BY <1>1, <1>3, CandidatesArePlaced DEF S
<1> HIDE DEF old, new
<1>b. HasFigure(old) /\ HasFigure(new)
  BY DEF old, new
<1>7. CASE Rules[m].period => z = y
  <2>1. RowsOf(R) \subseteq RowsOf(S)
    BY <1>1, <1>2, <1>3, <1>4, <1>7, MoreDocuments DEF R, S
  <2> QED
    BY <1>2, <1>3, <1>6, <1>7, <1>b, <2>1, MoreCandidates
<1>8. CASE Rules[m].period /\ z # y
  <2>1. y \in Nat /\ z \in Nat /\ y <= z
    BY <1>1, <1>2, <1>3, <1>8, LaterYear DEF y, z
  <2>2. old.figure.period = y
    BY <1>2, <1>5, <1>8, <1>b, FigureIsOfYear
  <2>3. new.figure.period = z
    BY <1>3, <1>6, <1>8, <1>b, FigureIsOfYear
  <2> QED
    BY <1>8, <2>1, <2>2, <2>3
<1> QED
  BY <1>7, <1>8

\* One more document in the index keeps a supported figure, makes the gate abstain or
\* moves it to a later reporting year; only the official activity codes replace a
\* description (BorrowerEvidenceGate._direct).
THEOREM SwapsAreDeclared == GateSpec => []NoSilentSwap
<1>1. Listed => NoSilentSwap
  BY OneMoreDocument DEF NoSilentSwap
<1> QED
  BY <1>1, DocumentsAreListed, PTL

-----------------------------------------------------------------------------
(* The ledger of operands and the debt service cover *)

LEMMA FindingIsTyped ==
  ASSUME LedgerTypeOK, NEW o \in DOMAIN Readings, NEW r, NEW first, Record(o, r, first),
         r \in Findings(o) \cup {Doubtful(f) : f \in Readings[o]}
  PROVE  LedgerTypeOK'
<1>1. /\ DOMAIN ledger' = DOMAIN Readings /\ ledger'[o] = r
      /\ \A p \in DOMAIN Readings : p # o => ledger'[p] = ledger[p]
  BY DEF LedgerTypeOK, Record
<1>2. \A p \in DOMAIN Readings :
        ledger'[p] \in Findings(p) \cup {Fault(Missing)} \cup {Doubtful(f) : f \in Readings[p]}
  BY <1>1 DEF LedgerTypeOK
<1> QED
  BY <1>1, <1>2 DEF LedgerTypeOK

\* What is and what is not a figure.
LEMMA Kinds ==
  /\ \A code : Lacks(Fault(code)) /\ ~IsDoubtful(Fault(code)) /\ Fault(code).error = code
  /\ \A f : Lacks(Doubtful(f)) /\ IsDoubtful(Doubtful(f)) /\ Doubtful(f).was = f
             /\ Doubtful(f).error = Unclear
  /\ \A o \in DOMAIN Readings : \A f \in Readings[o] : ~Lacks(f) /\ ~IsDoubtful(f)
  /\ Missing # Unclear /\ Missing # Conflicting /\ Unclear # Conflicting
BY ReadingsAssumption DEF Lacks, Fault, IsDoubtful, Doubtful, Missing, Unclear, Conflicting

\* What the ledger says of an operand.
LEMMA EntryKinds ==
  ASSUME LedgerTypeOK, NEW o \in DOMAIN Readings
  PROVE  /\ ~Lacks(ledger[o]) <=> ledger[o] \in Readings[o]
         /\ IsDoubtful(ledger[o]) => \E f \in Readings[o] : ledger[o] = Doubtful(f)
         /\ Lacks(ledger[o]) => ledger[o].error \in {Missing, Conflicting, Unclear}
         /\ Lacks(ledger[o]) /\ ledger[o].error = Unclear /\ ~IsDoubtful(ledger[o]) =>
              ledger[o] = Fault(Unclear)
<1>1. ledger[o] \in Readings[o] \cup {Fault(Conflicting), Fault(Unclear), Fault(Missing)}
                     \cup {Doubtful(f) : f \in Readings[o]}
  BY DEF LedgerTypeOK, Findings
<1> QED
  BY <1>1, Kinds

LEMMA LedgerTyped == LedgerTypeOK /\ [LedgerNext]_ledgerVars => LedgerTypeOK'
<1> SUFFICES ASSUME LedgerTypeOK, [LedgerNext]_ledgerVars PROVE LedgerTypeOK'
  OBVIOUS
<1>1. ASSUME NEW o \in DOMAIN Readings, NEW first, Disclose(o, first) PROVE LedgerTypeOK'
  <2>1. PICK r \in Findings(o) : Record(o, r, first)
    BY <1>1 DEF Disclose
  <2> QED
    BY <2>1, FindingIsTyped
<1>2. ASSUME NEW o \in DOMAIN Readings, NEW first, Settle(o, first) PROVE LedgerTypeOK'
  <2>1. PICK r \in IF IsDoubtful(ledger[o]) THEN {ledger[o].was, Fault(Conflicting)} ELSE Findings(o) :
          Record(o, r, first)
    BY <1>2 DEF Settle
  <2>2. r \in Findings(o)
    BY <2>1, EntryKinds, Kinds DEF Findings
  <2> QED
    BY <2>1, <2>2, FindingIsTyped
<1>3. ASSUME NEW o \in DOMAIN Readings, NEW first, Contradict(o, first) PROVE LedgerTypeOK'
  <2>1. PICK r \in {Fault(Conflicting), Doubtful(ledger[o])} : Record(o, r, first)
    BY <1>3 DEF Contradict
  <2>2. ledger[o] \in Readings[o]
    BY <1>3, EntryKinds DEF Contradict
  <2> QED
    BY <2>1, <2>2, FindingIsTyped DEF Findings
<1>4. CASE Renew
  <2>1. PICK found \in [Disclosed -> UNION {Findings(o) : o \in Disclosed}] :
          /\ \A o \in Disclosed : found[o] \in Findings(o)
          /\ ledger' = [o \in DOMAIN Readings |-> IF o \in Disclosed THEN found[o] ELSE ledger[o]]
    BY <1>4 DEF Renew
  <2>2. \A o \in DOMAIN Readings : ledger'[o] \in Findings(o) \/ ledger'[o] = Fault(Missing)
    BY <2>1 DEF Disclosed
  <2> QED
    BY <2>1, <2>2 DEF LedgerTypeOK
<1>5. CASE UNCHANGED ledgerVars
  BY <1>5 DEF LedgerTypeOK, ledgerVars
<1> QED
  BY <1>1, <1>2, <1>3, <1>4, <1>5 DEF LedgerNext

THEOREM LedgerIsTyped == LedgerSpec => []LedgerTypeOK
<1>1. LedgerInit => LedgerTypeOK
  BY DEF LedgerInit, LedgerTypeOK
<1> QED
  BY <1>1, LedgerTyped, PTL DEF LedgerSpec

\* What a supported debt service cover rests on.
LEMMA SupportedCover ==
  ASSUME Supported(CalculateDscr)
  PROVE  /\ \A o \in DscrOperands : Lacks(ledger[o]) => ledger[o].error = Missing
         /\ Lacks(ledger["dscr"]) => ledger["dscr"].error = Missing
         /\ Reconcile = Clear
         /\ LET results == {r \in {Calculate(n, ledger) : n \in Set(DscrFormulas)} : ~Lacks(r)}
            IN CalculateDscr \in results /\ \A p, q \in results : Same(p, q)
<1> DEFINE refused == {o \in DscrOperands : Lacks(ledger[o]) /\ ledger[o].error # Missing}
           answers == {Calculate(n, ledger) : n \in Set(DscrFormulas)}
           bad == {r \in answers : Lacks(r) /\ r.error # Missing}
           results == {r \in answers : ~Lacks(r)}
<1>1. \A code : Lacks(Fault(code))
  BY DEF Lacks, Fault
<1>2. ~Lacks(CalculateDscr)
  BY DEF Supported
<1>3. CalculateDscr =
        CASE refused # {} -> ledger[CHOOSE o \in refused : TRUE]
          [] Reconcile # Clear -> Fault(Reconcile)
          [] \E n \in Set(DscrFormulas) : BadDenominator(n) -> Fault("evidence_value_ambiguous")
          [] Lacks(ledger["dscr"]) /\ ledger["dscr"].error # Missing -> ledger["dscr"]
          [] bad # {} -> CHOOSE r \in bad : TRUE
          [] results = {} -> Fault(Missing)
          [] \E p, q \in results : ~Same(p, q) -> Fault("evidence_context_conflict")
          [] OTHER -> CHOOSE r \in results : TRUE
  BY Zenon DEF CalculateDscr
<1>4. refused # {} => Lacks(ledger[CHOOSE o \in refused : TRUE])
  OBVIOUS
<1>5. bad # {} => Lacks(CHOOSE r \in bad : TRUE)
  OBVIOUS
<1>6. results # {} => (CHOOSE r \in results : TRUE) \in results
  OBVIOUS
<1>7. \A o \in DscrOperands : Lacks(ledger[o]) /\ ledger[o].error # Missing => o \in refused
  OBVIOUS
<1> HIDE DEF refused, bad, results
<1>8. /\ refused = {} /\ Reconcile = Clear
      /\ ~(Lacks(ledger["dscr"]) /\ ledger["dscr"].error # Missing)
      /\ results # {} /\ \A p, q \in results : Same(p, q)
      /\ CalculateDscr = CHOOSE r \in results : TRUE
  BY <1>1, <1>2, <1>3, <1>4, <1>5
<1>9. CalculateDscr \in results
  BY <1>6, <1>8
<1> QED
  BY <1>7, <1>8, <1>9 DEF results

\* A refused part of the schedule is never called clear.
LEMMA RefusalIsNotClear ==
  ASSUME LedgerTypeOK, "dscr" \in DOMAIN Policy, Refused(Schedule) # {}
  PROVE  FirstRefusal(Schedule) # Clear
<1> DEFINE hits == {n \in DOMAIN Schedule : Schedule[n] \in Refused(Schedule)}
<1>1. DOMAIN Schedule = 1..3
  BY DEF Schedule
<1>2. hits \in SUBSET Nat /\ hits # {}
  BY <1>1 DEF Refused, Set
<1>3. PICK n \in hits : \A j \in hits : n <= j
  <2> HIDE DEF hits
  <2> QED
    BY <1>2, SmallestNumber
<1>4. \A j \in 1..(n - 1) : Schedule[j] \notin Refused(Schedule)
  BY <1>1, <1>3
<1> DEFINE i == CHOOSE k \in DOMAIN Schedule :
                  /\ Schedule[k] \in Refused(Schedule)
                  /\ \A j \in 1..(k - 1) : Schedule[j] \notin Refused(Schedule)
<1>5. Schedule[i] \in Refused(Schedule)
  BY <1>3, <1>4
<1>6. FirstRefusal(Schedule) = ledger[Schedule[i]].error
  BY Zenon DEF FirstRefusal
<1> HIDE DEF i
<1>7. Schedule[i] \in DOMAIN Readings /\ Lacks(ledger[Schedule[i]])
  BY <1>5, DscrAssumption DEF Refused
<1>8. ledger[Schedule[i]].error \in {Missing, Conflicting, Unclear}
  BY <1>7, EntryKinds
<1> QED
  BY <1>6, <1>8 DEF Missing, Conflicting, Unclear, Clear

LEMMA ScheduleIsWhole ==
  ASSUME LedgerTypeOK, "dscr" \in DOMAIN Policy, Reconcile = Clear
  PROVE  Known(Schedule) \in {{}, Set(Schedule)}
<1>1. Refused(Schedule) = {}
  <2>1. ASSUME Refused(Schedule) # {} PROVE Reconcile = FirstRefusal(Schedule)
    BY <2>1, Zenon DEF Reconcile
  <2> QED
    BY <2>1, RefusalIsNotClear
<1>2. CASE Known(Schedule) # {}
  <2>1. ReconcileSchedule = Clear
    BY <1>1, <1>2, Zenon DEF Reconcile
  <2>2. Missing # Clear
    BY DEF Missing, Clear
  <2>3. Known(Schedule) = Set(Schedule)
    <3>1. ASSUME Known(Schedule) # Set(Schedule) PROVE ReconcileSchedule = Missing
      BY <3>1, Zenon DEF ReconcileSchedule
    <3> QED
      BY <2>1, <2>2, <3>1
  <2> QED
    BY <2>3
<1> QED
  BY <1>2

\* The debt service cover is not computed around an operand that is conflicting or
\* unclear, nor beside a schedule that is only partly disclosed (calculate_dscr and
\* reconcile_annual_service).
THEOREM CoverIsNotBypassed ==
  ASSUME "dscr" \in DOMAIN Policy
  PROVE  LedgerSpec => []DscrNeverBypasses
<1>1. Extract("dscr") = CalculateDscr
  BY Zenon DEF Extract
<1>2. LedgerTypeOK => DscrNeverBypasses
  BY <1>1, SupportedCover, ScheduleIsWhole DEF DscrNeverBypasses
<1> QED
  BY <1>2, LedgerIsTyped, PTL

LEMMA JoinedNames ==
  ASSUME NEW S, NEW s \in Seq(S), NEW t \in Seq(S)
  PROVE  /\ Set(s \o t) = Set(s) \cup Set(t)
         /\ DOMAIN (s \o t) \subseteq Nat
<1>1. /\ s \o t \in Seq(S) /\ Len(s \o t) = Len(s) + Len(t)
      /\ \A k \in 1..(Len(s) + Len(t)) : (s \o t)[k] = IF k <= Len(s) THEN s[k] ELSE t[k - Len(s)]
  BY ConcatProperties
<1>2. /\ DOMAIN s = 1..Len(s) /\ DOMAIN t = 1..Len(t) /\ Len(s) \in Nat /\ Len(t) \in Nat
      /\ DOMAIN (s \o t) = 1..(Len(s) + Len(t))
  BY <1>1
<1>3. ASSUME NEW k \in DOMAIN (s \o t) PROVE (s \o t)[k] \in Set(s) \cup Set(t)
  <2>1. CASE k <= Len(s)
    BY <1>1, <1>2, <2>1 DEF Set
  <2>2. CASE ~(k <= Len(s))
    <3>1. k - Len(s) \in DOMAIN t
      BY <1>2, <2>2
    <3> QED
      BY <1>1, <1>2, <2>2, <3>1 DEF Set
  <2> QED
    BY <2>1, <2>2
<1>4. ASSUME NEW k \in DOMAIN s PROVE s[k] \in Set(s \o t)
  <2>1. k \in DOMAIN (s \o t) /\ (s \o t)[k] = s[k]
    BY <1>1, <1>2
  <2> QED
    BY <2>1 DEF Set
<1>5. ASSUME NEW k \in DOMAIN t PROVE t[k] \in Set(s \o t)
  <2>1. Len(s) + k \in DOMAIN (s \o t) /\ (s \o t)[Len(s) + k] = t[k]
    BY <1>1, <1>2
  <2> QED
    BY <2>1 DEF Set
<1> QED
  BY <1>2, <1>3, <1>4, <1>5 DEF Set

\* The operands of the formulas.
Names ==
  {"operating_revenue", "operating_expenses", "pnl_total_expenses", "finance_cost",
   "debt_service", "all_loan_principal_due", "all_loan_interest_due",
   "additional_lease_service", "term_interest_due", "principal_due", "noi", "cfads", "pat",
   "da", "pbt", "net_tax", "total_debt", "ebitda", "long_term_borrowings",
   "short_term_borrowings", "total_equity", "partners_contribution",
   "partners_current_account", "annual_revenue"}

LEMMA NameTuples ==
  ASSUME NEW S
  PROVE  /\ <<>> \in Seq(S) /\ \A a \in S : <<a>> \in Seq(S)
         /\ \A a, b \in S : <<a, b>> \in Seq(S)
         /\ \A a, b, c \in S : <<a, b, c>> \in Seq(S)
         /\ \A a, b, c, d \in S : <<a, b, c, d>> \in Seq(S)
OBVIOUS

LEMMA FormulaParts ==
  ASSUME NEW n \in DOMAIN Formulas
  PROVE  Formulas[n].top \in Seq(Names) /\ Formulas[n].bottom \in Seq(Names)
<1>1. /\ Operating \in Seq(Names) /\ Schedule \in Seq(Names) /\ Pnl \in Seq(Names)
      /\ Total \in Seq(Names) /\ Term \in Seq(Names) /\ Borrowings \in Seq(Names)
      /\ PbtEbitda \in Seq(Names)
  BY NameTuples DEF Operating, Schedule, Pnl, Total, Term, Borrowings, PbtEbitda, Names
<1>2. Formulas[n].top \in
        {Operating, Pnl, <<"noi">>, <<"cfads">>, <<"pat", "da", "term_interest_due">>,
         <<"pbt", "net_tax", "da", "term_interest_due">>, <<"total_debt">>, Borrowings,
         <<"ebitda">>, PbtEbitda, <<"pbt", "net_tax">>}
  BY DEF Formulas, Formula
<1>3. Formulas[n].bottom \in
        {Total, Schedule, Term, <<"ebitda">>, PbtEbitda, <<"total_equity">>,
         <<"partners_contribution", "partners_current_account">>, <<"annual_revenue">>, <<>>}
  BY DEF Formulas, Formula
<1>4. /\ <<"noi">> \in Seq(Names) /\ <<"cfads">> \in Seq(Names)
      /\ <<"pat", "da", "term_interest_due">> \in Seq(Names)
      /\ <<"pbt", "net_tax", "da", "term_interest_due">> \in Seq(Names)
      /\ <<"total_debt">> \in Seq(Names) /\ <<"ebitda">> \in Seq(Names)
      /\ <<"pbt", "net_tax">> \in Seq(Names)
  BY NameTuples DEF Names
<1>5. /\ <<"total_equity">> \in Seq(Names) /\ <<"annual_revenue">> \in Seq(Names)
      /\ <<"partners_contribution", "partners_current_account">> \in Seq(Names)
      /\ <<>> \in Seq(Names)
  BY NameTuples DEF Names
<1>6. Formulas[n].top \in Seq(Names)
  BY <1>1, <1>2, <1>4
<1>7. Formulas[n].bottom \in Seq(Names)
  BY <1>1, <1>3, <1>4, <1>5
<1> QED
  BY <1>6, <1>7

\* A formula that has a result has all its operands.
LEMMA ResultHasOperands ==
  ASSUME NEW n \in DOMAIN Formulas, NEW extract, ~Lacks(Calculate(n, extract))
  PROVE  \A o \in Set(Operands(Formulas[n])) : ~Lacks(extract[o])
<1> DEFINE operands == Operands(Formulas[n])
           lacking == {i \in DOMAIN operands : Lacks(extract[operands[i]])}
           first == CHOOSE i \in lacking : \A j \in lacking : i <= j
<1>1. DOMAIN operands \subseteq Nat
  BY FormulaParts, JoinedNames DEF Operands
<1>2. CASE lacking # {}
  <2>1. \E i \in lacking : \A j \in lacking : i <= j
    <3>1. lacking \in SUBSET Nat
      BY <1>1
    <3> HIDE DEF lacking
    <3> QED
      BY <1>2, <3>1, SmallestNumber
  <2>2. Lacks(extract[operands[first]])
    BY <2>1
  <2> HIDE DEF first
  <2>3. \/ Calculate(n, extract) = extract[operands[first]]
        \/ Calculate(n, extract) = Fault("evidence_context_conflict")
    BY <1>2 DEF Calculate, first
  <2> QED
    BY <2>2, <2>3 DEF Lacks, Fault
<1>3. CASE lacking = {}
  BY <1>3 DEF Set
<1> QED
  BY <1>2, <1>3

\* A result is a function of the operands of its formula.
LEMMA SameOperandsSameFigure ==
  ASSUME NEW n \in DOMAIN Formulas, NEW old, NEW new, ~Lacks(Calculate(n, old)),
         \A o \in Set(Operands(Formulas[n])) : new[o] = old[o]
  PROVE  Calculate(n, new) = Calculate(n, old)
<1> DEFINE f == Formulas[n]
           names == Operands(f)
<1>1. \A p \in Set(names) : new[p] = old[p]
  OBVIOUS
<1>2. Set(f.top) \subseteq Set(names) /\ Set(f.bottom) \subseteq Set(names)
  BY FormulaParts, JoinedNames DEF Operands
<1>3. DOMAIN f.top = 1..Len(f.top) /\ DOMAIN f.bottom = 1..Len(f.bottom)
  BY FormulaParts
<1>4. \A minus : SumOf(new, f.top, minus) = SumOf(old, f.top, minus)
  <2> SUFFICES ASSUME NEW minus PROVE SumOf(new, f.top, minus) = SumOf(old, f.top, minus)
    OBVIOUS
  <2>1. \A i \in 1..Len(f.top) : new[f.top[i]] = old[f.top[i]]
    BY <1>1, <1>2, <1>3 DEF Set
  <2> HIDE DEF f, names
  <2> QED
    BY <2>1 DEF SumOf
<1>5. SumOf(new, f.bottom, {}) = SumOf(old, f.bottom, {})
  <2>1. \A i \in 1..Len(f.bottom) : new[f.bottom[i]] = old[f.bottom[i]]
    BY <1>1, <1>2, <1>3 DEF Set
  <2> HIDE DEF f, names
  <2> QED
    BY <2>1 DEF SumOf
<1>6. Evaluate(f, new) = Evaluate(f, old)
  <2>1. (\E p \in Set(names) \cap NeverNegative : new[p].amount < 0)
          <=> (\E p \in Set(names) \cap NeverNegative : old[p].amount < 0)
    BY <1>1
  <2> HIDE DEF f, names
  <2>2. names = Operands(f)
    BY DEF names
  <2> QED
    BY <1>4, <1>5, <2>1, <2>2 DEF Evaluate
<1>7. \A p \in Set(names) : ~Lacks(old[p]) /\ ~Lacks(new[p])
  BY <1>1, ResultHasOperands
<1>8. /\ {i \in DOMAIN names : Lacks(old[names[i]])} = {}
      /\ {i \in DOMAIN names : Lacks(new[names[i]])} = {}
  BY <1>7 DEF Set
<1>9. {new[p].context : p \in Set(names)} = {old[p].context : p \in Set(names)}
  BY <1>1
<1> DEFINE one == Cardinality({old[p].context : p \in Set(names)}) = 1
<1>10. Calculate(n, old) = IF ~one THEN Fault("evidence_context_conflict") ELSE Evaluate(f, old)
  <2> HIDE DEF f
  <2>1. f = Formulas[n]
    BY DEF f
  <2> QED
    BY <1>8, <2>1 DEF Calculate
<1>11. Calculate(n, new) = IF ~one THEN Fault("evidence_context_conflict") ELSE Evaluate(f, new)
  <2> HIDE DEF f
  <2>1. f = Formulas[n]
    BY DEF f
  <2> QED
    BY <1>8, <1>9, <2>1 DEF Calculate
<1> QED
  BY <1>6, <1>10, <1>11

\* The ledger with every doubtful figure as it was.
Believed == [o \in DOMAIN Readings |-> IF IsDoubtful(ledger[o]) THEN ledger[o].was ELSE ledger[o]]

OperandsOf(n) == Set(Operands(Formulas[n]))

\* A cover rests on a formula as long as no operand of it conflicts.
Rests(c) ==
  \E n \in Set(DscrFormulas) :
    \/ \E o \in OperandsOf(n) : ledger[o] = Fault(Conflicting)
    \/ Calculate(n, Believed) = c

CoverRests == ~Lacks(cover) => Rests(cover)

LEMMA DscrFormulaOperands ==
  ASSUME "dscr" \in DOMAIN Policy, NEW n \in Set(DscrFormulas)
  PROVE  /\ n \in DOMAIN Formulas /\ OperandsOf(n) \subseteq DOMAIN Readings
         /\ OperandsOf(n) \subseteq DscrOperands
BY PolicyAssumption DEF DscrFormulas, DscrOperands, Set, OperandsOf

\* A supported cover rests on the formula that answers.
LEMMA SupportedRests ==
  ASSUME "dscr" \in DOMAIN Policy, LedgerTypeOK, Supported(CalculateDscr)
  PROVE  Rests(CalculateDscr)
<1>1. PICK n \in Set(DscrFormulas) : CalculateDscr = Calculate(n, ledger) /\ ~Lacks(Calculate(n, ledger))
  BY SupportedCover
<1>2. n \in DOMAIN Formulas /\ OperandsOf(n) \subseteq DOMAIN Readings
  BY DscrFormulaOperands
<1>3. \A o \in OperandsOf(n) : Believed[o] = ledger[o]
  <2>1. \A o \in OperandsOf(n) : ~Lacks(ledger[o])
    BY <1>1, <1>2, ResultHasOperands DEF OperandsOf
  <2>2. \A o \in OperandsOf(n) : ~IsDoubtful(ledger[o])
    BY <1>2, <2>1, EntryKinds, Kinds
  <2> QED
    BY <1>2, <2>2 DEF Believed
<1>4. Calculate(n, Believed) = Calculate(n, ledger)
  BY <1>1, <1>2, <1>3, SameOperandsSameFigure DEF OperandsOf
<1> QED
  BY <1>1, <1>4 DEF Rests

\* What the steps of a year leave of an operand: a conflict stays, and what is
\* believed of a figure is believed still, or conflicts.
Stays(o) ==
  /\ ledger[o] = Fault(Conflicting) => ledger'[o] = Fault(Conflicting)
  /\ ~Lacks(Believed[o]) => ledger'[o] = Fault(Conflicting) \/ Believed'[o] = Believed[o]

LEMMA OperandStays ==
  ASSUME LedgerTypeOK, NEW o \in DOMAIN Readings, NEW first,
         Disclose(o, first) \/ Settle(o, first) \/ Contradict(o, first)
  PROVE  \A p \in DOMAIN Readings : Stays(p)
<1> DEFINE SettledBy(r) ==
             /\ Settle(o, first)
             /\ IsDoubtful(ledger[o]) => r \in {ledger[o].was, Fault(Conflicting)}
           ContradictedBy(r) ==
             Contradict(o, first) /\ r \in {Fault(Conflicting), Doubtful(ledger[o])}
<1>1. PICK r : Record(o, r, first) /\ (Disclose(o, first) \/ SettledBy(r) \/ ContradictedBy(r))
  <2>1. CASE Disclose(o, first)
    BY <2>1 DEF Disclose
  <2>2. CASE Settle(o, first)
    BY <2>2 DEF Settle
  <2>3. CASE Contradict(o, first)
    BY <2>3 DEF Contradict
  <2> QED
    BY <2>1, <2>2, <2>3
<1>2. ledger'[o] = r /\ \A p \in DOMAIN Readings : p # o => ledger'[p] = ledger[p]
  BY <1>1 DEF Record, LedgerTypeOK
<1>3. ASSUME NEW p \in DOMAIN Readings, p # o PROVE Stays(p)
  BY <1>2, <1>3 DEF Stays, Believed
<1>4. /\ Believed[o] = IF IsDoubtful(ledger[o]) THEN ledger[o].was ELSE ledger[o]
      /\ Believed'[o] = IF IsDoubtful(r) THEN r.was ELSE r
  BY <1>2 DEF Believed
<1> SUFFICES Stays(o)
  BY <1>3
<1>5. CASE Disclose(o, first)
  BY <1>4, <1>5, Kinds DEF Disclose, Stays
<1>6. CASE SettledBy(r)
  <2>1. Lacks(ledger[o]) /\ ledger[o].error = Unclear
    BY <1>6 DEF Settle
  <2>2. ledger[o] # Fault(Conflicting)
    BY <2>1, Kinds
  <2>3. CASE IsDoubtful(ledger[o])
    <3>1. PICK f \in Readings[o] : ledger[o] = Doubtful(f)
      BY <2>3, EntryKinds
    <3>2. Believed[o] = f /\ r \in {f, Fault(Conflicting)}
      BY <1>4, <1>6, <2>3, <3>1, Kinds
    <3>3. r = f => Believed'[o] = f
      BY <1>4, Kinds
    <3> QED
      BY <1>2, <2>2, <3>2, <3>3 DEF Stays
  <2>4. CASE ~IsDoubtful(ledger[o])
    BY <1>4, <2>1, <2>2, <2>4 DEF Stays
  <2> QED
    BY <2>3, <2>4
<1>7. CASE ContradictedBy(r)
  <2>1. ~Lacks(ledger[o]) /\ ledger[o] \in Readings[o]
    BY <1>7, EntryKinds DEF Contradict
  <2>2. ledger[o] # Fault(Conflicting) /\ Believed[o] = ledger[o]
    BY <1>4, <2>1, Kinds
  <2>3. r = Doubtful(ledger[o]) => Believed'[o] = ledger[o]
    BY <1>4, Kinds
  <2> QED
    BY <1>2, <1>7, <2>2, <2>3 DEF Stays
<1> QED
  BY <1>1, <1>5, <1>6, <1>7

LEMMA RestsOn ==
  ASSUME "dscr" \in DOMAIN Policy, NEW c, ~Lacks(c), Rests(c),
         \A p \in DOMAIN Readings : Stays(p)
  PROVE  Rests(c)'
<1>1. PICK n \in Set(DscrFormulas) :
        \/ \E o \in OperandsOf(n) : ledger[o] = Fault(Conflicting)
        \/ Calculate(n, Believed) = c
  BY DEF Rests
<1>2. n \in DOMAIN Formulas /\ OperandsOf(n) \subseteq DOMAIN Readings
  BY DscrFormulaOperands
<1>3. (\E o \in OperandsOf(n) : ledger'[o] = Fault(Conflicting)) \/ Calculate(n, Believed') = c
  <2>1. CASE \E o \in OperandsOf(n) : ledger[o] = Fault(Conflicting)
    BY <1>2, <2>1 DEF Stays
  <2>2. CASE Calculate(n, Believed) = c
    <3>1. \A o \in OperandsOf(n) : ~Lacks(Believed[o])
      BY <1>2, <2>2, ResultHasOperands DEF OperandsOf
    <3>2. CASE \A o \in OperandsOf(n) : ledger'[o] # Fault(Conflicting)
      <4>1. \A o \in OperandsOf(n) : Believed'[o] = Believed[o]
        BY <1>2, <3>1, <3>2 DEF Stays
      <4> QED
        BY <1>2, <2>2, <4>1, SameOperandsSameFigure DEF OperandsOf
    <3> QED
      BY <3>2
  <2> QED
    BY <1>1, <2>1, <2>2
<1> QED
  BY <1>3 DEF Rests, DscrFormulas, OperandsOf

LEMMA CoverRestsPreserved ==
  ASSUME "dscr" \in DOMAIN Policy, LedgerTypeOK, CoverRests, [LedgerNext]_ledgerVars
  PROVE  CoverRests'
<1>1. Extract("dscr") = CalculateDscr
  BY Zenon DEF Extract
<1>2. ASSUME NEW o \in DOMAIN Readings,
             Disclose(o, FirstCover) \/ Settle(o, FirstCover) \/ Contradict(o, FirstCover),
             NEW c, c = FirstCover, ~Lacks(c)
      PROVE  Rests(c)'
  <2>1. Rests(c)
    BY <1>1, <1>2, SupportedRests DEF FirstCover, CoverRests, Supported
  <2>2. \A p \in DOMAIN Readings : Stays(p)
    BY <1>2, OperandStays
  <2> QED
    BY <1>2, <2>1, <2>2, RestsOn
<1>3. ASSUME NEW o \in DOMAIN Readings,
             Disclose(o, FirstCover) \/ Settle(o, FirstCover) \/ Contradict(o, FirstCover)
      PROVE  CoverRests'
  <2>1. cover' = FirstCover
    BY <1>3 DEF Disclose, Settle, Contradict, Record
  <2> QED
    BY <1>2, <1>3, <2>1 DEF CoverRests, Rests
<1>4. CASE Renew
  BY <1>4, Kinds DEF Renew, CoverRests
<1>5. CASE UNCHANGED ledgerVars
  BY <1>5 DEF ledgerVars, CoverRests, Rests, Believed
<1> QED
  BY <1>3, <1>4, <1>5 DEF LedgerNext

\* The cover that is remembered is the one that is supported now.
LEMMA RestingCoverAnswers ==
  ASSUME "dscr" \in DOMAIN Policy, LedgerTypeOK, CoverRests
  PROVE  DscrNeverMoves
<1> SUFFICES ASSUME ~Lacks(cover), Supported(CalculateDscr) PROVE Same(cover, CalculateDscr)
  BY Zenon DEF DscrNeverMoves, Extract, Supported
<1> DEFINE results == {r \in {Calculate(n, ledger) : n \in Set(DscrFormulas)} : ~Lacks(r)}
<1>1. /\ \A o \in DscrOperands : Lacks(ledger[o]) => ledger[o].error = Missing
      /\ CalculateDscr \in results /\ \A p, q \in results : Same(p, q)
  BY SupportedCover
<1>2. PICK n \in Set(DscrFormulas) :
        \/ \E o \in OperandsOf(n) : ledger[o] = Fault(Conflicting)
        \/ Calculate(n, Believed) = cover
  BY DEF CoverRests, Rests
<1>3. /\ n \in DOMAIN Formulas /\ OperandsOf(n) \subseteq DOMAIN Readings
      /\ OperandsOf(n) \subseteq DscrOperands
  BY DscrFormulaOperands
<1>4. Calculate(n, Believed) = cover
  BY <1>1, <1>2, <1>3, Kinds
<1>5. \A o \in OperandsOf(n) : ledger[o] = Believed[o]
  <2>1. \A o \in OperandsOf(n) : ~IsDoubtful(ledger[o])
    BY <1>1, <1>3, EntryKinds, Kinds
  <2> QED
    BY <1>3, <2>1 DEF Believed
<1>6. Calculate(n, ledger) = cover
  BY <1>3, <1>4, <1>5, SameOperandsSameFigure DEF OperandsOf
<1>7. cover \in results
  BY <1>6
<1> QED
  BY <1>1, <1>7

\* Within a reporting year the debt service cover is the one first supported, whichever
\* formula answers and whatever was disclosed, refused or settled in between
\* (calculate_dscr: every operand is extracted before any formula, and all results must
\* agree).
THEOREM CoverNeverMoves ==
  ASSUME "dscr" \in DOMAIN Policy
  PROVE  LedgerSpec => []DscrNeverMoves
<1>1. LedgerInit => CoverRests
  BY Kinds DEF LedgerInit, CoverRests
<1>2. LedgerTypeOK /\ CoverRests /\ [LedgerNext]_ledgerVars => CoverRests'
  BY CoverRestsPreserved
<1>3. LedgerTypeOK /\ CoverRests => DscrNeverMoves
  BY RestingCoverAnswers
<1> QED
  BY <1>1, <1>2, <1>3, LedgerIsTyped, PTL DEF LedgerSpec
=============================================================================
