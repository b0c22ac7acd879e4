---------------------------- MODULE EvidenceGate ----------------------------
(***************************************************************************)
(* The borrower evidence gate (reason/evidence_gate.py with basis.py,      *)
(* interpretations.py and classification.py): from the chunks indexed for  *)
(* an application it selects the one figure that answers a metric, or says *)
(* why there is none.  The inventory grows by whole documents, in any      *)
(* order, and a reviewer accepts links the gate offers; the gate itself is *)
(* a function of both.                                                     *)
(*                                                                         *)
(* What patterns find in a chunk's text is a field of the chunk: document  *)
(* types, identities, reporting years, units, bases.  Its places are its   *)
(* provenance, <<page, box>>: one for a text chunk; for a table also those *)
(* of its caption and of the paragraph before it, and of every part merged *)
(* into it.  Its own places are those of the table alone.  A line of a     *)
(* table is its cells: a label, a serial mark, a note, a year, a dash or a *)
(* number, which is its digits and how many of them are decimals.          *)
(* Simplifications: a chunk belongs to one document, as the chunker makes  *)
(* it; the rules of single metrics (region, borrower name, shareholders'   *)
(* columns) are left out.  A CASE lists its guards in the order in which   *)
(* the code tests them: the first that holds decides.                      *)
(***************************************************************************)
EXTENDS Integers, FiniteSets, Sequences

CONSTANTS
  Documents,   \* documents that may be indexed: name -> sequence of chunks
  Rules,       \* metric -> rule of the policy
  Approved,    \* documents with a source approval of this application
  MaxLinks,    \* bound: reviewer links per request
  None

ASSUME GateAssumption == MaxLinks \in Nat /\ DOMAIN Documents \subseteq Nat

VARIABLES
  inventory,   \* documents in the order the index returns them
  links        \* reviewer interpretations: at most one per chunk

gateVars == <<inventory, links>>

Error(code) == [error |-> code]
Failed(r) == "error" \in DOMAIN r
Only(S) == CHOOSE x \in S : TRUE
Latest(S) == CHOOSE y \in S : \A z \in S : z <= y
Found(rows) == [rows |-> rows]

\* Rows are read one place after the other: the first error ends the reading.
Before(p, q) == p[1] < q[1] \/ (p[1] = q[1] /\ p[2] <= q[2])
Settled(outcomes) ==
  LET bad == {o \in outcomes : Failed(o[2])}
  IN IF bad # {} THEN (CHOOSE o \in bad : \A q \in bad : Before(o[1], q[1]))[2]
     ELSE Found(UNION {o[2].rows : o \in outcomes})

Members(order) == {order[i] : i \in DOMAIN order}
Chunks[d \in DOMAIN Documents] == Members(Documents[d])

Bases == {"standalone", "consolidated"}
ASSUME BasesAssumption == \A d \in DOMAIN Documents : \A c \in Chunks[d] : c.bases \subseteq Bases
ASSUME ChunksAssumption ==
  \A d \in DOMAIN Documents :
    /\ Documents[d] \in Seq(Chunks[d])
    /\ \A c \in Chunks[d] :
         /\ c.places \subseteq Nat \X Nat /\ c.own \subseteq c.places /\ c.own # {}
         /\ c.years \subseteq Nat /\ IsFiniteSet(c.years)

\* No refusal is the absent one.
ASSUME NoneAssumption ==
  None \notin {"evidence_document_type_missing", "evidence_entity_ambiguous",
               "evidence_period_ambiguous"}

Pages(c) == {p[1] : p \in c.places}

-----------------------------------------------------------------------------
(* _rows: label/value rows of a chunk with a resolvable year column *)

IsHeader(line) == "years" \in DOMAIN line

\* The column headers that apply to a line: the last header line so far.
HeadersAt(lines, n) ==
  LET before == {i \in 1..n : IsHeader(lines[i])}
  IN IF before = {} THEN <<>> ELSE lines[Latest(before)].years

\* A row of cells: its label stands alone behind marks only, and its value is
\* the only one, or the only one of the newest year.
CellRow(rule, cells, headers) ==
  LET labels == {i \in DOMAIN cells : cells[i].is = "label" /\ cells[i].of = rule.metric}
      label == Only(labels)
      values == {i \in DOMAIN cells : i > label /\ cells[i].is \in {"note", "date", "year", "number"}}
      dated == {i \in values : Cardinality(headers[i]) = 1}
      newest == Latest({Only(headers[i]) : i \in dated})
      selected == {i \in dated : Only(headers[i]) = newest}
  IN CASE \/ Cardinality(labels) # 1
          \/ \E i \in 1..(label - 1) : cells[i].is # "mark"
          \/ values # {} /\ \A i \in values : cells[i].is = "year" -> Found({})
       [] ~rule.period ->
            IF Cardinality(values) = 1 THEN Found({<<cells[Only(values)], None>>})
            ELSE Error("evidence_value_ambiguous")
       [] OTHER ->
            IF Len(headers) # Len(cells) \/ dated = {} \/ Cardinality(selected) # 1
            THEN Error("evidence_period_ambiguous")
            ELSE Found({<<cells[Only(selected)], newest>>})

\* A labelled field of running text: dated by the only year of its chunk.
FieldRow(rule, chunk, line) ==
  CASE line.of # rule.metric -> Found({})
    [] rule.period /\ Cardinality(chunk.years) # 1 -> Error("evidence_period_ambiguous")
    [] OTHER -> Found({<<line.value, IF rule.period THEN Only(chunk.years) ELSE None>>})

LineRow(rule, chunk, n) ==
  LET line == chunk.lines[n]
  IN CASE IsHeader(line) -> Found({})
       [] "cells" \in DOMAIN line -> CellRow(rule, line.cells, HeadersAt(chunk.lines, n))
       [] OTHER -> FieldRow(rule, chunk, line)

\* NIC activities of a registration table come first.
Rows(rule, chunk) ==
  CASE rule.nic /\ chunk.nic = "conflict" -> Error("evidence_conflicting_values")
    [] rule.nic /\ chunk.nic # None -> Found({<<[is |-> "note", text |-> chunk.nic], None>>})
    [] OTHER -> Settled({<<<<1, n>>, LineRow(rule, chunk, n)>> : n \in DOMAIN chunk.lines})

\* The rows of chunk i of document d for a metric.
RowsAt[m \in DOMAIN Rules] ==
  [d \in DOMAIN Documents |-> [i \in DOMAIN Documents[d] |-> Rows(Rules[m], Documents[d][i])]]

-----------------------------------------------------------------------------
(* profile and classify_sections: what a document and a page are *)

FirReport == "financial_information_report"

\* A financial information report quotes what it is compiled from.
OwnTypes(hits) ==
  IF FirReport \in hits
  THEN hits \ {"audited_financials", "registration", "agreement", "utility_bill", "no_dues"}
  ELSE hits
DocTypes[d \in DOMAIN Documents] == OwnTypes(UNION {c.types : c \in Chunks[d]})

\* An explicit owner field counts before the titles of the first page.
Identities(chunks) ==
  LET owners == UNION {c.owners : c \in chunks}
  IN IF owners # {} THEN owners ELSE UNION {c.titles : c \in {k \in chunks : 1 \in Pages(k)}}
Entity(chunks) == IF Cardinality(Identities(chunks)) = 1 THEN Only(Identities(chunks)) ELSE None
Owner[d \in DOMAIN Documents] == Entity(Chunks[d])
Ambiguous[d \in DOMAIN Documents] == Cardinality(Identities(Chunks[d])) > 1

OnPages(d, pages) == {c \in Chunks[d] : Pages(c) \cap pages # {}}

PageTypes(d, page) ==
  LET hits == UNION {c.sections : c \in OnPages(d, {page})}
  IN CASE FirReport \in hits -> hits \ {"audited_financials"}
       [] "audited_financials" \in hits -> hits \ {"financial_statement"}
       [] OTHER -> hits

Incompatible == {"pan", "aadhaar", "gst", "udyam", "incorporation", "agreement",
                 "bank_statement", "utility_bill", "no_dues"}
OnIncompatiblePage(d, c) == \E page \in Pages(c) : PageTypes(d, page) \cap Incompatible # {}

-----------------------------------------------------------------------------
(* resolve_basis: the basis of the row's own pages, or the report's           *)
(* declaration of the row's year.                                             *)

PageBases(d, pages) == UNION {c.bases : c \in OnPages(d, pages)}
AllBases(d) == UNION {c.bases : c \in Chunks[d]}
PageYears(d, pages) == UNION {c.years : c \in OnPages(d, pages)}
Declarations(d) == {c \in Chunks[d] : c.declares}

ResolveBasis(d, chunk, period) ==
  LET local == PageBases(d, Pages(chunk))
      declared == UNION {c.bases : c \in {k \in Declarations(d) :
                                            period \in PageYears(d, Pages(k))}}
  IN CASE Cardinality(local) > 1 -> Error("evidence_basis_ambiguous")
       [] Cardinality(local) = 1 -> [basis |-> Only(local), by |-> "same_page"]
       [] \/ \E c \in Declarations(d) : Cardinality(c.bases) # 1
          \/ Cardinality(AllBases(d)) > 1
          \/ Cardinality(declared) # 1 -> Error("evidence_basis_ambiguous")
       [] OTHER -> [basis |-> Only(declared), by |-> "report_declaration"]

-----------------------------------------------------------------------------
(* resolve_interpretation and resolve_reporting_scope: a reviewer's link is  *)
(* checked against the chunks at the places it cites.                        *)

Cited(link) == {c \in Chunks[link.document] : c.places \cap link.context # {}}
Anchored(chunks, group) == {c \in chunks : group \in c.anchors}

ResolveScope(link, period) ==
  LET owner == Owner[link.document]
      scope == Anchored(Chunks[link.document], "scope")
      audit == UNION {Pages(c) : c \in Anchored(Cited(link), "audit")}
  IN CASE owner = None \/ link.entity # owner -> Error("evidence_entity_ambiguous")
       [] \/ AllBases(link.document) # {}
          \/ link.basis # "standalone"
          \/ \E g \in {"audit", "scope", "statements", "preparation"} :
               Anchored(Cited(link), g) = {}
          \/ Anchored(scope, "conflict") # {} -> Error("evidence_basis_ambiguous")
       [] \/ UNION {c.years : c \in scope} # {period}
          \/ \E c \in Anchored(Cited(link), "scope") : Pages(c) \cap audit = {} ->
            Error("evidence_period_ambiguous")
       [] Entity({c \in Cited(link) : Pages(c) \cap audit # {}}) # owner ->
            Error("evidence_entity_ambiguous")
       [] OTHER -> [basis |-> link.basis, by |-> "reviewer_reporting_scope"]

\* Mutant: a context link is taken at its word.
ResolveLink_Trusting(link, chunk, period) ==
  CASE link.period # period -> Error("evidence_context_conflict")
    [] link.authority = "reporting_scope" -> ResolveScope(link, period)
    [] OTHER -> [basis |-> link.basis, by |-> "reviewer_context_link"]
ResolveLink(link, chunk, period) ==
  CASE link.period # period -> Error("evidence_context_conflict")
    [] link.authority = "reporting_scope" -> ResolveScope(link, period)
    [] \/ ~\E c \in Cited(link) : c.declares
       \/ UNION {c.bases : c \in Cited(link)} # {link.basis}
       \/ UNION {c.years : c \in Cited(link)} # {period}
       \/ PageBases(link.document, Pages(chunk)) \notin {{}, {link.basis}} ->
         Error("evidence_basis_ambiguous")
    [] OTHER -> [basis |-> link.basis, by |-> "reviewer_context_link"]

BasisOf(notes, d, chunk, period) ==
  LET linked == {k \in notes : k.document = d /\ k.target = chunk.id}
  IN IF linked = {} THEN ResolveBasis(d, chunk, period)
     ELSE ResolveLink(Only(linked), chunk, period)

-----------------------------------------------------------------------------
(* BorrowerEvidenceGate._direct: sources and the borrower's identity *)

Allowed(rule) ==
  rule.sources \cup (IF "audited_financials" \in rule.sources THEN {FirReport} ELSE {})

IsSource(rule, d) ==
  /\ DocTypes[d] \cap Allowed(rule) # {}
  /\ FirReport \in DocTypes[d] => d \in Approved
SourceDocs(rule, docs) == {d \in docs : IsSource(rule, d)}

Registrations(docs) ==
  {d \in docs : /\ "registration" \in DocTypes[d] /\ "agreement" \notin DocTypes[d]
                /\ Owner[d] # None}
Anchors(docs) ==
  IF Registrations(docs) # {} THEN Registrations(docs)
  ELSE {d \in docs :
          \/ DocTypes[d] \cap {"registration", "agreement", "audited_financials", "pan"} # {}
          \/ FirReport \in DocTypes[d] /\ d \in Approved}
Borrowers(docs) == {Owner[d] : d \in Anchors(docs)} \ {None}
SourceYears(rule, docs) == UNION {c.years : c \in UNION {Chunks[d] : d \in SourceDocs(rule, docs)}}

\* The checks before any row is read, in their order; None when all pass.
Precheck(rule, docs) ==
  CASE SourceDocs(rule, docs) = {} /\ \E d \in docs : FirReport \in DocTypes[d] ->
         "evidence_document_type_missing"
    [] (\E d \in Anchors(docs) : Ambiguous[d]) \/ Cardinality(Borrowers(docs)) # 1 ->
         "evidence_entity_ambiguous"
    [] SourceDocs(rule, docs) = {} -> "evidence_document_type_missing"
    [] rule.period /\ SourceYears(rule, docs) = {} -> "evidence_period_ambiguous"
    [] OTHER -> None

-----------------------------------------------------------------------------
(* _direct: the candidates of one chunk *)

\* An older annexure cannot veto a row of the latest reporting year.
Older(rule, row, year) == rule.period /\ row[2] # None /\ row[2] < year

UnitsOf(rule, d, c) ==
  IF rule.kind = "money" THEN UNION {k.units : k \in OnPages(d, Pages(c))} ELSE {rule.kind}

Readable(rule, cell) ==
  CASE rule.kind = "text" -> TRUE
    [] rule.kind = "date" -> cell.is = "date"
    [] rule.kind = "count" ->
         cell.is = "number" /\ cell.of >= 0 /\ cell.of % (10 ^ cell.decimals) = 0
    [] OTHER -> cell.is = "number"

\* unit_to_crore: every factor is a power of ten, and the product keeps all its
\* decimals.  Figures are compared as they are written: 500 lakh are 5.00 crore,
\* and 5 crore conflict with them.
CroreDecimals == [crore |-> 0, million |-> 1, lakh |-> 2, thousand |-> 4, rupee |-> 7]
Converted(rule, cell, unit) ==
  IF rule.kind = "money" THEN [cell EXCEPT !.decimals = @ + CroreDecimals[unit]] ELSE cell

Candidate(rule, d, c, row, basis) ==
  [value |-> Converted(rule, row[1], Only(UnitsOf(rule, d, c))), period |-> row[2],
   basis |-> basis.basis, by |-> basis.by, nic |-> rule.nic /\ c.nic # None,
   document |-> d, page |-> Only(c.own)[1]]

\* The checks of a chunk with rows left, in the order of the code.  (Of a chunk
\* with several rows the code reads the first value before it looks for the place
\* to cite: which of the last two refusals it answers is not told apart.)
Judge(rule, borrower, d, c, rows, basis) ==
  CASE rule.basis /\ OnIncompatiblePage(d, c) -> Error("evidence_document_ambiguous")
    [] Owner[d] # borrower -> Error("evidence_entity_ambiguous")
    [] rule.basis /\ Cardinality({row[2] : row \in rows}) # 1 -> Error("evidence_period_ambiguous")
    [] Failed(basis) -> basis
    [] \/ rule.kind = "percent" /\ ~c.percent
       \/ Cardinality(UnitsOf(rule, d, c)) # 1 -> Error("evidence_unit_ambiguous")
    [] \E row \in rows : ~Readable(rule, row[1]) -> Error("evidence_value_ambiguous")
    [] Cardinality(c.own) # 1 -> Error("evidence_citation_ambiguous")
    [] OTHER -> Found({Candidate(rule, d, c, row, basis) : row \in rows})

Outcome(rule, borrower, notes, d, c, rows) ==
  IF rows = {} THEN Found({})
  ELSE Judge(rule, borrower, d, c, rows,
             IF rule.basis THEN BasisOf(notes, d, c, Only({row[2] : row \in rows}))
             ELSE [basis |-> None, by |-> None])

ChunkOutcome(m, borrower, year, notes, d, i) ==
  IF Failed(RowsAt[m][d][i]) THEN RowsAt[m][d][i]
  ELSE Outcome(Rules[m], borrower, notes, d, Documents[d][i],
               {row \in RowsAt[m][d][i].rows : ~Older(Rules[m], row, year)})

-----------------------------------------------------------------------------
(* _direct: the sources in index order, the first error wins, then one figure *)

Mixed(d) == "audited_financials" \in DocTypes[d] /\ DocTypes[d] \cap {"utility_bill", "no_dues"} # {}

\* Place <<i, 0>> is document i itself, <<i, j>> its chunk j.
Places(rule, order) ==
  UNION {{<<i, j>> : j \in 0..Len(Documents[order[i]])} :
           i \in {k \in DOMAIN order : IsSource(rule, order[k])}}

SourceOutcome(d) == IF Mixed(d) THEN Error("evidence_document_ambiguous") ELSE Found({})

HasOlderRows(m, docs, year) ==
  \E d \in SourceDocs(Rules[m], docs) : \E i \in DOMAIN Documents[d] :
    \E row \in RowsAt[m][d][i].rows : Older(Rules[m], row, year)

\* Mutant: figures that disagree are not noticed.
Select_AnyFigure(m, docs, year, candidates) ==
  LET rule == Rules[m]
      latest == Latest({f.period : f \in candidates})
      chosen == IF rule.period THEN {f \in candidates : f.period = latest} ELSE candidates
  IN CASE candidates = {} -> Error("evidence_metric_missing")
       [] rule.period /\ latest # year -> Error("evidence_latest_period_missing")
       [] OTHER -> [figure |-> CHOOSE f \in chosen : \A g \in chosen :
                                 Before(<<g.document, g.page>>, <<f.document, f.page>>)]

Answer(f) == <<f.value, f.period, f.basis>>
IsLatest(year, periods) == year \in periods /\ \A y \in periods : y <= year

\* NIC descriptions outrank a generic description.
Ranked(candidates) ==
  IF \E f \in candidates : f.nic THEN {f \in candidates : f.nic} ELSE candidates
Chosen(rule, year, candidates) ==
  IF rule.period THEN {f \in Ranked(candidates) : f.period = year} ELSE Ranked(candidates)

\* The newest year must be the sources' newest, and its figures must agree.
Select(m, docs, year, candidates) ==
  LET rule == Rules[m]
      chosen == Chosen(rule, year, candidates)
  IN CASE candidates = {} /\ HasOlderRows(m, docs, year) -> Error("evidence_latest_period_missing")
       [] candidates = {} -> Error("evidence_metric_missing")
       [] rule.period /\ ~IsLatest(year, {f.period : f \in Ranked(candidates)}) ->
            Error("evidence_latest_period_missing")
       [] \E f, g \in chosen : Answer(f) # Answer(g) -> Error("evidence_conflicting_values")
       [] OTHER -> [figure |-> CHOOSE f \in chosen : \A g \in chosen :
                                 Before(<<f.document, f.page>>, <<g.document, g.page>>)]

\* Mutant: the first source with a row answers.
Direct_FirstSource(m, order, notes) ==
  LET rule == Rules[m]
      docs == Members(order)
      year == Latest(SourceYears(rule, docs))
      outcomes ==
        {<<p, ChunkOutcome(m, Only(Borrowers(docs)), year, notes, order[p[1]], p[2])>> :
           p \in {q \in Places(rule, order) : q[2] # 0}}
      found == {o \in outcomes : ~Failed(o[2]) /\ o[2].rows # {}}
      first == {o \in found : \A q \in found : o[1][1] <= q[1][1]}
  IN CASE Precheck(rule, docs) # None -> Error(Precheck(rule, docs))
       [] found = {} -> Error("evidence_metric_missing")
       [] OTHER -> Select(m, docs, year, UNION {o[2].rows : o \in first})

\* The outcome of every place of the sources, in the order of the index.
Outcomes(m, borrower, year, order, notes) ==
  {<<p, IF p[2] = 0 THEN SourceOutcome(order[p[1]])
        ELSE ChunkOutcome(m, borrower, year, notes, order[p[1]], p[2])>> :
     p \in Places(Rules[m], order)}
Answered(m, docs, year, read) ==
  IF Failed(read) THEN read ELSE Select(m, docs, year, read.rows)

\* The figure for metric m over the documents in this order and these links.
DirectOver(m, docs, order, notes, refusal, year) ==
  CASE m \notin DOMAIN Rules -> Error("metric_not_allowed")
    [] refusal # None -> Error(refusal)
    [] OTHER -> Answered(m, docs, year,
                  Settled(Outcomes(m, Only(Borrowers(docs)), year, order, notes)))
Direct(m, order, notes) ==
  DirectOver(m, Members(order), order, notes, Precheck(Rules[m], Members(order)),
             Latest(SourceYears(Rules[m], Members(order))))

-----------------------------------------------------------------------------
(* interpretation_options and reporting_scope_options: what a reviewer may   *)
(* accept (the cap of 100 options is left out).                              *)

BasisRules == {m \in DOMAIN Rules : Rules[m].basis}

\* The years a chunk has rows of, none when one of its lines cannot be read.
TargetPeriods[d \in DOMAIN Documents] ==
  [c \in Chunks[d] |->
     LET found == {Rows(Rules[m], c) : m \in BasisRules}
     IN IF \E r \in found : Failed(r) THEN {} ELSE {row[2] : row \in UNION {r.rows : r \in found}}]

Link(d, target, basis, period, context, authority, entity) ==
  [document |-> d, target |-> target, basis |-> basis, period |-> period,
   context |-> context, authority |-> authority, entity |-> entity]

\* A reviewer points a row at any place of the report, under either basis: the
\* command is only judged when the row is read.
ContextLinks[d \in DOMAIN Documents] ==
  {Link(d, t.id, basis, period, {place}, "context", None) :
     t \in {c \in Chunks[d] : TargetPeriods[d][c] # {}},
     place \in UNION {c.places : c \in Chunks[d]},
     basis \in Bases,
     period \in UNION {TargetPeriods[d][c] : c \in Chunks[d]}}

\* The bounded packet: the places of the first chunk of each anchor group, and of
\* the first page of the first one naming the owner and of the first dated one.
FirstPlaces(d, S) == UNION {Documents[d][i].places : i \in {j \in DOMAIN Documents[d] :
                    Documents[d][j] \in S /\ \A k \in 1..(j - 1) : Documents[d][k] \notin S}}
ScopePacket(d) ==
  UNION {FirstPlaces(d, Anchored(Chunks[d], g)) : g \in {"audit", "scope", "statements", "preparation"}}
  \cup FirstPlaces(d, {c \in OnPages(d, {1}) : Entity({c}) = Owner[d]})
  \cup FirstPlaces(d, {c \in OnPages(d, {1}) : c.years # {}})

ScopeLink(d, t) ==
  Link(d, t.id, "standalone", Only(TargetPeriods[d][t]), ScopePacket(d), "reporting_scope", Owner[d])
ScopeLinks[d \in DOMAIN Documents] ==
  {ScopeLink(d, t) : t \in {c \in Chunks[d] :
     /\ Cardinality(ScopePacket(d)) \in 1..8 /\ Cardinality(c.own) = 1
     /\ Cardinality(TargetPeriods[d][c]) = 1 /\ None \notin TargetPeriods[d][c]
     /\ ~Failed(ResolveLink(ScopeLink(d, c), c, Only(TargetPeriods[d][c])))}}

-----------------------------------------------------------------------------
Indexed == Members(inventory)

GateInit == inventory = <<>> /\ links = {}

\* Ingestion adds a whole document to the scope the gate reads.
IndexDocument(d) ==
  /\ d \notin Indexed
  /\ inventory' = Append(inventory, d)
  /\ UNCHANGED links

\* A deleted document leaves the scope, and with it what was linked in it.
DropDocument(d) ==
  /\ \E i \in DOMAIN inventory :
       /\ inventory[i] = d
       /\ inventory' = SubSeq(inventory, 1, i - 1) \o SubSeq(inventory, i + 1, Len(inventory))
  /\ links' = {k \in links : k.document # d}

\* One interpretation per target, or the gate refuses the whole request.
AcceptLink(link) ==
  /\ Cardinality(links) < MaxLinks
  /\ \A k \in links : k.document # link.document \/ k.target # link.target
  /\ links' = links \cup {link}
  /\ UNCHANGED inventory

GateNext ==
  \/ \E d \in DOMAIN Documents : IndexDocument(d) \/ DropDocument(d)
  \/ \E d \in DOMAIN Documents : \E link \in ContextLinks[d] \cup ScopeLinks[d] :
       d \in Indexed /\ AcceptLink(link)

GateSpec == GateInit /\ [][GateNext]_gateVars

-----------------------------------------------------------------------------
HasFigure(answer) == ~Failed(answer)

\* Type invariant: what is indexed is a document, at most once, and there is at
\* most one link per target chunk.
GateTypeOK ==
  /\ \A i \in DOMAIN inventory : inventory[i] \in DOMAIN Documents
  /\ \A i, j \in DOMAIN inventory : inventory[i] = inventory[j] => i = j
  /\ \A k, m \in links : k.document = m.document /\ k.target = m.target => k = m

\* A reviewer's link may settle a basis the gate could not, but never one it could:
\* wherever resolve_basis has an answer, resolve_interpretation gives the same one
\* or refuses the link.
LinksAgreeWithDeclarations ==
  \A k \in links : \A c \in Chunks[k.document] : c.id = k.target =>
    LET own == ResolveBasis(k.document, c, k.period)
        linked == ResolveLink(k, c, k.period)
    IN Failed(own) \/ Failed(linked) \/ own.basis = linked.basis

\* A link settles what was open and rewrites nothing: where a metric had a figure
\* without the reviewer's links it keeps its value, period and basis with
\* them, or there is an abstention.
Keeps(old, new) ==
  HasFigure(old) /\ HasFigure(new) => Answer(new.figure) = Answer(old.figure)
LinksNeverRewrite ==
  \A m \in DOMAIN Rules : links # {} =>
    Keeps(Direct(m, inventory, {}), Direct(m, inventory, links))

\* One more document never silently replaces a supported figure: the answer stays,
\* becomes an abstention, or moves to a later reporting year; only the official
\* activity codes replace a description given without them.
Succeeds(rule, old, new) ==
  HasFigure(old) /\ HasFigure(new) =>
    \/ Answer(new.figure) = Answer(old.figure)
    \/ rule.period /\ new.figure.period > old.figure.period
    \/ new.figure.nic /\ ~old.figure.nic
NoSilentSwap ==
  \A m \in DOMAIN Rules : inventory # <<>> =>
    Succeeds(Rules[m], Direct(m, SubSeq(inventory, 1, Len(inventory) - 1), links),
             Direct(m, inventory, links))

\* The order in which the index returns the documents decides neither whether a
\* metric is supported nor which figure, page and document answer it; of several
\* reasons to refuse, it does decide which one is given.
Swapped(i) == [inventory EXCEPT ![i] = inventory[i + 1], ![i + 1] = inventory[i]]
WithFigure(answers) == {a \in answers : HasFigure(a)}
OrderDoesNotMatter ==
  \A m \in DOMAIN Rules : \A i \in 1..(Len(inventory) - 1) :
    WithFigure({Direct(m, Swapped(i), links)}) = WithFigure({Direct(m, inventory, links)})
=============================================================================
