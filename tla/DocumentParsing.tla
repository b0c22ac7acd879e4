--------------------------- MODULE DocumentParsing ---------------------------
(***************************************************************************)
(* From a PDF to its chunks: routing of the pages (ingest/router.py),      *)
(* DocumentParser.parse with Docling, the digital fast path and the vision *)
(* fallback (ingest/docling_parser.py, vlm_fallback.py, ruled_tables.py),  *)
(* and the loop of LayoutAwareChunker.chunk (ingest/chunker.py), whose     *)
(* splitting of a text is TextSplitting.                                   *)
(*                                                                         *)
(* A page is what is printed on it: items in reading order, each with the  *)
(* rows it spans, and how much of it is a text layer or an image.  Which   *)
(* items a reader recognises is its choice; boxes, markdown and line       *)
(* restoration are left out.  Time is counted in ticks of a deadline.      *)
(***************************************************************************)
EXTENDS TextSplitting, FiniteSets

CONSTANTS
  Files,          \* PDFs: sequences of pages
  MaxPages,       \* the policy's page limit
  Timeout,        \* the policy's parse_timeout_seconds, in ticks
  Profiles,       \* ingestion profiles: docling, failOnVision, vision, limited
  MaxTable        \* max_table_characters

ASSUME ParsingAssumption == MaxPages \in Nat \ {0} /\ Timeout \in Nat \ {0} /\ MaxTable \in Nat
ASSUME FilesAssumption ==
  \A f \in Files : f \in Seq({f[n] : n \in DOMAIN f}) /\ \A n \in DOMAIN f :
    LET items == f[n].items
    IN /\ items \in Seq({items[i] : i \in DOMAIN items})
       /\ \A i \in DOMAIN items :
            items[i].kind \in {"paragraph", "heading"} => items[i].text \in SomeText

VARIABLES
  profile,    \* the profile of this process
  step,       \* where the call stands
  file,       \* the PDF being parsed
  clock,      \* ticks since the deadline was set
  blocks,     \* the items found on each of the pages parsed so far
  reader,     \* parser_name: "docling" or "pages"
  rendered,   \* pages shown to the vision model
  cut,        \* Docling stopped at its own timeout
  next,       \* the block the chunker takes next
  chunks, lastTable

parseVars == <<profile, step, file, clock, blocks, reader, rendered, cut, next, chunks, lastTable>>
chunkVars == <<next, chunks, lastTable>>

-----------------------------------------------------------------------------
(* PageRouter *)

MinDigital == 40
StrongDigital == 400
ScannedCoverage == 70
HybridCoverage == 20

Classify(characters, coverage) ==
  CASE characters >= StrongDigital -> "digital"
    [] characters < MinDigital /\ coverage >= ScannedCoverage -> "scanned"
    [] characters >= MinDigital /\ coverage >= HybridCoverage -> "hybrid"
    [] OTHER -> "digital"
Route(page) == Classify(page.characters, page.coverage)

-----------------------------------------------------------------------------
(* What each reader makes of a page *)

Pages == DOMAIN file
Item(n, i) == file[n].items[i]
Block(n, i) == [page |-> n, item |-> i]
Kind(b) == Item(b.page, b.item).kind

Touch(a, b) == a.top < b.bottom /\ b.top < a.bottom

\* _parse_digital_page: tables recovered from ruled lines replace what the finder
\* detected there, and text inside a table is the table's.
TablesOn(n) ==
  LET tables == {i \in DOMAIN file[n].items : Item(n, i).kind = "table"}
      recovered == {i \in tables : Item(n, i).recovered}
  IN {i \in tables : i \in recovered \/ ~\E r \in recovered : Touch(Item(n, i), Item(n, r))}
LayerBlocks(n) ==
  TablesOn(n) \cup
    {i \in DOMAIN file[n].items : /\ Item(n, i).kind \notin {"table", "image"}
                                  /\ ~\E t \in TablesOn(n) : Touch(Item(n, i), Item(n, t))}

AllBlocks(n) == DOMAIN file[n].items

-----------------------------------------------------------------------------
(* DocumentParser.parse *)

Late(t) == profile.limited /\ t >= Timeout

\* The page limit, the routes, and the deadline once they are known.
Begin(f, ticks) ==
  /\ step = "idle"
  /\ file' = f /\ clock' = ticks
  /\ step' = CASE (profile.limited /\ Len(f) > MaxPages) \/ Late(ticks) -> "failed"
               [] profile.docling /\ \E n \in DOMAIN f : Route(f[n]) # "digital" -> "docling"
               [] OTHER -> "pages"
  /\ blocks' = <<>> /\ reader' = "pages" /\ rendered' = {} /\ cut' = FALSE
  /\ next' = 1 /\ chunks' = <<>> /\ lastTable' = 0
  /\ UNCHANGED <<profile, splitVars>>

\* Docling is not installed, or its result has another shape.
NoDocling ==
  /\ step = "docling"
  /\ step' = "pages"
  /\ UNCHANGED <<profile, file, clock, blocks, reader, rendered, cut, chunkVars, splitVars>>

\* Docling is missing its CUDA device, or any other error that is not caught.
DoclingFails ==
  /\ step = "docling"
  /\ step' = "failed"
  /\ UNCHANGED <<profile, file, clock, blocks, reader, rendered, cut, chunkVars, splitVars>>

\* Mutant: Docling gets a shorter budget than the deadline.
DoclingBudget_Shorter == Timeout - 1
DoclingBudget == Timeout

\* Docling recognises blocks on some pages, in the time they need or until its own
\* timeout, which counts from here; a document without any block is no result.
Docling(recognised, ticks) ==
  /\ step = "docling"
  /\ recognised \subseteq Pages
  /\ LET needed == ticks
         truncated == profile.limited /\ needed > DoclingBudget
     IN /\ truncated => recognised # Pages
        /\ clock' = clock + IF truncated THEN DoclingBudget ELSE ticks
        /\ IF \A n \in recognised : file[n].items = <<>>
           THEN /\ step' = "pages"
                /\ UNCHANGED <<blocks, reader, cut>>
           ELSE /\ step' = IF Late(clock') THEN "failed" ELSE "chunking"
                /\ blocks' = [n \in Pages |-> IF n \in recognised THEN AllBlocks(n) ELSE {}]
                /\ reader' = "docling"
                /\ cut' = truncated
  /\ UNCHANGED <<profile, file, rendered, chunkVars, splitVars>>

\* The fallback reads page after page, each after a look at the clock.
Reading(n) == step = "pages" /\ n = Len(blocks) + 1 /\ n \in Pages
AddPage(found, ticks) ==
  /\ blocks' = Append(blocks, found)
  /\ clock' = clock + ticks
  /\ UNCHANGED step

\* The table finder may not be able to inspect a digital page.
NeedsVision(n) == Route(file[n]) # "digital" \/ file[n].finder = "fails"

ReadLayer(n, ticks) ==
  /\ Reading(n) /\ ~Late(clock)
  /\ ~NeedsVision(n)
  /\ AddPage(LayerBlocks(n), ticks)
  /\ UNCHANGED <<profile, file, reader, rendered, cut, chunkVars, splitVars>>

\* The page is rendered for the vision model, which answers with blocks.
ReadVision(n, ticks) ==
  /\ Reading(n) /\ ~Late(clock)
  /\ NeedsVision(n) /\ profile.vision
  /\ rendered' = rendered \cup {n}
  /\ \E S \in SUBSET DOMAIN file[n].items : AddPage(S, ticks)
  /\ UNCHANGED <<profile, file, reader, cut, chunkVars, splitVars>>

\* Mutant: a page that vision cannot read is left empty.
VisionFails_Empty(n) ==
  /\ Reading(n) /\ ~Late(clock)
  /\ NeedsVision(n)
  /\ AddPage({}, 0)
  /\ UNCHANGED <<profile, file, reader, rendered, cut, chunkVars, splitVars>>
\* Vision is disabled or its endpoint fails: the profile decides whether the page
\* may stay empty.  An answer that is no valid list of blocks always fails.
VisionFails(n) ==
  /\ Reading(n) /\ ~Late(clock)
  /\ NeedsVision(n)
  /\ \/ /\ profile.failOnVision \/ profile.vision
        /\ step' = "failed"
        /\ UNCHANGED <<blocks, clock>>
     \/ ~profile.failOnVision /\ AddPage({}, 0)
  /\ UNCHANGED <<profile, file, reader, rendered, cut, chunkVars, splitVars>>

DeadlinePasses(n) ==
  /\ Reading(n) /\ Late(clock)
  /\ step' = "failed"
  /\ UNCHANGED <<profile, file, clock, blocks, reader, rendered, cut, chunkVars, splitVars>>

EndParse ==
  /\ step = "pages" /\ Len(blocks) = Len(file)
  /\ step' = "chunking"
  /\ UNCHANGED <<profile, file, clock, blocks, reader, rendered, cut, chunkVars, splitVars>>

-----------------------------------------------------------------------------
(* LayoutAwareChunker.chunk *)

\* All blocks in reading order: page after page, and on a page item after item.
Found == UNION {{Block(n, i) : i \in blocks[n]} : n \in DOMAIN blocks}
Precedes(a, b) == a.page < b.page \/ (a.page = b.page /\ a.item < b.item)
Earlier(b) == {a \in Found : Precedes(a, b)}
Flow == [k \in 1..Cardinality(Found) |-> CHOOSE b \in Found : Cardinality(Earlier(b)) = k - 1]
Here == Flow[next]
Data(b) == Item(b.page, b.item)

\* _adjacent: a caption right before the table, or else right after it.
CaptionAt(i, j) ==
  /\ j \in DOMAIN Flow /\ Kind(Flow[j]) = "caption" /\ Flow[j].page = Flow[i].page
\* Mutant: the caption below is looked at first.
CaptionOf_Below(i) ==
  IF CaptionAt(i, i + 1) THEN i + 1 ELSE IF CaptionAt(i, i - 1) THEN i - 1 ELSE 0
CaptionOf(i) == IF CaptionAt(i, i - 1) THEN i - 1 ELSE IF CaptionAt(i, i + 1) THEN i + 1 ELSE 0

\* _preceding_paragraph: what stands before the table and its caption, at most one
\* page back.
ContextOf(i) ==
  LET j == IF CaptionOf(i) = i - 1 /\ i > 1 THEN i - 2 ELSE i - 1
  IN IF /\ j >= 1 /\ Kind(Flow[j]) \in {"paragraph", "heading"}
        /\ Flow[i].page - Flow[j].page <= 1
     THEN j ELSE 0

TableChunk(i) ==
  [kind |-> "table", parts |-> <<Flow[i]>>, context |-> ContextOf(i), size |-> Data(Flow[i]).size,
   captions |-> IF CaptionOf(i) = 0 THEN <<>> ELSE <<Flow[CaptionOf(i)]>>]
TextChunk(b) == [kind |-> "text", parts |-> <<b>>, pieces |-> pieces]

IsContinuation(chunk) == chunk.captions # <<>> /\ Data(chunk.captions[1]).continued

\* Mutant: the continuation replaces the table it continues.
Merged_Overwrites(first, continuation) ==
  [first EXCEPT !.parts = continuation.parts, !.captions = @ \o continuation.captions,
                !.size = continuation.size]
\* _merge_table_parts
Merged(first, continuation) ==
  [first EXCEPT !.parts = @ \o continuation.parts, !.captions = @ \o continuation.captions,
                !.size = @ + continuation.size]

\* A table is a chunk of its own or continues the last one; too large, the whole
\* document is refused.
ChunkTable ==
  LET chunk == TableChunk(next)
      merged == Merged(chunks[lastTable], chunk)
      merges == IsContinuation(chunk) /\ lastTable # 0
  IN /\ step = "chunking" /\ next <= Len(Flow) /\ Kind(Here) = "table"
     /\ IF chunk.size > MaxTable \/ (merges /\ merged.size > MaxTable)
        THEN step' = "failed" /\ UNCHANGED chunkVars
        ELSE /\ next' = next + 1
             /\ chunks' = IF merges THEN [chunks EXCEPT ![lastTable] = merged]
                          ELSE Append(chunks, chunk)
             /\ lastTable' = IF merges THEN lastTable ELSE Len(chunks) + 1
             /\ UNCHANGED step
     /\ UNCHANGED <<profile, file, clock, blocks, reader, rendered, cut, splitVars>>

\* Captions and images are no chunks of their own.
SkipBlock ==
  /\ step = "chunking" /\ next <= Len(Flow) /\ Kind(Here) \in {"caption", "image"}
  /\ next' = next + 1
  /\ UNCHANGED <<profile, step, file, clock, blocks, reader, rendered, cut, chunks, lastTable, splitVars>>

BeginText ==
  /\ step = "chunking" /\ next <= Len(Flow) /\ Kind(Here) \in {"paragraph", "heading"}
  /\ BeginSplit(Data(Here).text)
  /\ step' = "splitting"
  /\ UNCHANGED <<profile, file, clock, blocks, reader, rendered, cut, chunkVars>>

SplitText ==
  /\ step = "splitting"
  /\ SplitStep
  /\ UNCHANGED parseVars

EndText ==
  /\ step = "splitting" /\ IsSplit
  /\ chunks' = Append(chunks, TextChunk(Here))
  /\ next' = next + 1
  /\ step' = "chunking"
  /\ UNCHANGED <<profile, file, clock, blocks, reader, rendered, cut, lastTable, splitVars>>

EndChunking ==
  /\ step = "chunking" /\ next > Len(Flow)
  /\ step' = "done"
  /\ UNCHANGED <<profile, file, clock, blocks, reader, rendered, cut, chunkVars, splitVars>>

-----------------------------------------------------------------------------
ParseInit ==
  /\ profile \in Profiles
  /\ step = "idle" /\ file = <<>> /\ clock = 0 /\ blocks = <<>> /\ reader = "pages"
  /\ rendered = {} /\ cut = FALSE /\ next = 1 /\ chunks = <<>> /\ lastTable = 0
  /\ SplitInit

Ticks == 0..(Timeout + 1)

ParseStep ==
  \/ NoDocling \/ DoclingFails
  \/ \E recognised \in SUBSET Pages, ticks \in Ticks : Docling(recognised, ticks)
  \/ \E n \in Pages, ticks \in 0..1 : ReadLayer(n, ticks) \/ ReadVision(n, ticks)
  \/ \E n \in Pages : VisionFails(n) \/ DeadlinePasses(n)
  \/ EndParse
  \/ ChunkTable \/ SkipBlock \/ BeginText \/ SplitText \/ EndText \/ EndChunking

ParseNext == (\E f \in Files, ticks \in 0..1 : Begin(f, ticks)) \/ ParseStep

ParseSpec == ParseInit /\ [][ParseNext]_<<parseVars, splitVars>>

-----------------------------------------------------------------------------
(* Properties *)

Parsed == step \in {"chunking", "splitting", "done"}

\* A document that Docling gave up on at its own timeout is never taken for a whole
\* one: by then the deadline of the call has passed too.
TruncatedIsNeverUsed == Parsed => ~cut

\* A page that needed a reader and got none fails the document when the profile asks
\* for it: on the fallback path every such page is shown to the vision model, which may
\* still find nothing on it.
FallbackReadsEveryPage ==
  (Parsed /\ reader = "pages" /\ profile.failOnVision) =>
    \A n \in Pages : NeedsVision(n) => n \in rendered

\* A page for which no grounded blocks were produced is rendered for the vision model,
\* never silently taken as it is.
UnreadPagesAreRendered ==
  (Parsed /\ profile.failOnVision) =>
    \A n \in Pages : file[n].items # <<>> /\ NeedsVision(n) /\ blocks[n] = {} => n \in rendered

\* Nothing that was read is lost or cut into two places of the index, and no table is
\* split: every text and table block is part of exactly one chunk, and a chunk's parts
\* keep their order.  The paragraph before a table is also quoted in the table's text;
\* as that table's context it is no part of the chunk.
Evidence == {i \in DOMAIN Flow : Kind(Flow[i]) \notin {"caption", "image"}}
EvidenceIsKeptOnce ==
  step = "done" =>
    LET places == UNION {{<<c, k>> : k \in DOMAIN chunks[c].parts} : c \in DOMAIN chunks}
    IN /\ \A i \in Evidence : Cardinality({p \in places : chunks[p[1]].parts[p[2]] = Flow[i]}) = 1
       /\ \A c \in DOMAIN chunks : \A k \in 1..(Len(chunks[c].parts) - 1) :
            \E i, j \in Evidence : /\ i < j /\ Flow[i] = chunks[c].parts[k]
                                   /\ Flow[j] = chunks[c].parts[k + 1]

\* Where every table has its caption right above it, each part of a chunk goes with
\* its own caption, and only neighbouring tables are joined, the later one being
\* called a continuation.
Tables == {i \in DOMAIN Flow : Kind(Flow[i]) = "table"}
Captioned == \A i \in Tables : CaptionAt(i, i - 1)
PlaceOf(b) == CHOOSE i \in DOMAIN Flow : Flow[i] = b
CaptionsGoWithTheirTables ==
  step = "done" /\ Captioned =>
    \A chunk \in {chunks[c] : c \in DOMAIN chunks} : chunk.kind = "table" =>
      \A k \in DOMAIN chunk.parts :
        LET i == PlaceOf(chunk.parts[k])
        IN /\ chunk.captions[k] = Flow[i - 1]
           /\ k > 1 => /\ Data(Flow[i - 1]).continued
                       /\ \A j \in Tables : j < i => j <= PlaceOf(chunk.parts[k - 1])
=============================================================================
