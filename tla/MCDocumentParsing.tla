------------------------- MODULE MCDocumentParsing -------------------------
(* The three shipped profiles over small PDFs: a page is digital, scanned or  *)
(* hybrid; a table spans rows of its page, has a caption, lacks one, is       *)
(* continued on the next page, or lies where ruled lines show another one.    *)
EXTENDS DocumentParsing

Prose(length, blanks, paragraphs) == [length |-> length, blanks |-> blanks, paragraphs |-> paragraphs]
At(kind, top, bottom) ==
  [kind |-> kind, top |-> top, bottom |-> bottom, recovered |-> FALSE, continued |-> FALSE,
   size |-> 1, text |-> Prose(2, {}, {})]
Says(item, prose) == [item EXCEPT !.text = prose]
Continued(item) == [item EXCEPT !.continued = TRUE]
Recovered(item) == [item EXCEPT !.recovered = TRUE]
Sized(item, size) == [item EXCEPT !.size = size]

Page(characters, coverage, items) ==
  [characters |-> characters, coverage |-> coverage, finder |-> "works", items |-> items]
Digital(items) == Page(500, 100, items)
Scanned(items) == Page(0, 90, items)
Hybrid(items) == Page(100, 30, items)
NoFinder(page) == [page EXCEPT !.finder = "fails"]

Paragraph == At("paragraph", 1, 2)
Caption == At("caption", 2, 3)
Table == At("table", 3, 5)

MCFiles ==
  {\* a captioned table that is continued on the next page, and an unrelated one
   <<Digital(<<Paragraph, Caption, Table>>), Digital(<<Continued(Caption), Table>>),
     Digital(<<At("caption", 1, 2), At("table", 2, 4)>>)>>,
   \* two captioned tables on one page
   <<Digital(<<At("caption", 1, 2), At("table", 2, 4), At("caption", 4, 5), At("table", 5, 7)>>)>>,
   \* two tables around one caption, and a picture
   <<Digital(<<Table, Continued(At("caption", 5, 6)), At("table", 6, 8), At("image", 8, 9)>>)>>,
   \* text within a table, and ruled lines that show another table than the finder
   <<Digital(<<At("heading", 1, 2), Recovered(Table), At("table", 4, 7), At("paragraph", 3, 4)>>)>>,
   \* a table the finder cannot inspect, beside a hybrid page
   <<NoFinder(Digital(<<Caption, Table>>)), Hybrid(<<Paragraph>>)>>,
   \* scanned and hybrid pages, one of them without anything printed
   <<Scanned(<<Paragraph, Caption, Table>>), Hybrid(<<>>)>>,
   <<Scanned(<<Paragraph>>), Digital(<<Paragraph>>)>>,
   \* tables over the limit, one of them only when its parts are joined
   <<Digital(<<Sized(Table, 4)>>)>>,
   <<Digital(<<Caption, Sized(Table, 2)>>), Digital(<<Continued(Caption), Sized(Table, 2)>>)>>,
   \* too many pages
   <<Digital(<<>>), Digital(<<>>), Digital(<<>>), Digital(<<>>)>>}
  \cup \* texts of seven characters with blanks and empty lines anywhere
  {<<Digital(<<Says(Paragraph, Prose(7, S, P))>>)>> : S \in SUBSET (1..5), P \in {{}, {1}, {3}}}

MCTexts == {Prose(2, {}, {})}

MCProfiles ==
  {[docling |-> TRUE, failOnVision |-> TRUE, vision |-> TRUE, limited |-> FALSE],
   [docling |-> TRUE, failOnVision |-> TRUE, vision |-> FALSE, limited |-> TRUE],
   [docling |-> FALSE, failOnVision |-> FALSE, vision |-> FALSE, limited |-> FALSE]}
=============================================================================
