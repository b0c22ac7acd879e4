----------------------------- MODULE MCQueryPath -----------------------------
(* Two documents, one of them re-ingested with other figures; a model that   *)
(* returns right, misplaced and invented figures.                            *)
EXTENDS QueryPath

Text(numbers, words) == [numbers |-> numbers, words |-> words]
Chunk(document, boxes, text) == [document |-> document, page |-> 1, boxes |-> boxes, text |-> text]
Place(document, box, exact) == [document |-> document, page |-> 1, box |-> box, exact |-> exact]
Figure(label, value, citation) == [label |-> label, value |-> value, citation |-> citation]

Crore(n) == <<n, 100>>
Plain(n) == <<n, 1>>

Revenue == Chunk("report", {1}, Text({Crore(5)}, {"revenue"}))
Profit == Chunk("report", {2, 3}, Text({Plain(7)}, {"profit", "audited"}))
Restated == Chunk("report", {1}, Text({Crore(6)}, {"revenue"}))
Rent == Chunk("lease", {1}, Text({Plain(5)}, {"rent"}))

MCVersions == [report |-> {{Revenue, Profit}, {Restated}}, lease |-> {{Rent}}]
MCQuestions == [sales |-> {"revenue"}, status |-> {"report"}]
MCScopes == {{}, {"report"}}
MCRelevance == [q \in DOMAIN MCQuestions |-> <<Profit, Revenue, Restated, Rent>>]
MCReranked == [q \in DOMAIN MCQuestions |-> <<Revenue, Rent, Profit, Restated>>]

MCFigures ==
  {Figure(Text({}, {"revenue"}), Text({Crore(5)}, {}), None),
   Figure(Text({}, {"revenue"}), Text({Plain(5)}, {}), Place("lease", 9, FALSE)),
   Figure(Text({}, {"revenue"}), Text({Crore(6)}, {}), Place("report", 1, TRUE)),
   Figure(Text({Plain(2030)}, {"forecast"}), Text({Plain(7)}, {}), Place("report", 3, FALSE)),
   Figure(Text({}, {}), Text({}, {"audited"}), Place("report", 2, TRUE)),
   Figure(Text({}, {"revenue"}), Text({Plain(9)}, {}), Place("report", 1, TRUE))}
MCSelections ==
  {[text |-> Text({Crore(5)}, {"revenue"}), ids |-> {1}],
   [text |-> Text({Plain(7), Plain(2030)}, {"forecast"}), ids |-> {1, 2}],
   [text |-> Text({}, {"audited"}), ids |-> {1}],
   [text |-> Text({}, {"fraud"}), ids |-> {1}]}
MCReplies ==
  {[text |-> Text({Crore(5)}, {"revenue"}), citations |-> {Place("report", 1, TRUE)}],
   [text |-> Text({Plain(7)}, {"profit"}), citations |-> {Place("report", 2, TRUE), Place("report", 1, TRUE)}],
   [text |-> Text({Plain(7)}, {}), citations |-> {Place("report", 1, TRUE)}],
   [text |-> Text({Plain(5)}, {"rent"}), citations |-> {Place("lease", 1, TRUE)}],
   [text |-> Text({Plain(5)}, {}), citations |-> {Place("lease", 1, FALSE)}]}
=============================================================================
