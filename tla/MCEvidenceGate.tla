--------------------------- MODULE MCEvidenceGate ---------------------------
(* Three metrics over seven documents of two companies and three years.      *)
EXTENDS EvidenceGate, TLC

Amount(digits, decimals) == [is |-> "number", of |-> digits, decimals |-> decimals]
Whole(n) == Amount(n, 0)
Label(metric) == [is |-> "label", of |-> metric]
Mark == [is |-> "mark"]
Dash == [is |-> "dash"]
Note(text) == [is |-> "note", text |-> text]
Year == [is |-> "year"]
Header(years) == [years |-> years]
Cells(cells) == [cells |-> cells]
Field(metric, value) == [of |-> metric, value |-> value]

\* A chunk has nothing in it but what is named, and one place.
Empty ==
  [types |-> {}, owners |-> {}, titles |-> {}, years |-> {}, units |-> {}, bases |-> {},
   declares |-> FALSE, sections |-> {}, anchors |-> {}, nic |-> None, lines |-> <<>>,
   percent |-> FALSE]
Filled(docs) == [d \in DOMAIN docs |-> [i \in DOMAIN docs[d] |-> docs[d][i] @@ Empty]]
At(id, page) == [id |-> id, places |-> {<<page, id>>}, own |-> {<<page, id>>}]

\* A table after a paragraph at this place.
After(place, table) == [table EXCEPT !.places = @ \cup {place}]

\* A table and its continuation at this place, merged into one chunk.
Merged(table, place) == [table EXCEPT !.places = @ \cup {place}, !.own = @ \cup {place}]

Table(id, page, year, value) ==
  [years |-> {year}, units |-> {"lakh"}, lines |->
     <<Header(<<{}, {year}, {year - 1}>>), Cells(<<Label("revenue"), Whole(value), Whole(7)>>)>>]
  @@ At(id, page)

\* The audit opinion of a report without an explicit basis.
Opinion(id, owner, year) ==
  [types |-> {"audited_financials"}, titles |-> {owner}, years |-> {year},
   sections |-> {"audited_financials"}, anchors |-> {"audit", "scope", "statements", "preparation"}]
  @@ At(id, 1)

Declaration(id, page, basis, year) ==
  [bases |-> {basis}, declares |-> TRUE, years |-> {year}] @@ At(id, page)

Udyam(id, owner, nic) ==
  [types |-> {"registration"}, owners |-> {owner}, sections |-> {"udyam"}, nic |-> nic,
   lines |-> <<Field("sector", Note("manufacturing"))>>] @@ At(id, 1)

Headcount(id, page, n) ==
  [lines |-> <<Cells(<<Mark, Label("employees"), Dash, Whole(n)>>)>>] @@ At(id, page)

InCrores(table, amount) ==
  [table EXCEPT !.units = {"crore"},
                !.lines = <<@[1], Cells(<<Label("revenue"), amount, Whole(7)>>)>>]

MCDocuments == Filled(
  <<\* 1: the registration of company A, its headcount in a table of two merged parts
    <<Udyam(11, "A", None), Merged(Headcount(12, 2, 3), <<3, 12>>)>>,
    \* 2: its audited report of year 2, standalone declared on a page of its own
    <<Opinion(21, "A", 2), Declaration(22, 2, "standalone", 2), Table(23, 3, 2, 500)>>,
    \* 3: its report of year 2 in crores that states no basis, the scope a reviewer may
    \* attest, the table following a paragraph of the page before
    <<Opinion(31, "A", 2), At(32, 1),
      After(<<1, 32>>, InCrores(Table(33, 2, 2, 0), Amount(500, 2)))>>,
    \* 4: a mixed report of year 2: both bases declared, the same amount as 2 and 3 in
    \* figures that do not equal theirs
    <<Opinion(41, "A", 2), Declaration(42, 2, "standalone", 2), Declaration(43, 3, "consolidated", 2),
      InCrores(Table(44, 4, 2, 0), Whole(5))>>,
    \* 5: its report of year 1, with the activity named once more
    <<[lines |-> <<Field("sector", Note("trading"))>>,
       types |-> {"audited_financials", "registration"}] @@ Opinion(51, "A", 1),
      [bases |-> {"standalone"}] @@ Table(52, 2, 1, 4)>>,
    \* 6: company B's report of year 3, its table also carrying the declaration before it
    <<Opinion(61, "B", 3), Declaration(62, 2, "consolidated", 3),
      [bases |-> {"consolidated"}, declares |-> TRUE] @@ After(<<2, 62>>, Table(63, 3, 3, 8))>>,
    \* 7: a registration with activity codes bound with the first page of an audit of
    \* year 2, and a headcount
    <<[years |-> {2}, types |-> {"registration", "audited_financials"}] @@ Udyam(71, "A", "codes"),
      Headcount(72, 2, 3)>>>>)

MCRules ==
  [revenue   |-> [metric |-> "revenue", sources |-> {"audited_financials"}, kind |-> "money",
                  period |-> TRUE, basis |-> TRUE, nic |-> FALSE],
   sector    |-> [metric |-> "sector", sources |-> {"registration"}, kind |-> "text",
                  period |-> FALSE, basis |-> FALSE, nic |-> TRUE],
   employees |-> [metric |-> "employees", sources |-> {"registration"}, kind |-> "count",
                  period |-> FALSE, basis |-> FALSE, nic |-> FALSE]]

BoundedDocuments == Len(inventory) <= 3
=============================================================================
