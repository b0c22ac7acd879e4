------------------------- MODULE MCActivityRegistry -------------------------
EXTENDS ActivityRegistry

CONSTANTS i1, i2, i3, h1, h2, h3, h4, x, y

\* The fourth request retries the batch_id of the first.
MCIdOf == [h \in Handlers |->
  CASE h \in {h1, h4} -> i1 [] h = h2 -> i2 [] OTHER -> i3]

\* ... for another application, and the third names none.
MCAppOf == [h \in Handlers |->
  CASE h \in {h1, h2} -> x [] h = h4 -> y [] OTHER -> Absent]
=============================================================================
