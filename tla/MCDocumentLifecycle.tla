------------------------ MODULE MCDocumentLifecycle ------------------------
(* Small instances of DocumentLifecycle.  Two documents whose chunks          *)
(* interleave in scroll order: d1 has chunks 1 and 3, d2 has chunk 2.         *)
EXTENDS DocumentLifecycle, TLC

CONSTANTS d1, d2

MCChunks == 1..3
MCChunkDoc == <<d1, d2, d1>>
OneOrTwo == {<<d1>>, <<d2, d1>>}
Single == {<<d1>>}

\* Applications are interchangeable, and so are deletions.  For safety runs only.
Symmetry == Permutations(Apps) \cup Permutations(Deletions)
=============================================================================
