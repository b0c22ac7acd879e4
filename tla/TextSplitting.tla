---------------------------- MODULE TextSplitting ----------------------------
(***************************************************************************)
(* The loop of LayoutAwareChunker._split_text (ingest/chunker.py): a long  *)
(* text is cut at a blank into overlapping pieces.  A text is its length   *)
(* and the positions of its blanks and of its empty lines; a piece is the  *)
(* half-open interval of positions before stripping.  The search for ". "  *)
(* is left out: its blank is always found too, one position further.       *)
(***************************************************************************)
EXTENDS Integers, Sequences

CONSTANTS
  Maximum,   \* max_text_characters: 1800 in the code
  Overlap,   \* overlap_characters: 180 in the code
  Texts      \* texts that are split

SomeText == [length : Nat \ {0}, blanks : SUBSET Nat, paragraphs : SUBSET Nat]

ASSUME LimitAssumption == Maximum \in Nat \ {0} /\ Overlap \in 0..(Maximum - 1)
ASSUME TextAssumption == Texts \subseteq SomeText

VARIABLES
  text,     \* the text being split
  start,    \* where the next piece starts; the text's length when it is split
  pieces    \* the pieces so far

splitVars == <<text, start, pieces>>

\* The last blank or empty line found whole between start and upper, or upper.
Breaks(t, from, upper) ==
  {p \in t.blanks : from < p /\ p < upper} \cup {p \in t.paragraphs : from < p /\ p + 1 < upper}
Upper(t, from) == IF from + Maximum < t.length THEN from + Maximum ELSE t.length
CutsAt(t, from, end) ==
  LET upper == Upper(t, from)
      viable == Breaks(t, from, upper)
  IN IF upper < t.length /\ viable # {}
     THEN end \in viable /\ \A p \in viable : p <= end
     ELSE end = upper

\* Mutant: the overlap is taken without looking whether it makes progress.
NextStart_Stuck(from, end) == IF end - Overlap < 0 THEN 0 ELSE end - Overlap
\* Mutant: the blank at the cut is skipped, and with it a character.
NextStart_Skips(from, end) == end + 1
\* The next piece overlaps this one, unless that would not be progress.
NextStart(from, end) == IF end - Overlap <= from THEN end ELSE end - Overlap

BeginSplit(t) == text' = t /\ start' = 0 /\ pieces' = <<>>

SplitStep ==
  /\ start < text.length
  /\ \E end \in (start + 1)..text.length :
       /\ CutsAt(text, start, end)
       /\ pieces' = Append(pieces, <<start, end>>)
       /\ start' = IF end >= text.length THEN text.length ELSE NextStart(start, end)
  /\ UNCHANGED text

IsSplit == start = text.length

SplitInit == text \in Texts /\ start = 0 /\ pieces = <<>>
SplitSpec == SplitInit /\ [][SplitStep]_splitVars

-----------------------------------------------------------------------------
Covered(p) == \E i \in DOMAIN pieces : pieces[i][1] <= p /\ p < pieces[i][2]

\* Splitting loses nothing: every position before the next start is in a piece,
\* so every position is when the text is split.
NoTextIsLost == \A p \in 0..(start - 1) : Covered(p)

\* Every piece starts after the one before it, wherever the blanks are, and none is
\* longer than the configured limit.
PiecesAdvance ==
  /\ \A i \in 1..(Len(pieces) - 1) : pieces[i][1] < pieces[i + 1][1]
  /\ \A i \in 1..Len(pieces) : pieces[i][2] - pieces[i][1] <= Maximum
=============================================================================
