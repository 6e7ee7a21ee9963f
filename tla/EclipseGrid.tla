----------------------------- MODULE EclipseGrid -----------------------------
(***************************************************************************)
(* What the readers of GRDECL decks and of binary Eclipse files share      *)
(* (eclipse/src): the sizes of the arrays of a corner-point grid, the map  *)
(* from its cells to the active ones, and how values in parts are put      *)
(* together.                                                               *)
(***************************************************************************)
EXTENDS Naturals, Integers, Sequences, SequencesExt, FiniteSetsExt

CONSTANTS None, Error

VARIABLES
  phase,   \* of a call of Read
  grid,    \* GridInfo
  loaded   \* the last array that was asked for and what the loader gave

NumLogicalCells(dims) == dims[1] * dims[2] * dims[3]
CoordValueCount(dims) == 6 * (dims[1] + 1) * (dims[2] + 1)
ZcornValueCount(dims) == 8 * NumLogicalCells(dims)

BuildLogicalCellToActiveCellArray(actnum) ==
  [cell \in DOMAIN actnum |->
     IF actnum[cell] # 0 THEN Cardinality({c \in 1..(cell - 1) : actnum[c] # 0}) ELSE -1]

\* How many elements the first parts have, and all parts one after the other.
\* FlattenSeq is the same, but recursive.
UpTo(parts) ==
  [i \in 0..Len(parts) |-> Cardinality(UNION {{j} \X DOMAIN parts[j] : j \in 1..i})]
Concat(parts) ==
  LET upTo == UpTo(parts) IN
  [n \in 1..upTo[Len(parts)] |->
     LET i == Min({i \in DOMAIN parts : n <= upTo[i]}) IN parts[i][n - upTo[i - 1]]]

-----------------------------------------------------------------------------
\* A map from cells to active cells numbers the active ones without a gap, in
\* their order, and no others.
NumbersActiveCells(map, actnum) ==
  LET active == {cell \in DOMAIN map : map[cell] # -1} IN
  /\ active = {cell \in DOMAIN actnum : actnum[cell] # 0}
  /\ {map[cell] : cell \in active} = 0..(Cardinality(active) - 1)
  /\ \A c, d \in active : c < d => map[c] < map[d]
=============================================================================
