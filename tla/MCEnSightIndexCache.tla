------------------------ MODULE MCEnSightIndexCache ------------------------
(***************************************************************************)
(* TLC instances of EnSightIndexCache.                                     *)
(***************************************************************************)
EXTENDS EnSightIndexCache, TLC

CONSTANTS g1

\* Every variable of the case file uses the one geometry file.
MCGeoOf == [v \in VarKeys |-> g1]

MCSymmetry == Permutations(Threads) \cup Permutations(Futures)
=============================================================================
