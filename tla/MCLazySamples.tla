---------------------------- MODULE MCLazySamples ----------------------------
(* An array attribute, a chunk alias of it and a second array; a list of   *)
(* one sample, and one that is out of order and repeats a time.            *)
EXTENDS LazySamples

CONSTANTS value_, chunk, other, l1, l2

MCCanonical == [a \in Attributes |-> IF a = other THEN "q" ELSE "p"]
MCSingle == <<[time |-> 1, loader |-> l1]>>
MCSeries == <<[time |-> 2, loader |-> l2], [time |-> 0, loader |-> l1],
              [time |-> 0, loader |-> l2]>>

MCLists == [a \in Attributes |-> IF a = value_ THEN {MCSeries} ELSE {MCSingle}]

\* The dataset is the default prim, or lies under one; the second array belongs
\* to a prim below it.
MCMountPaths == {<<"d">>, <<"w", "d">>}
MCHomeOf == [a \in Attributes |-> IF a = other THEN <<"f">> ELSE <<>>]

MCSymmetry == Permutations(Threads)
=============================================================================
