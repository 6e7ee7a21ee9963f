----------------------------- MODULE MCSeriesScan -----------------------------
(* Three files; the names of two have one number.  Stored times run        *)
(* against the numbers, agree, or are missing; one file may hold no field, *)
(* or, for EDEM, no time step.                                             *)
EXTENDS SeriesScan

CONSTANTS f0, f2, f02

MCNumber == [f \in Files |-> IF f = f0 THEN 0 ELSE 2]

MCContent(stamp, x) == [stamp |-> stamp, fields |-> x, hasStep |-> TRUE]

MCWithoutStep == [stamp |-> NoStamp, fields |-> {}, hasStep |-> FALSE]

MCContents ==
  [f \in Files |->
    CASE f = f0 -> {Absent, Broken, MCContent(3, {"p"}), MCContent(NoStamp, {}),
                     MCWithoutStep}
      [] f = f2 -> {Absent, MCContent(1, {"p"}), MCContent(3, {"p", "U"})}
      [] f = f02 -> {Absent, MCContent(NoStamp, {"p"}), MCContent(1, {"p", "U"})}]

MCScales == {1, 0, -1}
=============================================================================
