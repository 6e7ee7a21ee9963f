---------------------------- MODULE MCXmlPayload ----------------------------
(* Every storage, with and without a compressor; scalars of two bytes in   *)
(* either order, so that blocks of three bytes cut scalars in two; words   *)
(* of four and eight bytes, which leave the base64 text at different       *)
(* places of a triple.                                                     *)
EXTENDS XmlPayload

Element(f, c, w, x, n, s, k, z) ==
  [format |-> f, compressed |-> c, word |-> w, swapped |-> x,
   components |-> n, scalar |-> s, counted |-> k, prependZero |-> z]

MCElements ==
  {e \in {Element(f, c, w, TRUE, 1, 2, k, ~k) :
            f \in {"ascii", "binary", "raw", "base64"}, c \in BOOLEAN, w \in {4, 8},
            k \in BOOLEAN} :
     /\ e.format = "ascii" => ~e.compressed
     /\ e.format # "base64" => e.word = 4}
  \cup {Element("raw", TRUE, 4, FALSE, 2, 1, FALSE, FALSE),
        Element("ascii", FALSE, 4, FALSE, 2, 1, FALSE, FALSE)}

MCPackedTables == {<<>>, <<1>>, <<2>>, <<1, 2>>, <<2, 1>>, <<1, 2, 1>>, <<2, 1, 2>>}
=============================================================================
