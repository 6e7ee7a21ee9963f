---------------------------- MODULE MCGrdeclDeck ----------------------------
(* A grid of two cells in up to four files.   The pieces of the deck come  *)
(* in every order, so that files list arrays before and after each other;  *)
(* the included files include each other and the deck.                     *)
EXTENDS GrdeclDeck

Plain(value) == DeckNumber(None, value)

Dims == <<Word("SPECGRID"), Plain(2), Plain(1), Plain(1), Word("F"), Slash>>
Array(keyword, count, value) == <<Word(keyword), DeckNumber(count, value), Slash>>
Poro(value) == <<Word("PORO"), Plain(value), Plain(value + 1), Slash>>
Actnum(a, b) == <<Word("ACTNUM"), Plain(a), Plain(b), Slash>>
IncludeOf(file) == <<Word("INCLUDE"), Word(file), Slash>>
Grid == Array("COORD", 36, 1) \o Array("ZCORN", 16, 2)

\* Everything else a deck may hold.
Others ==
  { <<Word("EQUALS"), Word("PORO"), Plain(9), Slash, Slash>>,
    <<Word("FAULTS"), Slash>>,
    <<Word("METRIC"), Word("GRIDUNIT"), Word("metres"), Slash, Word("GRIDUNIT"), Slash>>,
    <<Word("MAPAXES"), DeckNumber(6, 0), Slash, Word("MAPAXES"), Plain(0), Slash>>,
    <<Word("MAPAXES"), Word("unknown"), Slash>>,
    <<Word("PINCH"), Plain(1), Slash, Word("NOECHO")>>,
    <<Word("INCLUDE"), Slash>>,
    IncludeOf("missing"),
    <<Word("DIMENS"), DeckNumber(2, 1), Plain(1), Plain(1), Slash>>,
    <<Word("DIMENS"), Plain(1), Slash>>,
    <<Word("SOLUTION")>>,
    Actnum(0, 1) }

\* The files grid, props and more.
Included ==
  { <<Grid, Poro(1), <<>>>>,
    <<IncludeOf("props") \o Grid, Poro(1) \o IncludeOf("grid") \o IncludeOf("deck"), <<>>>>,
    <<IncludeOf("props") \o Grid, Poro(1) \o IncludeOf("more"), IncludeOf("grid")>>,
    <<Grid \o Poro(3), <<Word("PORO"), DeckNumber(0, 4), DeckNumber(2, 1), Slash>>, <<>>>>,
    <<Grid, Poro(1) \o Poro(3), <<>>>>,
    <<Grid \o Actnum(1, 1), Array("SATNUM", 2, 1) \o Actnum(1, 0), <<>>>> }

Orders == {order \in [1..4 -> 1..4] : \A i, j \in 1..4 : order[i] = order[j] => i = j}

MCDecks ==
  {LET pieces == <<IncludeOf("grid"), IncludeOf("props"), Poro(5), other>>
       body == FlattenSeq([i \in 1..4 |-> pieces[order[i]]])
   IN [file \in {"deck", "grid", "props", "more"} |->
         CASE file = "deck" -> IF dimsFirst THEN Dims \o body ELSE body \o Dims
           [] file = "grid" -> included[1]
           [] file = "props" -> included[2]
           [] file = "more" -> included[3]] :
   order \in Orders, other \in Others, included \in Included, dimsFirst \in BOOLEAN}

MCContents == {<<>>, Poro(7), Array("PORO", 3, 7), Actnum(1, 0), Grid}
=============================================================================
