----------------------------- MODULE MCLayerRead -----------------------------
(* One layer that is read again and again, with a root and one child: five *)
(* leases are enough for the data of the last read, those of the read that *)
(* replaces it, and one directory that could not be removed.  Callbacks    *)
(* author one root or two, set a default prim or leave it to the manifest, *)
(* declare fields at the root, below it and beside it, and may declare a   *)
(* field that has nothing to load.                                         *)
EXTENDS PythonRead, TLC

MCSymmetry == Permutations(Leases)

Field(prim, attr, token, times) ==
  [prim |-> prim, attr |-> attr, token |-> token, times |-> times]

MCResults ==
  { [tree |-> {<<"stem">>}, default |-> "stem",
     lazy |-> <<Field(<<"stem">>, "a", TRUE, <<>>), Field(<<"stem">>, "b", FALSE, <<2, 1>>)>>],
    [tree |-> {<<"stem">>, <<"stem", "n">>, <<"other">>}, default |-> "stem",
     lazy |-> <<Field(<<"stem", "n">>, "a", TRUE, <<1>>), Field(<<"other">>, "a", TRUE, <<>>)>>],
    [tree |-> {<<"stem">>, <<"stem", "n">>}, default |-> None,
     lazy |-> <<Field(<<"stem", "n">>, "a", TRUE, <<>>)>>],
    [tree |-> {}, default |-> None,
     lazy |-> <<Field(<<"stem">>, "a", FALSE, <<1, 1>>), Field(<<"m">>, "a", TRUE, <<>>)>>],
    [tree |-> {<<"stem">>}, default |-> None, lazy |-> <<>>],
    [tree |-> {<<"stem">>}, default |-> "stem", lazy |-> <<Field(<<"stem">>, "a", FALSE, <<>>)>>] }

MCMountPaths == {<<"m">>, <<"m", "n">>, <<"other">>, <<"other", "n">>, <<"local">>}
=============================================================================
