------------------------------ MODULE MCPages ------------------------------
(***************************************************************************)
(* Values of the constants of Pages for TLC: what a cfg cannot write.      *)
(***************************************************************************)
EXTENDS Pages, TLC

NoWord == [word |-> "", blank |-> FALSE]

\* Three local scenes, two of them of one date.
MCLocalScenes ==
  1 :> [date |-> 1, words |-> {"x"}, tags |-> {"a"}, favorite |-> TRUE]
  @@ 2 :> [date |-> 1, words |-> {}, tags |-> {"a", "b"}, favorite |-> FALSE]
  @@ 3 :> [date |-> 2, words |-> {"x"}, tags |-> {"b"}, favorite |-> TRUE]

MCLibraryLinks ==
  {[text |-> NoWord, direction |-> "DESC", favorites |-> FALSE, tags |-> <<>>, mode |-> "OR"]}

MCNames == 1 :> {"x"} @@ 2 :> {} @@ 3 :> {"x"}

MCPerformersLinks == {[text |-> NoWord, direction |-> "ASC", favoritesOnly |-> FALSE]}

NoFilters == [filter |-> "f", studios |-> <<>>, tags |-> <<>>]

MCPerformerLinks == [id : {1, 2}, params : {NoFilters, [NoFilters EXCEPT !.tags = <<"t">>]}]

MCCatalog == <<1, 2, 3, 4, 5>>
=============================================================================
