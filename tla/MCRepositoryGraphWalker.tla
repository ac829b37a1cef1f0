---------------------- MODULE MCRepositoryGraphWalker ----------------------
(***************************************************************************)
(* Every web of three repositories with the site links below: cycles of    *)
(* either kind, self links, repositories that are parent and subsidiary.   *)
(***************************************************************************)
EXTENDS RepositoryGraphWalker

MCSeedLists == {<<"a">>, <<"b", "a", "b">>}
MCParentLists == {<<>>, <<"b">>, <<"c">>, <<"b", "a">>}
MCSubsidiaryLists == {<<>>, <<"a">>, <<"b">>, <<"c">>}

=============================================================================
