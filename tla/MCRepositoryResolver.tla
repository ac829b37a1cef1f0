------------------------ MODULE MCRepositoryResolver ------------------------
(***************************************************************************)
(* Two families of repositories.  Graphs: models a, b and c in one         *)
(* repository, with dependencies that form chains, diamonds and cycles, or *)
(* name a model that does not exist; b and c in one file or in two, with   *)
(* equal, different or no checksums; entries with an unsafe path.  Versions: *)
(* a in up to three entries of different versions, precursors and          *)
(* languages, repetitions and cycles included, before a repository with a  *)
(* plain one.                                                              *)
(***************************************************************************)
EXTENDS RepositoryResolver

Entry(n, lang, version, precursor, browse, deps, file, md5) ==
    [name |-> n, language |-> lang, version |-> version, precursor |-> precursor,
     browseOnly |-> browse, dependencies |-> deps, file |-> file, md5 |-> md5]

Plain(n, deps, file, md5) == Entry(n, "ili2_4", "v1", None, FALSE, deps, file, md5)

GraphLists ==
    {<< <<Plain("a", da, "a.ili", None), Plain("b", db, "b.ili", mb),
          Plain("c", dc, fc, "md5")>> >> :
        da \in {<<>>, <<"b", "c">>, <<"c", "b">>, <<"INTERLIS", "c">>},
        db \in {<<>>, <<"c">>, <<"a">>},
        dc \in {<<>>, <<"a">>, <<"missing">>},
        fc \in {"b.ili", "c.ili", "../c.ili"},
        mb \in {None, "md5", "other"}}

VersionEntries ==
    {Entry("a", l, v, p, b, <<>>, "a.ili", None) :
        l \in {"ili2_4", "ili1"}, v \in {"v1", "v2"}, p \in {None, "v1", "v2"},
        b \in {FALSE}}
    \cup {Entry("a", "ili2_4", "v3", "v2", b, <<>>, "a.ili", None) : b \in BOOLEAN}
    \cup {Entry("a", "ili2_4", None, p, FALSE, <<>>, "a.ili", None) : p \in {None, "v1"}}

VersionLists ==
    {<<index, <<Plain("a", <<>>, "a.ili", None)>> >> :
        index \in UNION {[1..n -> VersionEntries] : n \in 2..3}}

MCIndexLists == GraphLists \cup VersionLists
MCRequestLists == {<<"a", "b">>, <<"c", "a">>}
MCLanguages == {None, "ili1"}
MCUnsafePaths == {"../c.ili"}
=============================================================================
