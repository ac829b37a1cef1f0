--------------------------- MODULE MCCommandLine ---------------------------
(***************************************************************************)
(* Up to four files, each in one of the forms below or absent, that form   *)
(* chains, cycles and gaps; B.ili may declare C too, or translate it; D.ili *)
(* may be of another version than the files that need it.  There may be no  *)
(* repository manager, and one whose repositories have D or nothing.       *)
(***************************************************************************)
EXTENDS CommandLine

MCUriOrder == <<"A.ili", "B.ili", "C.ili", "D.ili", "repo/D.ili">>

Text(models, requiredModels, translationModels) ==
    [iliVersion |-> "2.3", models |-> models, requiredModels |-> requiredModels,
     translationModels |-> translationModels, usable |-> TRUE]

MCHeader ==
    "A_needs_B"    :> Text(<<"A">>, <<"INTERLIS", "B">>, << >>) @@
    "A_needs_C_B"  :> Text(<<"A">>, <<"C", "B">>, << >>) @@
    "B_needs_C"    :> Text(<<"B">>, <<"C">>, << >>) @@
    "B_and_C"      :> Text(<<"B", "C">>, <<"C">>, << >>) @@
    "B_of_C"       :> Text(<<"B">>, <<"C">>, <<"C">>) @@
    "C_needs_D"    :> Text(<<"C">>, <<"D">>, << >>) @@
    "C_needs_A"    :> Text(<<"C">>, <<"A">>, << >>) @@
    "C"            :> Text(<<"C">>, << >>, << >>) @@
    "C_broken"     :> [Text(<<"C">>, << >>, << >>) EXCEPT !.usable = FALSE] @@
    "C_other"      :> [Text(<<"C">>, << >>, << >>) EXCEPT !.iliVersion = "2.2"] @@
    "D"            :> Text(<<"D">>, << >>, << >>) @@
    "D_2.4"        :> [Text(<<"D">>, << >>, << >>) EXCEPT !.iliVersion = "2.4"]

Absent == "absent"
Disk(a, b, c, d) ==
    LET all == "A.ili" :> a @@ "B.ili" :> b @@ "C.ili" :> c @@ "D.ili" :> d
    IN  [u \in {v \in DOMAIN all : all[v] # Absent} |-> all[u]]

MCWorkspaces ==
    {[session |-> EmptyMap, disk |-> Disk(a, b, c, d), autoSearch |-> search,
      paths |-> [m \in {"A", "B", "C", "D"} |-> <<m \o ".ili">>]] :
        a \in {"A_needs_B", "A_needs_C_B"},
        b \in {"B_needs_C", "B_and_C", "B_of_C"},
        c \in {"C", "C_needs_D", "C_needs_A", "C_broken", "C_other", Absent},
        d \in {"D", "D_2.4", Absent},
        search \in BOOLEAN}

MCRootLists == {<<"A.ili">>, <<"C.ili", "B.ili">>, <<"D.ili", "C.ili", "B.ili", "A.ili">>}
MCRepositories ==
    {[manager |-> FALSE, answers |-> EmptyMap], [manager |-> TRUE, answers |-> EmptyMap],
     [manager |-> TRUE, answers |-> "D" :> <<[uri |-> "repo/D.ili", text |-> "D"]>>]}

LibraryRuns == [r \in MCRootLists, w \in MCWorkspaces |-> Run(r, w)]
MCLibraryRun(r, w) == LibraryRuns[r, w]
=============================================================================
