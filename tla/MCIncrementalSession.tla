------------------------ MODULE MCIncrementalSession ------------------------
(***************************************************************************)
(* A session for TLC.  The compilation is the one of module                *)
(* CompilationRun, on the registered sources alone (autoSearch off).       *)
(***************************************************************************)
EXTENDS IncrementalSession

UriOrder == <<"a", "b", "c">>

Text(iliVersion, models, requiredModels, usable) ==
    [iliVersion |-> iliVersion, models |-> models,
     requiredModels |-> requiredModels, usable |-> usable]

MCHeader ==
    "A_needs_B"  :> Text("2.3", <<"A">>, <<"B">>, TRUE)  @@
    "A_alone"    :> Text("2.3", <<"A">>, << >>, TRUE)    @@
    "B"          :> Text("2.3", <<"B">>, << >>, TRUE)    @@
    "B_broken"   :> Text("2.3", <<"B">>, << >>, FALSE)   @@
    "B_24"       :> Text("2.4", <<"B">>, << >>, TRUE)    @@
    "B_needs_A"  :> Text("2.3", <<"B">>, <<"A">>, TRUE)  @@
    "C_needs_B"  :> Text("2.3", <<"C">>, <<"B">>, TRUE)  @@
    "C_and_B"    :> Text("2.3", <<"C", "B">>, << >>, TRUE)

Run == INSTANCE CompilationRun
           WITH UriOrder <- UriOrder, Header <- Header, Builtin <- Builtin,
                Nowhere <- "nowhere"

OnSources(request, texts) ==
    Run!Run(request, [session |-> texts, disk |-> EmptyMap, autoSearch |-> FALSE,
                      paths |-> EmptyMap])

\* The runs on what the session may hold, computed once.
Runs == [texts \in Registrable |-> [request \in Requests |-> OnSources(request, texts)]]

MCCompile(request, texts) ==
    IF texts \in DOMAIN Runs THEN Runs[texts][request] ELSE OnSources(request, texts)

MCTexts == DOMAIN MCHeader
MCArtifactSize == [t \in MCTexts \cup {"INTERLIS_text"} |-> IF t = "A_needs_B" THEN 2 ELSE 1]
MCDigest == [t \in MCTexts |-> IF t \in {"B", "B_broken"} THEN "collision" ELSE t]

\* B is missing, broken, of another version, in a cycle with A or declared
\* twice.
MCAnswerDocuments ==
    {<<"a", "A_needs_B">>,
     <<"b", "B">>, <<"b", "B_broken">>, <<"b", "B_24">>, <<"b", "B_needs_A">>,
     <<"c", "C_needs_B">>, <<"c", "C_and_B">>}

\* Two URIs may declare the model B that a third imports; the texts of "b"
\* share a digest.  No client can register the empty URI.
MCTrio ==
    {<<"a", "C_and_B">>, <<"b", "B">>, <<"b", "B_broken">>, <<"c", "A_needs_B">>, <<"", "B">>}
MCTrioRequests == {<<"b">>, <<"c">>}

MCRequests == {<<"a">>, <<"c", "a">>}

\* What the theorems about the answers of a session rest on, for
\* CompilationRun on the documents of each instance.
ASSUME MCCompilationIsLocal == CompilationIsLocal
ASSUME MCAdditionIsLocal == AdditionIsLocal
=============================================================================
