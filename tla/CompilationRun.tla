--------------------------- MODULE CompilationRun ---------------------------
(***************************************************************************)
(* CompilationRun::run (source/core/CompilationRun.cpp) as a function of   *)
(* the request and of the workspace: load the roots, load imported models  *)
(* until no file is added, compile the files in passes until every file    *)
(* follows the files that declare what it requires.  The result is what    *)
(* the session reuses and what its caches record; parsing, the metamodel   *)
(* and the semantic checks are represented by Header[text].usable.         *)
(***************************************************************************)
EXTENDS IliFileCatalog, FiniteSetsExt

CONSTANT Builtin        \* the URI "INTERLIS" of the predefined model

SupportedVersions == {"1.0", "2.3", "2.4"}

LoadRoots(ws, roots) ==
    FoldLeft(LAMBDA catalog, root : LoadByFile(ws, catalog, root), EmptyCatalog, roots)

\* The version every import must have: that of the last root loaded.
RunVersion(ws, catalog) == HeaderAt(ws, Last(catalog.files)).iliVersion

\* One required model of one file (lines 140-155).
ImportModel(ws, iliVersion, state, model) ==
    LET search == LoadByModel(ws, state.catalog, model, iliVersion)
    IN  IF model \in {"INTERLIS"} \cup state.loaded THEN state
        ELSE IF search.found = Nowhere
        THEN [state EXCEPT !.catalog = search.catalog, !.missing = @ \cup {model}]
        ELSE [state EXCEPT !.catalog = search.catalog, !.loaded = @ \cup {model}]

\* One round of the loop over the files, which may grow while it runs.
ImportRound(ws, iliVersion, state) ==
    FoldLeftDomain(
        LAMBDA st, i :
            IF i > Len(st.catalog.files) THEN st
            ELSE FoldLeft(LAMBDA s, model : ImportModel(ws, iliVersion, s, model),
                          st, HeaderAt(ws, st.catalog.files[i]).requiredModels),
        state, UriOrder)

\* Rounds until one adds no file; each but the last adds one at least.
Imports(ws, iliVersion, catalog) ==
    FoldLeftDomain(
        LAMBDA st, i :
            IF st.settled THEN st
            ELSE LET next == ImportRound(ws, iliVersion, st)
                 IN  [next EXCEPT !.settled =
                         Len(next.catalog.files) = Len(st.catalog.files)],
        [catalog |-> catalog, loaded |-> {}, missing |-> {}, settled |-> FALSE],
        Append(UriOrder, Builtin))

\* compileFile: a file of an unsupported version is reported and passed over.
Supported(ws, uri) == HeaderAt(ws, uri).iliVersion \in SupportedVersions

Ready(ws, uri, models) ==
    ToSet(HeaderAt(ws, uri).requiredModels)
        \subseteq models \cup ToSet(HeaderAt(ws, uri).models)

CompiledModels(ws, compiled) ==
    {"INTERLIS"} \cup UNION {ToSet(HeaderAt(ws, u).models) : u \in ToSet(compiled)}

CompileFile(ws, compiled, uri) ==
    IF /\ Supported(ws, uri)
       /\ uri \notin ToSet(compiled)
       /\ Ready(ws, uri, CompiledModels(ws, compiled))
    THEN Append(compiled, uri)
    ELSE compiled

CompilePass(ws, files, compiled) ==
    FoldLeft(LAMBDA done, uri : CompileFile(ws, done, uri), compiled, files)

\* Passes 0 .. files.size(), the built-in model being one of the files.
CompilePasses(ws, files) ==
    FoldLeft(LAMBDA done, i : CompilePass(ws, files, done), << >>,
             [i \in 1..(Len(files) + 2) |-> i])

NoFiles == [closure |-> << >>, parses |-> << >>, missingModels |-> {},
            resolvedModels |-> {}, ordered |-> TRUE, success |-> FALSE]

\* The outcome of a run on the files of the catalog, in the order compiled.
\* parses is the order in which the run asks the parsed source cache for
\* artifacts: once per file loaded, then once per file compiled.
Outcome(ws, roots, imported, compiled) ==
    LET files  == imported.catalog.files
        usable == {u \in ToSet(compiled) : HeaderAt(ws, u).usable}
    IN  [closure        |-> files,
         parses         |-> imported.catalog.owned \o <<Builtin>> \o compiled,
         missingModels  |-> imported.missing,
         resolvedModels |-> UNION {ToSet(HeaderAt(ws, u).models) : u \in usable},
         ordered        |-> \A u \in ToSet(files) : Supported(ws, u) => u \in ToSet(compiled),
         success        |-> /\ \A root \in ToSet(roots) : Readable(ws, root)
                            /\ imported.missing = {}
                            /\ usable = ToSet(files)]

\* Everything loaded is compiled.
CompileAll(ws, roots, imported) ==
    Outcome(ws, roots, imported, CompilePasses(ws, imported.catalog.files))

\* What the roots need is loaded; without any root there is nothing to do.
ImportAll(ws, roots, rooted) ==
    IF rooted.files = << >> THEN NoFiles
    ELSE CompileAll(ws, roots, Imports(ws, RunVersion(ws, rooted), rooted))

\* The whole run.
Run(roots, ws) == ImportAll(ws, roots, LoadRoots(ws, roots))
=============================================================================
