---------------------------- MODULE CommandLine ----------------------------
(***************************************************************************)
(* The command line compiler (main and compile in source/main/ilic.cpp)     *)
(* beside the library's CompilationRun: the same three stages over the      *)
(* same file catalog, with loops and limits of its own and with             *)
(* repositories.  A step loads one root, imports one required model, tries  *)
(* to compile one file, or ends a round or a pass.                          *)
(*                                                                         *)
(* ws is the workspace of IliFileCatalog.  The command line has no session  *)
(* sources; a repository source that has been installed is one more file.   *)
(* abort(logger,1) only logs an error: the program goes on.                 *)
(***************************************************************************)
EXTENDS CompilationRun

CONSTANTS
    RootLists,      \* the lists of ili files on the command line
    Workspaces,     \* workspaces to consider
    Repositories,   \* records [manager, answers]: whether there is a repository
                    \* manager, and for each model that the repositories have
                    \* the files resolve answers with, as [uri, text]
    FileLimit,      \* 100: files after which importing stops
    PassLimit,      \* 20: passes after which compiling is given up
    LibraryRun(_, _)  \* Run of CompilationRun, for the roots and workspaces above

ASSUME CommandLineAssumption == FileLimit \in Nat /\ PassLimit \in Nat

VARIABLES
    roots, ws, repository,
    phase,          \* "roots", "imports", "compile", "done", "failed", "undefined"
    catalog,
    iliversion,     \* that of the last file on the command line
    position,       \* the root, or the file of the loop under way
    import,         \* the required model of that file
    fcount,         \* files there were when the round of imports began
    loaded,         \* loaded_models
    compiled,       \* compiledFiles, in order
    allCompiled,
    count,          \* passes that have left a file
    errors,         \* an error has been logged
    installed,      \* history: a repository source has been installed
    cut             \* history: a limit has ended the imports or the passes

input == <<roots, repository>>
loop == <<position, import, fcount>>
commandVars == <<input, ws, phase, catalog, iliversion, loop, loaded, compiled,
                 allCompiled, count, errors, installed, cut>>

Init ==
    /\ roots \in RootLists
    /\ ws \in Workspaces
    /\ repository \in Repositories
    /\ phase = "roots"
    /\ catalog = EmptyCatalog
    /\ iliversion = "2.3"
    /\ position = 1 /\ import = 1 /\ fcount = 0
    /\ loaded = {}
    /\ compiled = << >>
    /\ allCompiled = TRUE
    /\ count = 0
    /\ errors = FALSE
    /\ installed = FALSE
    /\ cut = FALSE

File == catalog.files[position]
Required(uri) == HeaderAt(ws, uri).requiredModels

-----------------------------------------------------------------------------
LoadRoot ==
    /\ phase = "roots"
    /\ position <= Len(roots)
    /\ catalog' = LoadByFile(ws, catalog, roots[position])
    /\ errors' = (errors \/ ~Readable(ws, roots[position]))
    /\ position' = position + 1
    /\ UNCHANGED <<input, iliversion, ws, phase, import, fcount, loaded, compiled, allCompiled,
                   count, installed, cut>>

RootsLoaded ==
    /\ phase = "roots"
    /\ position > Len(roots)
    /\ phase' = IF catalog.files = << >> THEN "failed" ELSE "imports"
    /\ iliversion' = IF catalog.files = << >> THEN iliversion ELSE RunVersion(ws, catalog)
    /\ position' = 1
    /\ fcount' = Len(catalog.files)
    /\ UNCHANGED <<input, ws, catalog, import, loaded, compiled, allCompiled, count,
                   errors, installed, cut>>

-----------------------------------------------------------------------------
\* The imports: a round goes through the files there were when it began.

AtModel ==
    /\ phase = "imports"
    /\ position <= fcount
    /\ import <= Len(Required(File))

Skips(model) == model \in loaded \cup {"INTERLIS"}

SkipImport ==
    /\ AtModel
    /\ Skips(Required(File)[import])
    /\ import' = import + 1
    /\ UNCHANGED <<input, iliversion, ws, phase, catalog, position, fcount, loaded, compiled,
                   allCompiled, count, errors, installed, cut>>

\* loadResolvedRepositoryModels makes the files of an answer readable ...
Install(files, w) ==
    [w EXCEPT !.disk = [u \in DOMAIN @ \cup {f.uri : f \in ToSet(files)} |->
        IF \E f \in ToSet(files) : f.uri = u
        THEN (CHOOSE f \in ToSet(files) : f.uri = u).text ELSE @[u]]]

\* ... and loads them.
LoadInstalled(files, w, cat) ==
    LET uris == [i \in DOMAIN files |-> files[i].uri]
    IN  [LoadAll(w, cat, uris) EXCEPT
             !.files = @ \o SelectSeq(uris, LAMBDA u : u \notin ToSet(@))]

Found(model, search) ==
    /\ catalog' = search.catalog
    /\ loaded' = IF search.found = Nowhere THEN loaded ELSE loaded \cup {model}

\* loadByModel has answered.  If it has found nothing the repository manager
\* is asked, in every round anew: an answer is installed and the catalog asked
\* once more; a resolution that fails logs its error.
Imported(model, search) ==
    \/ /\ search.found # Nowhere \/ ~repository.manager
       /\ Found(model, search)
       /\ UNCHANGED <<ws, errors, installed>>
    \/ /\ search.found = Nowhere /\ repository.manager
       /\ model \in DOMAIN repository.answers
       /\ ws' = Install(repository.answers[model], ws)
       /\ \E with \in {LoadInstalled(repository.answers[model], ws', search.catalog)} :
              \E again \in {LoadByModel(ws', with, model, iliversion)} : Found(model, again)
       /\ installed' = TRUE
       /\ UNCHANGED errors
    \/ /\ search.found = Nowhere /\ repository.manager
       /\ Found(model, search)
       /\ errors' = TRUE
       /\ UNCHANGED <<ws, installed>>

ImportNext ==
    /\ AtModel
    /\ ~Skips(Required(File)[import])
    /\ \E search \in {LoadByModel(ws, catalog, Required(File)[import], iliversion)} :
           Imported(Required(File)[import], search)
    /\ import' = import + 1
    /\ UNCHANGED <<input, iliversion, phase, position, fcount, compiled, allCompiled,
                   count, cut>>

NextFile ==
    /\ phase = "imports"
    /\ position <= fcount
    /\ import > Len(Required(File))
    /\ position' = position + 1
    /\ import' = 1
    /\ UNCHANGED <<input, iliversion, ws, phase, catalog, fcount, loaded, compiled, allCompiled,
                   count, errors, installed, cut>>

\* The loop goes on with iterators into a vector that has grown, and may
\* have been moved: as above, with the old elements, or in any other way.
Undefined ==
    /\ phase = "imports"
    /\ import = 1 /\ position > 1
    /\ Len(catalog.files) > fcount
    /\ phase' = "undefined"
    /\ UNCHANGED <<input, iliversion, ws, catalog, loop, loaded, compiled, allCompiled, count,
                   errors, installed, cut>>

\* Rounds until one adds no file, or the limit is met exactly.
RoundEnds ==
    /\ phase = "imports"
    /\ position > fcount
    /\ position' = 1
    /\ IF fcount \in {Len(catalog.files), FileLimit}
       THEN phase' = "compile" /\ UNCHANGED fcount
       ELSE fcount' = Len(catalog.files) /\ UNCHANGED phase
    /\ cut' = (cut \/ (fcount = FileLimit /\ fcount < Len(catalog.files)))
    /\ UNCHANGED <<input, iliversion, ws, catalog, import, loaded, compiled, allCompiled, count,
                   errors, installed>>

-----------------------------------------------------------------------------
\* compile(): a file is compiled once what it requires has been, or is in the
\* file itself; the model it translates is not waited for.
MayCompile(uri) ==
    \A model \in ToSet(Required(uri)) :
        \/ model \in CompiledModels(ws, compiled) \cup ToSet(HeaderAt(ws, uri).models)
        \/ model \in ToSet(HeaderAt(ws, uri).translationModels)

\* A bug of a compiler in which the last file decides.
Attempt_lastDecides ==
    /\ phase = "compile"
    /\ position <= Len(catalog.files)
    /\ compiled' = IF File \notin ToSet(compiled) /\ MayCompile(File)
                   THEN Append(compiled, File) ELSE compiled
    /\ allCompiled' = (File \in ToSet(compiled'))
    /\ position' = position + 1
    /\ UNCHANGED <<input, iliversion, ws, phase, catalog, import, fcount, loaded, count,
                   errors, installed, cut>>

\* The predefined model is compiled before the first pass.
Attempt ==
    /\ phase = "compile"
    /\ position <= Len(catalog.files)
    /\ \/ /\ File \in ToSet(compiled)
          /\ UNCHANGED <<compiled, allCompiled>>
       \/ /\ File \notin ToSet(compiled) /\ MayCompile(File)
          /\ compiled' = Append(compiled, File)
          /\ UNCHANGED allCompiled
       \/ /\ File \notin ToSet(compiled) /\ ~MayCompile(File)
          /\ allCompiled' = FALSE
          /\ UNCHANGED compiled
    /\ errors' = (errors \/ ~Supported(ws, File)
                         \/ (File \in ToSet(compiled') /\ ~HeaderAt(ws, File).usable))
    /\ position' = position + 1
    /\ UNCHANGED <<input, iliversion, ws, phase, catalog, import, fcount, loaded, count,
                   installed, cut>>

\* "multiple iliversions found.": a file of another version than that of the
\* last file on the command line, seen in every pass and reported at the end.
SeveralVersions ==
    \E uri \in ToSet(catalog.files) : HeaderAt(ws, uri).iliVersion # iliversion

\* A bug of a compiler that goes on for ever.
PassEnds_noLimit ==
    /\ phase = "compile"
    /\ position > Len(catalog.files)
    /\ phase' = IF allCompiled THEN "done" ELSE "compile"
    /\ position' = IF allCompiled THEN position ELSE 1
    /\ allCompiled' = TRUE
    /\ errors' = (errors \/ (phase' = "done" /\ SeveralVersions))
    /\ UNCHANGED <<input, iliversion, ws, catalog, import, fcount, loaded, compiled, count,
                   installed, cut>>

\* A bug of a compiler that counts one pass too many.
PassEnds_early ==
    /\ phase = "compile"
    /\ position > Len(catalog.files)
    /\ count' = count + 1
    /\ phase' = IF allCompiled THEN "done"
                ELSE IF count' < PassLimit THEN "compile" ELSE "failed"
    /\ cut' = (cut \/ phase' = "failed")
    /\ position' = IF phase' = "compile" THEN 1 ELSE position
    /\ allCompiled' = TRUE
    /\ errors' = (errors \/ (phase' = "done" /\ SeveralVersions))
    /\ UNCHANGED <<input, iliversion, ws, catalog, import, fcount, loaded, compiled, installed>>

\* "endless compile loop" ends the program, also if the last pass has still
\* compiled a file.
PassEnds ==
    /\ phase = "compile"
    /\ position > Len(catalog.files)
    /\ \/ /\ allCompiled
          /\ phase' = "done"
          /\ UNCHANGED <<position, count, allCompiled, cut>>
       \/ /\ ~allCompiled /\ count < PassLimit
          /\ count' = count + 1
          /\ position' = 1
          /\ allCompiled' = TRUE
          /\ UNCHANGED <<phase, cut>>
       \/ /\ ~allCompiled /\ count >= PassLimit
          /\ phase' = "failed"
          /\ cut' = TRUE
          /\ UNCHANGED <<position, count, allCompiled>>
    /\ errors' = (errors \/ (phase' = "done" /\ SeveralVersions))
    /\ UNCHANGED <<input, iliversion, ws, catalog, import, fcount, loaded, compiled, installed>>

Next ==
    \/ LoadRoot \/ RootsLoaded
    \/ SkipImport \/ ImportNext \/ NextFile \/ Undefined \/ RoundEnds
    \/ Attempt \/ PassEnds

Spec == Init /\ [][Next]_commandVars

\* The program runs until it returns.
FairSpec == Spec /\ WF_commandVars(Next)

-----------------------------------------------------------------------------
Succeeds == phase = "done" /\ ~errors
Library == LibraryRun(roots, ws)
Translates == \E u \in ToSet(catalog.files) : HeaderAt(ws, u).translationModels # << >>
DeclaredIn(uris) == UNION {ToSet(HeaderAt(ws, u).models) : u \in uris}

TypeOK ==
    /\ phase \in {"roots", "imports", "compile", "done", "failed", "undefined"}
    /\ ToSet(compiled) \subseteq ToSet(catalog.files)
    /\ count \in 0..PassLimit
    /\ errors \in BOOLEAN /\ installed \in BOOLEAN /\ cut \in BOOLEAN

OneVersion(uris) == \A u, v \in uris : HeaderAt(ws, u).iliVersion = HeaderAt(ws, v).iliVersion

\* The two front ends agree.  When the command line succeeds it has compiled
\* the files that the library compiles, all of one version, and the library
\* succeeds too, unless it has reported a model as missing that a file found
\* later declares: the library keeps that error; the command line looks again
\* and, without a repository manager, has logged nothing.
SucceedsLikeLibrary ==
    Succeeds /\ ~installed /\ ~Translates =>
        /\ ToSet(compiled) = ToSet(Library.closure)
        /\ OneVersion(ToSet(Library.closure))
        /\ \/ Library.success
           \/ /\ ~repository.manager
              /\ Library.missingModels # {}
              /\ Library.missingModels \subseteq DeclaredIn(ToSet(Library.closure))

\* Where the library succeeds the command line fails only by its limits, with
\* more files than passes or more than the limit of files, or because the
\* files are of several versions, which the library compiles.
FailsOnlyByLimits ==
    phase \in {"done", "failed"} /\ ~Succeeds /\ ~installed /\ Library.success =>
        \/ ~OneVersion(ToSet(Library.closure))
        \/ /\ cut
           /\ \/ Len(Library.closure) > PassLimit + 1
              \/ Len(Library.closure) > FileLimit

\* The program ends, also when files import each other.
ProgramEnds == <>(phase \in {"done", "failed", "undefined"})
=============================================================================
