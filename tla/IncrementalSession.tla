------------------------- MODULE IncrementalSession -------------------------
(***************************************************************************)
(* A CompilerSession (source/core/Compiler.cpp and the services it calls   *)
(* under its mutex): the source store, the parsed source cache, the root   *)
(* analysis cache and the two source indexes, with one action per public   *)
(* operation.  Every operation holds the session mutex from its first to   *)
(* its last line, so each is one step, whatever thread calls it.           *)
(*                                                                         *)
(* The compilation itself is a parameter: Compile(request, texts) is the   *)
(* outcome of CompilationRun on the texts registered in the session, see   *)
(* module CompilationRun.  Counters of IncrementalStats and the text of    *)
(* IncrementalTrace are observations only and are left out.                *)
(***************************************************************************)
EXTENDS SourceManager, ParsedSourceCache, RootAnalysisCache, SourceIndexes

CONSTANTS
    Documents,      \* the <<URI, text>> pairs clients may submit
    Requests,       \* compilation requests: non-empty sequences of root URIs
    Header,         \* Header[text] = [iliVersion, models, requiredModels, usable]
    Builtin,        \* the URI and ...
    BuiltinText,    \* ... the text of the predefined INTERLIS model
    Compile(_, _)   \* Compile(request, texts) = [closure, parses, missingModels,
                    \*    resolvedModels, ordered, success]

ASSUME IncrementalSessionAssumption ==
    /\ Documents \subseteq Uris \X Texts
    /\ Texts \subseteq DOMAIN Header
    /\ Texts \cup {BuiltinText} \subseteq DOMAIN ArtifactSize
    /\ Builtin \notin Uris
    /\ \A request \in Requests, uris \in SUBSET Uris : \A texts \in [uris -> Texts] :
           /\ Compile(request, texts).closure \in Seq(uris)
           /\ Compile(request, texts).parses \in Seq(uris \cup {Builtin})

VARIABLES
    parsedCache,
    rootCache,
    modelIndex,
    dependencyIndex,
    answer          \* what the last operation returned, if it was an analysis

cacheState == <<parsedCache, rootCache, modelIndex, dependencyIndex>>

vars == <<sourceVars, cacheState, answer>>

NoAnswer == [request |-> << >>]

SessionInit ==
    /\ Init
    /\ parsedCache = EmptyCache
    /\ rootCache = EmptyCache
    /\ modelIndex = EmptyModelIndex
    /\ dependencyIndex = EmptyDependencyIndex
    /\ answer = NoAnswer

-----------------------------------------------------------------------------
(* CompilerSessionState::ensureParsed.                                     *)

EnsureParsed(cache, uri, text, identity, mode) ==
    GetOrBuild(cache, ParsedSourceKey(uri, identity.contentRevision, identity.digest, mode),
               text)

\* The built-in model has no identity in the session: revision 0.
EnsureBuiltin(cache) ==
    GetOrBuild(cache, ParsedSourceKey(Builtin, 0, BuiltinText, "StrictCompiler"), BuiltinText)

\* The artifacts a run asks for, one after the other.
EnsureAllParsed(cache, uris) ==
    FoldLeft(LAMBDA c, u : IF u \in DOMAIN sources
                           THEN EnsureParsed(c, u, sources[u].text, identities[u],
                                             "StrictCompiler")
                           ELSE EnsureBuiltin(c),
             cache, uris)

-----------------------------------------------------------------------------
(* SourceUpdateCoordinator::update and remove.                             *)

\* Lines 39-48: parse strictly, refresh both indexes.
Reindex(uri, text, cache) ==
    LET record == ModelRecord(Header[text], ContentStamp(identities'[uri]))
    IN  /\ parsedCache' = EnsureParsed(cache, uri, text, identities'[uri], "StrictCompiler")
        /\ modelIndex' = ReplaceRecord(modelIndex, uri, record)
        /\ dependencyIndex' =
               ReplaceDependencies(dependencyIndex, uri, record.requiredModels)

\* Mutant of InvalidatedByAdding: models already resolved are not considered.
InvalidatedByAdding_missingOnly(entry, record) ==
    record.declaredModels \cap entry.missingModels # {}

\* Lines 57-73.
InvalidatedByAdding(entry, record) ==
    \/ ~record.syntacticallyUsable
    \/ record.declaredModels = {}
    \/ record.declaredModels \cap (entry.missingModels \cup entry.resolvedModels) # {}

UpdateKept(uri, text, version) ==
    /\ \/ Rejected(uri, text, version)
       \/ Unchanged(uri, text, version)
       \/ VersionOnly(uri, text, version)
    /\ UNCHANGED cacheState

UpdateAdded(uri, text, version) ==
    /\ Added(uri, text, version)
    /\ Reindex(uri, text, parsedCache)
    /\ rootCache' = InvalidateIf(rootCache,
           {k \in DOMAIN rootCache.entries :
               InvalidatedByAdding(rootCache.entries[k], modelIndex'.records[uri])})

\* Mutant of UpdateChanged: parsedCache.invalidateUri is forgotten.
UpdateChanged_keepsParsed(uri, text, version) ==
    /\ ContentChanged(uri, text, version) \/ Reintroduced(uri, text, version)
    /\ Reindex(uri, text, parsedCache)
    /\ rootCache' = InvalidateBySource(rootCache, uri)

UpdateChanged(uri, text, version) ==
    /\ ContentChanged(uri, text, version) \/ Reintroduced(uri, text, version)
    /\ Reindex(uri, text, InvalidateUri(parsedCache, uri))
    /\ rootCache' = InvalidateBySource(rootCache, uri)

UpdateSource(uri, text, version) ==
    /\ \/ UpdateKept(uri, text, version)
       \/ UpdateAdded(uri, text, version)
       \/ UpdateChanged(uri, text, version)
    /\ answer' = NoAnswer

RemoveSource(uri) ==
    /\ \/ /\ Removed(uri)
          /\ parsedCache' = InvalidateUri(parsedCache, uri)
          /\ modelIndex' = RemoveRecord(modelIndex, uri)
          /\ dependencyIndex' = RemoveDependencies(dependencyIndex, uri)
          /\ rootCache' = InvalidateIf(rootCache, DOMAIN rootCache.entries)
       \/ RemoveAbsent(uri) /\ UNCHANGED cacheState
    /\ answer' = NoAnswer

-----------------------------------------------------------------------------
(* SnapshotService::parse and editor; a URI that is not in the session is  *)
(* answered without touching the cache.                                    *)

Snapshot(uri, mode) ==
    /\ parsedCache' =
           IF uri \in DOMAIN sources
           THEN EnsureParsed(parsedCache, uri, sources[uri].text, identities[uri], mode)
           ELSE parsedCache
    /\ answer' = NoAnswer
    /\ UNCHANGED <<sourceVars, rootCache, modelIndex, dependencyIndex>>

Parse(uri) == Snapshot(uri, "StrictCompiler")

EditorSnapshot(uri) == Snapshot(uri, "TolerantEditor")

-----------------------------------------------------------------------------
(* CompilationOrchestrator.                                                *)

\* What an analysis returns: the outcome of the run with, for each closure
\* source, the bytes analysed and the document version shown.
Analysis(request, run, buffers) ==
    [request        |-> request,
     texts          |-> [u \in ToSet(run.closure) |-> buffers[u].text],
     versions       |-> [u \in ToSet(run.closure) |-> buffers[u].version],
     missingModels  |-> run.missingModels,
     resolvedModels |-> run.resolvedModels,
     ordered        |-> run.ordered,
     success        |-> run.success]

TextsOf(buffers) == [u \in DOMAIN buffers |-> buffers[u].text]

\* The analysis a session without any cache would make of these sources.
ColdAnalysis(request, buffers) ==
    Analysis(request, Compile(request, TextsOf(buffers)), buffers)

\* Mutant of Refreshed: a hit returns the versions it was cached with.
Refreshed_asCached(result, buffers) == result

\* Lines 26-30: a hit shows the versions the documents have now.
Refreshed(result, buffers) ==
    [result EXCEPT !.versions =
        [u \in DOMAIN @ |-> IF u \in DOMAIN buffers THEN buffers[u].version ELSE @[u]]]

AnalyzeHit(request) ==
    \E key \in ExactMatches(rootCache, request, identities) :
        /\ rootCache' = Touch(rootCache, key)
        /\ answer' = Refreshed(rootCache.entries[key].result, sources)
        /\ UNCHANGED <<sourceVars, parsedCache, modelIndex, dependencyIndex>>

AnalyzeMiss(request) ==
    /\ ExactMatches(rootCache, request, identities) = {}
    /\ LET run    == Compile(request, TextsOf(sources))
           result == Analysis(request, run, sources)
           stamps == [u \in ToSet(run.closure) |-> ContentStamp(identities[u])]
       IN  /\ parsedCache' = EnsureAllParsed(parsedCache, run.parses \o run.closure)
           /\ rootCache' = InsertRoot(rootCache, RootKey(request, run.closure, stamps),
                                      RootEntry(request, run.closure, stamps, result))
           /\ answer' = result
    /\ UNCHANGED <<sourceVars, modelIndex, dependencyIndex>>

\* CompilerSession::analyze and compileAndAnalyze.
CompileAndAnalyze(request) == AnalyzeHit(request) \/ AnalyzeMiss(request)

\* CompilerSession::compile uses the parsed source cache only.
CompileOnly(request) ==
    /\ parsedCache' = EnsureAllParsed(parsedCache, Compile(request, TextsOf(sources)).parses)
    /\ answer' = NoAnswer
    /\ UNCHANGED <<sourceVars, rootCache, modelIndex, dependencyIndex>>

ClearIncrementalCaches ==
    /\ parsedCache' = EmptyCache
    /\ rootCache' = EmptyCache
    /\ answer' = NoAnswer
    /\ UNCHANGED <<sourceVars, modelIndex, dependencyIndex>>

SessionNext ==
    \/ \E doc \in Documents, version \in Versions : UpdateSource(doc[1], doc[2], version)
    \/ \E uri \in Uris :
          \/ RemoveSource(uri)
          \/ Parse(uri)
          \/ EditorSnapshot(uri)
    \/ \E request \in Requests : CompileAndAnalyze(request) \/ CompileOnly(request)
    \/ ClearIncrementalCaches

SessionSpec == SessionInit /\ [][SessionNext]_vars

-----------------------------------------------------------------------------
(* What the reuse of analyses assumes of the compilation.                  *)

\* The texts a session may hold.
Registrable ==
    {texts \in UNION {[uris -> Texts] : uris \in SUBSET Uris} :
        \A u \in DOMAIN texts : <<u, texts[u]>> \in Documents}

\* Two runs that differ at most in the order of their files and in what they
\* have parsed on the way.
SameOutcome(run, other) ==
    /\ ToSet(run.closure) = ToSet(other.closure)
    /\ run.missingModels = other.missingModels
    /\ run.resolvedModels = other.resolvedModels
    /\ run.ordered = other.ordered
    /\ run.success = other.success

\* The models that sources with these texts require.
RequiredBy(texts) == UNION {Elements(Header[texts[u]].requiredModels) : u \in DOMAIN texts}

\* No two sources declare the same one of these models.
Unambiguous(models, texts) ==
    \A model \in models : \A u, v \in DOMAIN texts :
        model \in Elements(Header[texts[u]].models) \cap Elements(Header[texts[v]].models) => u = v

\* The outcome of a run that found its roots depends on the texts of its
\* closure only, where no other source declares a model that these require;
\* with missing models, also on there being no other source.
CompilationIsLocal ==
    \A request \in Requests, texts, others \in Registrable :
        LET run     == Compile(request, texts)
            closure == ToSet(run.closure)
        IN  /\ ToSet(request) \subseteq closure
            /\ \A u \in closure : u \in DOMAIN others /\ others[u] = texts[u]
            /\ Unambiguous(RequiredBy([u \in closure |-> texts[u]]), others)
            /\ run.missingModels = {} \/ closure = DOMAIN others
            => SameOutcome(run, Compile(request, others))

\* A run that succeeds misses no model, and has the same outcome with one
\* more source that is usable and declares only models it has not resolved.
AdditionIsLocal ==
    \A request \in Requests, texts \in Registrable :
        LET run == Compile(request, texts)
        IN  run.success =>
                /\ run.missingModels = {}
                /\ \A doc \in Documents :
                       /\ doc[1] \notin DOMAIN texts
                       /\ Header[doc[2]].usable
                       /\ Elements(Header[doc[2]].models) # {}
                       /\ Elements(Header[doc[2]].models) \cap run.resolvedModels = {}
                       => SameOutcome(run, Compile(request, Put(texts, doc[1], doc[2])))

-----------------------------------------------------------------------------
(* Properties.                                                             *)

\* checkInvariants of both caches and the limits of IncrementalCacheOptions
\* hold between any two session operations, also after a compilation that
\* needs more artifacts than the cache may hold.
CachesBounded ==
    /\ Accounted(parsedCache) /\ Accounted(rootCache)
    /\ WithinBudget(parsedCache, MaxParsedEntries, MaxParsedBytes)
    /\ WithinBudget(rootCache, MaxRootEntries, MaxRootBytes)

\* No artifact outlives the revision it was parsed from: what the parsed source
\* cache retains belongs to the present content of a source in the session, or
\* to the built-in model.
ArtifactsCurrent ==
    \A key \in DOMAIN parsedCache.entries :
        \/ key.uri = Builtin
        \/ /\ key.uri \in DOMAIN sources
           /\ <<key.contentRevision, key.digest>> = ContentStamp(identities[key.uri])
           /\ parsedCache.entries[key].bytes = sources[key.uri].text

\* Both indexes describe exactly the present content of the sources in the
\* session, after any history of updates, removals and reintroductions.
IndexesMirrorSources ==
    /\ modelIndex.records =
          [u \in DOMAIN sources |->
              ModelRecord(Header[sources[u].text], ContentStamp(identities[u]))]
    /\ dependencyIndex.requiredByUri = Required(modelIndex)
    /\ IndexesExact(modelIndex, dependencyIndex)

\* A cached analysis that findExact accepts was made from the bytes its closure
\* has now: no hit ever mixes in an earlier content of a closure source.
HitsServeCurrentBytes ==
    \A request \in Requests :
        \A key \in ExactMatches(rootCache, request, identities) :
            LET result == rootCache.entries[key].result
            IN  \A u \in DOMAIN result.texts :
                    u \in DOMAIN sources /\ result.texts[u] = sources[u].text

\* A warm session answers like a cold one: whatever findExact would return for
\* a request is the analysis of the present sources.
WarmEqualsCold ==
    \A request \in Requests :
        \A key \in ExactMatches(rootCache, request, identities) :
            Refreshed(rootCache.entries[key].result, sources) = ColdAnalysis(request, sources)

\* What an analysis must meet to be the present one: it found all its roots,
\* and each model its sources require is declared by one source at most.
Promised(result, request, buffers) ==
    /\ ToSet(request) \subseteq DOMAIN result.texts
    /\ Unambiguous(RequiredBy(result.texts), TextsOf(buffers))

\* The same for the cached analyses that found all their roots, as long as no
\* two sources declare a model that their sources require.
WarmEqualsColdAsPromised ==
    \A request \in Requests :
        \A key \in ExactMatches(rootCache, request, identities) :
            LET result == rootCache.entries[key].result
            IN  Promised(result, request, sources) =>
                    Refreshed(result, sources) = ColdAnalysis(request, sources)

\* The successful analyses that findExact would return although an analysis of
\* the present sources differs.
StaleSuccesses(cache, ids, buffers) ==
    {key \in DOMAIN cache.entries :
        LET entry == cache.entries[key]
        IN  /\ entry.result.success
            /\ Reusable(entry, entry.request, ids)
            /\ Refreshed(entry.result, buffers) # ColdAnalysis(entry.request, buffers)}

\* Registering a source under a new URI never turns a successful reusable
\* analysis stale, even if it declares a model that was resolved elsewhere.
AddingNeverStales ==
    [][(\E u \in DOMAIN identities' : u \notin Stamped)
           => StaleSuccesses(rootCache', identities', sources')
                 \subseteq StaleSuccesses(rootCache, identities, sources)]_vars

\* The session implements the contract of module SessionContract.
Contract == INSTANCE SessionContract WITH buffers <- sources

ImplementsContract == Contract!Spec
=============================================================================
