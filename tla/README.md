# A TLA+ model of ilic

ilic compiles INTERLIS data models. The repository holds a native compiler in
C++ (`src/source`), a session library with incremental caches behind a C ABI,
the same library as WebAssembly with JavaScript packages around it
(`src/packages`), and a client for the web of INTERLIS model repositories in
both languages. This directory models the parts that keep state between calls
or are called concurrently, checks them with TLC and proves what it can with
TLAPS. Paths below are relative to the root of the repository; `PROJECT.json`
maps each definition to the lines it models.

Each module parses with `tlasany M.tla`; a run is
`tlc -workers 2 -config X.cfg M`; proofs are checked with `tlapm M.tla`.

## 1. The system

| Part | State it keeps | Operations | Interacts with | What makes it correct |
|---|---|---|---|---|
| `SourceManager` | buffers, identities (revision, generation, hash, length, version), tombstones, two counters | `update` (six outcomes), `remove` | called by the session | a revision names one byte string for ever; the version of an identity does not go back; the maps agree |
| `ParsedSourceCache` | LRU of parse artifacts, running byte total | `getOrBuild`, `invalidateUri`, `clear` | keyed by the store's identities | accounting exact; limits hold; evicts in LRU order and only for space |
| `RootAnalysisCache` | LRU of analyses with closure, identities, missing and resolved models | `findExact`, `insert`, `invalidateBySource`, `invalidateIf`, `clear` | filled by the orchestrator, invalidated by the coordinator | a hit equals a fresh analysis |
| `SourceModelIndex`, `SourceDependencyIndex` | records per URI and reverse edges | replace, remove | read by the invalidation rules | describe exactly the live contents |
| `CompilerSession` | all of the above under one mutex | update and remove a source, parse, editor snapshot, compile, analyze, clear caches | C ABI, native API | a warm session answers like a cold one |
| `CompilationRun`, `IliFileCatalog` | files loaded, models loaded and missing, files compiled | load roots, import rounds, compile passes | session sources, files on disk | deterministic function of the workspace |
| C ABI (`Capi.cpp`, registries) | session and result handles | create and destroy, calls that return a status or a result | any number of threads | sessions outlive running calls and do not leak; every call returns; a result stays valid until destroyed |
| `RepositoryCrawler` | visited set, two queues | `findModel`, `listModels` | index and site loading | terminates on any web; nothing skipped that the documents promise; documented order |
| `RepositoryGraphWalker` (JavaScript) | the same, with a visit limit | the same | repository catalog | the same rules as the native search |
| `RepositoryResourceLoader`, `RepositoryCache` | cache files with times and checksums | load, store | transport, other processes | no half-written or wrong file is served |
| `RepositoryManager::resolve` | downloaded dependencies | resolve | crawler, loader | a consistent set of files or a diagnostic |
| repository-core resources (JavaScript) | cache entries, memoized indexes | load, put, delete | transport, cache | an answer is a whole body, and verified unless marked stale; a failing cache never fails a load |
| `NodeFileCache` | content and metadata files | get, put, delete | other processes | the two files always match |
| compiler-wasm worker | the compiler, sessions by id | messages | its client, C ABI | answers as if it handled one message after the other; every message answered |
| Command line compiler | files and passes | compile | disk, repositories | every file after what it needs |
| Parsers, metamodel, checkers, generators | per compilation | sequential | | language semantics |

Calls go from the C ABI into a session; every public operation of a session
takes its mutex and runs to its end under it. An update goes store, parsed
cache, indexes, root cache; an analysis goes root cache, `CompilationRun`,
parsed cache, root cache. The repository client is a separate service whose
files the caller registers as sources. Within it, resolving a model asks the
crawler for the entry of the model and the resource loader for its file; the
loader shares its cache directory with other processes. The JavaScript packages
have the same parts with another cache, whose every file operation is an await
at which others may run.

What is hard to test:

- **Staleness.** Three layers of caches reuse work on the evidence of stamps
  made by another component; an error shows only after a particular history of
  updates, removals, reintroductions and analyses.
- **Interleavings.** Sessions are looked up under one mutex, used under
  another and destroyed by any thread; a few reads take neither.
- **Graphs given by others.** Repositories name each other as they like, with
  cycles and with the same repository in several roles.
- **Failure in the middle.** A download that is stored before it is checked, a
  publication of two files of which one rename fails, a process that ends
  between two steps, one dependency of several that cannot be loaded.
- **Two implementations.** The command line compiler repeats the library's
  loops with limits of its own; the JavaScript client repeats the native one.
- **Limits.** Cache budgets smaller than one compilation needs, entries larger
  than the budget, a visit limit, limits on files and passes.

`PROJECT.json` lists each hazard at its line under "hazards", with the
properties that cover it or the reason why none does yet.

## 2. Modules

| Module | Models | State and actions |
|---|---|---|
| `PartialMap` | `std::map` as a function on a finite domain | `Put`, `Drop` |
| `SourceManager` | `core/SourceManager.cpp` | the three maps and two counters; one action per outcome of `update`, two for `remove`. Bytes are elements of `Texts`; `Digest` stands for hash and length and may collide |
| `LruCache` | what both caches share | entries, recency order (`lastUsedTick`), running total; eviction |
| `ParsedSourceCache` | `core/incremental/ParsedSourceCache.cpp` | operations on a cache value |
| `ParsedCacheSpec` | the same cache under any client | request, invalidate, clear |
| `RootAnalysisCache` | `core/incremental/RootAnalysisCache.cpp`, `CompilationKeys.cpp` | operations on a cache value, `findExact` as the set of entries it may return |
| `SourceIndexes` | `SourceModelIndex.cpp`, `SourceDependencyIndex.cpp` | operations on index values |
| `IliFileCatalog` | `util/IliFile.cpp`, `CompilationSourceStore.cpp` | lookup by file and by model: session, path, directory search |
| `CompilationRun` | `core/CompilationRun.cpp` | a run as a function of request and workspace |
| `IncrementalSession` | `Compiler.cpp`, `CompilerSessionState.cpp`, `SourceUpdateCoordinator.cpp`, `SourceImpactAnalyzer.cpp`, `CompilationOrchestrator.cpp`, `SnapshotService.cpp` | composes the store, both caches and the indexes; one action per public operation; the compilation is a parameter |
| `SessionContract` | abstract specification of a session: documents and answers, no caches | edit, analyze, other |
| `RepositoryCrawler` | `repository/RepositoryCrawler.cpp` | the variables of the search; one action per loop iteration |
| `RepositoryGraphWalker` | `repository-graph-walker.js` | extends the crawler with the visit limit and its own steps; puts both ports side by side |
| `CapiCalls` | `abi/Capi.cpp`, `CapiRegistries.cpp` | registries, mutexes, where each thread is in its call; one action per step between two lock operations |
| `RepositoryResourceLoader` | `repository/RepositoryResourceLoader.cpp`, `RepositoryCache.cpp` | the cache file, temporary files, the server's body and where each process is in its call; one action per access to what processes share, crashes, time |
| `NodeFileCache` | class `NodeFileCache` of `packages/tools/node.js` | metadata file and content files of one entry, the operation of each client; one action per file operation, crashes, power loss |
| `RepositoryResources` | `resource-coordinator.js` | extends `NodeFileCache` with the load of each client; one action per stretch between two awaits |
| `RepositoryVersion` | `repository/RepositoryVersion.cpp`, `version-selector.js` | the selection as a recursive function, and a definition of the latest version it is compared with |
| `RepositoryResolver` | `resolve` and `resolveOne` of `repository/Repository.cpp`, `repository-manager-core.js` | the recursion as a stack of frames; one action per call, return and load; the port is a parameter of the call |
| `CommandLine` | `main` and `compile` of `main/ilic.cpp` | extends `CompilationRun`; one action per root, import, file tried and end of a loop |
| `CompilerWorker` | `compiler-wasm/worker.js`, `compiler-session.js` | messages, handlers that await their compiler, sessions by id and handle, answers; one action per delivery and per compiler that comes up or fails |
| `MC...` | instances for TLC | constants, and the hypotheses of theorems as assumptions that TLC evaluates |
| `...Proofs` | theorems about the module named; `ParsedCacheProofs` about `LruCache`, `ParsedSourceCache` and `ParsedCacheSpec`, `IncrementalSessionProofs` about `SourceManager` and `IncrementalSession`, `RepositoryCrawlerProofs` about both searches, `RepositoryResourcesProofs` about `NodeFileCache` too | |

Definitions whose name contains an underscore followed by a remark
(`Store_keepsTombstone`) are plausible bugs of the definition that follows;
substituted for it they must make the named property fail, which shows that
the property depends on that line of the code.

### Abstractions

- A text is known by its header: language version, declared and required
  models, and whether its contents compile. What the parser and the metamodel
  do with a text enters only through it.
- The closure, missing models, resolved models, compile order and success of a
  run are computed; diagnostics, logs, statistics and trace output are not
  represented, since nothing reads them to decide anything.
- An operation of a session is one step, as it holds the session's mutex from
  first to last line. `CapiCalls` models what lies around that mutex; there the
  data of a session is one URI being registered or not.
- Answers of the repository backend are fixed for one search, because
  `RepositoryManager` memoizes every index and site, failures included. A
  repository that cannot be loaded holds nothing or has no links.
- `listModels` takes the steps of a search for a model nobody holds.
- The body of a model file is known by its MD5; a wrong, a changed and a damaged
  file are other bodies. The metadata of `NodeFileCache`, which holds size and
  MD5 of the content, holds the body it was made for.
- `RepositoryResourceLoader` and `RepositoryResources` each follow one URI. The
  entries of different URIs share nothing but the directory.
- Loads of `RepositoryResolver` fail or deliver a body of any digest. One that was
  compared with the checksum of its entry fits it, which is what `VerifiedAnswers`
  and `UnmarkedAnswersVerified` say of the two loaders; a stale one of the
  JavaScript port is not compared (`LoadStale`). The answers of the crawler are
  fixed for a resolution, as indexes are memoized.
- A failing read of `NodeFileCache` is a miss, as its callers catch it (`GetFails`).
- The command line imports through a repository manager or has none. A manager
  knows what its repositories answer for each model; a model it does not know is
  an error each time it is asked for (`ILIC-REPO-NOT-FOUND`).
- In `CommandLine` iterating over a vector that has grown is one action,
  `Undefined`, with any continuation; the other actions describe the execution
  that goes on as if the vector had not been moved.
- The root cache's `findExact` returns the first reusable entry in the order of
  the key strings; the model allows any reusable entry.

## 3. Runs

| Run | Instance | Result |
|---|---|---|
| `parsed_cache` | two URIs, two revisions, texts of size 1, 2 and 5, at most 3 entries and 4 bytes, one digest collision | `ParsedBounded`, `EvictsOldestFirst`, `EvictsOnlyForSpace` hold |
| `session_caches` | three URIs, two of which may declare the model the third imports, and one that is refused; two texts with one digest; parsed cache of 2 entries and 3 bytes, root cache of 2 entries and 5 bytes; 4 revisions, 5 generations | `StampsUnique`, `RevisionPinsBytes`, `CachesBounded`, `ArtifactsCurrent`, `IndexesMirrorSources`, `HitsServeCurrentBytes`, `AddingNeverStales` hold |
| `session_answers` | three URIs, two of which may declare the same model; imports, an import cycle, a version mismatch, a broken text; 3 revisions, 4 generations | `WarmEqualsColdAsPromised` and the refinement `ImplementsContract` hold |
| `session_missing_root` | the same, all cached answers | `WarmEqualsCold` is violated |
| `repository_search` | every web of three repositories from the link lists of the MC module, every set of holders, the native search and the JavaScript one with visit limits 2 and 4 | `VisitsOnlyReachable`, `NearestFirst`, `NotFoundAfterAllReachable`, `TerminatesUnlessCyclic` hold |
| `capi_calls` | two threads, three sessions on two handles that come round again, three calls | `SessionsOutliveCalls`, `ResultsStayValid`, `CallsReturn` hold |
| `capi_unlocked` | two threads, one session, three calls | `SessionCallsSerialized` is violated |
| `resource_loader` | two processes, two bodies on the server, callers that want either of them, offline or not, and one without checksum; a cache file of now or of the future | `VerifiedAnswers`, `WrongFileNeverBlocks`, `FilesWhole`, `FreshMeansRecent`, `LoadsReturn` hold |
| `js_resources` | two clients, two generations, two renames of the metadata, one fault; an entry of the older format or none | `AnswersWereStored`, `ReplacementIsSeamless`, `UnmarkedAnswersVerified`, `CacheNeverFailsLoads` hold |
| `repository_resolve` | every graph of a family on three models (chains, diamonds, cycles, a missing model, two models in one file, a wrong checksum, an unsafe path), and every index of two or three entries of one model, with and without version, whose precursors fork, break or form a circle; both ports, any load failing or delivering a body that fits its checksum or, where it is not compared, does not | `ResolvedIsSound`, `DependenciesFirst`, `OutcomeIsExact`, `SelectionIsLatest`, `ResolutionEnds` hold |
| `command_line` | every workspace of a family of up to four files (chains, cycles, a file with two models, a translation, a broken file, an unsupported version, two supported ones, gaps), with and without directory search; no repository manager, one whose repositories have nothing, one whose repository has the missing model | `SucceedsLikeLibrary`, `FailsOnlyByLimits`, `ProgramEnds` hold |
| `worker` | five messages, two sources of which one is refused | `AnswersAreSequential`, `MessagesAnswered` hold |

What the newer properties mean:

- `EvictsOnlyForSpace`: what a request throws out, `EvictsOldestFirst` says in
  which order, is no more than needed to meet the limits, and an entry that is too
  large to stay throws out nothing.
- `WarmEqualsColdAsPromised`: what the root cache answers equals a fresh analysis,
  whatever happened in between. It speaks of analyses that found all their roots
  and whose required models have at most one declarer now (`Promised`); what the
  code does in the two other cases is in disagreements 1 and 3, and both occur in
  the instances.
- `NotFoundAfterAllReachable`: the rule of `docs/repositories.md:38-47` for both
  ports alike: a search that fails has visited the seeds, all that their parent
  links lead to, and all that subsidiary links lead to from there, past the
  repositories it had already visited in another role.
- `SessionsOutliveCalls`: references are counted, one for a handle and one for each
  running call; a session is freed exactly when none is left, however destroys,
  calls and reused handles interleave.
- `VerifiedAnswers`, `UnmarkedAnswersVerified`: a load that succeeds has the body its
  checksum asks for, on every path, whatever other processes did to the cache
  file between lookup and use. The native loader compares stale content too. The
  JavaScript one does not (disagreement 6): there the property speaks of answers not
  marked stale, of those of offline loads, and of loads that found their entry to be
  wrong, so that a body once refused never comes back as the stale one.
- `WrongFileNeverBlocks`, `CacheNeverFailsLoads`: a call that may use the
  network fails only through the network, never through what is in the cache or
  through a cache operation that fails.
- `FilesWhole`, `AnswersWereStored`, `ReplacementIsSeamless`: what readers see of
  a publication by one rename (native) and by two (JavaScript), with crashes.
- `FreshMeansRecent`: an answer not marked stale is older than the TTL only if
  the file was replaced between the two looks of `lookup()`.
- `ResolvedIsSound`, `DependenciesFirst`, `OutcomeIsExact`: the models that
  count as resolved are closed under dependencies and have their files, with
  their checksums, in an order in which they can be compiled; and a model fails
  only if something it needs has failed. The checksum is that of the model's own
  entry, also where another model has brought the file; the exception is the file
  that the JavaScript port took stale from its cache for that very model.
- `SucceedsLikeLibrary`, `FailsOnlyByLimits`: the command line and
  `CompilationRun`, on the same workspace, compile the same files and fail on
  the same inputs, but for the three exceptions the properties spell out: a model
  missed in one round and found in a later one, where there is no repository
  manager; the limits; files of several versions. All three occur in the instance.
- `AnswersAreSequential`: messages that overlap while the compiler is created
  each make one, whose handles coincide; the answers are still those of a
  worker with one compiler that handles the messages in the order sent.

### Bounds

- `MaxRevision` and `MaxGeneration` bound the counters of the store, hence the
  number of accepted updates and removals. Three contents are enough for a
  source, what it imports and a change of either; four for three sources and a
  change; the extra generations allow a removal and a return. The counters
  themselves are 64 bits wide and are not made to wrap.
- Cache limits lie below what one compilation needs, so that eviction happens
  within a run. `session_answers` and `session_missing_root` give the
  parsed cache no room: it cannot influence an answer (`ArtifactsCurrent`
  and the comparison of bytes in `IsHit` say why), and the states saved go into the sources.
- Three repositories contain a seed, a repository met in two roles, and a
  third that only one of the roles leads to. In webs of the JavaScript
  search a repository has at most `MaxLinks` = 1 link of each kind, because a
  search that never ends would otherwise grow its queues for ever; with one
  link per visit they keep their length.
- Two threads meet in every pair of steps. `SessionModulus` and `HandleModulus`
  stand for the 2^32 handles there are. With `SessionModulus` 2 and three sessions
  a new session takes the handle of an old one, which then lives on in its running
  calls only. `HandleModulus` is larger than the number of calls: the handles of
  results wrap too, and then overwrite a result that is still held
  (`CapiRegistries.cpp:32`), after 2^32 results in one process.
- `MaxTime` and `Ttl` are 1 in the loader: an entry is fresh, or it is out of
  date. Two processes meet in every pair of steps; a third adds no new pair.
- `MaxPuts` (generations) and `MaxAttempts` (64 in the code) are 2 in the
  JavaScript cache, enough for a replacement and for a rename that fails twice.
  `MaxFaults` is 1: one failing file operation, crash or power loss per
  behaviour, at any step. Clients are interchangeable, hence the symmetry; no
  liveness is checked in that run.
- `FileLimit` stands for 100 and `PassLimit` for 20; with 3 and 2 the workspaces
  of four files exceed both and those of three neither. `MaxDepth` and
  `MaxModels` of the JavaScript resolver are 2, below the three models of a chain.
- `MaxMessages` is 5 in the worker: two sessions of two compilers, a change of
  each and a question, or a failed start before less of that.
- Deadlock is checked in the cache and session runs, where some
  operation is always possible. A search that has returned and a thread that
  has made all its calls may stop, so the other runs do not check it;
  the liveness properties say that nothing stops too early.

### Fairness

- A search (`WalkSpec`) is a synchronous call, or a chain of awaits, that
  depends on nothing but answers of the backend, so that it keeps taking steps:
  weak fairness of the next-state relation. Requests of the native transport end
  by its timeouts (`RepositoryTransport.cpp:69-70`). The JavaScript transport sets
  none: that `fetch` settles is assumed, and a JavaScript search or resolution is
  shown to end only if its requests do.
- A thread inside a C ABI call is scheduled again and again: weak fairness of
  `Proceed(t)` for each thread. No fairness of `std::mutex` is assumed. With
  finitely many calls a waiting thread cannot be overtaken for ever; the code
  itself gives no bound on overtaking, and the model claims none.
- A resolution, a load of the native client and the command line compiler are
  synchronous, with requests bounded in the same way: weak fairness of their
  steps (for the loader of each process's steps, which a crash ends). The same
  assumption is made of the JavaScript resolution.
- The event loop of a worker delivers messages, and the promise of a compiler
  settles: weak fairness of `Receive` and, for each waiting message, of its
  compiler coming up or failing. Clients need not send anything.
- The store, caches and sessions are passive. Nothing must happen in them, and
  no fairness is stated.

### Disagreements between the code and what is said of it

1. **An unregistered root's failure is kept** (run `session_missing_root`). An
   analysis requested before its root is registered is cached with an empty
   closure and nothing missing. Registering the root matches neither of the
   invalidation rules of `SourceUpdateCoordinator.cpp:56-73`, and `findExact`
   has nothing to compare, so the failure is served from then on.
2. **Not every call is serialized** (run `capi_unlocked`). `ilic_format` uses a
   pointer into the sources without the session's mutex (`Capi.cpp:184`);
   `ilic_parse` and `ilic_editor_snapshot` read a version without it when they
   report an exception. `docs/funktionsumfang.md:107-108` and
   `docs/native-api.md:103-104` say that operations of a session are serialized.

The following were seen with TLC on instances that are not kept as runs; the
properties above are stated so that they hold, with the exception spelled out.

3. **A changed source does not displace a resolved import.** When new content
   declares a model that a cached analysis resolved elsewhere, a fresh analysis
   may choose the new declaration; only entries whose closure holds the changed
   source are invalidated (`SourceUpdateCoordinator.cpp:53`).
4. **`listModels` leaves out reachable repositories.** One that was visited as a
   parent is skipped as a subsidiary, and its subsidiaries are never queued
   (`RepositoryCrawler.cpp:163`); `docs/repositories.md:47` says that all are.
5. **The JavaScript `findModel` runs for ever on cyclic links** unless it finds
   the model: it queues the links of repositories it has visited before
   (`repository-graph-walker.js:75`). The native search and the JavaScript
   `listModels` do not. Hence `TerminatesUnlessCyclic`.
6. **A stale answer of the JavaScript client is not verified.** The entry that
   stands in for a failed download is returned without comparing its checksum
   (`resource-coordinator.js:193`), although `docs/repositories.md:123` says that stale
   content is checked too. The native loader
   compares it. `resolveWorkspace` emits such a body as the file of its model
   (`repository-manager-core.js:93-112`).
7. **An entry out of date may be taken for fresh** in the native cache, when
   another process publishes between reading content and modification time
   (`RepositoryCache.cpp:184` and `:189`).
8. **The front ends differ.** The library keeps the error of a model that it did
   not find in one round and found in a later one (`CompilationRun.cpp:142`). The
   command line looks again; without a repository manager it has logged nothing,
   while a manager, which is configured by default, has logged an error each time
   it was asked in vain (`ilic.cpp:871-876`, `Repository.cpp:207`). The command line
   refuses files of several versions ("multiple iliversions found.",
   `ilic.cpp:935-937` and `:965-967`), which the library compiles. It reports an
   "endless compile loop" for a chain of imports of more than 21 files found in
   the wrong order (`ilic.cpp:944`), compiles a translation before the model it
   translates, and goes on after `abort()`, which only logs.
9. **Order of a resolution.** `DependenciesFirst` holds for the model a file was
   loaded for. A file with a second model may come before that model's
   dependencies.

Not the subject of a run: an update with changed bytes and version 0 stores
version 0 in the buffer (`SourceManager.cpp:99`), and snapshots report the
buffer's version, though the comment at lines 48-49 says that version 0 "must never
downgrade an already known version". Of the identity, which keeps the known
version, this is proved (`IdentityVersionsAlwaysGrow`). `resolve` asks the loader for no file
(`Repository.cpp:239`), so the `localPath` of a resolved model is set only if
the cache has one, though `docs/repositories.md:115` says that it always names
a readable file. A model that fails is resolved anew on each path that leads
to it, which takes exponentially many steps on a ladder of diamonds;
`ResolutionEnds` says that they are finitely many.

## 4. Proofs

All theorems hold for every value of the constants under the named assumptions
of the modules, which TLC evaluates in the runs. They say that bounds are
numbers and marks such as `None` are no data (`SourceManagerAssumption`,
`ParsedSourceCacheAssumption`, `RootAnalysisCacheAssumption`,
`CrawlerAssumption`, `WalkerAssumption`, `CapiAssumption`, `LoaderAssumption`,
`CacheAssumption`, `EntriesAssumption`, `ResourcesAssumption`,
`WorkerAssumption`), that requests, indexes and dependencies of the resolver are
finite sequences (`ResolverAssumption`), and of the compilation of a session only
that it loads and parses registered sources, or the built-in model
(`IncrementalSessionAssumption`). Four theorems have a hypothesis of their own,
named below: fewer results than handles (`ResultsAlwaysValid`),
`CompilationIsLocal` (`WarmAlwaysCold`, `SessionImplementsContract`) and
`AdditionIsLocal` (`AddingNeverMakesStale`). The bounds on
counters appear as guards, and no proof uses that they are small.

**`ParsedCacheProofs`**, for all limits, sizes and clients. `Sound` relates the
three parts of a cache: the recency order lists each entry once, and the running
total is the sum of their sizes; `Bounded` adds the limits. Each operation
(`EraseSound`, `InsertSound`, `TouchSound`, `EvictSound`) keeps `Sound`, and a
request ends in an eviction, which restores the limits it may have broken
(`GetOrBuildBounded`). The sum and the removal from the recency order are folds;
what they compute is shown by induction, written as the search for a least
counterexample (`LeastNatural`, `IndexInduction`, `SmallestSubset`), since an
induction theorem with an operator as parameter cannot be used here. Theorems:
`ParsedAlwaysBounded`, and the action properties `AlwaysEvictsOldestFirst` and
`AlwaysEvictsOnlyForSpace`, which rest on what eviction is: it keeps a suffix of
the recency order, the longest one that meets the limits.

**`IncrementalSessionProofs`**, first about the source store. `StoreInv` is
`TypeOK /\ MapsAgree /\ StampsUnique`.
None of the three is inductive by itself: a return from removal keeps the maps
disjoint only because the tombstone goes, and the uniqueness of stamps needs
that the maps are disjoint and that no stamp is ahead of its counter. The step
proof goes over three shapes of steps (bytes stored, version raised, source
removed) to which the six outcomes of `update` and `remove` reduce. Theorems:
`TypeCorrect`, `MapsAlwaysAgree`, `StampsAlwaysUnique`, and the action
properties `RevisionsPinBytes` and `IdentityVersionsAlwaysGrow`.

Then about a whole session, for every compilation function. `SessionSteps` shows
that each session operation is a step of the store or leaves it alone, so the
store's invariant
carries over. `IndexesAlwaysMirrorSources` rests on lemmas about the reverse
edges: erasing a source's edges and adding new ones keeps each index exactly
the inverse of its forward map. `HitsAlwaysServeCurrentBytes` rests on
`PinnedInv`: each cached analysis names, for every closure source, a stamp
already issued, and wherever that stamp is still the live one the bytes are
those analysed. It is preserved because a revision pins its bytes (the theorem
about the store), so digests may collide; no rule of invalidation is needed
for it. `ArtifactsAlwaysCurrent` does need the rules: `ArtifactInv` holds because
every change of a source's bytes invalidates its artifacts in the same
operation, and because the artifacts that a compilation inserts, one after the
other, are keyed by identities that are live while it runs
(`EnsureAllParsedSteps`: the fold over the files to parse is a sequence of
single requests). `CachesAlwaysBounded` reuses `Bounded` for the parsed cache and
shows the same of the root cache (`RootBounded`).

Last, that answers from the cache are right, which is not true of every
compilation. The reuse of analyses relies on two facts about it, stated in
`IncrementalSession` as hypotheses and not taken for granted:

- `CompilationIsLocal`: a run that found its roots has the same outcome (closure,
  missing and resolved models, order, success) on any texts that agree with it on
  its closure, provided that no two sources declare a model that the closure
  requires (`Unambiguous`), and that it misses no model or there is no source
  outside the closure. Agreement and the last proviso are what `findExact` checks
  of an entry.
- `AdditionIsLocal`: a run that succeeds misses no model, and has the same outcome
  with one more usable source that declares only models it has not resolved. This is
  what lets an update under a new URI keep the successful analyses that have
  resolved none of the new models.

TLC evaluates both for `CompilationRun` on every set of documents a run may hold,
in all three session runs; in each of them two URIs may declare the same model.
Without `Unambiguous` locality would be false there: a source outside the closure
may be found first. Accordingly `WarmEqualsColdAsPromised` and the contract promise
nothing of an answer whose required models have two declarers, where the code may
indeed serve the old analysis.

`ReuseInv` adds to `PinnedInv` that every cached analysis is the outcome of a run
on some texts the session could have held (`Computed`). Pinning turns a reusable
entry's stamps into agreement of those texts with the present ones on the
closure, and locality turns that agreement into equal outcomes:
`WarmAlwaysCold`. As the closures agree, `Promised` says of the present sources
what `Unambiguous` asks for. `SessionImplementsContract` is the refinement of
`SessionContract`: initial states map to initial states, each operation changes at
most one document (`TextSteps`), and an analysis answers from a hit, which is cold
by the above where the contract promises it, or by compiling. For `AddingNeverMakesStale`, a new URI has a new
stamp and so is in no closure; an entry that outlives the update has resolved none
of its models; so it was reusable before, and was stale before if it is now.

**`RepositoryCrawlerProofs`**, for every web of repositories, finite or not,
and every seed list. `CrawlTypeCorrect`; `OnlyReachableVisited` by `ReachInv`
(also the queues lie within every set closed under the documented links);
`NearestAlwaysFirst` by `SearchInv`, which says for each phase what has been
searched in vain and that every parent of a visited repository is visited or
queued; `NotFoundOnlyAfterAll`, of the native search and of `listModels`, by
`BelowInv`, which adds that some part of the visited repositories (`WentBelow`) has
its subsidiaries in it or queued. For both ports side by side, with every
visit limit, `WalkInv` adds what the JavaScript search keeps (`WalkerInv`):
as long as nothing is found and the limit is not met, every parent of a visited
repository is visited or queued, and some part of the visited repositories
holds the seeds and has its subsidiaries in it or queued. It speaks of a part,
since what is visited as a parent need not have its subsidiaries
searched. Theorems: `WalksOnlyReachable`, `WalksNearestFirst`,
`WalksBeforeNotFound`, which is about both ports.

**`CapiCallsProofs`**, for any number of threads, sessions and calls.
`CapiTypeCorrect`; `SessionsAlwaysOutliveCalls` by an invariant that says what the
count of a session counts, namely its handles in the registry and the threads that
hold it, and that it is freed when that number is zero; the steps that take and
return references then add or remove one element of a finite set;
`ResultsAlwaysValid` by
`ResultsInv` (the results stored and the threads in a call are not more than the
calls begun, so every handle held is below the counter), under the hypothesis
`MaxCalls + 1 < HandleModulus`.
Without it the theorem is false: handles wrap, as said under Bounds.

**`RepositoryResourceLoaderProofs`**, for any number of processes, bodies,
requests and any TTL, with crashes at any step. `LoaderInv` says of each place
a call can be in what it has in hand there: a body that matches or, if it came
from the server, a recorded fault; an out-of-date one only after a replacement;
and a temporary file that is whole before the step that renames it. What processes
share is the published file, of which the invariant says only that it is
whole, so that the steps of one process keep what holds of another. Theorems:
`AnswersAlwaysVerified`, `WrongFilesNeverBlock`, `FilesAlwaysWhole`,
`FreshAlwaysRecent`.

**`RepositoryResourcesProofs`**, for any number of clients, generations, rename
attempts and faults. The parts of `ResourcesInv`: what the metadata says was
published, and so was what a reader has in hand (`EntriesPublished`); a generation
belongs to its put alone until the metadata names it, so that no other put writes
to it and no reader goes for it (`FilesOwned`); and the content a reader goes for is
there unless there was a moment in its get at which no complete entry was, or a
delete was under way (`ReadersSeamless`). For a load the invariant says what it has in hand at
each await and which of its failures came from the transport. Theorems: `TypesCorrect`,
`CacheAnswersWereStored`, `CacheReplacementIsSeamless`, `UnmarkedAnswersAlwaysVerified`,
`LoadsSurviveTheCache`.

**`RepositoryResolverProofs`**, for every web of models, every request and both
ports, whichever loads fail and whatever bodies the others deliver. `ResolverInv` is about the stack: a frame that has
not failed has its earlier dependencies resolved, and waits for the model that
the frame above it resolves; so what a call returns is what its caller waits
for. `ResolvedIsSound` alone is not inductive, since nothing in it says why the
dependencies of the model being finished are resolved. Of each resolved model
it says that its file is in the result with a body that fits, or a stale one in the
JavaScript port (`Delivered`), which stays so because the list only grows. For `OutcomeIsExact`,
`OutcomeInv` says that the requests behind the present one are resolved unless
success is lost, and makes a promise of every set of models in which nothing
failed and which has no cycle (`Sound`): the native port's frames for its models
have not failed, and call only for other models of the set. Theorems:
`ResolvedAlwaysSound`, `DependenciesAlwaysFirst`, `OutcomeAlwaysExact` and
`SelectionAlwaysLatest`.

The last is about the walk from the first root of an index to the version that
nothing succeeds. The walk is a recursive function of the entries not yet passed,
so it has to be shown first that such a function exists (`FollowExists`,
built up from smaller sets of open entries), and that it then
follows its equation (`FollowRuns`). That it ends with a candidate and, where no
two candidates have the same version, with the latest (`FollowSelects`) is shown
by induction on the open entries, written as the choice of a smallest
counterexample, with a chain from the first root to the present entry as witness;
that versions are distinct is what makes the successors still open all the
successors there are. `LookupSelects` carries it to the search over repositories.
It also yields that every answer of the search is an entry or nothing
(`WellFormed`), so that the three other theorems hold of every initial state
without a hypothesis.

**`CompilerWorkerProofs`**, for any number of messages. `WorkerInv` says who has been
answered, that no message of a session waits for a compiler, which sessions are
there, that two of them never share a native session, whichever compilers made
them (`TargetsApart`; the handles of two compilers coincide), and that the source of
each is what the messages up to now have made of it (`SourcesLatest`), which is what
the reference `SequentialAnswer` computes. Theorems: `WorkerTypesCorrect`,
`WorkerAnswersSequential`.

**What the proofs changed in the model.** Five statements were not what was
meant and were corrected: `IsLatest` counted roots as successors of an
entry without a version, which the code never visits again; `OutcomeIsExact` did not except the
built-in model, which is never among the resolved; the non-empty subsets
in its `Sound` were parsed as something else; two cases of `SequentialAnswer`
overlapped; and the constants of `NodeFileCache` and `CompilerWorker` allowed a
mark to be an entry or a source. `Without` became a fold and `Follow` a recursive function of one argument, which
the provers can expand.

**Only model-checked.** Liveness (`TerminatesUnlessCyclic`, `CallsReturn`,
`LoadsReturn`, `ResolutionEnds`, `ProgramEnds`, `MessagesAnswered`) is beyond
TLAPS. `SucceedsLikeLibrary` and `FailsOnlyByLimits` compare two whole
computations, the passes of the command line and the rounds of `CompilationRun`,
both of which select from sequences (`SelectSeq`, opaque to the provers) and recur
over them; what such a recursion computes for every input cannot be proved here.
For the same reason `CompilationIsLocal` and `AdditionIsLocal` are evaluated by TLC
on the documents of the runs and are hypotheses of the theorems.

## 5. Not modelled

Of the roughly 98,000 lines of the repository the modules stand for about
2,100, not counting blank lines, braces and comments: the parts in which order, sharing, failure or history decide. The
rest is

- generated parsers (a third of all lines) and the vendored ANTLR runtime;
- the visitors, the metamodel, the semantic checkers and the output generators:
  sequential functions of one text, tens of thousands of lines whose
  correctness is that of the INTERLIS language. A model of them would repeat
  them line by line, and no interleaving, failure or history adds to what a
  test of the same input shows. What other parts use of them, the header of a
  text and whether it compiles, is in `CompilationRun`;
- semantic snapshots, the formatter and the editor's projection, which are
  functions of a parse tree; JSON, wording of diagnostics, logging, statistics
  and trace output.

Of the parts that are modelled, these are left out:

- `RepositoryCatalog`: the promises it shares between callers. Nothing in the
  repository calls its `invalidate` and `clearMemoryState`; a program that did
  so during a load would get the older answer stored again afterwards
  (`repository-catalog.js:18`).
- The diagnostics pipeline (`DiagnosticPipeline.cpp`), which collects and sorts.
- `RepositoryWorkspaceInstaller`, a second way to register what has been
  resolved; the command line's way is in `CommandLine`.
- Argument parsing, outputs and the checks of translations after compiling; models
  requested by name on the command line, which are resolved before its files are
  looked at.
- Local repositories in `RepositoryResourceLoader`: they are read in place.
- Files on disk in a session: `CompilationRun` and `IliFileCatalog` describe
  them, but the session's instance runs with `autoSearch` off, as a file that
  changes on disk has no identity in the session.

## 6. Plan

What is left, the most consequential first:

1. `CompilationIsLocal` and `AdditionIsLocal` for `CompilationRun` itself, with each
   model declared under one URI. This needs an induction over the rounds of
   `load` and the passes of the ordering, and lemmas about `SelectSeq`.
2. The command line's loops in the same way, towards `SucceedsLikeLibrary`.
3. The catalog's shared promises and the diagnostics pipeline as modules.
