------------------------- MODULE RepositoryResolver -------------------------
(***************************************************************************)
(* Resolving models with their dependencies: RepositoryManager::resolve and *)
(* resolveOne, and resolveWorkspace of repository-core, which throws at the *)
(* first failure and has limits.  The recursion of resolveOne is a stack of *)
(* frames; a step is a call, a return, or the loading of one file.          *)
(*                                                                         *)
(* indexes holds what the crawler finds, in the order it visits            *)
(* repositories.  A manager memoizes every index, so that the lookup of a   *)
(* model has one answer throughout: found.                                  *)
(* A file is named by its repository and its path in it.  A load may fail  *)
(* at any time, and delivers a body with any digest: its repository may     *)
(* have changed it.  A body has been compared with the MD5 of the entry     *)
(* (VerifiedAnswers of RepositoryResourceLoader, UnmarkedAnswersVerified of *)
(* RepositoryResources), but for a stale one of the JavaScript port.       *)
(***************************************************************************)
EXTENDS RepositoryVersion, Naturals

CONSTANTS
    IndexLists,     \* what the repositories may offer
    RequestLists,   \* the lists of models to resolve
    Languages,      \* the schema languages asked for, None: any
    Ports,          \* "native" and "js"
    UnsafePaths,    \* paths that validateRepositoryRelativePath refuses
    Digests,        \* the MD5s of the bodies that loads deliver
    MaxDepth,       \* js: maxDependencyDepth
    MaxModels       \* js: maxModelsResolved

\* Requests are lists of names; a repository offers a list of entries, each
\* with the list of its dependencies.
ASSUME ResolverAssumption ==
    /\ \A request \in RequestLists : request \in Seq(Range(request))
    /\ \A all \in IndexLists :
           /\ all \in Seq(Range(all))
           /\ \A index \in Range(all) :
                  /\ index \in Seq(Range(index))
                  /\ \A e \in Range(index) : e.dependencies \in Seq(Range(e.dependencies))

VARIABLES
    port, indexes, requested, language,     \* the call
    found,          \* found[n]: what findModel answers for model n
    phase,
    position,       \* in requested
    name,           \* the argument of resolveOne that is being called
    ok,             \* what the last resolveOne has returned
    frames,         \* the calls of resolveOne under way
    resolved,       \* state.resolvedModels
    models,         \* result.models, with the checksums of the bodies
    success,
    failed          \* history: files whose load has failed

question == <<port, indexes, requested, language, found>>
resolverVars == <<question, phase, position, name, ok, frames, resolved,
                  models, success, failed>>

\* findModel: the selection of the first repository that has one.
Lookup(all, n, lang) ==
    LET selection == [r \in DOMAIN all |-> SelectLatest(all[r], n, lang)]
        holders == {r \in DOMAIN all : selection[r] # 0}
    IN  IF holders = {} THEN None
        ELSE LET r == Min(holders)
             IN  [entry |-> all[r][selection[r]], repository |-> r]

Names(all) ==
    UNION {{e.name} \cup Range(e.dependencies) : e \in UNION {Range(index) : index \in Range(all)}}

Init ==
    /\ port \in Ports
    /\ indexes \in IndexLists
    /\ requested \in RequestLists
    /\ language \in Languages
    /\ found = [n \in Names(indexes) \cup Range(requested) |-> Lookup(indexes, n, language)]
    /\ phase = "requests"
    /\ position = 1
    /\ name = None
    /\ ok = TRUE
    /\ frames = <<>>
    /\ resolved = {}
    /\ models = <<>>
    /\ success = TRUE
    /\ failed = {}

-----------------------------------------------------------------------------
Metadata(n) == found[n].entry
File(n) == <<found[n].repository, Metadata(n).file>>

Builtin == "INTERLIS"
Stack == [i \in DOMAIN frames |-> frames[i].name]
Top == frames[Len(frames)]
Popped == SubSeq(frames, 1, Len(frames) - 1)
Emitted == {models[i].file : i \in DOMAIN models}

\* The call under way returns.  A failure of the JavaScript port is an
\* exception that nothing catches.
ReturnsWith(result, rest) ==
    IF port = "js" /\ ~result
    THEN /\ phase' = "done"
         /\ success' = FALSE
         /\ models' = <<>>
         /\ frames' = <<>>
         /\ UNCHANGED ok
    ELSE /\ phase' = "return"
         /\ ok' = result
         /\ frames' = rest
         /\ UNCHANGED <<success, models>>

-----------------------------------------------------------------------------
\* The loop over the requested models.
NextRequest ==
    /\ phase = "requests"
    /\ position <= Len(requested)
    /\ phase' = "call"
    /\ name' = requested[position]
    /\ UNCHANGED <<question, position, ok, frames, resolved, models, success, failed>>

Finish ==
    /\ phase = "requests"
    /\ position > Len(requested)
    /\ phase' = "done"
    /\ UNCHANGED <<question, position, name, ok, frames, resolved, models, success, failed>>

CallKnown ==
    /\ phase = "call"
    /\ name \in resolved \cup {Builtin}
    /\ ReturnsWith(TRUE, frames)
    /\ UNCHANGED <<question, position, name, resolved, failed>>

\* The depth limit of the JavaScript port comes before the test for cycles.
CallRefused ==
    /\ phase = "call"
    /\ name \notin resolved \cup {Builtin}
    /\ \/ port = "js" /\ Len(frames) >= MaxDepth
       \/ name \in Range(Stack)
       \/ found[name] = None
    /\ ReturnsWith(FALSE, frames)
    /\ UNCHANGED <<question, position, name, resolved, failed>>

CallFound ==
    /\ phase = "call"
    /\ name \notin resolved \cup {Builtin}
    /\ port = "js" => Len(frames) < MaxDepth
    /\ name \notin Range(Stack)
    /\ found[name] # None
    /\ frames' = Append(frames, [name |-> name, next |-> 1, ok |-> TRUE])
    /\ phase' = "run"
    /\ UNCHANGED <<question, position, name, ok, resolved, models, success, failed>>

NextDependency ==
    /\ phase = "run"
    /\ Top.next <= Len(Metadata(Top.name).dependencies)
    /\ name' = Metadata(Top.name).dependencies[Top.next]
    /\ phase' = "call"
    /\ UNCHANGED <<question, position, ok, frames, resolved, models, success, failed>>

\* A bug of a resolution that tries a failed dependency again.
Return_retries ==
    /\ phase = "return"
    /\ frames # <<>>
    /\ frames' = Append(Popped, [Top EXCEPT !.next = IF ok THEN @ + 1 ELSE @])
    /\ phase' = "run"
    /\ UNCHANGED <<question, position, name, ok, resolved, models, success, failed>>

\* A dependency has returned; the others are resolved also if it failed.
Return ==
    /\ phase = "return"
    /\ frames # <<>>
    /\ frames' = Append(Popped, [Top EXCEPT !.next = @ + 1, !.ok = ok /\ @])
    /\ phase' = "run"
    /\ UNCHANGED <<question, position, name, ok, resolved, models, success, failed>>

\* A bug of a resolution that stops at the first model that fails.
ReturnToRequest_stops ==
    /\ phase = "return"
    /\ frames = <<>>
    /\ position' = IF ok THEN position + 1 ELSE Len(requested) + 1
    /\ success' = (ok /\ success)
    /\ phase' = "requests"
    /\ UNCHANGED <<question, name, ok, frames, resolved, models, failed>>

ReturnToRequest ==
    /\ phase = "return"
    /\ frames = <<>>
    /\ position' = position + 1
    /\ success' = (ok /\ success)
    /\ phase' = "requests"
    /\ UNCHANGED <<question, name, ok, frames, resolved, models, failed>>

-----------------------------------------------------------------------------
\* A bug of a resolution that loads a model before its dependencies.
Ready_early == phase = "run" /\ Top.next > 0

\* All dependencies have returned: the second half of resolveOne.
Ready ==
    /\ phase = "run"
    /\ Top.next > Len(Metadata(Top.name).dependencies)

\* The check of a body against the MD5 of the entry (None: not given).
Fits(n, digest) == Metadata(n).md5 # None => digest = Metadata(n).md5

DependenciesFailed ==
    /\ Ready
    /\ \/ ~Top.ok
       \/ port = "js" /\ Len(models) >= MaxModels
       \/ Metadata(Top.name).file \in UnsafePaths
    /\ ReturnsWith(FALSE, Popped)
    /\ UNCHANGED <<question, position, name, resolved, failed>>

MayLoad ==
    /\ Ready
    /\ Top.ok
    /\ port = "js" => Len(models) < MaxModels
    /\ Metadata(Top.name).file \notin UnsafePaths

\* A body for the model on top is emitted.
Emit(digest, verified) ==
    /\ File(Top.name) \notin Emitted
    /\ models' = Append(models, [name |-> Top.name, file |-> File(Top.name),
                                digest |-> digest, verified |-> verified])
    /\ resolved' = resolved \cup {Top.name}
    /\ phase' = "return"
    /\ ok' = TRUE
    /\ frames' = Popped
    /\ UNCHANGED <<question, position, name, success, failed>>

\* The file is not in the result yet: load and emit it.
LoadFile ==
    /\ MayLoad
    /\ \E d \in Digests : Fits(Top.name, d) /\ Emit(d, TRUE)

\* After a failed download, the JavaScript port answers with an expired
\* cache entry that it does not compare with the MD5.
LoadStale ==
    /\ MayLoad
    /\ port = "js"
    /\ \E d \in Digests : Emit(d, FALSE)

LoadFails ==
    /\ MayLoad
    /\ File(Top.name) \notin Emitted
    /\ failed' = failed \cup {File(Top.name)}
    /\ ReturnsWith(FALSE, Popped)
    /\ UNCHANGED <<question, position, name, resolved>>

\* The bodies that the result holds of the file of n have the MD5 of n.
FitsEmitted(n) ==
    \A i \in DOMAIN models : models[i].file = File(n) => Fits(n, models[i].digest)

\* A bug of a resolution that trusts a file it has emitted.
FileKnown_unchecked ==
    /\ MayLoad
    /\ File(Top.name) \in Emitted
    /\ resolved' = resolved \cup {Top.name}
    /\ ReturnsWith(TRUE, Popped)
    /\ UNCHANGED <<question, position, name, failed>>

\* The file has been emitted for another model; its checksum must be the
\* one this entry names, too.
FileKnown ==
    /\ MayLoad
    /\ File(Top.name) \in Emitted
    /\ resolved' = IF FitsEmitted(Top.name) THEN resolved \cup {Top.name} ELSE resolved
    /\ ReturnsWith(FitsEmitted(Top.name), Popped)
    /\ UNCHANGED <<question, position, name, failed>>

Next ==
    \/ NextRequest \/ Finish
    \/ CallKnown \/ CallRefused \/ CallFound
    \/ NextDependency \/ Return \/ ReturnToRequest
    \/ DependenciesFailed \/ LoadFile \/ LoadStale \/ LoadFails \/ FileKnown

Spec == Init /\ [][Next]_resolverVars

\* A synchronous call, whose requests have timeouts (in JavaScript, awaits of
\* requests that are assumed to end): it keeps taking its steps.
FairSpec == Spec /\ WF_resolverVars(Next)

-----------------------------------------------------------------------------
Dependencies(n) == Range(Metadata(n).dependencies) \ {Builtin}

TypeOK ==
    /\ phase \in {"requests", "call", "run", "return", "done"}
    /\ position \in 1..Len(requested) + 1
    /\ ok \in BOOLEAN /\ success \in BOOLEAN
    /\ \A n \in resolved : found[n] # None

\* Every model that counts as resolved has its dependencies resolved, in
\* every state: one dependency that fails among others that do not fails
\* the model, in whatever order they come.  And its file is in the result,
\* with the checksum of that model's own entry, also if another model has
\* brought the file.  The one exception is a file that the JavaScript port
\* took unverified from its cache, and only for the model it was loaded for.
ResolvedIsSound ==
    \A n \in resolved :
        /\ Dependencies(n) \subseteq resolved
        /\ phase # "done" \/ success =>
               \E i \in DOMAIN models :
                   /\ models[i].file = File(n)
                   /\ \/ Fits(n, models[i].digest)
                      \/ port = "js" /\ ~models[i].verified /\ models[i].name = n

\* Each file is in the result once, and after the files of all models that
\* the model it was loaded for depends on.
DependenciesFirst ==
    \A i \in DOMAIN models :
        /\ \A j \in DOMAIN models : models[i].file = models[j].file => i = j
        /\ \A d \in Dependencies(models[i].name) :
               \E j \in 1..i - 1 : models[j].file = File(d)

\* The sets of models that are closed under dependencies and free of every
\* reason to fail: all are found, paths are safe, no load of their files has
\* failed, and what has been emitted of them has the checksum; and that can be put in an order in which
\* dependencies come first.
Sound(set) ==
    /\ \A n \in set :
           /\ found[n] # None
           /\ Metadata(n).file \notin UnsafePaths
           /\ FitsEmitted(n)
           /\ File(n) \notin failed
           /\ Dependencies(n) \subseteq set
    /\ \A part \in (SUBSET set) \ {{}} : \E n \in part : Dependencies(n) \cap part = {}

\* Success means that everything requested has been resolved; and a failure
\* stays with the models that need what failed: the native port resolves
\* every other requested model all the same.
OutcomeIsExact ==
    phase = "done" =>
        /\ success => Range(requested) \subseteq resolved \cup {Builtin}
        /\ port = "native" =>
               \A set \in SUBSET DOMAIN found :
                   Sound(set) => set \cap Range(requested) \subseteq resolved \cup {Builtin}

\* Every name that can come up has an answer, and an answer is an entry.
WellFormed ==
    /\ requested \in Seq(DOMAIN found)
    /\ \A n \in DOMAIN found : found[n] # None => Metadata(n).dependencies \in Seq(DOMAIN found)

\* The search answers every name that comes up, and a selected entry is the
\* end of the chain of versions that starts at the first root, in the first
\* language of the preference that has one.
SelectionIsLatest ==
    /\ WellFormed
    /\ \A i \in DOMAIN frames :
        LET e == Metadata(frames[i].name)
            index == indexes[found[frames[i].name].repository]
            candidates == Candidates(index, e.name, e.language)
        IN  /\ \E s \in candidates :
                   /\ index[s] = e
                   /\ DistinctVersions(index, candidates) => IsLatest(index, candidates, s)
            /\ IF language # None THEN e.language = language
               ELSE \A k \in DOMAIN Preference :
                        Preference[k] = e.language =>
                            \A j \in 1..k - 1 :
                                Roots(index, Candidates(index, e.name, Preference[j])) = {}

\* Resolution ends, also when models depend on each other in a cycle.
ResolutionEnds == <>(phase = "done")
=============================================================================
