------------------------- MODULE RootAnalysisCache -------------------------
(***************************************************************************)
(* source/core/incremental/RootAnalysisCache.cpp as operations on a cache  *)
(* value.  An entry remembers the analysis of one request and what it was  *)
(* computed from: the closure (the URIs of all files the run loaded as     *)
(* input), the identity each had, the models it resolved and missed.       *)
(***************************************************************************)
EXTENDS LruCache

CONSTANTS
    MaxRootEntries,     \* RootAnalysisCacheOptions::maxEntries
    MaxRootBytes        \* RootAnalysisCacheOptions::maxRetainedBytes

ASSUME RootAnalysisCacheAssumption ==
    MaxRootEntries \in Nat /\ MaxRootBytes \in Nat

\* The part of a SourceIdentity that findExact and rootKey compare.
ContentStamp(identity) == <<identity.contentRevision, identity.digest>>

\* The memory estimate grows with the closure.
RootEntrySize(closure) == 1 + Len(closure)

\* rootKey: the request key, then URI and stamp of each closure source.
RootKey(request, closure, stamps) ==
    <<request, [i \in DOMAIN closure |-> <<closure[i], stamps[closure[i]]>>]>>

\* Mutant of RootEntry: only the roots are remembered as the closure.
RootEntry_rootsOnly(request, closure, stamps, result) ==
    [request        |-> request,
     closure        |-> ToSet(request) \cap ToSet(closure),
     stamps         |-> stamps,
     missingModels  |-> result.missingModels,
     resolvedModels |-> result.resolvedModels,
     result         |-> result,
     size           |-> RootEntrySize(closure)]

RootEntry(request, closure, stamps, result) ==
    [request        |-> request,
     closure        |-> ToSet(closure),
     stamps         |-> stamps,
     missingModels  |-> result.missingModels,
     resolvedModels |-> result.resolvedModels,
     result         |-> result,
     size           |-> RootEntrySize(closure)]

\* Mutant of Reusable: the guard for entries with missing models is dropped.
Reusable_ignoresMissing(entry, request, identities) ==
    /\ entry.request = request
    /\ \A u \in entry.closure :
           /\ u \in DOMAIN identities
           /\ ContentStamp(identities[u]) = entry.stamps[u]

\* The test findExact makes of one entry (lines 18-31).
Reusable(entry, request, identities) ==
    /\ entry.request = request
    /\ entry.missingModels = {} \/ Cardinality(entry.closure) = Cardinality(DOMAIN identities)
    /\ \A u \in entry.closure :
           /\ u \in DOMAIN identities
           /\ ContentStamp(identities[u]) = entry.stamps[u]

\* The keys of the entries findExact may return; it takes the first in the
\* order of the key strings.
ExactMatches(cache, request, identities) ==
    {k \in DOMAIN cache.entries : Reusable(cache.entries[k], request, identities)}

InsertRoot(cache, key, entry) ==
    EvictUntilWithinBudget(Insert(Erase(cache, {key}), key, entry),
                           MaxRootEntries, MaxRootBytes)

\* invalidateIf, given the keys of the entries that satisfy the predicate.
InvalidateIf(cache, affected) == Erase(cache, affected)

InvalidateBySource(cache, uri) ==
    InvalidateIf(cache, {k \in DOMAIN cache.entries : uri \in cache.entries[k].closure})
=============================================================================
