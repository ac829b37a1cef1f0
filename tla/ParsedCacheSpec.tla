-------------------------- MODULE ParsedCacheSpec --------------------------
(***************************************************************************)
(* The parsed source cache under an arbitrary sequence of its public       *)
(* operations.  Requests are not restricted to what one session sends:     *)
(* a source that is not in the session (a file read from disk, the built-  *)
(* in model) is looked up under content revision 0, where only the digest  *)
(* tells two byte strings apart.                                           *)
(***************************************************************************)
EXTENDS ParsedSourceCache

CONSTANT Lookups    \* [uri, text, contentRevision, digest, mode] of the sources asked for

ASSUME ParsedCacheSpecAssumption ==
    \A lookup \in Lookups : lookup.text \in DOMAIN ArtifactSize

VARIABLES
    lruCache,
    asked       \* history: the last getOrBuild, if any, as its key and its bytes

lruVars == <<lruCache, asked>>

LruInit ==
    /\ lruCache = EmptyCache
    /\ asked = {}

Request(lookup) ==
    LET text == lookup.text
        key  == ParsedSourceKey(lookup.uri, lookup.contentRevision, lookup.digest, lookup.mode)
    IN  /\ lruCache' = GetOrBuild(lruCache, key, text)
        /\ asked' = {[key |-> key, text |-> text]}

Invalidate(uri) ==
    /\ lruCache' = InvalidateUri(lruCache, uri)
    /\ asked' = {}

Clear ==
    /\ lruCache' = EmptyCache
    /\ asked' = {}

LruNext ==
    \/ \E lookup \in Lookups : Request(lookup) \/ Invalidate(lookup.uri)
    \/ Clear

LruSpec == LruInit /\ [][LruNext]_lruVars

-----------------------------------------------------------------------------

\* ParsedSourceCache::checkInvariants holds between any two operations, under
\* hits, rebuilds under an existing key, evictions and invalidations, and so
\* do both limits of ParsedSourceCacheOptions, also when a single entry
\* exceeds the byte limit.
ParsedBounded ==
    /\ Accounted(lruCache)
    /\ WithinBudget(lruCache, MaxParsedEntries, MaxParsedBytes)

\* The place of x in the recency order, which lists each key once.
IndexIn(seq, x) == CHOOSE i \in DOMAIN seq : seq[i] = x

\* What a request for key, with these bytes, keeps of the other entries.
OldestFirst(before, after, key, text) ==
    LET others == DOMAIN before.entries \ {key}
    IN  \A k \in others \cap DOMAIN after.entries :
            /\ ArtifactSize[text] <= MaxParsedBytes => key \in DOMAIN after.entries
            /\ \A j \in others :
                   IndexIn(before.recency, k) < IndexIn(before.recency, j)
                       => j \in DOMAIN after.entries

\* Eviction is least-recently-used: an entry survives a request only if every
\* entry used after it survives too, the requested one (unless it exceeds the
\* byte limit by itself) included.
EvictsOldestFirst ==
    [][\A r \in asked' : OldestFirst(lruCache, lruCache', r.key, r.text)]_lruVars

\* The entries other than the requested one that a request has thrown out.
Victims(before, after, key) == DOMAIN before.entries \ (DOMAIN after.entries \cup {key})

\* With the most recently used of its victims still there, the cache that a
\* request leaves would exceed a limit.
OnlyForSpace(before, after, key, text) ==
    ArtifactSize[text] <= MaxParsedBytes \/ ~RetainOversizedEntry =>
        \A v \in Victims(before, after, key) :
            \/ \E w \in Victims(before, after, key) :
                   IndexIn(before.recency, v) < IndexIn(before.recency, w)
            \/ Cardinality(DOMAIN after.entries) + 1 > MaxParsedEntries
            \/ after.retainedBytes + before.entries[v].size > MaxParsedBytes

\* A request evicts no more than it must, and an entry above the byte limit,
\* which getOrBuild serves without retaining it, evicts nothing at all (unless
\* retainOversizedEntry is set: then it takes the whole cache with it).
EvictsOnlyForSpace ==
    [][\A r \in asked' : OnlyForSpace(lruCache, lruCache', r.key, r.text)]_lruVars
=============================================================================
