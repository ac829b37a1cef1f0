------------------------- MODULE ParsedSourceCache -------------------------
(***************************************************************************)
(* source/core/incremental/ParsedSourceCache.cpp as operations on a cache  *)
(* value.  An entry holds the bytes it was parsed from; the artifact and   *)
(* the two snapshots are functions of those bytes and of the mode, and are *)
(* not represented.                                                        *)
(***************************************************************************)
EXTENDS LruCache

CONSTANTS
    ArtifactSize,           \* ArtifactSize[text] = estimated bytes of its entry
    MaxParsedEntries,       \* ParsedSourceCacheOptions::maxEntries
    MaxParsedBytes,         \* ParsedSourceCacheOptions::maxRetainedBytes
    RetainOversizedEntry    \* ParsedSourceCacheOptions::retainOversizedEntry

ASSUME ParsedSourceCacheAssumption ==
    /\ \A t \in DOMAIN ArtifactSize : ArtifactSize[t] \in Nat
    /\ MaxParsedEntries \in Nat
    /\ MaxParsedBytes \in Nat
    /\ RetainOversizedEntry \in BOOLEAN

ParseModes == {"StrictCompiler", "TolerantEditor"}

\* ParsedSourceKey; the grammar fingerprint is one constant string.
ParsedSourceKey(uri, contentRevision, digest, mode) ==
    [uri |-> uri, contentRevision |-> contentRevision, digest |-> digest, mode |-> mode]

\* A hit needs the key and the very bytes (line 31).
IsHit(cache, key, text) ==
    key \in DOMAIN cache.entries /\ cache.entries[key].bytes = text

\* Mutant of GetOrBuild: a rebuilt entry replaces the old one without erase.
GetOrBuild_noErase(cache, key, text) ==
    LET entry == [bytes |-> text, size |-> ArtifactSize[text]]
    IN  IF IsHit(cache, key, text) THEN Touch(cache, key)
        ELSE EvictUntilWithinBudget(Insert(cache, key, entry),
                                    MaxParsedEntries, MaxParsedBytes)

\* Mutant of GetOrBuild: an entry above the byte limit is inserted first, and
\* the eviction that follows empties the cache for it.
GetOrBuild_makesRoom(cache, key, text) ==
    LET entry == [bytes |-> text, size |-> ArtifactSize[text]]
    IN  IF IsHit(cache, key, text) THEN Touch(cache, key)
        ELSE EvictUntilWithinBudget(Insert(Erase(cache, {key}), key, entry),
                                    MaxParsedEntries, MaxParsedBytes)

GetOrBuild(cache, key, text) ==
    LET entry   == [bytes |-> text, size |-> ArtifactSize[text]]
        cleared == Erase(cache, {key})
    IN  IF IsHit(cache, key, text)
        THEN Touch(cache, key)
        ELSE IF entry.size <= MaxParsedBytes \/ RetainOversizedEntry
             THEN EvictUntilWithinBudget(Insert(cleared, key, entry),
                                         MaxParsedEntries, MaxParsedBytes)
             ELSE cleared

InvalidateUri(cache, uri) ==
    Erase(cache, {k \in DOMAIN cache.entries : k.uri = uri})
=============================================================================
