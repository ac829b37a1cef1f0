------------------------------ MODULE LruCache ------------------------------
(***************************************************************************)
(* The representation ParsedSourceCache and RootAnalysisCache share: a map *)
(* of entries, the recency order of their keys (least recently used first; *)
(* the order that lastUsedTick induces, every use taking a new tick) and   *)
(* the running total retainedBytes_.  An entry is a record with a field    *)
(* size, its estimate of retained bytes.                                   *)
(***************************************************************************)
EXTENDS Integers, Sequences, SequencesExt, FiniteSetsExt, PartialMap

EmptyCache == [entries |-> EmptyMap, recency |-> << >>, retainedBytes |-> 0]

SizeOf(cache, keys) ==
    MapThenSumSet(LAMBDA k : cache.entries[k].size, keys)

Without(recency, keys) ==
    FoldLeft(LAMBDA kept, k : IF k \in keys THEN kept ELSE Append(kept, k), << >>, recency)

\* lastUsedTick = ++tick_ of a retained entry.
Touch(cache, key) ==
    [cache EXCEPT !.recency = Append(Without(@, {key}), key)]

\* erase, for each of the keys that is present; the total never wraps below 0.
Erase(cache, keys) ==
    LET present  == keys \cap DOMAIN cache.entries
        released == SizeOf(cache, present)
    IN  [entries       |-> Drop(cache.entries, present),
         recency       |-> Without(cache.recency, present),
         retainedBytes |-> IF released <= cache.retainedBytes
                           THEN cache.retainedBytes - released ELSE 0]

Insert(cache, key, entry) ==
    [entries       |-> Put(cache.entries, key, entry),
     recency       |-> Append(cache.recency, key),
     retainedBytes |-> cache.retainedBytes + entry.size]

\* Mutant of EvictUntilWithinBudget: the newest entry goes first.
EvictUntilWithinBudget_newestFirst(cache, maxEntries, maxBytes) ==
    LET n == Len(cache.recency)
        Newest(i) == {cache.recency[j] : j \in (n - i + 1)..n}
        victims == Min({i \in 0..n :
                          \/ i = n
                          \/ /\ n - i <= maxEntries
                             /\ cache.retainedBytes - SizeOf(cache, Newest(i)) <= maxBytes})
    IN  Erase(cache, Newest(victims))

\* Mutant of EvictUntilWithinBudget: one victim at most (if in place of while).
EvictUntilWithinBudget_once(cache, maxEntries, maxBytes) ==
    IF /\ cache.recency # << >>
       /\ Len(cache.recency) > maxEntries \/ cache.retainedBytes > maxBytes
    THEN Erase(cache, {Head(cache.recency)})
    ELSE cache

\* Erase the least recently used entry until both budgets hold or the cache is
\* empty.  The loop tests the running total, not the sum of the entries.
EvictUntilWithinBudget(cache, maxEntries, maxBytes) ==
    LET n == Len(cache.recency)
        Oldest(i) == {cache.recency[j] : j \in 1..i}
        victims == Min({i \in 0..n :
                          \/ i = n
                          \/ /\ n - i <= maxEntries
                             /\ cache.retainedBytes - SizeOf(cache, Oldest(i)) <= maxBytes})
    IN  Erase(cache, Oldest(victims))

-----------------------------------------------------------------------------
(* What both caches promise about the representation.                      *)

\* checkInvariants: the running total is the sum over the entries; and the
\* recency order lists every key once.
Accounted(cache) ==
    /\ cache.retainedBytes = SizeOf(cache, DOMAIN cache.entries)
    /\ ToSet(cache.recency) = DOMAIN cache.entries
    /\ Len(cache.recency) = Cardinality(DOMAIN cache.entries)

\* The configured limits of IncrementalCacheOptions.
WithinBudget(cache, maxEntries, maxBytes) ==
    /\ Cardinality(DOMAIN cache.entries) <= maxEntries
    /\ cache.retainedBytes <= maxBytes
=============================================================================
