----------------------------- MODULE PartialMap -----------------------------
(***************************************************************************)
(* std::map as the session uses it: a function whose domain is the set of  *)
(* keys present.                                                           *)
(***************************************************************************)

EmptyMap == [k \in {} |-> k]

\* operator[] = value, insert-or-assign.
Put(map, key, value) ==
    [k \in DOMAIN map \cup {key} |-> IF k = key THEN value ELSE map[k]]

\* erase of every key in a set.
Drop(map, keys) == [k \in DOMAIN map \ keys |-> map[k]]
=============================================================================
