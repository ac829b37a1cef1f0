------------------------- MODULE ParsedCacheProofs -------------------------
(***************************************************************************)
(* Proofs about the caches of a session, for all limits, all sizes and all *)
(* sequences of operations: lemmas on the representation that both caches  *)
(* share (module LruCache), and the properties of module ParsedCacheSpec.  *)
(*                                                                         *)
(* SizeOf and Without are folds, so what they compute is shown by          *)
(* induction.  An induction is written as the search for a least counter-  *)
(* example: the set of the failing numbers, or subsets, is shown empty by  *)
(* LeastNatural, IndexInduction or SmallestSubset.                         *)
(***************************************************************************)
EXTENDS ParsedCacheSpec, FiniteSetTheorems, SequenceTheorems, TLAPS

-----------------------------------------------------------------------------
(* Induction.                                                              *)

\* A non-empty set of naturals has a least element.
LEMMA LeastNatural ==
    ASSUME NEW T \in SUBSET Nat, T # {}
    PROVE  \E x \in T : \A y \in T : x <= y
<1> DEFINE R == OpToRel(<, Nat)
<1>1. IsWellFoundedOn(R, Nat)
    BY NatLessThanWellFounded
<1>2. \A x, y \in Nat : x < y => <<x, y>> \in R
    BY DEF OpToRel
<1> HIDE DEF R
<1>3. PICK x \in T : \A y \in T : ~(<<y, x>> \in R)
    BY <1>1, WFMin
<1>4. \A y \in T : ~(y < x)
    BY <1>2, <1>3
<1> QED BY <1>3, <1>4

\* Induction up to n, for the set of the numbers that satisfy a property.
LEMMA IndexInduction ==
    ASSUME NEW n \in Nat, NEW Good, 0 \in Good, \A k \in 1..n : k - 1 \in Good => k \in Good
    PROVE  n \in Good
<1> DEFINE Failing == {k \in 0..n : k \notin Good}
<1> SUFFICES ASSUME Failing # {} PROVE FALSE
    OBVIOUS
<1>1. Failing \in SUBSET Nat
    OBVIOUS
<1>2. PICK k \in Failing : \A j \in Failing : k <= j
    BY <1>1, LeastNatural
<1>3. k \in 1..n
    BY <1>2
<1>4. k - 1 \in Failing
    BY <1>2, <1>3
<1> QED BY <1>2, <1>3, <1>4

\* Among some subsets of a finite set there is one that contains none of the
\* others.
LEMMA SmallestSubset ==
    ASSUME NEW K, IsFiniteSet(K), NEW F \in SUBSET (SUBSET K), F # {}
    PROVE  \E s \in F : \A t \in SUBSET s : t # s => t \notin F
<1> DEFINE R == StrictSubsetOrdering(K)
<1>1. IsWellFoundedOn(R, SUBSET K)
    BY FS_StrictSubsetOrderingWellFounded, FS_FiniteSubsetsOfFinite
<1>2. \A s, t \in SUBSET K : t \subseteq s /\ t # s => <<t, s>> \in R
    BY DEF StrictSubsetOrdering
<1> HIDE DEF R
<1>3. PICK s \in F : \A t \in F : ~(<<t, s>> \in R)
    BY <1>1, WFMin
<1> QED BY <1>2, <1>3

\* A non-empty set of indices has a greatest one.
LEMMA MaxOfIndices ==
    ASSUME NEW n \in Nat, NEW s \in SUBSET (1..n), s # {}
    PROVE  Max(s) \in s /\ \A i \in s : i <= Max(s)
<1> DEFINE Above == {m \in Nat : \A i \in s : i <= m}
<1>1. n \in Above /\ Above \in SUBSET Nat
    OBVIOUS
<1> HIDE DEF Above
<1>2. PICK m \in Above : \A k \in Above : m <= k
    BY <1>1, LeastNatural
<1>3. m \in Nat /\ \A i \in s : i \in Nat /\ i >= 1 /\ i <= m
    BY <1>1, <1>2 DEF Above
<1>4. m \in s
    <2> SUFFICES ASSUME m \notin s PROVE FALSE
        OBVIOUS
    <2>1. \A i \in s : i <= m - 1
        BY <1>3
    <2>2. m - 1 \in Nat
        <3>1. PICK i : i \in s
            OBVIOUS
        <3> QED BY <1>3, <3>1
    <2>3. m - 1 \in Above
        BY <2>1, <2>2 DEF Above
    <2> QED BY <1>2, <1>3, <2>3
<1> QED BY <1>3, <1>4 DEF Max

\* The greatest of the first k indices, and of a set that contains it.
LEMMA MaxOfFirst ==
    ASSUME NEW k \in Nat, k # 0, NEW s \in SUBSET (1..k), k \in s
    PROVE  Max(s) = k
<1>1. Max(s) \in s /\ \A i \in s : i <= Max(s)
    BY MaxOfIndices
<1>2. Max(s) \in 1..k /\ k <= Max(s)
    BY <1>1
<1>3. \A m \in 1..k : k <= m => m = k
    OBVIOUS
<1> QED BY <1>2, <1>3

-----------------------------------------------------------------------------
(* Sums of sizes.  SizeOf adds the sizes in an order that nobody knows; it  *)
(* is shown to be a sum that does not depend on the order.                 *)

Pick(s) == CHOOSE x \in s : TRUE

\* g gives the sum for every set of keys from K.
IsSums(g, c, K) ==
    g = [s \in SUBSET K |->
            IF s = {} THEN 0 ELSE c.entries[Pick(s)].size + g[s \ {Pick(s)}]]

\* The sum over a set is the same whichever set it is a subset of.
LEMMA SumsAgree ==
    ASSUME NEW c, NEW K, NEW L, IsFiniteSet(K), NEW g, NEW h, IsSums(g, c, K), IsSums(h, c, L)
    PROVE  \A s \in SUBSET (K \cap L) : g[s] = h[s]
<1> DEFINE F == {s \in SUBSET (K \cap L) : g[s] # h[s]}
<1> SUFFICES ASSUME F # {} PROVE FALSE
    OBVIOUS
<1>1. F \in SUBSET (SUBSET K)
    OBVIOUS
<1> HIDE DEF F
<1>2. PICK s \in F : \A t \in SUBSET s : t # s => t \notin F
    BY <1>1, SmallestSubset
<1>3. s \in SUBSET K /\ s \in SUBSET L /\ g[s] # h[s]
    BY <1>2 DEF F
<1>4. s # {}
    BY <1>3 DEF IsSums
<1>5. Pick(s) \in s
    BY <1>4 DEF Pick
<1>6. g[s \ {Pick(s)}] = h[s \ {Pick(s)}]
    BY <1>2, <1>3, <1>5 DEF F
<1>7. /\ g[s] = c.entries[Pick(s)].size + g[s \ {Pick(s)}]
      /\ h[s] = c.entries[Pick(s)].size + h[s \ {Pick(s)}]
    BY <1>3, <1>4 DEF IsSums
<1> QED BY <1>3, <1>6, <1>7

\* The sums exist for every finite set of keys.
LEMMA SumsExist ==
    ASSUME NEW c, NEW K, IsFiniteSet(K)
    PROVE  \E g : IsSums(g, c, K)
<1> DEFINE F == {s \in SUBSET K : ~ \E g : IsSums(g, c, s)}
<1> SUFFICES ASSUME F # {} PROVE FALSE
    OBVIOUS
<1>1. F \in SUBSET (SUBSET K)
    OBVIOUS
<1> HIDE DEF F
<1>2. PICK s \in F : \A t \in SUBSET s : t # s => t \notin F
    BY <1>1, SmallestSubset
<1>3. s \in SUBSET K /\ ~ \E g : IsSums(g, c, s)
    BY <1>2 DEF F
<1> DEFINE W == [t \in SUBSET s |-> CHOOSE g : IsSums(g, c, t)]
<1>4. ASSUME NEW t \in SUBSET s, t # s
      PROVE  IsSums(W[t], c, t) /\ IsFiniteSet(t)
    <2>1. \E g : IsSums(g, c, t)
        BY <1>2, <1>3, <1>4 DEF F
    <2>2. IsFiniteSet(t)
        BY <1>3, FS_Subset
    <2> QED BY <2>1, <2>2
<1> HIDE DEF W
<1> DEFINE g == [t \in SUBSET s |->
                    IF t = {} THEN 0
                    ELSE c.entries[Pick(t)].size + W[t \ {Pick(t)}][t \ {Pick(t)}]]
<1>5. ASSUME NEW u \in SUBSET s, u # s
      PROVE  g[u] = W[u][u]
    <2>1. IsSums(W[u], c, u)
        BY <1>4, <1>5
    <2>2. CASE u = {}
        BY <2>1, <2>2 DEF IsSums
    <2>3. CASE u # {}
        <3> DEFINE v == u \ {Pick(u)}
        <3>1. Pick(u) \in u
            BY <2>3 DEF Pick
        <3>2. v \in SUBSET s /\ v # s /\ v \in SUBSET u
            BY <3>1
        <3>3. W[u][u] = c.entries[Pick(u)].size + W[u][v]
            BY <2>1, <2>3 DEF IsSums
        <3>4. IsSums(W[v], c, v) /\ IsFiniteSet(v)
            BY <1>4, <3>2
        <3> HIDE DEF v
        <3>5. W[v][v] = W[u][v]
            <4>1. PICK a, b : a = W[v] /\ b = W[u]
                OBVIOUS
            <4>2. IsSums(a, c, v) /\ IsSums(b, c, u) /\ IsFiniteSet(v)
                BY <2>1, <3>4, <4>1, Zenon
            <4>3. v \in SUBSET (v \cap u)
                BY <3>2
            <4> HIDE DEF g
            <4>4. a[v] = b[v]
                BY <4>2, <4>3, SumsAgree
            <4> QED BY <4>1, <4>4
        <3>6. g[u] = c.entries[Pick(u)].size + W[v][v]
            BY <2>3 DEF v
        <3> QED BY <3>3, <3>5, <3>6
    <2> QED BY <2>2, <2>3
<1>6. ASSUME NEW t \in SUBSET s, t # {}
      PROVE  g[t] = c.entries[Pick(t)].size + g[t \ {Pick(t)}]
    <2> DEFINE u == t \ {Pick(t)}
    <2>1. u \in SUBSET s /\ u # s
        BY <1>6 DEF Pick
    <2>2. g[u] = W[u][u]
        BY <1>5, <2>1
    <2>3. g[t] = c.entries[Pick(t)].size + W[u][u]
        BY <1>6
    <2> QED BY <2>2, <2>3
<1>7. g[{}] = 0 /\ g = [t \in SUBSET s |-> g[t]]
    OBVIOUS
<1> HIDE DEF g
<1>8. IsSums(g, c, s)
    BY <1>6, <1>7 DEF IsSums
<1> QED BY <1>3, <1>8

\* The sum over a finite set, by the key the definition takes first.
LEMMA SizeOfPick ==
    ASSUME NEW c, NEW s, IsFiniteSet(s)
    PROVE  SizeOf(c, s) = IF s = {} THEN 0
                          ELSE c.entries[Pick(s)].size + SizeOf(c, s \ {Pick(s)})
<1>1. ASSUME NEW t, IsFiniteSet(t)
      PROVE  \E g : IsSums(g, c, t) /\ SizeOf(c, t) = g[t]
    <2> DEFINE g == CHOOSE f : IsSums(f, c, t)
    <2>1. IsSums(g, c, t)
        BY <1>1, SumsExist
    <2>2. SizeOf(c, t) = g[t]
        BY DEF SizeOf, MapThenSumSet, MapThenFoldSet, IsSums, Pick
    <2> QED BY <2>1, <2>2
<1>2. PICK g : IsSums(g, c, s) /\ SizeOf(c, s) = g[s]
    BY <1>1
<1>3. CASE s = {}
    BY <1>2, <1>3 DEF IsSums
<1>4. CASE s # {}
    <2> DEFINE t == s \ {Pick(s)}
    <2>1. IsFiniteSet(t)
        BY FS_RemoveElement
    <2>2. PICK h : IsSums(h, c, t) /\ SizeOf(c, t) = h[t]
        BY <1>1, <2>1
    <2>3. h[t] = g[t]
        BY <1>2, <2>1, <2>2, SumsAgree
    <2>4. g[s] = c.entries[Pick(s)].size + g[t]
        BY <1>2, <1>4 DEF IsSums
    <2> QED BY <1>2, <1>4, <2>2, <2>3, <2>4
<1> QED BY <1>3, <1>4

\* The sizes of the entries are naturals, and there are finitely many.
Sized(c) ==
    /\ IsFiniteSet(DOMAIN c.entries)
    /\ \A k \in DOMAIN c.entries : c.entries[k].size \in Nat

\* A sum of sizes is a natural.
LEMMA SizeOfNat ==
    ASSUME NEW c, Sized(c), NEW s \in SUBSET DOMAIN c.entries
    PROVE  SizeOf(c, s) \in Nat
<1> DEFINE K == DOMAIN c.entries
           F == {t \in SUBSET K : SizeOf(c, t) \notin Nat}
<1> SUFFICES ASSUME F # {} PROVE FALSE
    OBVIOUS
<1>1. F \in SUBSET (SUBSET K) /\ IsFiniteSet(K)
    BY DEF Sized
<1> HIDE DEF F
<1>2. PICK t \in F : \A u \in SUBSET t : u # t => u \notin F
    BY <1>1, SmallestSubset
<1>3. t \in SUBSET K /\ SizeOf(c, t) \notin Nat /\ IsFiniteSet(t)
    BY <1>1, <1>2, FS_Subset DEF F
<1>4. t # {}
    <2>1. SizeOf(c, {}) = 0
        BY FS_EmptySet, SizeOfPick
    <2>2. t = {} => SizeOf(c, t) = 0
        BY <2>1, Zenon
    <2> QED BY <1>3, <2>2
<1>5. Pick(t) \in t
    BY <1>4 DEF Pick
<1>6. SizeOf(c, t \ {Pick(t)}) \in Nat
    BY <1>2, <1>3, <1>5 DEF F
<1>7. SizeOf(c, t) = c.entries[Pick(t)].size + SizeOf(c, t \ {Pick(t)})
    BY <1>3, <1>4, SizeOfPick
<1>8. c.entries[Pick(t)].size \in Nat
    BY <1>3, <1>5 DEF Sized
<1> QED BY <1>3, <1>6, <1>7, <1>8

\* Any key may be taken first.
LEMMA SizeOfRemove ==
    ASSUME NEW c, Sized(c), NEW s \in SUBSET DOMAIN c.entries, NEW x \in s
    PROVE  SizeOf(c, s) = c.entries[x].size + SizeOf(c, s \ {x})
<1> DEFINE K == DOMAIN c.entries
           F == {t \in SUBSET K :
                    \E y \in t : SizeOf(c, t) # c.entries[y].size + SizeOf(c, t \ {y})}
<1> SUFFICES ASSUME F # {} PROVE FALSE
    OBVIOUS
<1>1. F \in SUBSET (SUBSET K) /\ IsFiniteSet(K)
    BY DEF Sized
<1> HIDE DEF F
<1>2. PICK t \in F : \A u \in SUBSET t : u # t => u \notin F
    BY <1>1, SmallestSubset
<1>3. t \in SUBSET K /\ IsFiniteSet(t)
    BY <1>1, <1>2, FS_Subset DEF F
<1>4. PICK y \in t : SizeOf(c, t) # c.entries[y].size + SizeOf(c, t \ {y})
    BY <1>2 DEF F
<1> DEFINE p == Pick(t)
<1>5. p \in t
    BY <1>4 DEF Pick
<1>6. SizeOf(c, t) = c.entries[p].size + SizeOf(c, t \ {p})
    BY <1>3, <1>4, SizeOfPick
<1> HIDE DEF p
<1>7. y # p
    BY <1>4, <1>6
<1>8. SizeOf(c, t \ {p}) = c.entries[y].size + SizeOf(c, (t \ {p}) \ {y})
    <2>1. t \ {p} \in SUBSET K /\ t \ {p} \notin F /\ y \in t \ {p}
        BY <1>2, <1>3, <1>5, <1>7
    <2> QED BY <2>1 DEF F
<1>9. SizeOf(c, t \ {y}) = c.entries[p].size + SizeOf(c, (t \ {y}) \ {p})
    <2>1. t \ {y} \in SUBSET K /\ t \ {y} \notin F /\ p \in t \ {y}
        BY <1>2, <1>3, <1>4, <1>5, <1>7
    <2> QED BY <2>1 DEF F
<1>10. (t \ {p}) \ {y} = (t \ {y}) \ {p}
    OBVIOUS
<1>11. /\ c.entries[p].size \in Nat /\ c.entries[y].size \in Nat
       /\ SizeOf(c, (t \ {y}) \ {p}) \in Nat
    BY <1>3, <1>5, SizeOfNat DEF Sized
<1>12. SizeOf(c, (t \ {p}) \ {y}) = SizeOf(c, (t \ {y}) \ {p})
    BY <1>10, Zenon
<1> QED BY <1>4, <1>6, <1>8, <1>9, <1>11, <1>12

\* The sum over a set is the sum over its two parts.
LEMMA SizeOfSplit ==
    ASSUME NEW c, Sized(c), NEW s \in SUBSET DOMAIN c.entries
    PROVE  SizeOf(c, DOMAIN c.entries) = SizeOf(c, s) + SizeOf(c, DOMAIN c.entries \ s)
<1> DEFINE K == DOMAIN c.entries
           F == {t \in SUBSET K : SizeOf(c, K) # SizeOf(c, t) + SizeOf(c, K \ t)}
<1> SUFFICES ASSUME F # {} PROVE FALSE
    OBVIOUS
<1>1. F \in SUBSET (SUBSET K) /\ IsFiniteSet(K)
    BY DEF Sized
<1> HIDE DEF F
<1>2. PICK t \in F : \A u \in SUBSET t : u # t => u \notin F
    BY <1>1, SmallestSubset
<1>3. t \in SUBSET K /\ SizeOf(c, K) # SizeOf(c, t) + SizeOf(c, K \ t)
    BY <1>2 DEF F
<1>4. t # {}
    <2>1. SizeOf(c, {}) = 0
        BY FS_EmptySet, SizeOfPick
    <2>2. SizeOf(c, K) \in Nat /\ K \ {} = K
        BY SizeOfNat
    <2>3. t = {} => SizeOf(c, t) = 0 /\ SizeOf(c, K \ t) = SizeOf(c, K)
        BY <2>1, <2>2, Zenon
    <2> QED BY <1>3, <2>2, <2>3
<1>5. PICK y : y \in t
    BY <1>4
<1>6. SizeOf(c, K) = SizeOf(c, t \ {y}) + SizeOf(c, K \ (t \ {y}))
    <2>1. t \ {y} \in SUBSET K /\ t \ {y} \notin F
        BY <1>2, <1>3, <1>5
    <2> QED BY <2>1 DEF F
<1>7. SizeOf(c, t) = c.entries[y].size + SizeOf(c, t \ {y})
    BY <1>3, <1>5, SizeOfRemove
<1>8. SizeOf(c, K \ (t \ {y})) = c.entries[y].size + SizeOf(c, K \ t)
    <2>1. /\ K \ (t \ {y}) \in SUBSET K /\ y \in K \ (t \ {y})
          /\ (K \ (t \ {y})) \ {y} = K \ t
        BY <1>3, <1>5
    <2> QED BY <2>1, SizeOfRemove
<1>9. /\ c.entries[y].size \in Nat /\ SizeOf(c, t \ {y}) \in Nat
      /\ SizeOf(c, K \ t) \in Nat
    BY <1>3, <1>5, SizeOfNat DEF Sized
<1> QED BY <1>3, <1>6, <1>7, <1>8, <1>9

\* A sum depends on the sizes of the keys in the set only.
LEMMA SizeOfSame ==
    ASSUME NEW c, NEW d, NEW s, IsFiniteSet(s),
           \A k \in s : c.entries[k].size = d.entries[k].size
    PROVE  SizeOf(c, s) = SizeOf(d, s)
<1> DEFINE F == {t \in SUBSET s : SizeOf(c, t) # SizeOf(d, t)}
<1> SUFFICES ASSUME F # {} PROVE FALSE
    OBVIOUS
<1>1. F \in SUBSET (SUBSET s)
    OBVIOUS
<1> HIDE DEF F
<1>2. PICK t \in F : \A u \in SUBSET t : u # t => u \notin F
    BY <1>1, SmallestSubset
<1>3. t \in SUBSET s /\ SizeOf(c, t) # SizeOf(d, t) /\ IsFiniteSet(t)
    BY <1>2, FS_Subset DEF F
<1>4. /\ SizeOf(c, t) = IF t = {} THEN 0
                        ELSE c.entries[Pick(t)].size + SizeOf(c, t \ {Pick(t)})
      /\ SizeOf(d, t) = IF t = {} THEN 0
                        ELSE d.entries[Pick(t)].size + SizeOf(d, t \ {Pick(t)})
    BY <1>3, SizeOfPick
<1>5. t # {}
    BY <1>3, <1>4
<1>6. Pick(t) \in t
    BY <1>5 DEF Pick
<1>7. SizeOf(c, t \ {Pick(t)}) = SizeOf(d, t \ {Pick(t)})
    BY <1>2, <1>3, <1>6 DEF F
<1>8. c.entries[Pick(t)].size = d.entries[Pick(t)].size
    BY <1>3, <1>6
<1> QED BY <1>3, <1>4, <1>5, <1>7, <1>8

-----------------------------------------------------------------------------
(* Taking keys out of a recency order.                                     *)

KeepOne(kept, k, keys) == IF k \in keys THEN kept ELSE Append(kept, k)

\* f gives what is kept of the elements at each set of the first k indices.
IsKept(f, r, keys, k) ==
    f = [s \in SUBSET (1..k) |->
            IF s = {} THEN << >> ELSE KeepOne(f[s \ {Max(s)}], r[Max(s)], keys)]

\* That function exists for every number of indices.
LEMMA KeptExist ==
    ASSUME NEW r, NEW keys, NEW n \in Nat
    PROVE  \E f : IsKept(f, r, keys, n)
<1> DEFINE Good == {k \in Nat : \E f : IsKept(f, r, keys, k)}
<1>1. 0 \in Good
    <2>1. \A f : f = [s \in SUBSET (1..0) |-> << >>] => IsKept(f, r, keys, 0)
        BY DEF IsKept
    <2> QED BY <2>1
<1>2. ASSUME NEW k \in 1..n, k - 1 \in Good
      PROVE  k \in Good
    <2>1. PICK f : IsKept(f, r, keys, k - 1)
        BY <1>2
    <2> DEFINE g == [s \in SUBSET (1..k) |->
                        IF k \in s THEN KeepOne(f[s \ {k}], r[k], keys) ELSE f[s]]
    <2>2. ASSUME NEW s \in SUBSET (1..k), k \in s
          PROVE  g[s] = KeepOne(g[s \ {Max(s)}], r[Max(s)], keys)
        <3>1. Max(s) = k
            BY <2>2, MaxOfFirst
        <3> QED BY <2>2, <3>1
    <2>3. ASSUME NEW s \in SUBSET (1..k), k \notin s
          PROVE  g[s] = IF s = {} THEN << >>
                        ELSE KeepOne(g[s \ {Max(s)}], r[Max(s)], keys)
        <3>1. s \in SUBSET (1..(k - 1))
            BY <2>3
        <3>2. f[s] = IF s = {} THEN << >>
                     ELSE KeepOne(f[s \ {Max(s)}], r[Max(s)], keys)
            BY <2>1, <3>1 DEF IsKept
        <3> QED BY <2>3, <3>2
    <2> HIDE DEF g
    <2>4. IsKept(g, r, keys, k)
        <3>1. g = [s \in SUBSET (1..k) |-> g[s]]
            BY DEF g
        <3> QED BY <2>2, <2>3, <3>1 DEF IsKept
    <2> QED BY <2>4
<1> HIDE DEF Good
<1>3. n \in Good
    BY <1>1, <1>2, IndexInduction
<1> QED BY <1>3 DEF Good

\* Without goes through the order from the front, element by element.
LEMMA WithoutSteps ==
    ASSUME NEW r, NEW keys, NEW n \in Nat, DOMAIN r = 1..n
    PROVE  \E h : /\ h[0] = << >>
                  /\ h[n] = Without(r, keys)
                  /\ \A k \in 1..n : h[k] = KeepOne(h[k - 1], r[k], keys)
<1> DEFINE f == CHOOSE g : IsKept(g, r, keys, n)
           h == [k \in 0..n |-> f[1..k]]
<1>1. IsKept(f, r, keys, n)
    BY KeptExist
<1>2. Without(r, keys) = f[1..n]
    BY DEF Without, FoldLeft, MapThenFoldSet, KeepOne, IsKept
<1> HIDE DEF f
<1>3. h[0] = << >>
    BY <1>1 DEF IsKept
<1>4. ASSUME NEW k \in 1..n
      PROVE  h[k] = KeepOne(h[k - 1], r[k], keys)
    <2> DEFINE s == 1..k
    <2>1. s \in SUBSET (1..n) /\ s # {} /\ k \in s /\ s \ {k} = 1..(k - 1)
        OBVIOUS
    <2>2. Max(s) = k
        BY <2>1, MaxOfFirst
    <2> HIDE DEF s
    <2>3. f[s] = KeepOne(f[s \ {Max(s)}], r[Max(s)], keys)
        BY <1>1, <2>1 DEF IsKept
    <2>4. h[k] = f[1..k] /\ h[k - 1] = f[1..(k - 1)]
        OBVIOUS
    <2> HIDE DEF h
    <2>5. f[s] = KeepOne(f[s \ {k}], r[k], keys)
        BY <2>2, <2>3, Zenon
    <2> QED BY <2>1, <2>4, <2>5, Zenon DEF s
<1>5. h[n] = Without(r, keys)
    BY <1>2
<1> HIDE DEF h
<1> QED BY <1>3, <1>4, <1>5

\* The elements of a sequence are different from each other.
Distinct(r) == \A i, j \in DOMAIN r : r[i] = r[j] => i = j

\* w is what is left of the first k elements of r, in their order.
LeftOf(w, K, r, keys, k) ==
    /\ w \in Seq(K)
    /\ {w[i] : i \in DOMAIN w} = {r[i] : i \in 1..k} \ keys
    /\ \A i, j \in DOMAIN w : \A p, q \in DOMAIN r :
          w[i] = r[p] /\ w[j] = r[q] /\ i < j => p < q

\* Without takes out the keys, and keeps the order of the other elements.
LEMMA WithoutKeeps ==
    ASSUME NEW K, NEW r \in Seq(K), Distinct(r), NEW keys
    PROVE  LET w == Without(r, keys)
           IN  /\ w \in Seq(K)
               /\ {w[i] : i \in DOMAIN w} = {r[i] : i \in DOMAIN r} \ keys
               /\ Distinct(w)
               /\ \A i, j \in DOMAIN w : \A p, q \in DOMAIN r :
                     w[i] = r[p] /\ w[j] = r[q] /\ i < j => p < q
<1> DEFINE n == Len(r)
<1>1. n \in Nat /\ DOMAIN r = 1..n
    OBVIOUS
<1>2. PICK h : /\ h[0] = << >>
               /\ h[n] = Without(r, keys)
               /\ \A k \in 1..n : h[k] = KeepOne(h[k - 1], r[k], keys)
    BY <1>1, WithoutSteps
<1> DEFINE Good == {k \in 0..n : LeftOf(h[k], K, r, keys, k)}
<1>3. 0 \in Good
    <2>1. LeftOf(<< >>, K, r, keys, 0)
        BY DEF LeftOf
    <2> QED BY <1>1, <1>2, <2>1
<1>4. ASSUME NEW k \in 1..n, k - 1 \in Good
      PROVE  k \in Good
    <2> DEFINE w == h[k - 1]
    <2>1. LeftOf(w, K, r, keys, k - 1)
        BY <1>4
    <2>2. h[k] = KeepOne(w, r[k], keys)
        BY <1>2
    <2> HIDE DEF w
    <2>3. {r[i] : i \in 1..k} = {r[i] : i \in 1..(k - 1)} \cup {r[k]}
        BY <1>1
    <2>4. CASE r[k] \in keys
        <3>1. LeftOf(w, K, r, keys, k)
            BY <2>1, <2>3, <2>4 DEF LeftOf
        <3>2. h[k] = w
            BY <2>2, <2>4 DEF KeepOne
        <3> QED BY <3>1, <3>2
    <2>5. CASE r[k] \notin keys
        <3> DEFINE m == Len(w)
                   a == Append(w, r[k])
        <3>1. /\ r[k] \in K /\ m \in Nat /\ DOMAIN w = 1..m
              /\ a \in Seq(K) /\ DOMAIN a = 1..(m + 1) /\ a[m + 1] = r[k]
              /\ \A i \in 1..m : a[i] = w[i]
            BY <1>1, <2>1 DEF LeftOf
        <3>2. h[k] = a
            BY <2>2, <2>5 DEF KeepOne
        <3> HIDE DEF a, m
        <3>3. {a[i] : i \in DOMAIN a} = {w[i] : i \in DOMAIN w} \cup {r[k]}
            <4>1. \A i \in 1..(m + 1) : i \in 1..m \/ i = m + 1
                BY <3>1
            <4>2. \A i \in 1..m : i \in 1..(m + 1)
                BY <3>1
            <4>3. m + 1 \in 1..(m + 1)
                BY <3>1
            <4> QED BY <3>1, <4>1, <4>2, <4>3
        <3>4. {a[i] : i \in DOMAIN a} = {r[i] : i \in 1..k} \ keys
            BY <2>1, <2>3, <2>5, <3>3 DEF LeftOf
        <3>5. ASSUME NEW i \in DOMAIN a, NEW j \in DOMAIN a, NEW p \in DOMAIN r, NEW q \in DOMAIN r,
                     a[i] = r[p], a[j] = r[q], i < j
              PROVE  p < q
            <4>1. i \in 1..m /\ a[i] = w[i]
                BY <3>1, <3>5
            <4>2. CASE j \in 1..m
                BY <2>1, <3>1, <3>5, <4>1, <4>2 DEF LeftOf
            <4>3. CASE j = m + 1
                <5>1. r[q] = r[k] /\ k \in DOMAIN r
                    BY <1>1, <3>1, <3>5, <4>3
                <5>2. q = k
                    BY <5>1 DEF Distinct
                <5>3. PICK x \in 1..(k - 1) : w[i] = r[x]
                    <6>1. w[i] \in {w[l] : l \in DOMAIN w}
                        BY <3>1, <4>1
                    <6> QED BY <2>1, <6>1 DEF LeftOf
                <5>4. x \in DOMAIN r /\ r[p] = r[x]
                    BY <1>1, <3>5, <4>1, <5>3
                <5>5. p = x
                    BY <5>4 DEF Distinct
                <5> QED BY <1>1, <5>2, <5>3, <5>5
            <4> QED BY <3>1, <4>2, <4>3
        <3>6. LeftOf(a, K, r, keys, k)
            BY <3>1, <3>4, <3>5 DEF LeftOf
        <3> QED BY <3>2, <3>6
    <2> QED BY <2>4, <2>5
<1>5. n \in Good
    <2> HIDE DEF Good, n
    <2> QED BY <1>1, <1>3, <1>4, IndexInduction
<1> DEFINE w == Without(r, keys)
<1>6. LeftOf(w, K, r, keys, n)
    BY <1>2, <1>5
<1> HIDE DEF w
<1>7. Distinct(w)
    <2> SUFFICES ASSUME NEW i \in DOMAIN w, NEW j \in DOMAIN w, w[i] = w[j], i < j PROVE FALSE
        <3>1. \A i, j \in DOMAIN w : i \in Int /\ j \in Int
            BY <1>6 DEF LeftOf
        <3> QED BY <3>1 DEF Distinct
    <2>1. PICK p \in DOMAIN r : w[i] = r[p]
        BY <1>1, <1>6 DEF LeftOf
    <2>2. p < p
        BY <1>6, <2>1 DEF LeftOf
    <2> QED BY <1>1, <2>1, <2>2
<1> QED BY <1>1, <1>6, <1>7 DEF w, LeftOf

-----------------------------------------------------------------------------
(* The operations on a cache.                                              *)

\* The representation is sound: finitely many entries, the running total is
\* the sum of their sizes, and the recency order lists every key once.
Sound(c) ==
    /\ c = [entries |-> c.entries, recency |-> c.recency, retainedBytes |-> c.retainedBytes]
    /\ Sized(c)
    /\ c.retainedBytes = SizeOf(c, DOMAIN c.entries)
    /\ c.recency \in Seq(DOMAIN c.entries)
    /\ {c.recency[i] : i \in DOMAIN c.recency} = DOMAIN c.entries
    /\ Distinct(c.recency)

\* An empty cache is sound.
LEMMA EmptySound == Sound(EmptyCache) /\ DOMAIN EmptyCache.entries = {}
<1>1. /\ DOMAIN EmptyCache.entries = {} /\ EmptyCache.recency = << >>
      /\ EmptyCache.retainedBytes = 0
      /\ EmptyCache = [entries |-> EmptyCache.entries, recency |-> EmptyCache.recency,
                       retainedBytes |-> EmptyCache.retainedBytes]
    BY DEF EmptyCache, EmptyMap
<1>2. SizeOf(EmptyCache, {}) = 0
    BY FS_EmptySet, SizeOfPick
<1>3. SizeOf(EmptyCache, DOMAIN EmptyCache.entries) = 0
    BY <1>1, <1>2, Zenon
<1> QED BY <1>1, <1>3, FS_EmptySet DEF Sound, Sized, Distinct

\* What checkInvariants tests follows from soundness.
LEMMA SoundAccounted ==
    ASSUME NEW c, Sound(c)
    PROVE  /\ Accounted(c)
           /\ Cardinality(DOMAIN c.entries) \in Nat /\ c.retainedBytes \in Nat
<1> DEFINE r == c.recency
           K == DOMAIN c.entries
<1>1. /\ r \in Seq(K) /\ {r[i] : i \in DOMAIN r} = K /\ Distinct(r)
      /\ IsFiniteSet(K) /\ c.retainedBytes = SizeOf(c, K) /\ Sized(c)
    BY DEF Sound, Sized
<1> HIDE DEF r
<1>2. Len(r) \in Nat /\ DOMAIN r = 1..Len(r) /\ r \in [1..Len(r) -> K]
    BY <1>1
<1>3. r \in Bijection(1..Len(r), K)
    BY <1>1, <1>2 DEF Bijection, Injection, Surjection, IsInjective, Distinct
<1>4. Cardinality(K) = Len(r)
    BY <1>2, <1>3, FS_CountingElements DEF ExistsBijection
<1>5. ToSet(r) = K
    BY <1>1 DEF ToSet
<1>6. c.retainedBytes \in Nat
    BY <1>1, SizeOfNat
<1> QED BY <1>1, <1>2, <1>4, <1>5, <1>6 DEF Accounted, r

\* erase keeps the cache sound, and never grows it.
LEMMA EraseSound ==
    ASSUME NEW c, Sound(c), NEW keys
    PROVE  LET e == Erase(c, keys)
           IN  /\ Sound(e)
               /\ DOMAIN e.entries = DOMAIN c.entries \ keys
               /\ \A k \in DOMAIN e.entries : e.entries[k] = c.entries[k]
               /\ e.recency = Without(c.recency, keys \cap DOMAIN c.entries)
               /\ e.retainedBytes =
                     c.retainedBytes - SizeOf(c, keys \cap DOMAIN c.entries)
               /\ e.retainedBytes <= c.retainedBytes
               /\ Cardinality(DOMAIN e.entries) <= Cardinality(DOMAIN c.entries)
<1> DEFINE e == Erase(c, keys)
           K == DOMAIN c.entries
           P == keys \cap K
<1>1. /\ Sized(c) /\ c.retainedBytes = SizeOf(c, K) /\ IsFiniteSet(K)
      /\ c.recency \in Seq(K)
      /\ {c.recency[i] : i \in DOMAIN c.recency} = K
      /\ Distinct(c.recency)
    BY DEF Sound, Sized
<1>2. /\ SizeOf(c, K) = SizeOf(c, P) + SizeOf(c, K \ P)
      /\ SizeOf(c, K) \in Nat /\ SizeOf(c, P) \in Nat /\ SizeOf(c, K \ P) \in Nat
    BY <1>1, SizeOfSplit, SizeOfNat
<1>3. /\ e.entries = Drop(c.entries, P)
      /\ e.recency = Without(c.recency, P)
      /\ e.retainedBytes = IF SizeOf(c, P) <= c.retainedBytes
                           THEN c.retainedBytes - SizeOf(c, P) ELSE 0
      /\ e = [entries |-> e.entries, recency |-> e.recency, retainedBytes |-> e.retainedBytes]
    BY DEF Erase
<1> HIDE DEF e, P
<1>4. e.retainedBytes = c.retainedBytes - SizeOf(c, P) /\ e.retainedBytes = SizeOf(c, K \ P)
    BY <1>1, <1>2, <1>3
<1>5. /\ DOMAIN e.entries = K \ P /\ K \ P = K \ keys
      /\ \A k \in DOMAIN e.entries : e.entries[k] = c.entries[k]
    BY <1>3 DEF Drop, P
<1>6. /\ IsFiniteSet(K \ P) /\ Cardinality(K \ P) <= Cardinality(K)
    BY <1>1, FS_Subset
<1>7. SizeOf(e, K \ P) = SizeOf(c, K \ P)
    BY <1>5, <1>6, SizeOfSame
<1>8. Sized(e)
    BY <1>1, <1>5, <1>6 DEF Sized
<1>9. /\ e.recency \in Seq(K)
      /\ {e.recency[i] : i \in DOMAIN e.recency} = K \ P
      /\ Distinct(e.recency)
    BY <1>1, <1>3, WithoutKeeps, SMTT(30)
<1>10. e.recency \in Seq(K \ P)
    <2>1. \A s \in Seq(K) : {s[i] : i \in DOMAIN s} = K \ P => s \in Seq(K \ P)
        <3> SUFFICES ASSUME NEW s \in Seq(K), {s[i] : i \in DOMAIN s} = K \ P
                     PROVE  s \in Seq(K \ P)
            OBVIOUS
        <3>1. Len(s) \in Nat /\ s = [i \in 1..Len(s) |-> s[i]]
            OBVIOUS
        <3>2. \A i \in 1..Len(s) : s[i] \in K \ P
            OBVIOUS
        <3> QED BY <3>1, <3>2, SeqDef
    <2> QED BY <1>9, <2>1
<1>11. e.retainedBytes = SizeOf(e, DOMAIN e.entries)
    BY <1>4, <1>5, <1>7, Zenon
<1>12. Sound(e)
    <2>1. e.recency \in Seq(DOMAIN e.entries)
        BY <1>5, <1>10, Zenon
    <2>2. {e.recency[i] : i \in DOMAIN e.recency} = DOMAIN e.entries
        BY <1>5, <1>9, Zenon
    <2> QED BY <1>3, <1>8, <1>9, <1>11, <2>1, <2>2 DEF Sound
<1>13. e.retainedBytes <= c.retainedBytes
    BY <1>1, <1>2, <1>4
<1>14. Cardinality(DOMAIN e.entries) <= Cardinality(K)
    BY <1>5, <1>6, Zenon
<1> QED BY <1>3, <1>4, <1>5, <1>12, <1>13, <1>14 DEF e, P

\* Inserting an entry under a new key keeps the cache sound.
LEMMA InsertSound ==
    ASSUME NEW c, Sound(c), NEW key, key \notin DOMAIN c.entries,
           NEW entry, entry.size \in Nat
    PROVE  LET d == Insert(c, key, entry)
           IN  /\ Sound(d)
               /\ DOMAIN d.entries = DOMAIN c.entries \cup {key}
               /\ d.recency = Append(c.recency, key)
               /\ d.entries[key] = entry
               /\ \A k \in DOMAIN c.entries : d.entries[k] = c.entries[k]
<1> DEFINE d == Insert(c, key, entry)
           K == DOMAIN c.entries
           L == K \cup {key}
           r == c.recency
           n == Len(r)
<1>1. /\ Sized(c) /\ c.retainedBytes = SizeOf(c, K) /\ IsFiniteSet(K)
      /\ r \in Seq(K)
      /\ {r[i] : i \in DOMAIN r} = K
      /\ Distinct(r)
    BY DEF Sound, Sized
<1>2. /\ d.entries = Put(c.entries, key, entry)
      /\ d.recency = Append(r, key)
      /\ d.retainedBytes = c.retainedBytes + entry.size
      /\ d = [entries |-> d.entries, recency |-> d.recency, retainedBytes |-> d.retainedBytes]
    BY DEF Insert
<1> HIDE DEF d
<1>3. /\ DOMAIN d.entries = L /\ d.entries[key] = entry
      /\ \A k \in K : d.entries[k] = c.entries[k]
    BY <1>2 DEF Put
<1>4. IsFiniteSet(L)
    BY <1>1, FS_AddElement
<1>5. Sized(d)
    BY <1>1, <1>3, <1>4 DEF Sized
<1>6. SizeOf(d, L) = entry.size + SizeOf(d, K)
    <2>1. L \in SUBSET DOMAIN d.entries /\ key \in L /\ L \ {key} = K
        BY <1>3
    <2>2. SizeOf(d, L) = d.entries[key].size + SizeOf(d, L \ {key})
        BY <1>5, <2>1, SizeOfRemove
    <2> QED BY <1>3, <2>1, <2>2
<1>7. SizeOf(d, K) = SizeOf(c, K) /\ SizeOf(c, K) \in Nat
    <2>1. SizeOf(d, K) = SizeOf(c, K)
        BY <1>1, <1>3, SizeOfSame
    <2> QED BY <1>1, <2>1, SizeOfNat
<1>8. d.retainedBytes = SizeOf(d, L)
    BY <1>1, <1>2, <1>6, <1>7
<1>9. /\ Append(r, key) \in Seq(L) /\ n \in Nat /\ DOMAIN r = 1..n
      /\ DOMAIN Append(r, key) = 1..(n + 1) /\ Append(r, key)[n + 1] = key
      /\ \A i \in 1..n : Append(r, key)[i] = r[i]
    <2>1. \A s \in Seq(L) :
             /\ Append(s, key) \in Seq(L) /\ Len(s) \in Nat /\ DOMAIN s = 1..Len(s)
             /\ DOMAIN Append(s, key) = 1..(Len(s) + 1) /\ Append(s, key)[Len(s) + 1] = key
             /\ \A i \in 1..Len(s) : Append(s, key)[i] = s[i]
        OBVIOUS
    <2>2. r \in Seq(L)
        BY <1>1
    <2> QED BY <2>1, <2>2
<1> DEFINE a == Append(r, key)
<1> HIDE DEF a, n, r
<1>10. {a[i] : i \in DOMAIN a} = L
    <2>1. \A i \in 1..(n + 1) : i \in 1..n \/ i = n + 1
        BY <1>9
    <2>2. (\A i \in 1..n : i \in 1..(n + 1)) /\ n + 1 \in 1..(n + 1)
        BY <1>9
    <2> QED BY <1>1, <1>9, <2>1, <2>2 DEF a
<1>11. Distinct(a)
    <2> SUFFICES ASSUME NEW i \in 1..(n + 1), NEW j \in 1..(n + 1), a[i] = a[j]
                 PROVE  i = j
        BY <1>9 DEF Distinct, a
    <2>1. ASSUME NEW l \in 1..n
          PROVE  a[l] = r[l] /\ a[l] \in K /\ a[l] # key
        BY <1>1, <1>9 DEF a
    <2>2. a[n + 1] = key
        BY <1>9 DEF a
    <2>3. CASE i \in 1..n /\ j \in 1..n
        BY <1>1, <1>9, <2>1, <2>3 DEF Distinct
    <2>4. CASE i = n + 1 \/ j = n + 1
        <3>1. i \in 1..n => a[i] # key
            BY <2>1
        <3>2. j \in 1..n => a[j] # key
            BY <2>1
        <3> QED BY <1>9, <2>2, <2>4, <3>1, <3>2
    <2> QED BY <1>9, <2>3, <2>4
<1>12. Sound(d)
    <2>1. d.recency = a /\ a \in Seq(DOMAIN d.entries)
        BY <1>2, <1>3, <1>9 DEF a
    <2>2. {d.recency[i] : i \in DOMAIN d.recency} = DOMAIN d.entries
        BY <1>3, <1>10, <2>1, Zenon
    <2>3. d.retainedBytes = SizeOf(d, DOMAIN d.entries)
        BY <1>3, <1>8, Zenon
    <2> QED BY <1>2, <1>5, <1>11, <2>1, <2>2, <2>3 DEF Sound
<1> QED BY <1>2, <1>3, <1>12 DEF d, r

\* A retained entry that is used moves to the end of the order.
LEMMA TouchSound ==
    ASSUME NEW c, Sound(c), NEW key \in DOMAIN c.entries
    PROVE  LET d == Touch(c, key)
           IN  /\ Sound(d)
               /\ d.entries = c.entries
               /\ d.retainedBytes = c.retainedBytes
<1> DEFINE d == Touch(c, key)
           K == DOMAIN c.entries
           e == Erase(c, {key})
           f == Insert(e, key, c.entries[key])
<1>1. /\ c = [entries |-> c.entries, recency |-> c.recency, retainedBytes |-> c.retainedBytes]
      /\ Sized(c) /\ c.retainedBytes = SizeOf(c, K)
    BY DEF Sound
<1>2. d = [entries       |-> c.entries,
           recency       |-> Append(Without(c.recency, {key}), key),
           retainedBytes |-> c.retainedBytes]
    <2>1. PICK a, b, z : c = [entries |-> a, recency |-> b, retainedBytes |-> z]
        BY <1>1
    <2>2. c.entries = a /\ c.recency = b /\ c.retainedBytes = z
        BY <2>1
    <2>3. \A w : [c EXCEPT !.recency = w] = [entries |-> a, recency |-> w, retainedBytes |-> z]
        BY <2>1
    <2>4. Touch(c, key) = [c EXCEPT !.recency = Append(Without(c.recency, {key}), key)]
        BY DEF Touch
    <2> QED BY <2>2, <2>3, <2>4
<1>3. /\ Sound(e) /\ DOMAIN e.entries = K \ {key}
      /\ \A k \in DOMAIN e.entries : e.entries[k] = c.entries[k]
      /\ e.recency = Without(c.recency, {key} \cap K)
    BY EraseSound
<1>4. c.entries[key].size \in Nat
    BY <1>1 DEF Sized
<1> HIDE DEF e, d
<1>5. /\ Sound(f) /\ DOMAIN f.entries = DOMAIN e.entries \cup {key}
      /\ f.recency = Append(e.recency, key)
    <2>1. PICK entry : entry = c.entries[key]
        OBVIOUS
    <2>2. entry.size \in Nat /\ key \notin DOMAIN e.entries
        BY <1>3, <1>4, <2>1
    <2>3. Sound(e)
        BY <1>3
    <2> DEFINE g == Insert(e, key, entry)
    <2> HIDE DEF f
    <2>4. Sound(g)
        BY <2>2, <2>3, InsertSound
    <2>5. DOMAIN g.entries = DOMAIN e.entries \cup {key}
        BY <2>2, <2>3, InsertSound
    <2>6. g.recency = Append(e.recency, key)
        BY DEF Insert
    <2>7. g = f
        BY <2>1, Zenon DEF f
    <2> HIDE DEF g
    <2> QED BY <2>4, <2>5, <2>6, <2>7
<1> HIDE DEF f
<1>6. DOMAIN f.entries = K /\ {key} \cap K = {key}
    BY <1>3, <1>5
<1>7. f.recency = d.recency
    <2>1. e.recency = Without(c.recency, {key})
        BY <1>3, <1>6, Zenon
    <2> QED BY <1>2, <1>5, <2>1
<1>8. d.entries = c.entries /\ d.retainedBytes = c.retainedBytes
    BY <1>2
<1>9. /\ d.recency \in Seq(K) /\ {d.recency[i] : i \in DOMAIN d.recency} = K
      /\ Distinct(d.recency)
    <2>1. /\ f.recency \in Seq(DOMAIN f.entries)
          /\ {f.recency[i] : i \in DOMAIN f.recency} = DOMAIN f.entries
          /\ Distinct(f.recency)
        BY <1>5 DEF Sound
    <2> QED BY <1>6, <1>7, <2>1, Zenon
<1>10. SizeOf(d, K) = SizeOf(c, K)
    BY <1>1, <1>8, SizeOfSame DEF Sized
<1>11. d = [entries |-> d.entries, recency |-> d.recency, retainedBytes |-> d.retainedBytes]
    BY <1>2
<1>12. Sized(d)
    BY <1>1, <1>8 DEF Sized
<1>13. Sound(d)
    BY <1>1, <1>8, <1>9, <1>10, <1>11, <1>12 DEF Sound
<1> QED BY <1>8, <1>13 DEF d

\* What e retains of c is all but the v oldest entries, and with the last of
\* these it would exceed a limit.
OldestGone(c, e, maxEntries, maxBytes) ==
    \E v \in 0..Len(c.recency) :
        /\ DOMAIN e.entries = DOMAIN c.entries \ {c.recency[j] : j \in 1..v}
        /\ Cardinality(DOMAIN e.entries) = Len(c.recency) - v
        /\ v > 0 => \/ Len(c.recency) - v + 1 > maxEntries
                    \/ e.retainedBytes + c.entries[c.recency[v]].size > maxBytes

\* Eviction takes out the oldest entries, and afterwards both limits hold.
LEMMA EvictSound ==
    ASSUME NEW c, Sound(c), NEW maxEntries \in Nat, NEW maxBytes \in Nat
    PROVE  LET e == EvictUntilWithinBudget(c, maxEntries, maxBytes)
           IN  /\ Sound(e)
               /\ WithinBudget(e, maxEntries, maxBytes)
               /\ \A k \in DOMAIN e.entries :
                     k \in DOMAIN c.entries /\ e.entries[k] = c.entries[k]
               /\ OldestGone(c, e, maxEntries, maxBytes)
<1> DEFINE r == c.recency
           n == Len(r)
           K == DOMAIN c.entries
           Oldest(i) == {r[j] : j \in 1..i}
           T == {i \in 0..n :
                    \/ i = n
                    \/ /\ n - i <= maxEntries
                       /\ c.retainedBytes - SizeOf(c, Oldest(i)) <= maxBytes}
           v == Min(T)
           e == EvictUntilWithinBudget(c, maxEntries, maxBytes)
<1>1. /\ r \in Seq(K) /\ {r[i] : i \in DOMAIN r} = K /\ Distinct(r)
      /\ n \in Nat /\ DOMAIN r = 1..n /\ IsFiniteSet(K)
    BY DEF Sound, Sized
<1>2. e = Erase(c, Oldest(v))
    BY DEF EvictUntilWithinBudget
<1>3. v \in T
    <2>1. n \in T /\ T \in SUBSET Nat
        BY <1>1
    <2> HIDE DEF T
    <2>2. PICK x \in T : \A y \in T : x <= y
        BY <2>1, LeastNatural
    <2> QED BY <2>2 DEF Min
<1>4. \A i \in T : v <= i
    <2>1. n \in T /\ T \in SUBSET Nat
        BY <1>1
    <2> HIDE DEF T
    <2>2. PICK x \in T : \A y \in T : x <= y
        BY <2>1, LeastNatural
    <2> QED BY <2>2 DEF Min
<1>5. v > 0 => v - 1 \notin T
    <2>1. v \in Nat
        BY <1>1, <1>3
    <2> HIDE DEF v, T
    <2> QED BY <1>4, <2>1
<1>6. v > 0 => \/ n - (v - 1) > maxEntries
               \/ c.retainedBytes - SizeOf(c, Oldest(v - 1)) > maxBytes
    <2>1. v \in 0..n /\ n \in Nat
        BY <1>1, <1>3
    <2>2. c.retainedBytes \in Nat
        BY SoundAccounted
    <2> SUFFICES ASSUME v > 0
                 PROVE  \/ n - (v - 1) > maxEntries
                        \/ c.retainedBytes - SizeOf(c, Oldest(v - 1)) > maxBytes
        OBVIOUS
    <2> DEFINE before == SizeOf(c, Oldest(v - 1))
    <2>3. before \in Nat
        <3>1. Oldest(v - 1) \in SUBSET K
            <4> HIDE DEF v, T, e, n
            <4>1. ASSUME NEW j \in 1..v - 1 PROVE r[j] \in K
                <5>1. j \in 1..n
                    BY <2>1
                <5> QED BY <1>1, <5>1
            <4> QED BY <4>1
        <3> HIDE DEF v
        <3> QED BY <3>1, SizeOfNat DEF Sound
    <2>4. ~(n - (v - 1) <= maxEntries /\ c.retainedBytes - before <= maxBytes)
        <3>1. v - 1 \in 0..n
            <4> HIDE DEF v, n
            <4> QED BY <2>1
        <3>2. v - 1 \in T <=> \/ v - 1 = n
                              \/ n - (v - 1) <= maxEntries /\ c.retainedBytes - before <= maxBytes
            <4> HIDE DEF v, n, Oldest
            <4> QED BY <3>1
        <3> HIDE DEF v, T, before
        <3> QED BY <1>5, <3>2
    <2> HIDE DEF v, n, before, T
    <2>5. \/ n - (v - 1) > maxEntries
          \/ c.retainedBytes - before > maxBytes
        BY <2>1, <2>2, <2>3, <2>4
    <2> QED BY <2>5 DEF before
<1>7. /\ v \in 0..n
      /\ v = n \/ /\ n - v <= maxEntries
                  /\ c.retainedBytes - SizeOf(c, Oldest(v)) <= maxBytes
    BY <1>3
<1> HIDE DEF v, T, e, n, r
<1>8. Oldest(v) \in SUBSET K /\ Oldest(v) \cap K = Oldest(v)
    BY <1>1, <1>7, SMTT(30)
<1>9. /\ Sound(e) /\ DOMAIN e.entries = K \ Oldest(v)
      /\ \A k \in DOMAIN e.entries : e.entries[k] = c.entries[k]
      /\ e.retainedBytes = c.retainedBytes - SizeOf(c, Oldest(v))
    <2>1. /\ Sound(e) /\ DOMAIN e.entries = K \ Oldest(v)
          /\ \A k \in DOMAIN e.entries : e.entries[k] = c.entries[k]
          /\ e.retainedBytes = c.retainedBytes - SizeOf(c, Oldest(v) \cap K)
        BY <1>2, EraseSound
    <2> QED BY <1>8, <2>1, Zenon
<1>10. Cardinality(DOMAIN e.entries) = n - v
    <2> DEFINE q == [i \in 1..(n - v) |-> r[i + v]]
    <2>1. n - v \in Nat
        BY <1>1, <1>7
    <2>2. \A i \in 1..(n - v) : i + v \in 1..n /\ i + v > v
        BY <1>1, <1>7
    <2>3. ASSUME NEW j \in 1..n
          PROVE  r[j] \in Oldest(v) <=> j <= v
        BY <1>1, <1>7 DEF Distinct
    <2>4. ASSUME NEW i \in 1..(n - v)
          PROVE  r[i + v] \in K \ Oldest(v)
        <3>1. PICK j \in 1..n : j = i + v /\ j > v
            BY <2>2
        <3> QED BY <1>1, <1>7, <2>3, <3>1
    <2>5. ASSUME NEW k \in K \ Oldest(v)
          PROVE  \E i \in 1..(n - v) : r[i + v] = k
        <3>1. PICK j \in 1..n : r[j] = k
            BY <1>1
        <3>2. j > v
            BY <1>1, <1>7, <2>3, <3>1
        <3>3. j - v \in 1..(n - v) /\ (j - v) + v = j
            BY <1>1, <1>7, <3>2
        <3> QED BY <3>1, <3>3
    <2>6. \A i, j \in 1..(n - v) : q[i] = q[j] => i = j
        <3> SUFFICES ASSUME NEW i \in 1..(n - v), NEW j \in 1..(n - v), r[i + v] = r[j + v]
                     PROVE  i = j
            OBVIOUS
        <3>1. i + v = j + v
            BY <1>1, <2>2 DEF Distinct
        <3> QED BY <1>7, <3>1
    <2>7. q \in Bijection(1..(n - v), K \ Oldest(v))
        BY <2>4, <2>5, <2>6 DEF Bijection, Injection, Surjection, IsInjective
    <2>8. Cardinality(K \ Oldest(v)) = n - v
        BY <2>1, <2>7, FS_CountingElements DEF ExistsBijection
    <2> QED BY <1>9, <2>8, Zenon
<1>11. WithinBudget(e, maxEntries, maxBytes)
    <2>1. CASE v # n
        BY <1>7, <1>9, <1>10, <2>1 DEF WithinBudget
    <2>2. CASE v = n
        <3>1. Oldest(v) = K
            BY <1>1, <2>2
        <3>2. SizeOf(c, Oldest(v)) = c.retainedBytes /\ c.retainedBytes \in Nat
            BY <3>1, SoundAccounted, Zenon DEF Sound
        <3>3. \A x \in Nat : x - x = 0
            OBVIOUS
        <3>4. e.retainedBytes = 0
            BY <1>9, <3>2, <3>3
        <3>5. Cardinality(DOMAIN e.entries) = 0
            BY <1>1, <1>10, <2>2, <3>3
        <3> QED BY <3>4, <3>5 DEF WithinBudget
    <2> QED BY <2>1, <2>2
<1>12. ASSUME v > 0
      PROVE  n - v + 1 > maxEntries \/ e.retainedBytes + c.entries[r[v]].size > maxBytes
    <2>1. v \in 1..n /\ r[v] \in Oldest(v) /\ r[v] \in K
        BY <1>1, <1>7, <1>12
    <2>2. Oldest(v) \ {r[v]} = Oldest(v - 1)
        <3>1. \A j \in 1..v : r[j] = r[v] <=> j = v
            BY <1>1, <2>1 DEF Distinct
        <3>2. \A j : j \in 1..(v - 1) <=> j \in 1..v /\ j # v
            BY <2>1
        <3> QED BY <3>1, <3>2
    <2> DEFINE S == Oldest(v)
    <2>3. SizeOf(c, S) = c.entries[r[v]].size + SizeOf(c, S \ {r[v]})
        <3>1. S \in SUBSET K /\ r[v] \in S /\ Sized(c)
            BY <1>8, <2>1 DEF Sound
        <3> HIDE DEF S
        <3> QED BY <3>1, SizeOfRemove
    <2>4. SizeOf(c, Oldest(v)) = c.entries[r[v]].size + SizeOf(c, Oldest(v - 1))
        BY <2>2, <2>3, Zenon
    <2>5. c.entries[r[v]].size \in Nat /\ SizeOf(c, Oldest(v - 1)) \in Nat
        <3>1. Oldest(v - 1) \in SUBSET K
            BY <1>8, <2>2
        <3> QED BY <2>1, <3>1, SizeOfNat DEF Sound, Sized
    <2>6. c.retainedBytes \in Nat
        BY SoundAccounted
    <2> QED BY <1>1, <1>9, <1>12, <1>6, <2>1, <2>4, <2>5, <2>6
<1>13. OldestGone(c, e, maxEntries, maxBytes)
    BY <1>7, <1>9, <1>10, <1>12 DEF OldestGone, n, r
<1> QED BY <1>9, <1>11, <1>13 DEF e

-----------------------------------------------------------------------------
(* The parsed source cache.                                                *)

\* Erasing keeps any limits that held before.
LEMMA EraseBounded ==
    ASSUME NEW c, Sound(c), NEW keys, NEW maxEntries \in Nat, NEW maxBytes \in Nat,
           WithinBudget(c, maxEntries, maxBytes)
    PROVE  Sound(Erase(c, keys)) /\ WithinBudget(Erase(c, keys), maxEntries, maxBytes)
<1> DEFINE e == Erase(c, keys)
<1>1. /\ Sound(e) /\ e.retainedBytes <= c.retainedBytes
      /\ Cardinality(DOMAIN e.entries) <= Cardinality(DOMAIN c.entries)
    BY EraseSound
<1> HIDE DEF e
<1>2. /\ Cardinality(DOMAIN e.entries) \in Nat /\ e.retainedBytes \in Nat
      /\ Cardinality(DOMAIN c.entries) \in Nat /\ c.retainedBytes \in Nat
    BY <1>1, SoundAccounted
<1>3. WithinBudget(e, maxEntries, maxBytes)
    BY <1>1, <1>2 DEF WithinBudget
<1> QED BY <1>1, <1>3 DEF e

\* The inductive invariant of the parsed source cache.
Bounded(c) == Sound(c) /\ WithinBudget(c, MaxParsedEntries, MaxParsedBytes)

\* The empty cache is within every limit.
LEMMA EmptyBounded == Bounded(EmptyCache)
<1>1. Cardinality(DOMAIN EmptyCache.entries) = 0
    BY EmptySound, FS_EmptySet, Zenon
<1>2. EmptyCache.retainedBytes = 0
    BY DEF EmptyCache
<1> QED BY <1>1, <1>2, EmptySound, ParsedSourceCacheAssumption DEF Bounded, WithinBudget

\* getOrBuild keeps the cache sound and within its limits.
LEMMA GetOrBuildBounded ==
    ASSUME NEW c, Bounded(c), NEW key, NEW text \in DOMAIN ArtifactSize
    PROVE  Bounded(GetOrBuild(c, key, text))
<1> DEFINE entry   == [bytes |-> text, size |-> ArtifactSize[text]]
           cleared == Erase(c, {key})
           filled  == Insert(cleared, key, entry)
           evicted == EvictUntilWithinBudget(filled, MaxParsedEntries, MaxParsedBytes)
<1>1. /\ MaxParsedEntries \in Nat /\ MaxParsedBytes \in Nat /\ entry.size \in Nat
      /\ Sound(c) /\ WithinBudget(c, MaxParsedEntries, MaxParsedBytes)
    BY ParsedSourceCacheAssumption DEF Bounded
<1>2. CASE IsHit(c, key, text)
    <2> DEFINE d == Touch(c, key)
    <2>1. key \in DOMAIN c.entries /\ GetOrBuild(c, key, text) = d
        BY <1>2 DEF IsHit, GetOrBuild
    <2>2. Sound(d) /\ d.entries = c.entries /\ d.retainedBytes = c.retainedBytes
        BY <1>1, <2>1, TouchSound
    <2> HIDE DEF d
    <2>3. WithinBudget(d, MaxParsedEntries, MaxParsedBytes)
        BY <1>1, <2>2 DEF WithinBudget
    <2> QED BY <2>1, <2>2, <2>3 DEF Bounded
<1>3. Bounded(cleared)
    BY <1>1, EraseBounded DEF Bounded
<1>4. Bounded(evicted)
    <2>1. Sound(cleared) /\ key \notin DOMAIN cleared.entries
        <3>1. Sound(cleared) /\ DOMAIN cleared.entries = DOMAIN c.entries \ {key}
            BY <1>1, EraseSound
        <3> HIDE DEF cleared
        <3> QED BY <3>1
    <2> HIDE DEF cleared, entry
    <2>2. Sound(filled)
        BY <1>1, <2>1, InsertSound
    <2> HIDE DEF filled
    <2> QED BY <1>1, <2>2, EvictSound DEF Bounded
<1>5. CASE ~IsHit(c, key, text)
    <2>1. GetOrBuild(c, key, text) = cleared \/ GetOrBuild(c, key, text) = evicted
        BY <1>5 DEF GetOrBuild
    <2> HIDE DEF cleared, evicted
    <2> QED BY <1>3, <1>4, <2>1
<1> QED BY <1>2, <1>5

\* The invariant holds under any sequence of getOrBuild, invalidateUri and clear.
THEOREM ParsedCacheInvariant == LruSpec => []Bounded(lruCache)
<1>1. LruInit => Bounded(lruCache)
    BY EmptyBounded DEF LruInit
<1>2. Bounded(lruCache) /\ [LruNext]_lruVars => Bounded(lruCache)'
    <2> SUFFICES ASSUME Bounded(lruCache), [LruNext]_lruVars
                 PROVE  Bounded(lruCache')
        OBVIOUS
    <2>1. ASSUME NEW lookup \in Lookups, Request(lookup)
          PROVE  Bounded(lruCache')
        BY <2>1, GetOrBuildBounded, ParsedCacheSpecAssumption DEF Request
    <2>2. ASSUME NEW uri, Invalidate(uri)
          PROVE  Bounded(lruCache')
        BY <2>2, EraseBounded, ParsedSourceCacheAssumption DEF Invalidate, InvalidateUri, Bounded
    <2>3. CASE Clear
        BY <2>3, EmptyBounded DEF Clear
    <2>4. CASE UNCHANGED lruVars
        BY <2>4 DEF lruVars
    <2> QED BY <2>1, <2>2, <2>3, <2>4 DEF LruNext
<1> QED BY <1>1, <1>2, PTL DEF LruSpec

\* Under any sequence of getOrBuild, invalidateUri and clear, the accounting of
\* the parsed source cache is exact and both limits hold, for all limits and
\* all sizes of the artifacts.
THEOREM ParsedAlwaysBounded == LruSpec => []ParsedBounded
<1>1. Bounded(lruCache) => ParsedBounded
    BY SoundAccounted DEF Bounded, ParsedBounded
<1> QED BY <1>1, ParsedCacheInvariant, PTL

\* The position of an element in an order that lists it once.
LEMMA IndexInOrder ==
    ASSUME NEW K, NEW r \in Seq(K), Distinct(r), NEW i \in DOMAIN r
    PROVE  IndexIn(r, r[i]) = i
BY DEF IndexIn, Distinct

\* What getOrBuild evicts is older than everything it keeps, and no more than
\* it must.
LEMMA GetOrBuildEvicts ==
    ASSUME NEW c, Bounded(c), NEW key, NEW text \in DOMAIN ArtifactSize
    PROVE  /\ OldestFirst(c, GetOrBuild(c, key, text), key, text)
           /\ OnlyForSpace(c, GetOrBuild(c, key, text), key, text)
<1> DEFINE entry   == [bytes |-> text, size |-> ArtifactSize[text]]
           K       == DOMAIN c.entries
           r       == c.recency
           cleared == Erase(c, {key})
           w       == cleared.recency
           filled  == Insert(cleared, key, entry)
           n       == Len(filled.recency)
           evicted == EvictUntilWithinBudget(filled, MaxParsedEntries, MaxParsedBytes)
           after   == GetOrBuild(c, key, text)
<1>1. /\ MaxParsedEntries \in Nat /\ MaxParsedBytes \in Nat /\ entry.size \in Nat
      /\ entry.size = ArtifactSize[text] /\ Sound(c)
    BY ParsedSourceCacheAssumption DEF Bounded
<1>2. r \in Seq(K) /\ {r[i] : i \in DOMAIN r} = K /\ Distinct(r)
    BY <1>1 DEF Sound
<1>3. CASE IsHit(c, key, text)
    <2> DEFINE d == Touch(c, key)
    <2>1. key \in K /\ after = d
        BY <1>3 DEF IsHit, GetOrBuild
    <2>2. d.entries = c.entries
        BY <1>1, <2>1, TouchSound
    <2> HIDE DEF d, after
    <2> QED BY <2>1, <2>2 DEF OldestFirst, OnlyForSpace, Victims, after
<1>4. CASE ~IsHit(c, key, text) /\ ~(entry.size <= MaxParsedBytes \/ RetainOversizedEntry)
    <2>1. after = cleared
        BY <1>4 DEF GetOrBuild
    <2>2. DOMAIN cleared.entries = K \ {key}
        BY <1>1, EraseSound
    <2>3. ~(ArtifactSize[text] <= MaxParsedBytes)
        BY <1>1, <1>4
    <2> HIDE DEF cleared, after
    <2> QED BY <2>1, <2>2, <2>3 DEF OldestFirst, OnlyForSpace, Victims, after
<1>5. CASE ~IsHit(c, key, text) /\ (entry.size <= MaxParsedBytes \/ RetainOversizedEntry)
    <2>1. after = evicted
        BY <1>5 DEF GetOrBuild
    <2>2. /\ Sound(cleared) /\ DOMAIN cleared.entries = K \ {key}
          /\ w = Without(r, {key} \cap K)
          /\ \A k \in DOMAIN cleared.entries : cleared.entries[k] = c.entries[k]
        BY <1>1, EraseSound
    <2>3. /\ w \in Seq(K) /\ {w[i] : i \in DOMAIN w} = K \ ({key} \cap K)
          /\ \A i, j \in DOMAIN w : \A p, q \in DOMAIN r :
                w[i] = r[p] /\ w[j] = r[q] /\ i < j => p < q
        <3>1. PICK keys : keys = {key} \cap K
            OBVIOUS
        <3>2. w = Without(r, keys)
            BY <2>2, <3>1, Zenon
        <3> HIDE DEF w, r
        <3>3. /\ w \in Seq(K) /\ {w[i] : i \in DOMAIN w} = {r[i] : i \in DOMAIN r} \ keys
              /\ \A i, j \in DOMAIN w : \A p, q \in DOMAIN r :
                    w[i] = r[p] /\ w[j] = r[q] /\ i < j => p < q
            BY <1>2, <3>2, WithoutKeeps
        <3> QED BY <1>2, <3>1, <3>3, Zenon
    <2> HIDE DEF cleared, entry, after
    <2>4. Sound(filled) /\ DOMAIN filled.entries = DOMAIN cleared.entries \cup {key}
          /\ filled.recency = Append(w, key)
          /\ filled.entries[key] = entry
          /\ \A k \in DOMAIN cleared.entries : filled.entries[k] = cleared.entries[k]
        <3>1. key \notin DOMAIN cleared.entries /\ Sound(cleared) /\ entry.size \in Nat
            BY <1>1, <2>2
        <3>2. Sound(filled)
            BY <3>1, InsertSound
        <3>3. DOMAIN filled.entries = DOMAIN cleared.entries \cup {key}
            BY <3>1, InsertSound
        <3>4. filled.recency = Append(w, key)
            BY DEF Insert
        <3>5. /\ filled.entries[key] = entry
              /\ \A k \in DOMAIN cleared.entries : filled.entries[k] = cleared.entries[k]
            BY <3>1, InsertSound
        <3> QED BY <3>2, <3>3, <3>4, <3>5, Zenon
    <2> HIDE DEF filled
    <2>5. PICK v \in 0..n :
              /\ DOMAIN evicted.entries = DOMAIN filled.entries \ {filled.recency[j] : j \in 1..v}
              /\ Cardinality(DOMAIN evicted.entries) = n - v
              /\ v > 0 => \/ n - v + 1 > MaxParsedEntries
                          \/ evicted.retainedBytes + filled.entries[filled.recency[v]].size
                                > MaxParsedBytes
        <3>1. OldestGone(filled, evicted, MaxParsedEntries, MaxParsedBytes)
            BY <1>1, <2>4, EvictSound
        <3> HIDE DEF evicted
        <3> QED BY <3>1 DEF OldestGone
    <2>6. Sound(evicted)
        BY <1>1, <2>4, EvictSound
    <2> HIDE DEF evicted
    <2>7. /\ Len(w) \in Nat /\ DOMAIN w = 1..Len(w) /\ n = Len(w) + 1
          /\ filled.recency[n] = key /\ \A i \in 1..Len(w) : filled.recency[i] = w[i]
        <3>1. w \in Seq(K \cup {key})
            BY <2>3
        <3>2. \A s \in Seq(K \cup {key}) :
                 /\ Len(s) \in Nat /\ DOMAIN s = 1..Len(s)
                 /\ Len(Append(s, key)) = Len(s) + 1
                 /\ Append(s, key)[Len(s) + 1] = key
                 /\ \A i \in 1..Len(s) : Append(s, key)[i] = s[i]
            OBVIOUS
        <3> QED BY <2>4, <3>1, <3>2
    <2> HIDE DEF w, n, r
    <2>8. ASSUME NEW k \in K \ {key}
          PROVE  \E i \in 1..Len(w) : w[i] = k
        BY <2>3, <2>7
    <2>9. ASSUME NEW k \in K \ {key}, k \in DOMAIN evicted.entries,
                 NEW i \in 1..Len(w), w[i] = k
          PROVE  i > v
        <3>1. filled.recency[i] = k
            BY <2>7, <2>9
        <3>2. i \notin 1..v
            BY <2>5, <2>9, <3>1
        <3> QED BY <2>5, <2>7, <3>2
    <2>10. ASSUME NEW j \in 1..n, j > v
          PROVE  filled.recency[j] \in DOMAIN evicted.entries
        <3>1. Distinct(filled.recency) /\ filled.recency \in Seq(DOMAIN filled.entries)
            BY <2>4 DEF Sound
        <3>2. DOMAIN filled.recency = 1..n /\ n \in Nat
            BY <3>1 DEF n
        <3>3. filled.recency[j] \in DOMAIN filled.entries
            BY <3>1, <3>2
        <3>4. ASSUME NEW l \in 1..v
              PROVE  filled.recency[l] # filled.recency[j]
            <4>1. l \in 1..n /\ l # j
                BY <2>10, <3>2
            <4> QED BY <3>1, <3>2, <4>1 DEF Distinct
        <3> QED BY <2>5, <3>3, <3>4
    <2>11. ASSUME NEW k \in K \ {key}, k \in DOMAIN evicted.entries
           PROVE  key \in DOMAIN evicted.entries
        <3>1. PICK i \in 1..Len(w) : w[i] = k
            BY <2>8
        <3>2. i > v
            BY <2>9, <2>11, <3>1
        <3>3. n \in 1..n /\ n > v
            BY <2>5, <2>7, <3>2
        <3> QED BY <2>7, <2>10, <3>3
    <2>12. ASSUME NEW k \in K \ {key}, k \in DOMAIN evicted.entries, NEW j \in K \ {key},
                  IndexIn(r, k) < IndexIn(r, j)
           PROVE  j \in DOMAIN evicted.entries
        <3>1. PICK a \in 1..Len(w) : w[a] = k
            BY <2>8
        <3>2. PICK b \in 1..Len(w) : w[b] = j
            BY <2>8
        <3>3. PICK p \in DOMAIN r, q \in DOMAIN r : r[p] = k /\ r[q] = j
            BY <1>2
        <3>4. IndexIn(r, r[p]) = p /\ IndexIn(r, r[q]) = q
            BY <1>2, IndexInOrder
        <3>5. p < q /\ p \in Nat /\ q \in Nat
            BY <1>2, <2>12, <3>3, <3>4
        <3>6. ~(b < a)
            <4>1. b < a => q < p
                BY <2>3, <2>7, <3>1, <3>2, <3>3
            <4> QED BY <3>5, <4>1
        <3>7. b \in 1..n /\ b > v
            <4>1. a > v
                BY <2>9, <2>12, <3>1
            <4> QED BY <2>5, <2>7, <3>6, <4>1
        <3>8. filled.recency[b] = j
            BY <2>7, <3>2
        <3> QED BY <2>10, <3>7, <3>8
    <2>13. ASSUME entry.size <= MaxParsedBytes, NEW x \in Victims(c, evicted, key),
                  \A y \in Victims(c, evicted, key) : ~(IndexIn(r, x) < IndexIn(r, y))
           PROVE  \/ Cardinality(DOMAIN evicted.entries) + 1 > MaxParsedEntries
                  \/ evicted.retainedBytes + c.entries[x].size > MaxParsedBytes
        <3>1. x \in K \ {key} /\ x \notin DOMAIN evicted.entries
            BY <2>13 DEF Victims
        <3>2. PICK a \in 1..Len(w) : w[a] = x
            BY <2>8, <3>1
        <3>3. a <= v /\ v > 0 /\ v \in Nat /\ n \in Nat
            <4>1. a \in 1..n /\ filled.recency[a] = x
                BY <2>7, <3>2
            <4>2. ~(a > v)
                BY <2>10, <3>1, <4>1
            <4> QED BY <2>5, <2>7, <4>1, <4>2
        <3>4. CASE v = n
            <4>1. DOMAIN evicted.entries = {}
                <5>1. ASSUME NEW k \in DOMAIN evicted.entries
                      PROVE  FALSE
                    <6>1. {filled.recency[i] : i \in DOMAIN filled.recency} = DOMAIN filled.entries
                          /\ DOMAIN filled.recency = 1..n
                        BY <2>4 DEF Sound, n
                    <6> QED BY <2>5, <3>4, <5>1, <6>1
                <5> QED BY <5>1
            <4>2. evicted.retainedBytes = 0
                <5>1. SizeOf(evicted, {}) = 0
                    BY FS_EmptySet, SizeOfPick
                <5> QED BY <2>6, <4>1, <5>1, Zenon DEF Sound
            <4>3. filled.entries[filled.recency[v]] = entry
                BY <2>4, <2>7, <3>4
            <4>4. n - v + 1 > MaxParsedEntries \/ 0 + entry.size > MaxParsedBytes
                BY <2>5, <3>3, <4>2, <4>3
            <4> QED BY <1>1, <2>5, <2>13, <3>3, <4>4
        <3>5. CASE v # n
            <4> DEFINE y == w[v]
            <4>1. v \in 1..Len(w) /\ filled.recency[v] = y
                BY <2>5, <2>7, <3>3, <3>5
            <4>2. y \in K \ {key}
                <5>1. y \in K \ ({key} \cap K)
                    BY <2>3, <2>7, <4>1
                <5> QED BY <5>1
            <4>3. y \in Victims(c, evicted, key)
                <5>1. v \in 1..v
                    BY <3>3
                <5>2. y \notin DOMAIN evicted.entries
                    BY <2>5, <4>1, <5>1
                <5> QED BY <4>2, <5>2 DEF Victims
            <4>4. y = x
                <5>1. PICK p \in DOMAIN r, q \in DOMAIN r : r[p] = x /\ r[q] = y
                    BY <1>2, <3>1, <4>2
                <5>2. IndexIn(r, x) = p /\ IndexIn(r, y) = q
                    BY <1>2, <5>1, IndexInOrder
                <5>3. ~(a < v)
                    <6>1. a < v => p < q
                        BY <2>3, <2>7, <3>2, <4>1, <5>1
                    <6> QED BY <2>13, <4>3, <5>2, <6>1
                <5>4. a = v
                    BY <3>2, <3>3, <5>3
                <5> QED BY <3>2, <5>4
            <4>5. filled.entries[filled.recency[v]] = c.entries[x]
                <5>1. x \in DOMAIN cleared.entries
                    BY <2>2, <3>1
                <5> QED BY <2>2, <2>4, <4>1, <4>4, <5>1
            <4> QED BY <2>5, <3>3, <4>5
        <3> QED BY <3>4, <3>5
    <2>14. OldestFirst(c, evicted, key, text)
        BY <2>11, <2>12 DEF OldestFirst, r
    <2>15. OnlyForSpace(c, evicted, key, text)
        <3>1. ArtifactSize[text] <= MaxParsedBytes \/ ~RetainOversizedEntry
                  => entry.size <= MaxParsedBytes
            BY <1>1, <1>5
        <3> QED BY <2>13, <3>1 DEF OnlyForSpace, r
    <2> QED BY <2>1, <2>14, <2>15, Zenon DEF after
<1> QED BY <1>3, <1>4, <1>5 DEF after

\* In every request of every history, the entries that are evicted are the least
\* recently used ones, and no more than the request needs.
LEMMA RequestEvicts ==
    ASSUME Bounded(lruCache), [LruNext]_lruVars
    PROVE  /\ [\A r \in asked' : OldestFirst(lruCache, lruCache', r.key, r.text)]_lruVars
           /\ [\A r \in asked' : OnlyForSpace(lruCache, lruCache', r.key, r.text)]_lruVars
<1>1. ASSUME NEW lookup \in Lookups, Request(lookup), NEW r \in asked'
      PROVE  /\ OldestFirst(lruCache, lruCache', r.key, r.text)
             /\ OnlyForSpace(lruCache, lruCache', r.key, r.text)
    <2> DEFINE text == lookup.text
               key  == ParsedSourceKey(lookup.uri, lookup.contentRevision,
                                       lookup.digest, lookup.mode)
    <2>1. lruCache' = GetOrBuild(lruCache, key, text) /\ r = [key |-> key, text |-> text]
        BY <1>1 DEF Request
    <2>2. r.key = key /\ r.text = text
        BY <2>1
    <2>3. text \in DOMAIN ArtifactSize
        BY ParsedCacheSpecAssumption
    <2> HIDE DEF key, text
    <2>4. /\ OldestFirst(lruCache, GetOrBuild(lruCache, key, text), key, text)
          /\ OnlyForSpace(lruCache, GetOrBuild(lruCache, key, text), key, text)
        BY <2>3, GetOrBuildEvicts
    <2> QED BY <2>1, <2>2, <2>4, Zenon
<1> QED BY <1>1 DEF LruNext, Invalidate, Clear

\* For all limits, an entry survives a request only if every entry used after it
\* survives too, and the requested entry is the last to go.
THEOREM AlwaysEvictsOldestFirst == LruSpec => EvictsOldestFirst
BY RequestEvicts, ParsedCacheInvariant, PTL DEF LruSpec, EvictsOldestFirst

\* For all limits, a request evicts an entry only if the cache would exceed a
\* limit with it; an entry too large to be retained evicts nothing.
THEOREM AlwaysEvictsOnlyForSpace == LruSpec => EvictsOnlyForSpace
BY RequestEvicts, ParsedCacheInvariant, PTL DEF LruSpec, EvictsOnlyForSpace
=============================================================================
