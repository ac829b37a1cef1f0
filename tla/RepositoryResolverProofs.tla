---------------------- MODULE RepositoryResolverProofs ----------------------
(***************************************************************************)
(* Proofs about RepositoryResolver for every web of models, every list of  *)
(* requests and both ports, whichever loads fail: what counts as resolved  *)
(* is closed under dependencies and has its files, the result is in an     *)
(* order in which dependencies come first, and every model is taken in its *)
(* latest version.                                                         *)
(*                                                                         *)
(* The argument is about the stack.  A frame that has not failed has its   *)
(* earlier dependencies resolved, and waits for the model that the frame   *)
(* above it resolves; so what a call returns is what its caller waits for. *)
(***************************************************************************)
EXTENDS RepositoryResolver, FiniteSetTheorems, SequenceTheorems, TLAPS

-----------------------------------------------------------------------------
(* The choice of a version.  Follow is a recursive function: that there is *)
(* such a function, and what it computes, is shown by induction over the   *)
(* set of the open entries, as the search for a smallest counterexample.   *)

\* A non-empty set of naturals has a least element.
LEMMA LeastNatural ==
    ASSUME NEW T \in SUBSET Nat, T # {}
    PROVE  \E x \in T : \A y \in T : x <= y
<1> DEFINE R == OpToRel(<, Nat)
<1>1. IsWellFoundedOn(R, Nat)
    BY NatLessThanWellFounded
<1>2. \A x, y \in Nat : x < y => <<x, y>> \in R
    BY DEF OpToRel
<1> HIDE DEF R
<1>3. PICK x \in T : \A y \in T : ~(<<y, x>> \in R)
    BY <1>1, WFMin
<1>4. \A y \in T : ~(y < x)
    BY <1>2, <1>3
<1> QED BY <1>3, <1>4

\* Among some subsets of a finite set there is one that contains none of the
\* others.
LEMMA SmallestSubset ==
    ASSUME NEW K, IsFiniteSet(K), NEW F \in SUBSET (SUBSET K), F # {}
    PROVE  \E s \in F : \A t \in SUBSET s : t # s => t \notin F
<1> DEFINE R == StrictSubsetOrdering(K)
<1>1. IsWellFoundedOn(R, SUBSET K)
    BY FS_StrictSubsetOrderingWellFounded, FS_FiniteSubsetsOfFinite
<1>2. \A s, t \in SUBSET K : t \subseteq s /\ t # s => <<t, s>> \in R
    BY DEF StrictSubsetOrdering
<1> HIDE DEF R
<1>3. PICK s \in F : \A t \in F : ~(<<t, s>> \in R)
    BY <1>1, WFMin
<1> QED BY <1>2, <1>3

\* A non-empty set of positions has a first one.
LEMMA FirstPosition ==
    ASSUME NEW s \in SUBSET Nat, s # {}
    PROVE  Min(s) \in s /\ \A i \in s : Min(s) <= i
<1>1. \E x \in s : \A y \in s : x <= y
    BY LeastNatural
<1> QED BY <1>1 DEF Min

\* The successors of c among the open entries.
Succeeding(index, c, open) == {i \in open : index[i].precursor = index[c].version}

\* One round of the loop from every entry of K, and g from there.
Round(g, index, K, open) ==
    [c \in K |-> IF Succeeding(index, c, open) = {} THEN c
                 ELSE g[open \ Succeeding(index, c, open)][Min(Succeeding(index, c, open))]]

\* g gives the end of the loop for every set of open entries from s.
IsFollow(g, index, K, s) == g = [open \in SUBSET s |-> Round(g, index, K, open)]

\* A round only looks at smaller sets of open entries.
LEMMA RoundsAgree ==
    ASSUME NEW index, NEW K, NEW open, NEW g, NEW h,
           \A t \in SUBSET open : t # open => g[t] = h[t]
    PROVE  Round(g, index, K, open) = Round(h, index, K, open)
<1>1. ASSUME NEW c \in K, Succeeding(index, c, open) # {}
      PROVE  g[open \ Succeeding(index, c, open)] = h[open \ Succeeding(index, c, open)]
    <2>1. open \ Succeeding(index, c, open) \in SUBSET open
        OBVIOUS
    <2>2. open \ Succeeding(index, c, open) # open
        BY <1>1 DEF Succeeding
    <2> QED BY <2>1, <2>2
<1> QED BY <1>1 DEF Round

\* The end of the loop is the same whichever set the open entries are from.
LEMMA FollowAgree ==
    ASSUME NEW index, NEW K, NEW s, NEW u, IsFiniteSet(s),
           NEW g, NEW h, IsFollow(g, index, K, s), IsFollow(h, index, K, u)
    PROVE  \A open \in SUBSET (s \cap u) : g[open] = h[open]
<1> DEFINE F == {open \in SUBSET (s \cap u) : g[open] # h[open]}
<1> SUFFICES ASSUME F # {} PROVE FALSE
    OBVIOUS
<1>1. F \in SUBSET (SUBSET s)
    OBVIOUS
<1> HIDE DEF F
<1>2. PICK open \in F : \A t \in SUBSET open : t # open => t \notin F
    BY <1>1, SmallestSubset
<1>3. open \in SUBSET s /\ open \in SUBSET u /\ g[open] # h[open]
    BY <1>2 DEF F
<1>4. \A t \in SUBSET open : t # open => g[t] = h[t]
    BY <1>2, <1>3 DEF F
<1>5. Round(g, index, K, open) = Round(h, index, K, open)
    BY <1>4, RoundsAgree
<1>6. g[open] = Round(g, index, K, open) /\ h[open] = Round(h, index, K, open)
    BY <1>3 DEF IsFollow
<1> QED BY <1>3, <1>5, <1>6

\* The function exists for every finite set of entries.
LEMMA FollowExists ==
    ASSUME NEW index, NEW K, NEW S, IsFiniteSet(S)
    PROVE  \E g : IsFollow(g, index, K, S)
<1> DEFINE F == {s \in SUBSET S : ~ \E g : IsFollow(g, index, K, s)}
<1> SUFFICES ASSUME F # {} PROVE FALSE
    OBVIOUS
<1>1. F \in SUBSET (SUBSET S)
    OBVIOUS
<1> HIDE DEF F
<1>2. PICK s \in F : \A t \in SUBSET s : t # s => t \notin F
    BY <1>1, SmallestSubset
<1>3. s \in SUBSET S /\ ~ \E g : IsFollow(g, index, K, s)
    BY <1>2 DEF F
<1> DEFINE W == [t \in SUBSET s |-> CHOOSE g : IsFollow(g, index, K, t)]
<1>4. ASSUME NEW t \in SUBSET s, t # s
      PROVE  IsFollow(W[t], index, K, t) /\ IsFiniteSet(t)
    <2>1. \E g : IsFollow(g, index, K, t)
        BY <1>2, <1>3, <1>4 DEF F
    <2>2. IsFiniteSet(t)
        BY <1>3, FS_Subset
    <2> QED BY <2>1, <2>2
<1> HIDE DEF W
<1> DEFINE below == [t \in SUBSET s |-> W[t][t]]
           g == [open \in SUBSET s |-> Round(below, index, K, open)]
<1>5. ASSUME NEW u \in SUBSET s, u # s
      PROVE  g[u] = below[u]
    <2>1. PICK a : a = W[u]
        OBVIOUS
    <2>2. IsFollow(a, index, K, u)
        BY <1>4, <1>5, <2>1
    <2>3. ASSUME NEW v \in SUBSET u, v # u
          PROVE  below[v] = a[v]
        <3>1. PICK b : b = W[v]
            OBVIOUS
        <3>2. v \in SUBSET s /\ v # s /\ v \in SUBSET (v \cap u)
            BY <2>3
        <3>3. IsFollow(b, index, K, v) /\ IsFiniteSet(v)
            BY <1>4, <3>1, <3>2
        <3>4. below[v] = b[v]
            BY <3>1, <3>2
        <3> HIDE DEF below, g
        <3>5. b[v] = a[v]
            BY <2>2, <3>2, <3>3, FollowAgree
        <3> QED BY <3>4, <3>5
    <2>4. below[u] = a[u]
        BY <2>1
    <2> HIDE DEF below
    <2>5. Round(below, index, K, u) = Round(a, index, K, u)
        BY <2>3, RoundsAgree
    <2>6. a[u] = Round(a, index, K, u)
        BY <2>2 DEF IsFollow
    <2>7. g[u] = Round(below, index, K, u)
        OBVIOUS
    <2> QED BY <2>4, <2>5, <2>6, <2>7
<1>6. ASSUME NEW open \in SUBSET s
      PROVE  g[open] = Round(g, index, K, open)
    <2>1. \A t \in SUBSET open : t # open => below[t] = g[t]
        BY <1>5
    <2>2. g[open] = Round(below, index, K, open)
        OBVIOUS
    <2> HIDE DEF g, below
    <2>3. Round(below, index, K, open) = Round(g, index, K, open)
        BY <2>1, RoundsAgree
    <2> QED BY <2>2, <2>3
<1>7. g = [open \in SUBSET s |-> g[open]]
    OBVIOUS
<1> HIDE DEF g
<1>8. IsFollow(g, index, K, s)
    BY <1>6, <1>7 DEF IsFollow
<1> QED BY <1>3, <1>8

\* The definition of Follow, as the loop of an existing function.
LEMMA FollowRuns ==
    ASSUME NEW index, NEW K, IsFiniteSet(K)
    PROVE  \E g : /\ IsFollow(g, index, K, K)
                  /\ Follow(index, K) = g[K \ Roots(index, K)][Min(Roots(index, K))]
<1> DEFINE g == CHOOSE f : IsFollow(f, index, K, K)
<1>1. IsFollow(g, index, K, K)
    BY FollowExists
<1>2. Follow(index, K) = g[K \ Roots(index, K)][Min(Roots(index, K))]
    BY DEF Follow, IsFollow, Round, Succeeding
<1> QED BY <1>1, <1>2

\* The loop ends at c, or goes on from m, the first of the successors t.
GoesOn(g, open, c, t, m) ==
    /\ t = {} => g[open][c] = c
    /\ t # {} => m \in t /\ g[open][c] = g[open \ t][m]

\* What one round does: it ends here, or goes on from the first successor
\* with fewer open entries.
LEMMA RoundOf ==
    ASSUME NEW index, NEW K \in SUBSET Nat, NEW g, IsFollow(g, index, K, K),
           NEW open \in SUBSET K, NEW c \in K,
           NEW t, t = Succeeding(index, c, open), NEW m, m = Min(t)
    PROVE  GoesOn(g, open, c, t, m)
<1>1. g[open] = Round(g, index, K, open)
    BY DEF IsFollow
<1>2. t \in SUBSET Nat
    BY DEF Succeeding
<1>3. t # {} => m \in t
    BY <1>2, FirstPosition
<1>4. g[open][c] = IF t = {} THEN c ELSE g[open \ t][m]
    BY <1>1 DEF Round
<1> QED BY <1>3, <1>4 DEF GoesOn

\* The loop ends at one of the entries.
LEMMA FollowStays ==
    ASSUME NEW index, NEW K \in SUBSET Nat, IsFiniteSet(K), NEW g, IsFollow(g, index, K, K)
    PROVE  \A open \in SUBSET K, c \in K : g[open][c] \in K
<1> DEFINE F == {open \in SUBSET K : \E c \in K : g[open][c] \notin K}
<1> SUFFICES ASSUME F # {} PROVE FALSE
    OBVIOUS
<1>1. F \in SUBSET (SUBSET K)
    OBVIOUS
<1> HIDE DEF F
<1>2. PICK open \in F : \A t \in SUBSET open : t # open => t \notin F
    BY <1>1, SmallestSubset
<1>3. PICK c \in K : open \in SUBSET K /\ g[open][c] \notin K
    BY <1>2 DEF F
<1>4. PICK t : t = Succeeding(index, c, open)
    OBVIOUS
<1>5. PICK m : m = Min(t)
    OBVIOUS
<1>6. GoesOn(g, open, c, t, m)
    BY <1>3, <1>4, <1>5, RoundOf
<1>7. t \subseteq open
    BY <1>4 DEF Succeeding
<1>8. t # {}
    BY <1>3, <1>6 DEF GoesOn
<1>9. open \ t \in SUBSET open /\ open \ t # open /\ m \in K
    BY <1>3, <1>6, <1>7, <1>8 DEF GoesOn
<1>10. open \ t \notin F
    BY <1>2, <1>9
<1> QED BY <1>3, <1>6, <1>8, <1>9, <1>10 DEF F, GoesOn

\* The successors of an entry, and the chains from the first root, as
\* IsLatest has them.
Successors(index, K, i) ==
    {j \in K \ Roots(index, K) : index[j].precursor = index[i].version}

IsChain(index, K, chain) ==
    /\ chain \in SUBSET K
    /\ \A i \in chain :
           \/ i = Min(Roots(index, K))
           \/ \E j \in chain :
                  i \in Successors(index, K, j) /\ i = Min(Successors(index, K, j))

\* The loop has come along a chain to c, and has accounted for the roots and
\* for the successors of what it has passed.
Passed(index, K, chain, c, open) ==
    /\ IsChain(index, K, chain)
    /\ c \in chain
    /\ chain \cap open = {}
    /\ open = {i \in K \ Roots(index, K) :
                  \A w \in chain \ {c} : i \notin Successors(index, K, w)}

\* With distinct versions the successors of c are all still open.
LEMMA PassedSuccessors ==
    ASSUME NEW index, NEW K, DistinctVersions(index, K),
           NEW chain, NEW c, NEW open, Passed(index, K, chain, c, open)
    PROVE  Succeeding(index, c, open) = Successors(index, K, c)
<1>1. chain \in SUBSET K /\ c \in K
    BY DEF Passed, IsChain
<1>2. \A w \in chain \ {c} : index[w].version # index[c].version
    BY <1>1 DEF DistinctVersions
<1>3. \A i \in Successors(index, K, c), w \in chain \ {c} : i \notin Successors(index, K, w)
    BY <1>2 DEF Successors
<1> QED BY <1>3 DEF Passed, Succeeding, Successors

\* One round further along the chain.
LEMMA PassedOn ==
    ASSUME NEW index, NEW K \in SUBSET Nat, DistinctVersions(index, K),
           NEW chain, NEW c, NEW open, Passed(index, K, chain, c, open),
           NEW t, t = Succeeding(index, c, open), NEW m, m = Min(t), m \in t
    PROVE  Passed(index, K, chain \cup {m}, m, open \ t)
<1>1. t = Successors(index, K, c)
    BY PassedSuccessors
<1>2. /\ chain \in SUBSET K /\ c \in chain /\ chain \cap open = {} /\ IsChain(index, K, chain)
      /\ open = {i \in K \ Roots(index, K) :
                    \A w \in chain \ {c} : i \notin Successors(index, K, w)}
    BY DEF Passed, IsChain
<1>3. m \in open /\ m \in K
    BY <1>2 DEF Succeeding
<1>4. IsChain(index, K, chain \cup {m})
    BY <1>1, <1>2, <1>3 DEF IsChain
<1>5. (chain \cup {m}) \ {m} = chain
    BY <1>2, <1>3
<1>6. open \ t = {i \in K \ Roots(index, K) :
                     \A w \in chain : i \notin Successors(index, K, w)}
    BY <1>1, <1>2
<1>7. (chain \cup {m}) \cap (open \ t) = {}
    BY <1>2
<1> QED BY <1>4, <1>5, <1>6, <1>7 DEF Passed

\* From anywhere on the chain the loop ends at the latest version.
LEMMA FollowIsLatest ==
    ASSUME NEW index, NEW K \in SUBSET Nat, IsFiniteSet(K), DistinctVersions(index, K),
           NEW g, IsFollow(g, index, K, K)
    PROVE  \A open \in SUBSET K, c \in K, chain \in SUBSET K :
               Passed(index, K, chain, c, open) => IsLatest(index, K, g[open][c])
<1> DEFINE F == {open \in SUBSET K : \E c \in K, chain \in SUBSET K :
                     Passed(index, K, chain, c, open) /\ ~IsLatest(index, K, g[open][c])}
<1> SUFFICES ASSUME F # {} PROVE FALSE
    OBVIOUS
<1>1. F \in SUBSET (SUBSET K)
    OBVIOUS
<1> HIDE DEF F
<1>2. PICK open \in F : \A t \in SUBSET open : t # open => t \notin F
    BY <1>1, SmallestSubset
<1>3. PICK c \in K, chain \in SUBSET K :
          /\ open \in SUBSET K
          /\ Passed(index, K, chain, c, open)
          /\ ~IsLatest(index, K, g[open][c])
    BY <1>2 DEF F
<1>4. PICK t : t = Succeeding(index, c, open)
    OBVIOUS
<1>5. PICK m : m = Min(t)
    OBVIOUS
<1>6. GoesOn(g, open, c, t, m)
    <2>1. open \in SUBSET K
        BY <1>3
    <2> QED BY <2>1, <1>4, <1>5, RoundOf
<1>7. CASE t = {}
    <2>1. Successors(index, K, c) = {}
        BY <1>3, <1>4, <1>7, PassedSuccessors
    <2>2. IsChain(index, K, chain) /\ c \in chain
        BY <1>3 DEF Passed
    <2>3. IsLatest(index, K, c)
        BY <2>1, <2>2 DEF IsLatest, IsChain, Successors
    <2> QED BY <1>3, <1>6, <1>7, <2>3 DEF GoesOn
<1>8. CASE t # {}
    <2>1. Passed(index, K, chain \cup {m}, m, open \ t)
        BY <1>3, <1>4, <1>5, <1>6, <1>8, PassedOn DEF GoesOn
    <2>2. t \subseteq open /\ m \in t
        BY <1>4, <1>6, <1>8 DEF Succeeding, GoesOn
    <2>3. /\ open \ t \in SUBSET open /\ open \ t # open /\ m \in K
          /\ chain \cup {m} \in SUBSET K
        BY <1>3, <2>2
    <2>4. open \ t \notin F /\ open \ t \in SUBSET K
        BY <1>2, <1>3, <2>3
    <2>5. IsLatest(index, K, g[open \ t][m])
        BY <2>1, <2>3, <2>4 DEF F
    <2> QED BY <1>3, <1>6, <1>8, <2>5 DEF GoesOn
<1> QED BY <1>7, <1>8

\* The selection among some entries with a root is one of them; and if their
\* versions are distinct, it is the latest.
LEMMA FollowSelects ==
    ASSUME NEW index, NEW K \in SUBSET Nat, IsFiniteSet(K), Roots(index, K) # {}
    PROVE  /\ Follow(index, K) \in K
           /\ DistinctVersions(index, K) => IsLatest(index, K, Follow(index, K))
<1>1. PICK roots : roots = Roots(index, K)
    OBVIOUS
<1>2. roots \in SUBSET K
    BY <1>1 DEF Roots
<1>3. PICK c : c = Min(roots)
    OBVIOUS
<1>4. c \in roots
    BY <1>1, <1>2, <1>3, FirstPosition
<1>5. PICK g : IsFollow(g, index, K, K) /\ Follow(index, K) = g[K \ roots][c]
    BY <1>1, <1>3, FollowRuns
<1>6. K \ roots \in SUBSET K /\ c \in K /\ {c} \in SUBSET K
    BY <1>2, <1>4
<1>7. Follow(index, K) \in K
    BY <1>5, <1>6, FollowStays
<1>8. ASSUME DistinctVersions(index, K)
      PROVE  IsLatest(index, K, Follow(index, K))
    <2>1. IsChain(index, K, {c})
        BY <1>1, <1>3, <1>6 DEF IsChain
    <2>2. Passed(index, K, {c}, c, K \ roots)
        BY <1>1, <1>4, <2>1 DEF Passed
    <2> QED BY <1>5, <1>6, <1>8, <2>2, FollowIsLatest
<1> QED BY <1>7, <1>8

-----------------------------------------------------------------------------
(* The search.                                                             *)

\* No language of the preference before l has a selection.
IsPreferred(index, n, l) ==
    \A k \in DOMAIN Preference : Preference[k] = l =>
        \A j \in 1..k - 1 : Roots(index, Candidates(index, n, Preference[j])) = {}

\* What SelectionIsLatest says of one entry.
IsSelection(index, e, lang) ==
    /\ \E s \in Candidates(index, e.name, e.language) :
           /\ index[s] = e
           /\ DistinctVersions(index, Candidates(index, e.name, e.language)) =>
                  IsLatest(index, Candidates(index, e.name, e.language), s)
    /\ IF lang # None THEN e.language = lang ELSE IsPreferred(index, e.name, e.language)

\* The selection in one language.
LEMMA SelectedAmong ==
    ASSUME NEW S, NEW index \in Seq(S), NEW n, NEW l,
           NEW K, K = Candidates(index, n, l), NEW s, s = SelectAmong(index, K)
    PROVE  /\ s = 0 <=> Roots(index, K) = {}
           /\ s # 0 => s \in K /\ (DistinctVersions(index, K) => IsLatest(index, K, s))
<1>1. K \in SUBSET (1..Len(index)) /\ Len(index) \in Nat
    BY DEF Candidates
<1>2. K \in SUBSET Nat /\ 0 \notin K
    BY <1>1
<1>3. IsFiniteSet(K)
    <2>1. IsFiniteSet(1..Len(index))
        BY <1>1, FS_Interval
    <2> QED BY <1>1, <2>1, FS_Subset
<1>4. CASE Roots(index, K) = {}
    BY <1>4 DEF SelectAmong
<1>5. CASE Roots(index, K) # {}
    <2>1. s = Follow(index, K)
        BY <1>5 DEF SelectAmong
    <2>2. s \in K /\ (DistinctVersions(index, K) => IsLatest(index, K, s))
        BY <1>2, <1>3, <1>5, <2>1, FollowSelects
    <2> QED BY <1>2, <1>5, <2>2
<1> QED BY <1>4, <1>5

LEMMA SelectedInLanguage ==
    ASSUME NEW S, NEW index \in Seq(S), NEW n, NEW l, NEW lang,
           NEW s, s = SelectAmong(index, Candidates(index, n, l)), s # 0,
           IF lang # None THEN l = lang ELSE IsPreferred(index, n, l)
    PROVE  s \in 1..Len(index) /\ IsSelection(index, index[s], lang)
<1>1. PICK K : K = Candidates(index, n, l)
    OBVIOUS
<1>2. s \in K /\ (DistinctVersions(index, K) => IsLatest(index, K, s))
    BY <1>1, SelectedAmong
<1>3. s \in 1..Len(index) /\ index[s].name = n /\ index[s].language = l
    BY <1>1, <1>2 DEF Candidates
<1>4. K = Candidates(index, index[s].name, index[s].language)
    BY <1>1, <1>3
<1>5. IF lang # None THEN index[s].language = lang
      ELSE IsPreferred(index, index[s].name, index[s].language)
    BY <1>3
<1> QED BY <1>2, <1>3, <1>4, <1>5 DEF IsSelection

\* selectLatestVersion, in the language asked for or in the first of the
\* preference that has a selection.
LEMMA SelectLatestSelects ==
    ASSUME NEW S, NEW index \in Seq(S), NEW n, NEW lang,
           NEW s, s = SelectLatest(index, n, lang), s # 0
    PROVE  s \in 1..Len(index) /\ IsSelection(index, index[s], lang)
<1>1. CASE lang # None
    <2>1. s = SelectAmong(index, Candidates(index, n, lang))
        BY <1>1 DEF SelectLatest
    <2> QED BY <1>1, <2>1, SelectedInLanguage
<1>2. CASE lang = None
    <2> DEFINE In(l) == SelectAmong(index, Candidates(index, n, l))
    <2>1. PICK having : having = {k \in DOMAIN Preference : In(Preference[k]) # 0}
        OBVIOUS
    <2>2. having # {} /\ s = In(Preference[Min(having)])
        BY <1>2, <2>1 DEF SelectLatest
    <2>3. DOMAIN Preference = 1..3
        BY DEF Preference
    <2>4. having \in SUBSET Nat /\ having \subseteq 1..3
        BY <2>1, <2>3
    <2>5. PICK k : k = Min(having)
        OBVIOUS
    <2>6. k \in having /\ \A i \in having : k <= i
        BY <2>2, <2>4, <2>5, FirstPosition
    <2>7. s = In(Preference[k]) /\ k \in 1..3
        BY <2>2, <2>4, <2>5, <2>6
    <2>8. \A j \in 1..k - 1 : In(Preference[j]) = 0
        BY <2>1, <2>3, <2>4, <2>6
    <2>9. \A j \in 1..k - 1 : Roots(index, Candidates(index, n, Preference[j])) = {}
        BY <2>8, SelectedAmong
    <2>10. \A i \in 1..3 : Preference[i] = Preference[k] => i = k
        BY <2>7 DEF Preference
    <2>11. IsPreferred(index, n, Preference[k])
        BY <2>3, <2>9, <2>10 DEF IsPreferred
    <2>12. PICK l : l = Preference[k]
        OBVIOUS
    <2> QED BY <1>2, <2>7, <2>11, <2>12, SelectedInLanguage
<1> QED BY <1>1, <1>2

\* findModel answers with an entry of the repository it names.
LEMMA LookupSelects ==
    ASSUME NEW all \in IndexLists, NEW n, NEW lang, NEW a, a = Lookup(all, n, lang), a # None
    PROVE  \E r \in DOMAIN all :
               /\ a.repository = r
               /\ a.entry \in Range(all[r])
               /\ IsSelection(all[r], a.entry, lang)
<1> DEFINE selection == [r \in DOMAIN all |-> SelectLatest(all[r], n, lang)]
<1>1. PICK holders : holders = {r \in DOMAIN all : selection[r] # 0}
    OBVIOUS
<1>2. PICK r : r = Min(holders)
    OBVIOUS
<1>3. holders # {} /\ a = [entry |-> all[r][selection[r]], repository |-> r]
    BY <1>1, <1>2 DEF Lookup
<1>4. all \in Seq(Range(all)) /\ \A index \in Range(all) : index \in Seq(Range(index))
    BY ResolverAssumption
<1>5. holders \in SUBSET Nat
    BY <1>1, <1>4
<1>6. r \in holders
    BY <1>2, <1>3, <1>5, FirstPosition
<1>7. r \in DOMAIN all /\ selection[r] # 0
    BY <1>1, <1>6
<1>8. PICK index : index = all[r]
    OBVIOUS
<1>9. PICK s : s = SelectLatest(index, n, lang)
    OBVIOUS
<1>10. s # 0 /\ a = [entry |-> index[s], repository |-> r]
    BY <1>3, <1>7, <1>8, <1>9
<1>11. index \in Seq(Range(index))
    BY <1>4, <1>7, <1>8 DEF Range
<1>12. s \in 1..Len(index) /\ IsSelection(index, index[s], lang)
    BY <1>9, <1>10, <1>11, SelectLatestSelects
<1>13. index[s] \in Range(index)
    BY <1>11, <1>12 DEF Range
<1> QED BY <1>7, <1>8, <1>10, <1>12, <1>13

\* The answers of the search, as Init takes them.
FoundInv ==
    /\ indexes \in IndexLists
    /\ requested \in RequestLists
    /\ found = [n \in Names(indexes) \cup Range(requested) |-> Lookup(indexes, n, language)]

\* Every name that can come up has an answer.
LEMMA FoundWellFormed ==
    ASSUME FoundInv
    PROVE  WellFormed
<1>1. DOMAIN found = Names(indexes) \cup Range(requested)
    BY DEF FoundInv
<1>2. requested \in Seq(DOMAIN found)
    <2>1. requested \in Seq(Range(requested))
        BY ResolverAssumption DEF FoundInv
    <2> QED BY <1>1, <2>1
<1>3. ASSUME NEW n \in DOMAIN found, found[n] # None
      PROVE  Metadata(n).dependencies \in Seq(DOMAIN found)
    <2>1. PICK a : a = found[n]
        OBVIOUS
    <2>2. a = Lookup(indexes, n, language) /\ indexes \in IndexLists /\ a # None
        BY <1>1, <1>3, <2>1 DEF FoundInv
    <2>3. PICK r \in DOMAIN indexes : a.entry \in Range(indexes[r])
        BY <2>2, LookupSelects
    <2>4. PICK e : e = a.entry
        OBVIOUS
    <2>5. indexes[r] \in Range(indexes) /\ e \in Range(indexes[r])
        BY <2>3, <2>4 DEF Range
    <2>6. Range(e.dependencies) \subseteq Names(indexes)
        BY <2>5 DEF Names
    <2>7. e.dependencies \in Seq(Range(e.dependencies))
        BY <2>2, <2>5, ResolverAssumption
    <2>8. e.dependencies \in Seq(DOMAIN found)
        BY <1>1, <2>6, <2>7
    <2> QED BY <2>1, <2>4, <2>8 DEF Metadata
<1> QED BY <1>2, <1>3 DEF WellFormed
-----------------------------------------------------------------------------
(* The stack and the result.                                               *)

Phases == {"requests", "call", "run", "return", "done"}
Frames == [name : DOMAIN found, next : Nat \ {0}, ok : BOOLEAN]
Deps(f) == Metadata(f.name).dependencies

\* A call under way: as long as no dependency has failed, those before the
\* one at hand are resolved.
GoodFrame(f) ==
    /\ f \in Frames
    /\ found[f.name] # None
    /\ f.next <= Len(Deps(f)) + 1
    /\ f.ok => \A j \in 1..f.next - 1 : Deps(f)[j] \in resolved \cup {Builtin}

\* The frame f waits for model n.
Awaits(f, n) == f.next <= Len(Deps(f)) /\ Deps(f)[f.next] = n

\* The caller of resolveOne, the topmost frame or resolve itself, waits for n.
Caller(stack, n) ==
    IF stack = <<>> THEN position \in 1..Len(requested) /\ requested[position] = n
    ELSE Awaits(stack[Len(stack)], n)

GoodStack(stack) ==
    /\ stack \in Seq(Frames)
    /\ \A i \in 1..Len(stack) :
           /\ GoodFrame(stack[i])
           /\ i > 1 => Awaits(stack[i - 1], stack[i].name)
           /\ i = 1 => position \in 1..Len(requested) /\ requested[position] = stack[i].name

StackInv ==
    /\ phase \in Phases
    /\ position \in Nat \ {0}
    /\ ok \in BOOLEAN
    /\ GoodStack(frames)
    /\ phase = "requests" => frames = <<>>
    /\ phase = "run" => frames # <<>>
    /\ phase = "call" => Caller(frames, name)
    /\ phase = "return" =>
           \E n \in DOMAIN found : Caller(frames, n) /\ (ok => n \in resolved \cup {Builtin})

\* The result has a body of the file of n that may stand for n.
Delivered(n) ==
    \E i \in DOMAIN models :
        /\ models[i].file = File(n)
        /\ \/ Fits(n, models[i].digest)
           \/ port = "js" /\ ~models[i].verified /\ models[i].name = n

\* The models resolved, and the files in the result.
ResultInv ==
    /\ resolved \subseteq {n \in DOMAIN found : found[n] # None}
    /\ models \in Seq([name : DOMAIN found, file : {File(n) : n \in DOMAIN found},
                       digest : Digests, verified : BOOLEAN])
    /\ \A i \in 1..Len(models) : found[models[i].name] # None
    /\ ResolvedIsSound
    /\ DependenciesFirst

ResolverInv == WellFormed /\ StackInv /\ ResultInv

-----------------------------------------------------------------------------
\* The stack without its topmost frame.
LEMMA PoppedStack ==
    ASSUME StackInv, frames # <<>>
    PROVE  /\ Top \in Frames /\ GoodFrame(Top)
           /\ GoodStack(Popped)
           /\ Caller(Popped, Top.name)
<1>0. GoodStack(frames)
    BY DEF StackInv
<1>a. frames \in Seq(Frames)
    BY <1>0 DEF GoodStack
<1>b. Len(frames) \in Nat /\ Len(frames) >= 1
    <2>1. Len(frames) \in Nat /\ Len(frames) # 0
        BY <1>a, EmptySeq
    <2> QED BY <2>1
<1>1. /\ frames \in Seq(Frames) /\ Len(frames) \in Nat
      /\ Top = frames[Len(frames)] /\ Len(frames) \in 1..Len(frames)
    BY <1>a, <1>b DEF Top
<1>2. Top \in Frames /\ GoodFrame(Top)
    <2>1. GoodFrame(frames[Len(frames)])
        BY <1>0, <1>1 DEF GoodStack
    <2> QED BY <1>1, <2>1 DEF GoodFrame
<1>3. /\ Popped \in Seq(Frames) /\ Len(Popped) = Len(frames) - 1
      /\ \A i \in 1..Len(Popped) : Popped[i] = frames[i]
    <2> DEFINE m == Len(frames) - 1
    <2>1. m \in Nat
        BY <1>b
    <2>2. \A i \in 1..m : frames[i] \in Frames
        BY <1>a, <1>b
    <2> HIDE DEF m
    <2>3. /\ SubSeq(frames, 1, m) \in Seq(Frames)
          /\ Len(SubSeq(frames, 1, m)) = IF 1 <= m THEN m - 1 + 1 ELSE 0
          /\ \A i \in 1..m - 1 + 1 : SubSeq(frames, 1, m)[i] = frames[1 + i - 1]
        BY <2>1, <2>2, SubSeqProperties
    <2>4. /\ Len(SubSeq(frames, 1, m)) = m
          /\ \A i \in 1..m : SubSeq(frames, 1, m)[i] = frames[i]
        BY <2>1, <2>3
    <2> QED BY <2>3, <2>4 DEF Popped, m
<1>4. GoodStack(Popped)
    <2> SUFFICES ASSUME NEW i \in 1..Len(Popped)
                 PROVE  /\ GoodFrame(Popped[i])
                        /\ i > 1 => Awaits(Popped[i - 1], Popped[i].name)
                        /\ i = 1 => /\ position \in 1..Len(requested)
                                    /\ requested[position] = Popped[i].name
        BY <1>3 DEF GoodStack
    <2>1. /\ i \in 1..Len(frames) /\ Popped[i] = frames[i]
          /\ i > 1 => Popped[i - 1] = frames[i - 1]
        BY <1>b, <1>3
    <2> QED BY <1>0, <2>1 DEF GoodStack
<1>5. Caller(Popped, Top.name)
    <2>1. CASE Len(frames) = 1
        <3>1. Popped = <<>>
            BY <1>3, <2>1, EmptySeq
        <3>2. position \in 1..Len(requested) /\ requested[position] = frames[1].name
            BY <1>0, <2>1 DEF GoodStack
        <3> QED BY <1>1, <2>1, <3>1, <3>2 DEF Caller
    <2>2. CASE Len(frames) > 1
        <3>1. Popped # <<>> /\ Popped[Len(Popped)] = frames[Len(frames) - 1]
            BY <1>3, <1>1, <2>2
        <3>2. Awaits(frames[Len(frames) - 1], Top.name)
            BY <1>1, <2>2 DEF StackInv, GoodStack
        <3> QED BY <3>1, <3>2 DEF Caller
    <2>3. \A k \in Nat : k >= 1 => k = 1 \/ k > 1
        OBVIOUS
    <2> QED BY <1>b, <2>1, <2>2, <2>3
<1> QED BY <1>2, <1>4, <1>5

\* The stack with one more frame.
LEMMA PushedStack ==
    ASSUME NEW base, GoodStack(base), NEW f, GoodFrame(f), Caller(base, f.name)
    PROVE  /\ GoodStack(Append(base, f))
           /\ Append(base, f) # <<>>
<1> DEFINE s == Append(base, f)
<1>1. base \in Seq(Frames) /\ f \in Frames /\ Len(base) \in Nat
    BY DEF GoodStack, GoodFrame
<1>2. /\ s \in Seq(Frames) /\ Len(s) = Len(base) + 1 /\ s[Len(s)] = f
      /\ \A i \in 1..Len(base) : s[i] = base[i]
      /\ s # <<>>
    BY <1>1
<1> HIDE DEF s
<1>3. ASSUME NEW i \in 1..Len(s)
      PROVE  /\ GoodFrame(s[i])
             /\ i > 1 => Awaits(s[i - 1], s[i].name)
             /\ i = 1 => position \in 1..Len(requested) /\ requested[position] = s[i].name
    <2>1. CASE i \in 1..Len(base)
        <3>1. s[i] = base[i] /\ (i > 1 => i - 1 \in 1..Len(base) /\ s[i - 1] = base[i - 1])
            BY <1>1, <1>2, <2>1
        <3> QED BY <2>1, <3>1 DEF GoodStack
    <2>2. CASE i = Len(s)
        <3>1. s[i] = f
            BY <1>2, <2>2
        <3>2. CASE base = <<>>
            BY <1>1, <1>2, <2>2, <3>1, <3>2 DEF Caller
        <3>3. CASE base # <<>>
            <4>1. Len(base) > 0 /\ i > 1 /\ i - 1 = Len(base)
                BY <1>1, <1>2, <2>2, <3>3
            <4>2. s[i - 1] = base[Len(base)]
                BY <1>1, <1>2, <4>1
            <4> QED BY <3>1, <3>3, <4>1, <4>2 DEF Caller
        <3> QED BY <3>2, <3>3
    <2> QED BY <1>1, <1>2, <2>1, <2>2
<1> QED BY <1>2, <1>3 DEF GoodStack, s

\* A caller waits for a model that the search has been asked for.
LEMMA CallerNames ==
    ASSUME WellFormed, NEW s, GoodStack(s), NEW n, Caller(s, n)
    PROVE  n \in DOMAIN found
<1>1. CASE s = <<>>
    <2>1. position \in 1..Len(requested) /\ requested[position] = n
        BY <1>1 DEF Caller
    <2>2. requested \in Seq(DOMAIN found)
        BY DEF WellFormed
    <2> QED BY <2>1, <2>2
<1>2. CASE s # <<>>
    <2> DEFINE k == Len(s)
               f == s[k]
    <2>1. s \in Seq(Frames)
        BY DEF GoodStack
    <2>2. k \in Nat /\ k # 0
        BY <2>1, <1>2, EmptySeq
    <2> HIDE DEF k
    <2>3. k \in 1..Len(s)
        BY <2>2 DEF k
    <2>4. GoodFrame(f)
        BY <2>3 DEF GoodStack
    <2>5. Awaits(f, n)
        BY <1>2 DEF Caller, k
    <2> HIDE DEF f
    <2>6. f.name \in DOMAIN found /\ f.next \in Nat \ {0} /\ Deps(f) \in Seq(DOMAIN found)
        BY <2>4 DEF GoodFrame, Frames, WellFormed, Deps
    <2> QED BY <2>5, <2>6 DEF Awaits
<1> QED BY <1>1, <1>2

\* A good stack stays good, and its caller keeps waiting, while models get
\* resolved and the requested model is the same.
LEMMA StackPersists ==
    ASSUME NEW s, GoodStack(s), UNCHANGED <<question, position>>, resolved \subseteq resolved'
    PROVE  GoodStack(s)' /\ \A n : Caller(s, n) => Caller(s, n)'
<1>1. found' = found /\ requested' = requested /\ position' = position
    BY DEF question
<1>2. Frames' = Frames /\ \A f : Deps(f)' = Deps(f)
    BY <1>1 DEF Frames, Deps, Metadata
<1>3. \A f, n : Awaits(f, n) => Awaits(f, n)'
    BY <1>2 DEF Awaits
<1>4. ASSUME NEW f, GoodFrame(f)
      PROVE  GoodFrame(f)'
    BY <1>1, <1>2, <1>4 DEF GoodFrame
<1>5. GoodStack(s)'
    BY <1>1, <1>2, <1>3, <1>4 DEF GoodStack
<1>6. \A n : Caller(s, n) => Caller(s, n)'
    BY <1>1, <1>3 DEF Caller
<1> QED BY <1>5, <1>6

\* A call returns to the caller that waits for it, or throws.
LEMMA ReturnKeepsStack ==
    ASSUME StackInv, NEW s, GoodStack(s),
           NEW n \in DOMAIN found, Caller(s, n),
           UNCHANGED <<question, position>>, resolved \subseteq resolved',
           NEW result \in BOOLEAN, result => n \in resolved' \cup {Builtin},
           \/ phase' = "done" /\ frames' = <<>> /\ ok' = ok
           \/ phase' = "return" /\ frames' = s /\ ok' = result
    PROVE  StackInv'
<1>1. found' = found /\ position' = position
    BY DEF question
<1>2. CASE phase' = "done" /\ frames' = <<>> /\ ok' = ok
    <2>1. GoodStack(frames)'
        BY <1>2 DEF GoodStack
    <2> QED BY <1>1, <1>2, <2>1 DEF StackInv, Phases
<1>3. CASE phase' = "return" /\ frames' = s /\ ok' = result
    <2>1. GoodStack(s)' /\ Caller(s, n)'
        BY StackPersists
    <2>2. GoodStack(frames)' /\ Caller(frames, n)'
        BY <1>3, <2>1 DEF GoodStack, Caller
    <2>3. n \in DOMAIN found' /\ (ok' => n \in resolved' \cup {Builtin})
        BY <1>1, <1>3
    <2> QED BY <1>1, <1>3, <2>2, <2>3 DEF StackInv, Phases, Builtin
<1> QED BY <1>2, <1>3

\* What is resolved and emitted stays sound where nothing is resolved, also
\* by an exception that gives up the result.
LEMMA ResultPersists ==
    ASSUME WellFormed, ResultInv, UNCHANGED <<question, resolved>>,
           phase # "done" \/ UNCHANGED <<phase, success>>,
           \/ models' = models
           \/ models' = <<>> /\ phase' = "done" /\ success' = FALSE
    PROVE  ResultInv' /\ WellFormed'
<1>1. /\ found' = found /\ requested' = requested /\ resolved' = resolved
      /\ port' = port
    BY DEF question
<1>2. \A n : /\ Metadata(n)' = Metadata(n) /\ File(n)' = File(n)
             /\ Dependencies(n)' = Dependencies(n)
             /\ \A d : Fits(n, d)' <=> Fits(n, d)
    BY <1>1 DEF Metadata, File, Dependencies, Fits
<1>3. WellFormed'
    BY <1>1, <1>2 DEF WellFormed
<1>4. CASE models' = models
    <2>1. \A n : Delivered(n) => Delivered(n)'
        BY <1>1, <1>2, <1>4 DEF Delivered, Fits
    <2>2. ResolvedIsSound'
        <3>1. ASSUME NEW n \in resolved
              PROVE  /\ Dependencies(n) \subseteq resolved
                     /\ phase # "done" \/ success => Delivered(n)
            BY DEF ResultInv, ResolvedIsSound, Delivered
        <3>2. ASSUME NEW n \in resolved', phase' # "done" \/ success'
              PROVE  Delivered(n)'
            BY <1>1, <2>1, <3>1, <3>2
        <3> QED BY <1>1, <1>2, <3>1, <3>2 DEF ResolvedIsSound, Delivered
    <2>3. DependenciesFirst'
        BY <1>2, <1>4 DEF ResultInv, DependenciesFirst
    <2>4. /\ models' \in Seq([name : DOMAIN found', file : {File(n)' : n \in DOMAIN found'},
                               digest : Digests, verified : BOOLEAN])
          /\ \A i \in 1..Len(models') : found'[models'[i].name] # None
          /\ resolved' \subseteq {n \in DOMAIN found' : found'[n] # None}
        BY <1>1, <1>2, <1>4 DEF ResultInv
    <2> QED BY <1>3, <2>2, <2>3, <2>4 DEF ResultInv
<1>5. CASE models' = <<>> /\ phase' = "done" /\ success' = FALSE
    <2>1. ResolvedIsSound'
        BY <1>1, <1>2, <1>5 DEF ResultInv, ResolvedIsSound
    <2>2. DependenciesFirst'
        BY <1>5 DEF DependenciesFirst
    <2>3. /\ models' \in Seq([name : DOMAIN found', file : {File(n)' : n \in DOMAIN found'},
                               digest : Digests, verified : BOOLEAN])
          /\ \A i \in 1..Len(models') : found'[models'[i].name] # None
        BY <1>5
    <2>4. resolved' \subseteq {n \in DOMAIN found' : found'[n] # None}
        BY <1>1 DEF ResultInv
    <2> QED BY <1>3, <2>1, <2>2, <2>3, <2>4 DEF ResultInv
<1> QED BY <1>4, <1>5

\* A model whose dependencies have all returned well has them resolved.
LEMMA ReadyResolved ==
    ASSUME WellFormed, StackInv, ResultInv, Ready, Top.ok
    PROVE  /\ Top.name \in DOMAIN found /\ found[Top.name] # None
           /\ Dependencies(Top.name) \subseteq resolved
<1>1. phase = "run" /\ frames # <<>>
    BY DEF Ready, StackInv
<1>2. GoodFrame(Top) /\ Top \in Frames
    BY <1>1, PoppedStack
<1> DEFINE f == Top
<1>3. f.name \in DOMAIN found /\ found[f.name] # None /\ f.next \in Nat
    BY <1>2 DEF GoodFrame, Frames
<1>4. Deps(f) \in Seq(DOMAIN found)
    BY <1>3 DEF Deps, WellFormed
<1>5. f.next = Len(Deps(f)) + 1
    <2>1. f.next > Len(Deps(f)) /\ f.next <= Len(Deps(f)) + 1
        BY <1>2 DEF Ready, GoodFrame, Deps
    <2> QED BY <1>3, <1>4, <2>1
<1>6. \A j \in 1..f.next - 1 : Deps(f)[j] \in resolved \cup {Builtin}
    BY <1>2 DEF GoodFrame
<1>7. \A j \in 1..Len(Deps(f)) : Deps(f)[j] \in resolved \cup {Builtin}
    BY <1>4, <1>5, <1>6
<1>8. Dependencies(f.name) = {Deps(f)[j] : j \in 1..Len(Deps(f))} \ {Builtin}
    BY <1>4 DEF Dependencies, Deps, Range
<1> QED BY <1>3, <1>7, <1>8

\* One more model is resolved, whose file is in the result.
LEMMA ResultExtended ==
    ASSUME WellFormed, ResultInv, phase # "done", phase' # "done",
           UNCHANGED question, NEW n \in DOMAIN found, found[n] # None,
           Dependencies(n) \subseteq resolved,
           resolved' = resolved \cup {n},
           \/ File(n) \in Emitted /\ FitsEmitted(n) /\ models' = models
           \/ /\ File(n) \notin Emitted
              /\ \E d \in Digests, v \in BOOLEAN :
                     /\ Fits(n, d) \/ (port = "js" /\ ~v)
                     /\ models' = Append(models, [name |-> n, file |-> File(n),
                                                 digest |-> d, verified |-> v])
    PROVE  ResultInv' /\ WellFormed'
<1>1. found' = found /\ requested' = requested /\ port' = port
    BY DEF question
<1>2. \A m : /\ Metadata(m)' = Metadata(m) /\ File(m)' = File(m)
             /\ Dependencies(m)' = Dependencies(m)
             /\ \A d : Fits(m, d)' <=> Fits(m, d)
    BY <1>1 DEF Metadata, File, Dependencies, Fits
<1>3. WellFormed'
    BY <1>1, <1>2 DEF WellFormed
<1> DEFINE Models == [name : DOMAIN found, file : {File(m) : m \in DOMAIN found},
                      digest : Digests, verified : BOOLEAN]
<1>4. models \in Seq(Models)
    BY DEF ResultInv
<1>5. Models' = Models
    BY <1>1, <1>2
<1>6. \A m \in resolved : Dependencies(m) \subseteq resolved /\ Delivered(m)
    BY DEF ResultInv, ResolvedIsSound, Delivered
<1>7. ASSUME \A m : Delivered(m) => Delivered(m)', Delivered(n)'
      PROVE  ResolvedIsSound'
    <2>1. \A m \in resolved' : Dependencies(m)' \subseteq resolved' /\ Delivered(m)'
        BY <1>2, <1>6, <1>7
    <2> QED BY <2>1 DEF ResolvedIsSound, Delivered
<1>8. CASE File(n) \in Emitted /\ FitsEmitted(n) /\ models' = models
    <2>1. (\A m : Delivered(m) => Delivered(m)') /\ Delivered(n)'
        <3>1. \A m : Delivered(m) => Delivered(m)'
            BY <1>1, <1>2, <1>8 DEF Delivered
        <3>2. Delivered(n)
            BY <1>8 DEF Delivered, Emitted, FitsEmitted
        <3> QED BY <3>1, <3>2
    <2>2. DependenciesFirst'
        BY <1>2, <1>8 DEF ResultInv, DependenciesFirst
    <2>3. models' \in Seq(Models') /\ \A i \in 1..Len(models') : found'[models'[i].name] # None
        BY <1>1, <1>4, <1>5, <1>8 DEF ResultInv
    <2>4. resolved' \subseteq {m \in DOMAIN found' : found'[m] # None}
        BY <1>1 DEF ResultInv
    <2> QED BY <1>3, <1>7, <1>8, <2>1, <2>2, <2>3, <2>4 DEF ResultInv
<1>9. CASE /\ File(n) \notin Emitted
           /\ \E digest \in Digests, v \in BOOLEAN :
                  /\ Fits(n, digest) \/ (port = "js" /\ ~v)
                  /\ models' = Append(models, [name |-> n, file |-> File(n),
                                              digest |-> digest, verified |-> v])
    <2>0. PICK digest \in Digests, v \in BOOLEAN :
              /\ Fits(n, digest) \/ (port = "js" /\ ~v)
              /\ models' = Append(models, [name |-> n, file |-> File(n),
                                          digest |-> digest, verified |-> v])
        BY <1>9
    <2> DEFINE item == [name |-> n, file |-> File(n), digest |-> digest, verified |-> v]
               k == Len(models)
    <2>1. item \in Models
        OBVIOUS
    <2>2. k \in Nat /\ DOMAIN models = 1..k
        BY <1>4
    <2> HIDE DEF Models
    <2>3. /\ models' \in Seq(Models) /\ Len(models') = k + 1 /\ models'[k + 1] = item
          /\ DOMAIN models' = 1..k + 1
          /\ \A i \in 1..k : models'[i] = models[i]
        BY <1>4, <2>0, <2>1
    <2> HIDE DEF k
    <2>4. (\A m : Delivered(m) => Delivered(m)') /\ Delivered(n)'
        <3>1. \A m : Delivered(m) => Delivered(m)'
            BY <1>1, <1>2, <2>2, <2>3 DEF Delivered
        <3>2. models'[k + 1] = item /\ k + 1 \in DOMAIN models'
            BY <2>2, <2>3
        <3>3. /\ models'[k + 1].file = File(n)' /\ models'[k + 1].name = n
              /\ models'[k + 1].digest = digest /\ (models'[k + 1].verified <=> v)
            BY <1>2, <3>2
        <3>4. CASE Fits(n, digest)
            <4>1. Fits(n, digest)'
                BY <1>2, <3>4
            <4>2. Metadata(n).md5' # None => models'[k + 1].digest = Metadata(n).md5'
                BY <3>3, <4>1 DEF Fits
            <4>3. Delivered(n)'
                BY <3>2, <3>3, <4>2 DEF Delivered, Fits
            <4> QED BY <3>1, <4>3
        <3>5. CASE port = "js" /\ ~v
            <4>1. port' = "js" /\ ~models'[k + 1].verified
                BY <1>1, <3>3, <3>5
            <4>2. Delivered(n)'
                BY <3>2, <3>3, <4>1 DEF Delivered
            <4> QED BY <3>1, <4>2
        <3> QED BY <2>0, <3>4, <3>5
    <2>5. \A i \in 1..k : models[i].file # File(n)
        BY <1>9, <2>2 DEF Emitted
    <2>6. \A i \in 1..k + 1 : i \in 1..k \/ i = k + 1
        BY <2>2
    <2>7. ASSUME NEW i \in 1..k + 1
          PROVE  /\ \A j \in 1..k + 1 : models'[i].file = models'[j].file => i = j
                 /\ \A d \in Dependencies(models'[i].name) :
                        \E j \in 1..i - 1 : models'[j].file = File(d)
        <3>1. CASE i \in 1..k
            <4>1. \A j \in 1..k : models[i].file = models[j].file => i = j
                BY <2>2, <3>1 DEF ResultInv, DependenciesFirst
            <4>2. \A d \in Dependencies(models[i].name) :
                      \E j \in 1..i - 1 : models[j].file = File(d)
                BY <2>2, <3>1 DEF ResultInv, DependenciesFirst
            <4>3. \A j \in 1..i - 1 : j \in 1..k
                BY <2>2, <3>1
            <4> QED BY <2>3, <2>5, <2>6, <3>1, <4>1, <4>2, <4>3
        <3>2. CASE i = k + 1
            <4>1. models'[i].name = n /\ models'[i].file = File(n) /\ i - 1 = k
                BY <2>2, <2>3, <3>2
            <4>2. \A d \in Dependencies(n) : \E j \in 1..k : models[j].file = File(d)
                BY <1>6, <2>2 DEF Delivered
            <4>3. \A j \in 1..k + 1 : models'[i].file = models'[j].file => i = j
                BY <2>3, <2>5, <2>6, <3>2, <4>1
            <4>4. \A d \in Dependencies(n) : \E j \in 1..k : models'[j].file = File(d)
                BY <2>3, <4>2
            <4> QED BY <4>1, <4>3, <4>4
        <3> QED BY <2>6, <3>1, <3>2
    <2>8. DependenciesFirst'
        BY <1>2, <2>3, <2>7 DEF DependenciesFirst
    <2>9. \A i \in 1..Len(models') : found'[models'[i].name] # None
        <3>1. \A i \in 1..k : found[models[i].name] # None
            BY DEF ResultInv, k
        <3> QED BY <1>1, <2>3, <2>6, <3>1
    <2>10. resolved' \subseteq {m \in DOMAIN found' : found'[m] # None}
        BY <1>1 DEF ResultInv
    <2>11. models' \in Seq(Models')
        BY <1>5, <2>3
    <2> QED BY <1>3, <1>7, <2>4, <2>8, <2>9, <2>10, <2>11 DEF ResultInv, Models
<1> QED BY <1>8, <1>9

-----------------------------------------------------------------------------
LEMMA InitInv ==
    ASSUME Init
    PROVE  ResolverInv
<1>0. WellFormed
    <2>1. FoundInv
        BY DEF Init, FoundInv
    <2> QED BY <2>1, FoundWellFormed
<1>1. GoodStack(frames)
    BY DEF Init, GoodStack
<1>2. StackInv
    BY <1>1 DEF Init, StackInv, Phases
<1>3. ResolvedIsSound /\ DependenciesFirst
    BY DEF Init, ResolvedIsSound, DependenciesFirst
<1>4. ResultInv
    BY <1>3 DEF Init, ResultInv
<1> QED BY <1>0, <1>2, <1>4 DEF ResolverInv

LEMMA RequestSteps ==
    ASSUME ResolverInv, NextRequest \/ Finish \/ ReturnToRequest
    PROVE  ResolverInv'
<1> USE DEF ResolverInv
<1>1. phase # "done" /\ UNCHANGED <<question, resolved, models>>
    BY DEF NextRequest, Finish, ReturnToRequest
<1>2. ResultInv' /\ WellFormed'
    BY <1>1, ResultPersists
<1>3. frames = <<>> /\ frames' = <<>>
    BY DEF StackInv, NextRequest, Finish, ReturnToRequest
<1>4. GoodStack(frames)'
    BY <1>3 DEF GoodStack
<1>5. found' = found /\ requested' = requested
    BY <1>1 DEF question
<1>6. requested \in Seq(DOMAIN found) /\ position \in Nat \ {0} /\ ok \in BOOLEAN
    BY DEF WellFormed, StackInv
<1>7. CASE NextRequest
    <2>1. position \in 1..Len(requested) /\ position' = position
        BY <1>6, <1>7 DEF NextRequest
    <2>2. Caller(frames, name)'
        BY <1>3, <1>5, <1>7, <2>1 DEF NextRequest, Caller
    <2> QED BY <1>2, <1>3, <1>4, <1>6, <1>7, <2>1, <2>2 DEF NextRequest, StackInv, Phases
<1>8. CASE Finish
    BY <1>2, <1>3, <1>4, <1>6, <1>8 DEF Finish, StackInv, Phases
<1>9. CASE ReturnToRequest
    BY <1>2, <1>3, <1>4, <1>6, <1>9 DEF ReturnToRequest, StackInv, Phases
<1> QED BY <1>7, <1>8, <1>9

\* What a call that returns or throws does to the stack and the result,
\* where it resolves nothing.
LEMMA ReturnsKeep ==
    ASSUME ResolverInv, phase # "done", NEW s, GoodStack(s),
           NEW n \in DOMAIN found, Caller(s, n),
           NEW result \in BOOLEAN, result => n \in resolved \cup {Builtin},
           ReturnsWith(result, s), UNCHANGED <<question, position, resolved>>
    PROVE  ResolverInv'
<1>1. \/ phase' = "done" /\ frames' = <<>> /\ ok' = ok
      \/ phase' = "return" /\ frames' = s /\ ok' = result
    BY DEF ReturnsWith
<1>2. \/ models' = models
      \/ models' = <<>> /\ phase' = "done" /\ success' = FALSE
    BY DEF ReturnsWith
<1>3. StackInv'
    BY <1>1, ReturnKeepsStack DEF ResolverInv
<1>4. ResultInv' /\ WellFormed'
    BY <1>2, ResultPersists DEF ResolverInv
<1> QED BY <1>3, <1>4 DEF ResolverInv

LEMMA CallSteps ==
    ASSUME ResolverInv, CallKnown \/ CallRefused
    PROVE  ResolverInv'
<1>1. PICK s : s = frames
    OBVIOUS
<1>2. /\ phase = "call" /\ phase # "done"
      /\ UNCHANGED <<question, position, resolved>>
    BY DEF CallKnown, CallRefused
<1>3. GoodStack(s) /\ Caller(s, name)
    BY <1>1, <1>2 DEF ResolverInv, StackInv
<1>4. PICK n : n = name
    OBVIOUS
<1>5. n \in DOMAIN found /\ Caller(s, n)
    BY <1>3, <1>4, CallerNames DEF ResolverInv
<1>6. CASE CallKnown
    <2>1. n \in resolved \cup {Builtin} /\ ReturnsWith(TRUE, s)
        BY <1>1, <1>4, <1>6 DEF CallKnown, ReturnsWith
    <2> QED BY <1>2, <1>3, <1>5, <2>1, ReturnsKeep
<1>7. CASE CallRefused
    <2>1. ReturnsWith(FALSE, s)
        BY <1>1, <1>7 DEF CallRefused, ReturnsWith
    <2> QED BY <1>2, <1>3, <1>5, <2>1, ReturnsKeep
<1> QED BY <1>6, <1>7

LEMMA CallFoundStep ==
    ASSUME ResolverInv, CallFound
    PROVE  ResolverInv'
<1>1. PICK s : s = frames
    OBVIOUS
<1>2. PICK f : f = [name |-> name, next |-> 1, ok |-> TRUE]
    OBVIOUS
<1>3. GoodStack(s) /\ Caller(s, name)
    BY <1>1 DEF ResolverInv, StackInv, CallFound
<1>4. name \in DOMAIN found
    BY <1>3, CallerNames DEF ResolverInv
<1>5. Deps(f) \in Seq(DOMAIN found)
    BY <1>2, <1>4 DEF ResolverInv, WellFormed, CallFound, Deps
<1>6. GoodFrame(f) /\ Caller(s, f.name)
    <2>1. f \in Frames /\ found[f.name] # None
        BY <1>2, <1>4 DEF Frames, CallFound
    <2>2. f.next <= Len(Deps(f)) + 1
        BY <1>2, <1>5
    <2>3. \A j \in 1..f.next - 1 : FALSE
        BY <1>2
    <2> QED BY <1>2, <1>3, <2>1, <2>2, <2>3 DEF GoodFrame
<1>7. PICK t : t = Append(s, f)
    OBVIOUS
<1>8. GoodStack(t) /\ t # <<>>
    BY <1>3, <1>6, <1>7, PushedStack
<1>9. UNCHANGED <<question, position, resolved, models, ok>> /\ frames' = t /\ phase' = "run"
    BY <1>1, <1>2, <1>7 DEF CallFound
<1>10. GoodStack(t)'
    BY <1>8, <1>9, StackPersists
<1>11. GoodStack(frames)'
    BY <1>9, <1>10 DEF GoodStack
<1>12. StackInv'
    BY <1>8, <1>9, <1>11 DEF ResolverInv, StackInv, Phases
<1>13. ResultInv' /\ WellFormed'
    BY <1>9, ResultPersists DEF ResolverInv, CallFound
<1> QED BY <1>12, <1>13 DEF ResolverInv

LEMMA NextDependencyStep ==
    ASSUME ResolverInv, NextDependency
    PROVE  ResolverInv'
<1>1. PICK s : s = frames
    OBVIOUS
<1>2. /\ UNCHANGED <<question, position, resolved, models, ok>>
      /\ frames' = s /\ frames = s /\ phase = "run" /\ phase' = "call"
    BY <1>1 DEF NextDependency
<1>3. GoodStack(s) /\ s # <<>>
    BY <1>2 DEF ResolverInv, StackInv
<1>4. PICK n : n = name'
    OBVIOUS
<1>5. Caller(s, n)
    BY <1>2, <1>3, <1>4 DEF Caller, Awaits, NextDependency, Top, Deps
<1>6. GoodStack(s)' /\ Caller(s, n)'
    BY <1>2, <1>3, <1>5, StackPersists
<1>7. GoodStack(frames)' /\ Caller(frames, name)'
    BY <1>2, <1>4, <1>6 DEF GoodStack, Caller
<1>8. StackInv'
    BY <1>2, <1>7 DEF ResolverInv, StackInv, Phases
<1>9. ResultInv' /\ WellFormed'
    BY <1>2, ResultPersists DEF ResolverInv
<1> QED BY <1>8, <1>9 DEF ResolverInv

LEMMA ReturnStep ==
    ASSUME ResolverInv, Return
    PROVE  ResolverInv'
<1>1. PICK s : s = Popped
    OBVIOUS
<1>2. PICK top : top = Top
    OBVIOUS
<1>3. PICK f : f = [top EXCEPT !.next = @ + 1, !.ok = ok /\ @]
    OBVIOUS
<1>4. frames # <<>> /\ phase = "return" /\ StackInv /\ WellFormed
    BY DEF Return, ResolverInv
<1>5. GoodFrame(top) /\ GoodStack(s) /\ Caller(s, top.name)
    BY <1>1, <1>2, <1>4, PoppedStack
<1>6. PICK n \in DOMAIN found : Caller(frames, n) /\ (ok => n \in resolved \cup {Builtin})
    BY <1>4 DEF StackInv
<1>7. Awaits(top, n)
    BY <1>2, <1>4, <1>6 DEF Caller, Top
<1>8. /\ top \in Frames /\ ok \in BOOLEAN
      /\ top.next \in Nat /\ top.next <= Len(Deps(top)) /\ Deps(top)[top.next] = n
    BY <1>4, <1>5, <1>7 DEF GoodFrame, Frames, Awaits, StackInv
<1>9. /\ f \in Frames /\ f.name = top.name /\ f.next = top.next + 1 /\ f.ok = (ok /\ top.ok)
      /\ Deps(f) = Deps(top)
    <2>1. PICK both \in BOOLEAN : both = (ok /\ top.ok)
        OBVIOUS
    <2>2. f = [top EXCEPT !.next = top.next + 1, !.ok = both]
        BY <1>3, <2>1
    <2>3. PICK next \in Nat \ {0} : next = top.next + 1
        BY <1>8
    <2>4. f = [top EXCEPT !.next = next, !.ok = both]
        BY <2>2, <2>3
    <2>5. f \in Frames /\ f.name = top.name /\ f.next = next /\ f.ok = both
        BY <1>8, <2>1, <2>3, <2>4 DEF Frames
    <2> QED BY <2>1, <2>3, <2>5 DEF Deps
<1>10. Deps(top) \in Seq(DOMAIN found) /\ found[top.name] # None
    BY <1>4, <1>5, <1>8 DEF GoodFrame, WellFormed, Deps, Frames
<1>11. f.next <= Len(Deps(f)) + 1
    BY <1>8, <1>9, <1>10
<1>12. ASSUME f.ok, NEW j \in 1..f.next - 1
       PROVE  Deps(f)[j] \in resolved \cup {Builtin}
    <2>1. j \in 1..top.next - 1 \/ j = top.next
        BY <1>8, <1>9
    <2> QED BY <1>5, <1>6, <1>8, <1>9, <1>12, <2>1 DEF GoodFrame
<1>13. GoodFrame(f) /\ Caller(s, f.name)
    BY <1>5, <1>9, <1>10, <1>11, <1>12 DEF GoodFrame
<1>14. PICK t : t = Append(s, f)
    OBVIOUS
<1>15. GoodStack(t) /\ t # <<>>
    BY <1>5, <1>13, <1>14, PushedStack
<1>16. UNCHANGED <<question, position, resolved, models, ok>> /\ frames' = t /\ phase' = "run"
    BY <1>1, <1>2, <1>3, <1>14 DEF Return
<1>17. GoodStack(t)'
    BY <1>15, <1>16, StackPersists
<1>18. GoodStack(frames)'
    BY <1>16, <1>17 DEF GoodStack
<1>19. StackInv'
    BY <1>4, <1>15, <1>16, <1>18 DEF StackInv, Phases
<1>20. ResultInv' /\ WellFormed'
    BY <1>4, <1>16, ResultPersists DEF ResolverInv
<1> QED BY <1>19, <1>20 DEF ResolverInv

\* The steps of the second half of resolveOne.
LEMMA LoadSteps ==
    ASSUME ResolverInv,
           DependenciesFailed \/ LoadFile \/ LoadStale \/ LoadFails \/ FileKnown
    PROVE  ResolverInv'
<1>1. PICK s : s = Popped
    OBVIOUS
<1>2. PICK n : n = Top.name
    OBVIOUS
<1>3. phase = "run" /\ phase # "done" /\ frames # <<>> /\ UNCHANGED <<question, position>>
    BY DEF DependenciesFailed, LoadFile, LoadStale, Emit, LoadFails, FileKnown, MayLoad,
           Ready, ResolverInv, StackInv
<1>4. GoodStack(s) /\ Caller(s, n) /\ n \in DOMAIN found
    BY <1>1, <1>2, <1>3, PoppedStack DEF ResolverInv, Frames
<1>5. CASE DependenciesFailed \/ LoadFails
    <2>1. ReturnsWith(FALSE, s) /\ resolved' = resolved
        BY <1>1, <1>5 DEF DependenciesFailed, LoadFails, ReturnsWith
    <2> QED BY <1>3, <1>4, <2>1, ReturnsKeep
<1>6. ASSUME MayLoad
      PROVE  found[n] # None /\ Dependencies(n) \subseteq resolved
    BY <1>2, <1>6, ReadyResolved DEF MayLoad, ResolverInv
<1>7. CASE LoadFile \/ LoadStale
    <2>1. /\ phase' = "return" /\ phase' # "done" /\ ok' = TRUE /\ frames' = s
          /\ resolved' = resolved \cup {n} /\ File(n) \notin Emitted
          /\ \E d \in Digests, v \in BOOLEAN :
                 /\ Fits(n, d) \/ (port = "js" /\ ~v)
                 /\ models' = Append(models, [name |-> n, file |-> File(n),
                                             digest |-> d, verified |-> v])
        <3>1. CASE LoadFile
            BY <1>1, <1>2, <3>1 DEF LoadFile, Emit
        <3>2. CASE LoadStale
            BY <1>1, <1>2, <3>2 DEF LoadStale, Emit
        <3> QED BY <1>7, <3>1, <3>2
    <2>2. StackInv'
        BY <1>3, <1>4, <2>1, ReturnKeepsStack DEF ResolverInv
    <2>3. found[n] # None /\ Dependencies(n) \subseteq resolved
        BY <1>6, <1>7 DEF LoadFile, LoadStale
    <2>4. ResultInv' /\ WellFormed'
        BY <1>3, <1>4, <2>1, <2>3, ResultExtended DEF ResolverInv
    <2> QED BY <2>2, <2>4 DEF ResolverInv
<1>8. CASE FileKnown /\ ~FitsEmitted(n)
    <2>1. ReturnsWith(FALSE, s) /\ resolved' = resolved
        BY <1>1, <1>2, <1>8 DEF FileKnown, ReturnsWith
    <2> QED BY <1>3, <1>4, <2>1, ReturnsKeep
<1>9. CASE FileKnown /\ FitsEmitted(n)
    <2>1. /\ phase' = "return" /\ phase' # "done" /\ ok' = TRUE /\ frames' = s
          /\ models' = models /\ resolved' = resolved \cup {n} /\ File(n) \in Emitted
        BY <1>1, <1>2, <1>9 DEF FileKnown, ReturnsWith
    <2>2. StackInv'
        BY <1>3, <1>4, <2>1, ReturnKeepsStack DEF ResolverInv
    <2>3. found[n] # None /\ Dependencies(n) \subseteq resolved
        BY <1>6, <1>9 DEF FileKnown
    <2>4. ResultInv' /\ WellFormed'
        BY <1>3, <1>4, <1>9, <2>1, <2>3, ResultExtended DEF ResolverInv
    <2> QED BY <2>2, <2>4 DEF ResolverInv
<1> QED BY <1>5, <1>7, <1>8, <1>9

LEMMA StutterStep ==
    ASSUME ResolverInv, UNCHANGED resolverVars
    PROVE  ResolverInv'
<1>1. PICK s : s = frames
    OBVIOUS
<1>2. /\ UNCHANGED <<question, phase, position, name, ok, resolved, models, success>>
      /\ frames' = s /\ frames = s
    BY <1>1 DEF resolverVars
<1>3. found' = found /\ requested' = requested
    BY <1>2 DEF question
<1>4. GoodStack(s)' /\ \A n : Caller(s, n) => Caller(s, n)'
    BY <1>2, StackPersists DEF ResolverInv, StackInv
<1>5. GoodStack(frames)' /\ \A n : Caller(frames, n) => Caller(frames, n)'
    BY <1>2, <1>4 DEF GoodStack, Caller
<1>6. StackInv'
    <2>1. phase = "call" => Caller(frames, name)'
        <3>1. PICK n : n = name
            OBVIOUS
        <3>2. phase = "call" => Caller(frames, n)'
            BY <1>5, <3>1 DEF ResolverInv, StackInv
        <3> QED BY <1>2, <3>1, <3>2 DEF Caller
    <2>2. phase = "return" =>
              \E n \in DOMAIN found' : Caller(frames, n)' /\ (ok' => n \in resolved' \cup {Builtin})
        BY <1>2, <1>3, <1>5 DEF ResolverInv, StackInv
    <2> QED BY <1>2, <1>5, <2>1, <2>2 DEF ResolverInv, StackInv, Builtin
<1>7. ResultInv' /\ WellFormed'
    BY <1>2, ResultPersists DEF ResolverInv
<1> QED BY <1>6, <1>7 DEF ResolverInv

-----------------------------------------------------------------------------
\* The invariant of the resolution, for every web of models whose answers
\* are entries: every step of resolve and resolveOne keeps it.
THEOREM ResolverInvariant == Spec => []ResolverInv
<1>1. Init => ResolverInv
    BY InitInv
<1>2. ResolverInv /\ [Next]_resolverVars => ResolverInv'
    BY RequestSteps, CallSteps, CallFoundStep, NextDependencyStep, ReturnStep, LoadSteps,
       StutterStep DEF Next
<1> QED BY <1>1, <1>2, PTL DEF Spec

\* Whatever resolveOne counts as resolved has its dependencies resolved and
\* its file, with its own checksum, in the result; the JavaScript port may
\* have taken the file of the model it was loading unverified from its cache.
\* In every web of models, cycles included, whichever loads fail and whatever
\* bodies they deliver.
THEOREM ResolvedAlwaysSound == Spec => []ResolvedIsSound
<1>1. ResolverInv => ResolvedIsSound
    BY DEF ResolverInv, ResultInv
<1> QED BY <1>1, ResolverInvariant, PTL

\* The result of resolve has every file once, and after the files of the
\* models it depends on; for every web of models.
THEOREM DependenciesAlwaysFirst == Spec => []DependenciesFirst
<1>1. ResolverInv => DependenciesFirst
    BY DEF ResolverInv, ResultInv
<1> QED BY <1>1, ResolverInvariant, PTL

-----------------------------------------------------------------------------
\* The question and the answers of the search stay what they are.
LEMMA FoundPersists ==
    ASSUME FoundInv, [Next]_resolverVars
    PROVE  FoundInv'
<1>1. UNCHANGED question
    BY DEF Next, NextRequest, Finish, CallKnown, CallRefused, CallFound, NextDependency, Return,
           ReturnToRequest, DependenciesFailed, LoadFile, LoadStale, Emit, LoadFails, FileKnown,
           resolverVars
<1>2. indexes' = indexes /\ requested' = requested /\ found' = found /\ language' = language
    BY <1>1 DEF question
<1> QED BY <1>2 DEF FoundInv

\* Every name that comes up has been searched for; and the entry that a call
\* of resolveOne works on is, in the first language of the preference that
\* has one, the end of the chain of versions from the first root wherever the
\* versions are distinct: for all repositories, cycles of precursors,
\* repeated roots and branches included.
THEOREM SelectionAlwaysLatest == Spec => []SelectionIsLatest
<1>1. Init => FoundInv
    BY DEF Init, FoundInv
<1>2. FoundInv /\ [Next]_resolverVars => FoundInv'
    BY FoundPersists
<1>3. FoundInv /\ ResolverInv => SelectionIsLatest
    <2> SUFFICES ASSUME FoundInv, ResolverInv PROVE SelectionIsLatest
        OBVIOUS
    <2>1. ASSUME NEW i \in DOMAIN frames
          PROVE  IsSelection(indexes[found[frames[i].name].repository],
                             Metadata(frames[i].name), language)
        <3>1. PICK n : n = frames[i].name
            OBVIOUS
        <3>2. n \in DOMAIN found /\ found[n] # None
            <4>1. GoodStack(frames)
                BY DEF ResolverInv, StackInv
            <4>2. i \in 1..Len(frames)
                BY <2>1, <4>1 DEF GoodStack
            <4>3. GoodFrame(frames[i])
                BY <4>1, <4>2 DEF GoodStack
            <4> QED BY <3>1, <4>3 DEF GoodFrame, Frames
        <3>3. PICK a : a = found[n]
            OBVIOUS
        <3>4. a = Lookup(indexes, n, language) /\ indexes \in IndexLists /\ a # None
            BY <3>2, <3>3 DEF FoundInv
        <3>5. PICK r \in DOMAIN indexes :
                  a.repository = r /\ IsSelection(indexes[r], a.entry, language)
            BY <3>4, LookupSelects
        <3> QED BY <3>1, <3>3, <3>5 DEF Metadata
    <2> QED BY <2>1 DEF SelectionIsLatest, IsSelection, IsPreferred, ResolverInv
<1> QED BY <1>1, <1>2, <1>3, ResolverInvariant, PTL DEF Spec

-----------------------------------------------------------------------------
\* The native port gives no sound set up: the calls under way for its models
\* have not failed, and only call for other models of the set.
StackPromise(stack, set) ==
    \A i \in 1..Len(stack) :
        /\ stack[i].name # Builtin
        /\ stack[i].name \in set => stack[i].ok
        /\ \A j \in 1..Len(stack) : i < j /\ stack[i].name \in set => stack[j].name \in set

Promise(set) ==
    /\ StackPromise(frames, set)
    /\ phase = "return" => \A n \in set \cup {Builtin} : Caller(frames, n) => ok
    /\ \A j \in 1..Len(requested) :
           j < position /\ requested[j] \in set => requested[j] \in resolved \cup {Builtin}

\* What resolve promises of the requests behind it, in either port.
OutcomeInv ==
    /\ success \in BOOLEAN
    /\ success => \A j \in 1..Len(requested) :
                      j < position => requested[j] \in resolved \cup {Builtin}
    /\ phase = "done" => (port = "js" /\ ~success) \/ position > Len(requested)
    /\ port = "native" => \A set \in SUBSET DOMAIN found : Sound(set) => Promise(set)

\* What a frame waits for is a dependency of its model.
LEMMA AwaitsDependency ==
    ASSUME WellFormed, NEW f, GoodFrame(f), NEW n, Awaits(f, n), n # Builtin
    PROVE  n \in Dependencies(f.name)
<1>1. f.name \in DOMAIN found /\ f.next \in Nat \ {0} /\ Deps(f) \in Seq(DOMAIN found)
    BY DEF GoodFrame, Frames, WellFormed, Deps
<1>2. f.next \in 1..Len(Deps(f)) /\ Deps(f)[f.next] = n
    BY <1>1 DEF Awaits
<1>3. n \in Range(Deps(f))
    BY <1>1, <1>2 DEF Range
<1> QED BY <1>3 DEF Dependencies, Deps

\* Nothing is taken out of the result.
ModelsGrow == \A i \in DOMAIN models : i \in DOMAIN models' /\ models'[i] = models[i]

\* A failed load is never forgotten, and a body never taken back, so that a
\* sound set has been sound.
LEMMA SoundBefore ==
    ASSUME UNCHANGED question, failed \subseteq failed', ModelsGrow, NEW set, Sound(set)'
    PROVE  Sound(set)
<1>1. found' = found
    BY DEF question
<1>2. \A n : /\ Metadata(n)' = Metadata(n) /\ File(n)' = File(n)
             /\ Dependencies(n)' = Dependencies(n)
    BY <1>1 DEF Metadata, File, Dependencies
<1>3. \A n : FitsEmitted(n)' => FitsEmitted(n)
    BY <1>2 DEF ModelsGrow, FitsEmitted, Fits
<1> QED BY <1>1, <1>2, <1>3 DEF Sound

\* A caller waits for one model.
LEMMA CallerUnique ==
    ASSUME NEW s, NEW n, NEW m, Caller(s, n), Caller(s, m)
    PROVE  n = m
BY DEF Caller, Awaits

\* The calls under way never come round to a model of a sound set: the
\* models from there on would depend on each other in a cycle.
LEMMA NoCycleInSound ==
    ASSUME WellFormed, StackInv, phase = "call", NEW set, Sound(set),
           StackPromise(frames, set), name \in set
    PROVE  name \notin Range(Stack)
<1>1. SUFFICES ASSUME name \in Range(Stack) PROVE FALSE
    OBVIOUS
<1>2. GoodStack(frames) /\ Caller(frames, name) /\ frames \in Seq(Frames)
    BY DEF StackInv, GoodStack
<1>3. PICK k \in Nat : k = Len(frames)
    BY <1>2
<1>4. PICK i \in 1..k : frames[i].name = name
    BY <1>1, <1>2, <1>3 DEF Range, Stack
<1>5. frames # <<>> /\ Awaits(frames[k], name)
    <2>1. frames # <<>>
        BY <1>2, <1>3, <1>4, EmptySeq
    <2> QED BY <1>2, <1>3, <2>1 DEF Caller
<1> DEFINE part == {frames[j].name : j \in i..k}
<1>6. \A j \in i..k : j \in 1..k /\ frames[j].name \in set /\ frames[j].name # Builtin
    <2>1. \A j \in i..k : j \in 1..k /\ (j = i \/ i < j)
        BY <1>3, <1>4
    <2> QED BY <1>3, <1>4, <2>1 DEF StackPromise
<1>7. part \in (SUBSET set) \ {{}}
    <2>1. i \in i..k
        BY <1>3, <1>4
    <2> QED BY <1>6, <2>1
<1>8. PICK m \in part : Dependencies(m) \cap part = {}
    BY <1>7 DEF Sound
<1>9. PICK j \in i..k : m = frames[j].name
    BY <1>8
<1>10. j \in 1..k /\ GoodFrame(frames[j])
    BY <1>2, <1>3, <1>6, <1>9 DEF GoodStack
<1>11. CASE j = k
    <2>1. name # Builtin /\ name \in part
        BY <1>3, <1>4, <1>6
    <2>2. name \in Dependencies(m)
        BY <1>5, <1>9, <1>10, <1>11, <2>1, AwaitsDependency
    <2> QED BY <1>8, <2>1, <2>2
<1>12. CASE j # k
    <2>1. PICK l \in i..k : l = j + 1
        BY <1>3, <1>4, <1>10, <1>12
    <2>2. l \in 1..k /\ l > 1 /\ l - 1 = j
        BY <1>6, <1>10, <2>1
    <2>3. Awaits(frames[j], frames[l].name)
        BY <1>2, <1>3, <2>2 DEF GoodStack
    <2>4. frames[l].name # Builtin /\ frames[l].name \in part
        BY <1>6, <2>1
    <2>5. frames[l].name \in Dependencies(m)
        BY <1>9, <1>10, <2>3, <2>4, AwaitsDependency
    <2> QED BY <1>8, <2>4, <2>5
<1> QED BY <1>11, <1>12

\* The stack of a sound set with one more call, and with one less.
LEMMA PushedPromise ==
    ASSUME NEW set, NEW s \in Seq(Frames), StackPromise(s, set),
           NEW f \in Frames, f.name # Builtin, f.name \in set => f.ok,
           \A i \in 1..Len(s) : s[i].name \in set => f.name \in set
    PROVE  StackPromise(Append(s, f), set)
<1> DEFINE t == Append(s, f)
<1>1. PICK k \in Nat : k = Len(s)
    OBVIOUS
<1>2. Len(t) = k + 1 /\ t[k + 1] = f /\ \A i \in 1..k : t[i] = s[i]
    BY <1>1
<1> HIDE DEF t
<1>3. \A i \in 1..k + 1 : i \in 1..k \/ i = k + 1
    BY <1>1
<1>4. \A i \in 1..k : t[i].name # Builtin /\ (t[i].name \in set => t[i].ok)
    BY <1>1, <1>2 DEF StackPromise
<1>5. ASSUME NEW i \in 1..k + 1, NEW j \in 1..k + 1, i < j, t[i].name \in set
      PROVE  t[j].name \in set
    <2>1. i \in 1..k
        BY <1>1, <1>5
    <2>2. CASE j = k + 1
        BY <1>1, <1>2, <1>5, <2>1, <2>2
    <2>3. CASE j \in 1..k
        BY <1>1, <1>2, <1>5, <2>1, <2>3 DEF StackPromise
    <2> QED BY <1>3, <2>2, <2>3
<1> QED BY <1>2, <1>3, <1>4, <1>5 DEF StackPromise, t

LEMMA PoppedPromise ==
    ASSUME NEW set, StackInv, frames # <<>>, StackPromise(frames, set)
    PROVE  /\ StackPromise(Popped, set)
           /\ Top.name # Builtin
           /\ Top.name \in set => Top.ok
           /\ \A i \in 1..Len(Popped) : Popped[i].name \in set => Top.name \in set
<1>1. frames \in Seq(Frames)
    BY DEF StackInv, GoodStack
<1>2. PICK k \in Nat : k = Len(frames)
    BY <1>1
<1>3. k # 0
    BY <1>1, <1>2, EmptySeq
<1>4. PICK m \in Nat : m = k - 1
    BY <1>2, <1>3
<1>5. \A i \in 1..m : i \in 1..k /\ i < k
    BY <1>2, <1>4
<1>6. k \in 1..k /\ Top = frames[k]
    BY <1>2, <1>3 DEF Top
<1>7. Len(Popped) = m /\ \A i \in 1..m : Popped[i] = frames[i]
    <2>1. \A i \in 1..m : frames[i] \in Frames
        BY <1>1, <1>2, <1>5
    <2>2. /\ Len(SubSeq(frames, 1, m)) = IF 1 <= m THEN m - 1 + 1 ELSE 0
          /\ \A i \in 1..m - 1 + 1 : SubSeq(frames, 1, m)[i] = frames[1 + i - 1]
        BY <1>4, <2>1, SubSeqProperties
    <2>3. /\ Len(SubSeq(frames, 1, m)) = m
          /\ \A i \in 1..m : SubSeq(frames, 1, m)[i] = frames[i]
        BY <1>4, <2>2
    <2> QED BY <1>2, <1>4, <2>3 DEF Popped
<1> QED BY <1>2, <1>5, <1>6, <1>7 DEF StackPromise

\* A model that a call for a model of a sound set asks for is in the set.
LEMMA CalledInSet ==
    ASSUME WellFormed, NEW set, Sound(set), NEW s, GoodStack(s), StackPromise(s, set),
           NEW n, n # Builtin, Caller(s, n)
    PROVE  \A i \in 1..Len(s) : s[i].name \in set => n \in set
<1> SUFFICES ASSUME NEW i \in 1..Len(s), s[i].name \in set
             PROVE  n \in set
    OBVIOUS
<1>1. s \in Seq(Frames)
    BY DEF GoodStack
<1>2. PICK k \in Nat : k = Len(s)
    BY <1>1
<1>3. s # <<>> /\ k \in 1..k /\ (i = k \/ i < k)
    BY <1>1, <1>2, EmptySeq
<1>4. GoodFrame(s[k]) /\ Awaits(s[k], n)
    BY <1>2, <1>3 DEF GoodStack, Caller
<1>5. s[k].name \in set
    BY <1>2, <1>3 DEF StackPromise
<1>6. n \in Dependencies(s[k].name)
    BY <1>4, AwaitsDependency
<1> QED BY <1>5, <1>6 DEF Sound

\* A call returns what its caller may count on.
LEMMA ReturnKeepsPromise ==
    ASSUME NEW set, Promise(set), NEW s, StackPromise(s, set), NEW n, Caller(s, n),
           UNCHANGED <<question, position>>, resolved \subseteq resolved',
           NEW result, n \in set \cup {Builtin} => result,
           phase' = "return", frames' = s, ok' = result
    PROVE  Promise(set)'
<1>1. found' = found /\ requested' = requested /\ position' = position
    BY DEF question
<1>2. \A m : Caller(frames, m)' => Caller(s, m)
    BY <1>1 DEF Caller, Awaits, Deps, Metadata
<1>3. \A m : Caller(s, m) => m = n
    BY CallerUnique
<1>4. \A m \in set \cup {Builtin} : Caller(frames, m)' => ok'
    BY <1>2, <1>3
<1>5. StackPromise(frames', set)
    OBVIOUS
<1>6. StackPromise(frames, set)'
    BY <1>5 DEF StackPromise
<1>7. \A j \in 1..Len(requested') : j < position' /\ requested'[j] \in set =>
          requested'[j] \in resolved' \cup {Builtin}
    BY <1>1 DEF Promise
<1> QED BY <1>4, <1>6, <1>7 DEF Promise, Builtin

\* A step inside the resolution of one requested model.
LEMMA InnerStep ==
    ASSUME OutcomeInv, UNCHANGED <<question, position>>,
           resolved \subseteq resolved', failed \subseteq failed',
           success' \in BOOLEAN, success' => success,
           phase' = "done" => port = "js" /\ ~success',
           port = "native" => ModelsGrow,
           port = "native" =>
               \A set \in SUBSET DOMAIN found :
                   Sound(set)' /\ Sound(set) /\ Promise(set) => Promise(set)'
    PROVE  OutcomeInv'
<1>1. /\ found' = found /\ requested' = requested /\ position' = position
      /\ port' = port
    BY DEF question
<1>2. success' => \A j \in 1..Len(requested') :
                      j < position' => requested'[j] \in resolved' \cup {Builtin}
    BY <1>1 DEF OutcomeInv
<1>3. ASSUME port = "native", NEW set \in SUBSET DOMAIN found, Sound(set)'
      PROVE  Promise(set)'
    <2>1. Sound(set)
        BY <1>3, SoundBefore
    <2> QED BY <1>3, <2>1 DEF OutcomeInv
<1> QED BY <1>1, <1>2, <1>3 DEF OutcomeInv, Builtin

\* A call that returns, of the native port or of the JavaScript one.
LEMMA ReturnsOutcome ==
    ASSUME OutcomeInv, UNCHANGED <<question, position>>,
           resolved \subseteq resolved', failed \subseteq failed',
           NEW s, NEW n, Caller(s, n), NEW result \in BOOLEAN, ReturnsWith(result, s),
           port = "native" =>
               \A set \in SUBSET DOMAIN found :
                   Sound(set)' /\ Sound(set) /\ Promise(set) =>
                       StackPromise(s, set) /\ (n \in set \cup {Builtin} => result)
    PROVE  OutcomeInv'
<1>1. /\ success' \in BOOLEAN /\ (success' => success)
      /\ phase' = "done" => port = "js" /\ ~success'
      /\ port = "native" => ModelsGrow
    BY DEF ReturnsWith, OutcomeInv, ModelsGrow
<1>2. ASSUME port = "native", NEW set \in SUBSET DOMAIN found,
             Sound(set)', Sound(set), Promise(set)
      PROVE  Promise(set)'
    <2>1. StackPromise(s, set) /\ (n \in set \cup {Builtin} => result)
        BY <1>2
    <2>2. phase' = "return" /\ frames' = s /\ ok' = result
        BY <1>2 DEF ReturnsWith
    <2> QED BY <1>2, <2>1, <2>2, ReturnKeepsPromise
<1> QED BY <1>1, <1>2, InnerStep

LEMMA CallOutcome ==
    ASSUME ResolverInv, OutcomeInv, CallKnown \/ CallRefused
    PROVE  OutcomeInv'
<1>1. PICK s : s = frames
    OBVIOUS
<1>2. PICK n : n = name
    OBVIOUS
<1>3. /\ phase = "call"
      /\ UNCHANGED <<question, position, resolved, failed>>
    BY DEF CallKnown, CallRefused
<1>4. Caller(s, n) /\ StackInv /\ WellFormed
    BY <1>1, <1>2, <1>3 DEF ResolverInv, StackInv
<1>5. \A set : Promise(set) => StackPromise(s, set)
    BY <1>1 DEF Promise
<1>6. CASE CallKnown
    <2>1. ReturnsWith(TRUE, s)
        BY <1>1, <1>6 DEF CallKnown, ReturnsWith
    <2> QED BY <1>3, <1>4, <1>5, <2>1, ReturnsOutcome
<1>7. CASE CallRefused
    <2>1. ReturnsWith(FALSE, s)
        BY <1>1, <1>7 DEF CallRefused, ReturnsWith
    <2>2. ASSUME port = "native", NEW set, Sound(set), Promise(set)
          PROVE  n \notin set \cup {Builtin}
        <3>1. n # Builtin /\ (n \in Range(Stack) \/ found[n] = None)
            BY <1>2, <1>7, <2>2 DEF CallRefused
        <3>2. n \in set => found[n] # None
            BY <2>2 DEF Sound
        <3>3. n \in set => n \notin Range(Stack)
            BY <1>1, <1>2, <1>3, <1>4, <1>5, <2>2, NoCycleInSound
        <3> QED BY <3>1, <3>2, <3>3
    <2> QED BY <1>3, <1>4, <1>5, <2>1, <2>2, ReturnsOutcome
<1> QED BY <1>6, <1>7

\* The second half of resolveOne: it fails for no model of a sound set.
LEMMA LoadOutcome ==
    ASSUME ResolverInv, OutcomeInv,
           DependenciesFailed \/ LoadFile \/ LoadStale \/ LoadFails \/ FileKnown
    PROVE  OutcomeInv'
<1>1. PICK s : s = Popped
    OBVIOUS
<1>2. PICK n : n = Top.name
    OBVIOUS
<1>3. phase = "run" /\ frames # <<>> /\ UNCHANGED <<question, position>>
    BY DEF DependenciesFailed, LoadFile, LoadStale, Emit, LoadFails, FileKnown, MayLoad,
           Ready, ResolverInv, StackInv
<1>4. Caller(s, n) /\ StackInv
    BY <1>1, <1>2, <1>3, PoppedStack DEF ResolverInv
<1>5. resolved \subseteq resolved' /\ failed \subseteq failed'
    BY DEF DependenciesFailed, LoadFile, LoadStale, Emit, LoadFails, FileKnown
<1>6. ASSUME NEW set, Promise(set)
      PROVE  StackPromise(s, set) /\ n # Builtin /\ (n \in set => Top.ok)
    <2>1. StackPromise(frames, set)
        BY <1>6 DEF Promise
    <2> QED BY <1>1, <1>2, <1>3, <1>4, <2>1, PoppedPromise
<1>7. CASE DependenciesFailed
    <2>1. ReturnsWith(FALSE, s)
        BY <1>1, <1>7 DEF DependenciesFailed, ReturnsWith
    <2>2. ASSUME port = "native", NEW set, Sound(set), Promise(set)
          PROVE  n \notin set
        <3>1. ~Top.ok \/ Metadata(n).file \in UnsafePaths
            BY <1>2, <1>7, <2>2 DEF DependenciesFailed
        <3> QED BY <1>6, <2>2, <3>1 DEF Sound
    <2> QED BY <1>3, <1>4, <1>5, <1>6, <2>1, <2>2, ReturnsOutcome
<1>8. CASE LoadFile \/ LoadStale
    <2>0. PICK d \in Digests, v \in BOOLEAN : Emit(d, v)
        BY <1>8 DEF LoadFile, LoadStale
    <2>1. phase' = "return" /\ ok' = TRUE /\ frames' = s /\ success' = success
        BY <1>1, <2>0 DEF Emit
    <2>3. ModelsGrow
        <3>1. models \in Seq([name : DOMAIN found, file : {File(m) : m \in DOMAIN found},
                              digest : Digests, verified : BOOLEAN])
            BY DEF ResolverInv, ResultInv
        <3>2. PICK item : models' = Append(models, item)
            BY <2>0 DEF Emit
        <3> QED BY <3>1, <3>2 DEF ModelsGrow
    <2>2. ASSUME NEW set, Promise(set)
          PROVE  Promise(set)'
        BY <1>3, <1>4, <1>5, <1>6, <2>1, <2>2, ReturnKeepsPromise
    <2> QED BY <1>3, <1>5, <2>1, <2>2, <2>3, InnerStep DEF OutcomeInv
<1>9. CASE LoadFails
    <2>1. ReturnsWith(FALSE, s)
        BY <1>1, <1>9 DEF LoadFails, ReturnsWith
    <2>2. ASSUME NEW set, Sound(set)'
          PROVE  n \notin set
        <3>1. File(n) \in failed'
            BY <1>2, <1>9 DEF LoadFails
        <3>2. File(n)' = File(n)
            BY <1>3 DEF File, Metadata, question
        <3> QED BY <2>2, <3>1, <3>2 DEF Sound
    <2> QED BY <1>3, <1>4, <1>5, <1>6, <2>1, <2>2, ReturnsOutcome
<1>10. CASE FileKnown
    <2>1. PICK result \in BOOLEAN : result = FitsEmitted(n)
        BY DEF FitsEmitted
    <2>2. ReturnsWith(result, s)
        BY <1>1, <1>2, <1>10, <2>1 DEF FileKnown, ReturnsWith
    <2>3. \A set : Sound(set) /\ n \in set => result
        BY <2>1 DEF Sound
    <2> QED BY <1>3, <1>4, <1>5, <1>6, <2>2, <2>3, ReturnsOutcome
<1> QED BY <1>7, <1>8, <1>9, <1>10

LEMMA CallFoundOutcome ==
    ASSUME ResolverInv, OutcomeInv, CallFound
    PROVE  OutcomeInv'
<1>1. PICK s : s = frames
    OBVIOUS
<1>2. PICK f : f = [name |-> name, next |-> 1, ok |-> TRUE]
    OBVIOUS
<1>3. /\ UNCHANGED <<question, position, resolved, failed, success>> /\ ModelsGrow
      /\ frames' = Append(s, f) /\ phase' = "run" /\ phase = "call" /\ name # Builtin
    BY <1>1, <1>2 DEF CallFound, ModelsGrow
<1>4. GoodStack(s) /\ Caller(s, name) /\ WellFormed /\ s \in Seq(Frames)
    BY <1>1, <1>3 DEF ResolverInv, StackInv, GoodStack
<1>5. f \in Frames /\ f.name = name /\ f.ok = TRUE
    <2>1. name \in DOMAIN found
        BY <1>4, CallerNames
    <2> QED BY <1>2, <2>1 DEF Frames
<1>6. ASSUME NEW set, Sound(set), Promise(set)
      PROVE  Promise(set)'
    <2>1. StackPromise(s, set)
        BY <1>1, <1>6 DEF Promise
    <2>2. \A i \in 1..Len(s) : s[i].name \in set => f.name \in set
        BY <1>3, <1>4, <1>5, <1>6, <2>1, CalledInSet
    <2>3. StackPromise(Append(s, f), set)
        BY <1>3, <1>4, <1>5, <2>1, <2>2, PushedPromise
    <2>4. StackPromise(frames, set)'
        BY <1>3, <2>3 DEF StackPromise
    <2>5. requested' = requested
        BY <1>3 DEF question
    <2> QED BY <1>3, <1>6, <2>4, <2>5 DEF Promise
<1> QED BY <1>3, <1>6, InnerStep DEF OutcomeInv

LEMMA NextDependencyOutcome ==
    ASSUME ResolverInv, OutcomeInv, NextDependency
    PROVE  OutcomeInv'
<1>1. /\ UNCHANGED <<question, position, resolved, failed, success, frames>>
      /\ phase' = "call" /\ ModelsGrow
    BY DEF NextDependency, ModelsGrow
<1>2. ASSUME NEW set, Promise(set)
      PROVE  Promise(set)'
    <2>1. StackPromise(frames, set)'
        BY <1>1, <1>2 DEF Promise, StackPromise
    <2>2. requested' = requested
        BY <1>1 DEF question
    <2> QED BY <1>1, <1>2, <2>1, <2>2 DEF Promise
<1> QED BY <1>1, <1>2, InnerStep DEF OutcomeInv

\* A failed dependency of a model of a sound set would be in the set.
LEMMA ReturnOutcome ==
    ASSUME ResolverInv, OutcomeInv, Return
    PROVE  OutcomeInv'
<1>1. PICK s : s = Popped
    OBVIOUS
<1>2. PICK top : top = Top
    OBVIOUS
<1>3. PICK both \in BOOLEAN : both = (ok /\ top.ok)
    OBVIOUS
<1>4. frames # <<>> /\ phase = "return" /\ StackInv /\ WellFormed
    BY DEF Return, ResolverInv
<1>5. GoodFrame(top) /\ top \in Frames /\ GoodStack(s) /\ s \in Seq(Frames)
    BY <1>1, <1>2, <1>4, PoppedStack DEF GoodStack
<1>6. PICK next \in Nat \ {0} : next = top.next + 1
    BY <1>5 DEF Frames
<1>7. PICK f : f = [top EXCEPT !.next = next, !.ok = both]
    OBVIOUS
<1>8. f \in Frames /\ f.name = top.name /\ f.ok = both
    BY <1>3, <1>5, <1>6, <1>7 DEF Frames
<1>9. /\ UNCHANGED <<question, position, resolved, failed, success>>
      /\ frames' = Append(s, f) /\ phase' = "run" /\ ModelsGrow
    <2>1. f = [top EXCEPT !.next = @ + 1, !.ok = ok /\ @]
        BY <1>3, <1>6, <1>7
    <2> QED BY <1>1, <1>2, <2>1 DEF Return, ModelsGrow
<1>10. PICK n \in DOMAIN found : Caller(frames, n)
    BY <1>4 DEF StackInv
<1>11. ASSUME NEW set, Sound(set), Promise(set)
       PROVE  Promise(set)'
    <2>1. StackPromise(frames, set) /\ (n \in set \cup {Builtin} => ok)
        BY <1>4, <1>10, <1>11 DEF Promise
    <2>2. /\ StackPromise(s, set) /\ top.name # Builtin /\ (top.name \in set => top.ok)
          /\ \A i \in 1..Len(s) : s[i].name \in set => top.name \in set
        BY <1>1, <1>2, <1>4, <2>1, PoppedPromise
    <2>3. top.name \in set => n \in set \cup {Builtin}
        <3>1. Awaits(top, n)
            BY <1>2, <1>4, <1>10 DEF Caller, Top
        <3>2. n # Builtin => n \in Dependencies(top.name)
            BY <1>4, <1>5, <3>1, AwaitsDependency
        <3> QED BY <1>11, <3>2 DEF Sound
    <2>4. f.name \in set => f.ok
        BY <1>3, <1>8, <2>1, <2>2, <2>3
    <2>5. StackPromise(Append(s, f), set)
        BY <1>5, <1>8, <2>2, <2>4, PushedPromise
    <2>6. StackPromise(frames, set)'
        BY <1>9, <2>5 DEF StackPromise
    <2>7. requested' = requested
        BY <1>9 DEF question
    <2> QED BY <1>9, <1>11, <2>6, <2>7 DEF Promise
<1> QED BY <1>9, <1>11, InnerStep DEF OutcomeInv

LEMMA RequestOutcome ==
    ASSUME ResolverInv, OutcomeInv, NextRequest \/ Finish \/ ReturnToRequest
    PROVE  OutcomeInv'
<1>1. /\ UNCHANGED <<question, resolved, failed>> /\ frames = <<>> /\ frames' = <<>>
      /\ phase' # "return" /\ ModelsGrow
    BY DEF ResolverInv, StackInv, NextRequest, Finish, ReturnToRequest, ModelsGrow
<1>2. found' = found /\ requested' = requested /\ port' = port
    BY <1>1 DEF question
<1>3. \A set : StackPromise(frames, set)'
    BY <1>1 DEF StackPromise
<1>4. ASSUME NEW set, Sound(set)'
      PROVE  Sound(set)
    BY <1>1, <1>4, SoundBefore
<1>5. CASE NextRequest \/ Finish
    <2>1. /\ position' = position /\ success' = success
          /\ phase' = "done" => position > Len(requested)
        BY <1>5 DEF NextRequest, Finish
    <2>2. \A set : Promise(set) => Promise(set)'
        BY <1>1, <1>2, <1>3, <2>1 DEF Promise, Builtin
    <2> QED BY <1>1, <1>2, <1>4, <2>1, <2>2 DEF OutcomeInv, Builtin
<1>6. CASE ReturnToRequest
    <2>1. /\ position' = position + 1 /\ success' = (ok /\ success)
          /\ phase = "return" /\ phase' = "requests"
        BY <1>6 DEF ReturnToRequest
    <2>2. PICK n \in DOMAIN found : Caller(frames, n) /\ (ok => n \in resolved \cup {Builtin})
        BY <2>1 DEF ResolverInv, StackInv
    <2>3. position \in 1..Len(requested) /\ requested[position] = n
        BY <1>1, <2>2 DEF Caller
    <2>4. \A j \in 1..Len(requested) : j < position' => j < position \/ j = position
        <3>1. requested \in Seq(DOMAIN found) /\ position \in Nat
            BY DEF ResolverInv, WellFormed, StackInv
        <3> QED BY <2>1, <3>1
    <2>5. success' \in BOOLEAN /\ (success' => success /\ ok)
        BY <2>1 DEF ResolverInv, StackInv, OutcomeInv
    <2>6. success' => \A j \in 1..Len(requested) :
                          j < position' => requested[j] \in resolved \cup {Builtin}
        BY <2>2, <2>3, <2>4, <2>5 DEF OutcomeInv
    <2>7. ASSUME NEW set, Promise(set)
          PROVE  Promise(set)'
        <3>1. n \in set => n \in resolved \cup {Builtin}
            BY <2>1, <2>2, <2>7 DEF Promise
        <3>2. \A j \in 1..Len(requested) : j < position' /\ requested[j] \in set =>
                  requested[j] \in resolved \cup {Builtin}
            BY <2>3, <2>4, <2>7, <3>1 DEF Promise
        <3> QED BY <1>1, <1>2, <1>3, <3>2 DEF Promise, Builtin
    <2> QED BY <1>1, <1>2, <1>4, <2>1, <2>5, <2>6, <2>7 DEF OutcomeInv, Builtin
<1> QED BY <1>5, <1>6

LEMMA StutterOutcome ==
    ASSUME OutcomeInv, UNCHANGED resolverVars
    PROVE  OutcomeInv'
<1>1. /\ UNCHANGED <<question, phase, position, ok, frames, resolved, success, failed>>
      /\ ModelsGrow
    BY DEF resolverVars, ModelsGrow
<1>2. found' = found /\ requested' = requested /\ port' = port
    BY <1>1 DEF question
<1>3. ASSUME NEW set, Sound(set)'
      PROVE  Sound(set)
    BY <1>1, <1>3, SoundBefore
<1>4. \A set : Promise(set) => Promise(set)'
    BY <1>1, <1>2 DEF Promise, StackPromise, Caller, Awaits, Deps, Metadata, Builtin
<1> QED BY <1>1, <1>2, <1>3, <1>4 DEF OutcomeInv, Builtin

\* A resolution succeeds only if everything requested is resolved; and a
\* failure of the native port stays with the models that need what failed:
\* every requested model of a set that is closed under dependencies, free
\* of cycles and of every reason to fail is resolved.
THEOREM OutcomeAlwaysExact == Spec => []OutcomeIsExact
<1>1. Init => OutcomeInv
    <2> SUFFICES ASSUME Init PROVE OutcomeInv
        OBVIOUS
    <2>0. WellFormed
        BY InitInv DEF ResolverInv
    <2>1. frames = <<>> /\ phase = "requests" /\ position = 1 /\ success = TRUE
        BY DEF Init
    <2>2. \A j \in 1..Len(requested) : ~(j < position)
        BY <2>0, <2>1 DEF WellFormed
    <2>3. \A set : Promise(set)
        BY <2>1, <2>2 DEF Promise, StackPromise
    <2> QED BY <2>1, <2>2, <2>3 DEF OutcomeInv
<1>2. ResolverInv /\ OutcomeInv /\ [Next]_resolverVars => OutcomeInv'
    BY RequestOutcome, CallOutcome, CallFoundOutcome, NextDependencyOutcome, ReturnOutcome,
       LoadOutcome, StutterOutcome DEF Next
<1>3. ResolverInv /\ OutcomeInv => OutcomeIsExact
    <2> SUFFICES ASSUME ResolverInv, OutcomeInv, phase = "done"
                 PROVE  /\ success => Range(requested) \subseteq resolved \cup {Builtin}
                        /\ port = "native" =>
                               \A set \in SUBSET DOMAIN found : Sound(set) =>
                                   set \cap Range(requested) \subseteq resolved \cup {Builtin}
        BY DEF OutcomeIsExact
    <2>1. requested \in Seq(DOMAIN found) /\ position \in Nat
        BY DEF ResolverInv, WellFormed, StackInv
    <2>2. \A n \in Range(requested) : \E j \in 1..Len(requested) : n = requested[j]
        BY <2>1 DEF Range
    <2>3. success \/ port = "native" => \A j \in 1..Len(requested) : j < position
        BY <2>1 DEF OutcomeInv
    <2>4. success => Range(requested) \subseteq resolved \cup {Builtin}
        BY <2>2, <2>3 DEF OutcomeInv
    <2>5. ASSUME port = "native", NEW set \in SUBSET DOMAIN found, Sound(set)
          PROVE  set \cap Range(requested) \subseteq resolved \cup {Builtin}
        BY <2>2, <2>3, <2>5 DEF OutcomeInv, Promise
    <2> QED BY <2>4, <2>5
<1> QED BY <1>1, <1>2, <1>3, ResolverInvariant, PTL DEF Spec
=============================================================================
