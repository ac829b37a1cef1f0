---------------------- MODULE RepositoryCrawlerProofs ----------------------
(***************************************************************************)
(* Proofs about the repository search, for every set of repositories,      *)
(* every web of links between them and every seed list: first the native   *)
(* one by itself, then both ports as RepositoryGraphWalker puts them side  *)
(* by side.                                                                *)
(***************************************************************************)
EXTENDS RepositoryGraphWalker, FiniteSetTheorems, SequenceTheorems, TLAPS

-----------------------------------------------------------------------------

\* The elements of a queue are its head and the elements of its tail.
LEMMA RangeOfQueue ==
    ASSUME NEW S, NEW queue \in Seq(S), queue # <<>>
    PROVE  /\ Head(queue) \in S
           /\ Tail(queue) \in Seq(S)
           /\ Range(queue) = {Head(queue)} \cup Range(Tail(queue))
<1>1. /\ Head(queue) \in S /\ Tail(queue) \in Seq(S)
      /\ Len(Tail(queue)) = Len(queue) - 1
      /\ \A i \in 1..Len(Tail(queue)) : Tail(queue)[i] = queue[i + 1]
    BY HeadTailProperties
<1>2. Head(queue) = queue[1] /\ Len(queue) \in Nat \ {0}
    BY EmptySeq
<1>3. Range(queue) = {queue[i] : i \in 1..Len(queue)}
    BY RangeEquality
<1>4. Range(Tail(queue)) = {Tail(queue)[i] : i \in 1..Len(Tail(queue))}
    BY <1>1, RangeEquality
<1>5. ASSUME NEW x \in Range(queue)
      PROVE  x \in {Head(queue)} \cup Range(Tail(queue))
    <2>1. PICK i \in 1..Len(queue) : x = queue[i]
        BY <1>3
    <2>2. CASE i = 1
        BY <2>1, <2>2, <1>2
    <2>3. CASE i # 1
        <3>1. i - 1 \in 1..Len(Tail(queue)) /\ Tail(queue)[i - 1] = queue[i]
            BY <1>1, <1>2, <2>3
        <3> QED
            BY <2>1, <3>1, <1>4
    <2> QED
        BY <2>2, <2>3
<1>6. ASSUME NEW x \in Range(Tail(queue))
      PROVE  x \in Range(queue)
    <2>1. PICK i \in 1..Len(Tail(queue)) : x = Tail(queue)[i]
        BY <1>4
    <2>2. i + 1 \in 1..Len(queue) /\ x = queue[i + 1]
        BY <2>1, <1>1, <1>2
    <2> QED
        BY <2>2, <1>3
<1>7. Head(queue) \in Range(queue)
    BY <1>2, <1>3
<1> QED
    BY <1>1, <1>5, <1>6, <1>7

\* The range of an empty queue.
LEMMA RangeOfEmpty == Range(<<>>) = {}
    BY DEF Range

\* The search never changes the web it searches.
LEMMA WebFixed == ASSUME [Next]_crawlVars PROVE UNCHANGED web
    BY DEF Next, crawlVars, NormalizeSeed, SeedsNormalized, VisitSeed, SeedsVisited,
           ReadSeedSite, SitesRead, SkipParent, VisitParent, ParentsDrained,
           SkipSubsidiary, VisitSubsidiary, Exhausted

-----------------------------------------------------------------------------

\* Every step of the search preserves the type invariant.
LEMMA NextPreservesTypeOK ==
    ASSUME TypeOK, [Next]_crawlVars
    PROVE  TypeOK'
<1>0. UNCHANGED web
    BY WebFixed
<1>a. /\ configured' \in Seq(Repositories)
      /\ parentSites' \in [Repositories -> Seq(Repositories)]
      /\ subsidiarySites' \in [Repositories -> Seq(Repositories)]
      /\ holders' \subseteq Repositories
    BY <1>0 DEF web, TypeOK
<1>b. \A s \in Seq(Repositories) : s # <<>> =>
          Head(s) \in Repositories /\ Tail(s) \in Seq(Repositories)
    BY HeadTailProperties
<1>c. \A s, t \in Seq(Repositories) : s \o t \in Seq(Repositories)
    BY ConcatProperties
<1>d. \A s \in Seq(Repositories), p \in Nat \ {0} : p <= Len(s) => s[p] \in Repositories
    BY ElementOfSeq, LenProperties
<1>e. position + 1 \in Nat \ {0}
    BY DEF TypeOK
<1>1. CASE NormalizeSeed
    <2>1. configured[position] \in Repositories
        BY <1>d, <1>1 DEF NormalizeSeed, TypeOK
    <2>2. seeds' \in Seq(Repositories)
        BY <2>1, <1>1, AppendProperties DEF NormalizeSeed, TypeOK
    <2>3. /\ position' = position + 1
          /\ UNCHANGED <<phase, visited, parents, subsidiaries, found>>
        BY <1>1 DEF NormalizeSeed
    <2> QED
        BY <1>a, <1>e, <2>2, <2>3 DEF TypeOK
<1>2. CASE SeedsNormalized \/ SeedsVisited \/ SitesRead \/ ParentsDrained \/ Exhausted
    <2>1. /\ phase' \in {"seeds", "sites", "parents", "subsidiaries", "done"}
          /\ position' \in {1, position}
          /\ UNCHANGED <<seeds, visited, parents, subsidiaries, found>>
        BY <1>2 DEF SeedsNormalized, SeedsVisited, SitesRead, ParentsDrained, Exhausted
    <2> QED
        BY <1>a, <2>1 DEF TypeOK
<1>3. CASE VisitSeed
    BY <1>a, <1>d, <1>e, <1>3 DEF VisitSeed, FindAt, TypeOK
<1>4. CASE ReadSeedSite
    <2>1. seeds[position] \in Repositories
        BY <1>d, <1>4 DEF ReadSeedSite, TypeOK
    <2> QED
        BY <1>a, <1>c, <1>e, <1>4, <2>1 DEF ReadSeedSite, TypeOK
<1>5. CASE SkipParent \/ SkipSubsidiary
    BY <1>a, <1>b, <1>5 DEF SkipParent, SkipSubsidiary, TypeOK
<1>6. CASE VisitParent
    <2>1. Head(parents) \in Repositories /\ Tail(parents) \in Seq(Repositories)
        BY <1>b, <1>6 DEF VisitParent, TypeOK
    <2>2. Tail(parents) \o parentSites[Head(parents)] \in Seq(Repositories)
        BY <1>c, <2>1 DEF TypeOK
    <2> QED
        BY <1>a, <1>6, <2>1, <2>2 DEF VisitParent, FindAt, TypeOK
<1>7. CASE VisitSubsidiary
    <2> DEFINE r == Head(subsidiaries)
    <2>1. r \in Repositories /\ Tail(subsidiaries) \in Seq(Repositories)
        BY <1>b, <1>7 DEF VisitSubsidiary, TypeOK
    <2>2. /\ Tail(subsidiaries) \o subsidiarySites[r] \in Seq(Repositories)
          /\ parents \o parentSites[r] \in Seq(Repositories)
        BY <1>c, <2>1 DEF TypeOK
    <2> QED
        BY <1>a, <1>7, <2>1, <2>2 DEF VisitSubsidiary, FindAt, TypeOK
<1>8. CASE UNCHANGED crawlVars
    BY <1>8 DEF crawlVars, web, TypeOK
<1> QED
    BY <1>1, <1>2, <1>3, <1>4, <1>5, <1>6, <1>7, <1>8 DEF Next

\* The type invariant holds initially and every step preserves it.
THEOREM CrawlTypeCorrect == Spec => []TypeOK
<1>1. Init => TypeOK
    BY CrawlerAssumption DEF Init, TypeOK
<1>2. TypeOK /\ [Next]_crawlVars => TypeOK'
    BY NextPreservesTypeOK
<1> QED
    BY <1>1, <1>2, PTL DEF Spec

-----------------------------------------------------------------------------
(* The search stays within reach: everything queued or visited lies in     *)
(* every cover.                                                            *)

\* Nothing is queued or visited before the seeds are normalized; from then
\* on, whatever is visited or queued lies within every cover.
ReachInv ==
    /\ phase = "normalize" => visited = {} /\ parents = <<>> /\ subsidiaries = <<>>
    /\ phase # "normalize" =>
           \A below, set \in SUBSET Repositories : Covers(below, set) =>
               /\ visited \subseteq set
               /\ Range(parents) \subseteq set
               /\ Range(subsidiaries) \subseteq below

\* The elements of seeds stay within their range.
LEMMA SeedInRange ==
    ASSUME TypeOK, position <= Len(seeds)
    PROVE  seeds[position] \in Range(seeds) /\ seeds[position] \in Repositories
<1>1. Range(seeds) = {seeds[i] : i \in 1..Len(seeds)} /\ Len(seeds) \in Nat
    BY RangeEquality, LenProperties DEF TypeOK
<1>2. position \in 1..Len(seeds)
    BY <1>1 DEF TypeOK
<1> QED
    BY <1>1, <1>2, ElementOfSeq DEF TypeOK

\* Every step of the search preserves ReachInv.
LEMMA NextPreservesReachInv ==
    ASSUME TypeOK, ReachInv, [Next]_crawlVars
    PROVE  ReachInv'
<1>0. UNCHANGED web
    BY WebFixed
<1>1. CASE NormalizeSeed
    BY <1>1 DEF NormalizeSeed, ReachInv
<1>2. CASE SeedsNormalized
    BY <1>2, RangeOfEmpty DEF SeedsNormalized, ReachInv
<1>3. CASE phase # "normalize" /\ phase' # "normalize" /\ seeds' = seeds
           /\ ~ UNCHANGED crawlVars
    <2> SUFFICES ASSUME NEW below \in SUBSET Repositories, NEW set \in SUBSET Repositories,
                        Covers(below, set)'
                 PROVE  /\ visited' \subseteq set
                        /\ Range(parents') \subseteq set
                        /\ Range(subsidiaries') \subseteq below
        BY <1>3 DEF ReachInv
    <2>1. Covers(below, set)
        BY <1>0, <1>3 DEF Covers, ClosedUnderParents, ClosedUnderSubsidiaries, web
    <2>2. /\ visited \subseteq set
          /\ Range(parents) \subseteq set
          /\ Range(subsidiaries) \subseteq below
        BY <2>1, <1>3 DEF ReachInv
    <2>3. /\ Range(seeds) \subseteq below /\ below \subseteq set
          /\ \A r \in set : Range(parentSites[r]) \subseteq set
          /\ \A r \in below : Range(subsidiarySites[r]) \subseteq below
        BY <2>1 DEF Covers, ClosedUnderParents, ClosedUnderSubsidiaries
    <2>4. \A r \in Repositories : parentSites[r] \in Seq(Repositories)
                                  /\ subsidiarySites[r] \in Seq(Repositories)
        BY DEF TypeOK
    <2>5. \A s, t \in Seq(Repositories) : Range(s \o t) = Range(s) \cup Range(t)
        BY RangeConcatenation
    <2>6. CASE VisitSeed
        BY <2>2, <2>3, <2>6, SeedInRange DEF VisitSeed, FindAt
    <2>7. CASE ReadSeedSite
        <3>1. seeds[position] \in below /\ seeds[position] \in Repositories
            BY <2>3, <2>7, SeedInRange DEF ReadSeedSite
        <3>2. /\ Range(parents') = Range(parents) \cup Range(parentSites[seeds[position]])
              /\ Range(subsidiaries') = Range(subsidiaries)
                                          \cup Range(subsidiarySites[seeds[position]])
              /\ visited' = visited
            BY <3>1, <2>4, <2>5, <2>7 DEF ReadSeedSite, TypeOK
        <3> QED
            BY <3>1, <3>2, <2>2, <2>3
    <2>8. CASE SkipParent
        BY <2>2, <2>8, RangeOfQueue DEF SkipParent, TypeOK
    <2>9. CASE VisitParent
        <3> DEFINE r == Head(parents)
        <3>1. /\ r \in Repositories /\ Tail(parents) \in Seq(Repositories)
              /\ Range(parents) = {r} \cup Range(Tail(parents))
            BY <2>9, RangeOfQueue DEF VisitParent, TypeOK
        <3>2. /\ visited' = visited \cup {r} /\ subsidiaries' = subsidiaries
              /\ \/ parents' = Tail(parents)
                 \/ parents' = Tail(parents) \o parentSites[r]
            BY <2>9 DEF VisitParent, FindAt
        <3>3. Range(Tail(parents) \o parentSites[r])
                = Range(Tail(parents)) \cup Range(parentSites[r])
            BY <3>1, <2>4, <2>5
        <3> QED
            BY <3>1, <3>2, <3>3, <2>2, <2>3
    <2>10. CASE SkipSubsidiary
        BY <2>2, <2>10, RangeOfQueue DEF SkipSubsidiary, TypeOK
    <2>11. CASE VisitSubsidiary
        <3> DEFINE r == Head(subsidiaries)
        <3>1. /\ r \in Repositories /\ Tail(subsidiaries) \in Seq(Repositories)
              /\ Range(subsidiaries) = {r} \cup Range(Tail(subsidiaries))
            BY <2>11, RangeOfQueue DEF VisitSubsidiary, TypeOK
        <3>2. /\ visited' = visited \cup {r}
              /\ \/ parents' = parents /\ subsidiaries' = Tail(subsidiaries)
                 \/ /\ parents' = parents \o parentSites[r]
                    /\ subsidiaries' = Tail(subsidiaries) \o subsidiarySites[r]
            BY <2>11 DEF VisitSubsidiary, FindAt
        <3>3. /\ Range(Tail(subsidiaries) \o subsidiarySites[r])
                   = Range(Tail(subsidiaries)) \cup Range(subsidiarySites[r])
              /\ Range(parents \o parentSites[r]) = Range(parents) \cup Range(parentSites[r])
            BY <3>1, <2>4, <2>5 DEF TypeOK
        <3> QED
            BY <3>1, <3>2, <3>3, <2>2, <2>3
    <2>12. CASE SeedsVisited \/ SitesRead \/ ParentsDrained \/ Exhausted
        BY <2>2, <2>12 DEF SeedsVisited, SitesRead, ParentsDrained, Exhausted
    <2> QED
        BY <1>3, <2>6, <2>7, <2>8, <2>9, <2>10, <2>11, <2>12
        DEF Next, NormalizeSeed, SeedsNormalized
<1>4. CASE UNCHANGED crawlVars
    BY <1>4 DEF crawlVars, web, ReachInv, Covers, ClosedUnderParents, ClosedUnderSubsidiaries
<1>5. \/ NormalizeSeed \/ SeedsNormalized \/ UNCHANGED crawlVars
      \/ phase # "normalize" /\ phase' # "normalize" /\ seeds' = seeds
    BY DEF Next, crawlVars, VisitSeed, SeedsVisited, ReadSeedSite, SitesRead, SkipParent,
           VisitParent, ParentsDrained, SkipSubsidiary, VisitSubsidiary, Exhausted, FindAt
<1> QED
    BY <1>1, <1>2, <1>3, <1>4, <1>5

\* The search visits nothing outside the documented links, for every web:
\* it never follows the subsidiaries of a repository reached as a parent.
THEOREM OnlyReachableVisited == Spec => []VisitsOnlyReachable
<1>1. Init => ReachInv
    BY DEF Init, ReachInv
<1>2. TypeOK /\ ReachInv /\ [Next]_crawlVars => ReachInv'
    BY NextPreservesReachInv
<1>3. ReachInv => VisitsOnlyReachable
    BY DEF ReachInv, VisitsOnlyReachable
<1> QED
    BY <1>1, <1>2, <1>3, CrawlTypeCorrect, PTL DEF Spec

-----------------------------------------------------------------------------
(* The order of the search.  Until the first subsidiary is taken, all that *)
(* is queued lies in the parent closure of the seeds; from then on, a      *)
(* closed set around the seeds has been searched in vain.                  *)

\* A set of repositories that contains the parent closure of the seeds.
AroundSeeds(set) == Range(seeds) \subseteq set /\ ClosedUnderParents(set)

\* Visited and queued repositories lie in the parent closure of the seeds.
AmongParents ==
    \A set \in SUBSET Repositories :
        AroundSeeds(set) => visited \subseteq set /\ Range(parents) \subseteq set

\* The parent closure of the seeds has been visited.
ParentsSearched == \E set \in SUBSET visited : AroundSeeds(set)

\* "Not found" is only answered after the seeds and every parent of every
\* visited repository.
NotFoundAfterAllParents ==
    phase = "done" /\ found = None =>
        /\ Range(seeds) \subseteq visited
        /\ ClosedUnderParents(visited)
        /\ visited \cap holders = {}

\* Nobody visited so far holds the model; the parents of a visited
\* repository are visited or queued, once the seeds' sites have been read.
SearchInv ==
    /\ found = None => visited \cap holders = {}
    /\ found # None => phase = "done"
    /\ phase \in {"normalize", "seeds", "sites"} => visited \subseteq Range(seeds)
    /\ phase \in {"normalize", "seeds"} => parents = <<>>
    /\ phase = "normalize" => visited = {}
    /\ phase = "seeds" => \A i \in 1..Len(seeds) : i < position => seeds[i] \in visited
    /\ phase \in {"sites", "parents", "subsidiaries"} => Range(seeds) \subseteq visited
    /\ phase = "sites" =>
           /\ AmongParents
           /\ \A i \in 1..Len(seeds) :
                  i < position => Range(parentSites[seeds[i]]) \subseteq Range(parents)
    /\ phase \in {"parents", "subsidiaries"} =>
           /\ \A r \in visited : Range(parentSites[r]) \subseteq visited \cup Range(parents)
           /\ AmongParents \/ ParentsSearched
    /\ phase = "subsidiaries" => parents = <<>>
    /\ NotFoundAfterAllParents
    /\ NearestFirst

\* A find at a repository that every set around the seeds contains, or after
\* the parents have been searched, respects the order.
LEMMA FindIsNearest ==
    ASSUME TypeOK, NEW r \in Repositories, r \in holders, visited \cap holders = {},
           Range(seeds) \subseteq visited,
           \/ \A set \in SUBSET Repositories : AroundSeeds(set) => r \in set
           \/ ParentsSearched,
           UNCHANGED <<web, seeds>>, found' = r
    PROVE  NearestFirst'
<1>1. \A i \in DOMAIN seeds : seeds[i] \notin holders
    BY DEF Range
<1>2. /\ Range(seeds') = Range(seeds) /\ holders' = holders
      /\ \A set : ClosedUnderParents(set)' <=> ClosedUnderParents(set)
    BY DEF web, ClosedUnderParents
<1>3. CASE \A set \in SUBSET Repositories : AroundSeeds(set) => r \in set
    BY <1>1, <1>2, <1>3 DEF NearestFirst, AroundSeeds, web
<1>4. CASE ParentsSearched
    <2>1. PICK set \in SUBSET visited : AroundSeeds(set)
        BY <1>4 DEF ParentsSearched
    <2>2. set \in SUBSET Repositories /\ set \cap holders = {}
        BY <2>1 DEF TypeOK
    <2> QED
        BY <1>1, <1>2, <2>1, <2>2 DEF NearestFirst, AroundSeeds, web
<1> QED
    BY <1>3, <1>4

\* A step that finds nothing says nothing about the order of finds.
LEMMA NothingFound ==
    ASSUME found = None, found' = found
    PROVE  NearestFirst'
    BY DEF NearestFirst

\* Every step of the search preserves SearchInv.
LEMMA NextPreservesSearchInv ==
    ASSUME TypeOK, TypeOK', SearchInv, [Next]_crawlVars
    PROVE  SearchInv'
<1>0. /\ parentSites' = parentSites /\ holders' = holders
      /\ \A set : ClosedUnderParents(set)' <=> ClosedUnderParents(set)
    BY WebFixed DEF web, ClosedUnderParents
<1>a. /\ Len(seeds) \in Nat /\ Range(seeds) = {seeds[i] : i \in 1..Len(seeds)}
      /\ position \in Nat \ {0}
    <2>1. seeds \in Seq(Repositories) /\ position \in Nat \ {0}
        BY DEF TypeOK
    <2>2. Len(seeds) \in Nat
        BY <2>1, LenProperties
    <2>3. Range(seeds) = {seeds[i] : i \in 1..Len(seeds)}
        BY <2>1, RangeEquality
    <2> QED BY <2>1, <2>2, <2>3
<1>b. \A s, t \in Seq(Repositories) : Range(s \o t) = Range(s) \cup Range(t)
    BY RangeConcatenation
<1>1. CASE NormalizeSeed
    <2>1. /\ phase = "normalize" /\ phase' = "normalize" /\ visited' = visited
          /\ parents' = parents /\ found' = found
        BY <1>1 DEF NormalizeSeed
    <2>2. found = None
        BY <2>1 DEF SearchInv
    <2> QED
        BY <1>0, <2>1, <2>2, NothingFound DEF SearchInv, NotFoundAfterAllParents
<1>2. CASE SeedsNormalized
    <2>1. /\ phase = "normalize" /\ phase' = "seeds" /\ position' = 1
          /\ UNCHANGED <<visited, parents, found, seeds>>
        BY <1>2 DEF SeedsNormalized
    <2>2. found = None
        BY <2>1 DEF SearchInv
    <2> QED
        BY <1>0, <1>a, <2>1, <2>2, NothingFound DEF SearchInv, NotFoundAfterAllParents
<1>3. CASE VisitSeed
    <2> DEFINE r == seeds[position]
    <2>1. phase = "seeds" /\ position <= Len(seeds) /\ UNCHANGED <<seeds, parents>>
        BY <1>3 DEF VisitSeed
    <2>2. /\ found = None /\ visited \cap holders = {} /\ visited \subseteq Range(seeds)
          /\ parents = <<>>
          /\ \A i \in 1..Len(seeds) : i < position => seeds[i] \in visited
        BY <2>1 DEF SearchInv
    <2>3. r \in Range(seeds)
        BY <2>1, SeedInRange
    <2>4. CASE FindAt(r)
        <3>1. found' = r /\ phase' = "done" /\ r \in holders /\ found' # None
            BY <2>4, <2>1, SeedInRange, CrawlerAssumption DEF FindAt
        <3>2. NearestFirst'
            <4>1. \A i \in DOMAIN seeds :
                      seeds[i] \in holders => \E j \in 1..i : seeds[j] = found'
                <5> SUFFICES ASSUME NEW i \in DOMAIN seeds, seeds[i] \in holders
                             PROVE  \E j \in 1..i : seeds[j] = found'
                    OBVIOUS
                <5>1. i \in 1..Len(seeds)
                    BY LenProperties DEF TypeOK
                <5>2. ~(i < position)
                    BY <5>1, <2>2
                <5> QED
                    BY <5>1, <5>2, <1>a, <3>1
            <4>2. \A set \in SUBSET Repositories : Range(seeds) \subseteq set => found' \in set
                BY <2>3, <3>1
            <4> QED
                BY <4>1, <4>2, <1>0, <2>1 DEF NearestFirst
        <3> QED
            BY <3>1, <3>2 DEF SearchInv, NotFoundAfterAllParents
    <2>5. CASE ~FindAt(r)
        <3>1. /\ r \notin holders /\ visited' = visited \cup {r} /\ position' = position + 1
              /\ phase' = "seeds" /\ found' = found
            BY <1>3, <2>1, <2>5 DEF VisitSeed
        <3>2. \A i \in 1..Len(seeds) : i < position' => seeds[i] \in visited'
            <4> SUFFICES ASSUME NEW i \in 1..Len(seeds), i < position'
                         PROVE  seeds[i] \in visited'
                OBVIOUS
            <4>1. i < position \/ i = position
                BY <3>1, <1>a
            <4> QED
                BY <4>1, <2>2, <3>1
        <3> QED
            BY <1>0, <2>1, <2>2, <2>3, <3>1, <3>2, NothingFound
            DEF SearchInv, NotFoundAfterAllParents
    <2> QED
        BY <2>4, <2>5
<1>4. CASE SeedsVisited
    <2>1. /\ phase = "seeds" /\ phase' = "sites" /\ position > Len(seeds) /\ position' = 1
          /\ UNCHANGED <<visited, parents, found, seeds>>
        BY <1>4 DEF SeedsVisited
    <2>2. /\ found = None /\ visited \cap holders = {} /\ visited \subseteq Range(seeds)
          /\ parents = <<>>
          /\ \A i \in 1..Len(seeds) : i < position => seeds[i] \in visited
        BY <2>1 DEF SearchInv
    <2>3. Range(seeds) \subseteq visited
        BY <1>a, <2>1, <2>2
    <2>4. AmongParents'
        BY <2>1, <2>2, RangeOfEmpty DEF AmongParents, AroundSeeds
    <2> QED
        BY <1>0, <1>a, <2>1, <2>2, <2>3, <2>4, NothingFound DEF SearchInv, NotFoundAfterAllParents
<1>5. CASE ReadSeedSite
    <2> DEFINE r == seeds[position]
    <2>1. /\ phase = "sites" /\ phase' = "sites" /\ position <= Len(seeds)
          /\ parents' = parents \o parentSites[r] /\ position' = position + 1
          /\ UNCHANGED <<visited, found, seeds>>
        BY <1>5 DEF ReadSeedSite
    <2>2. /\ found = None /\ visited \cap holders = {} /\ visited \subseteq Range(seeds)
          /\ Range(seeds) \subseteq visited /\ AmongParents
          /\ \A i \in 1..Len(seeds) :
                 i < position => Range(parentSites[seeds[i]]) \subseteq Range(parents)
        BY <2>1 DEF SearchInv
    <2>3. r \in Range(seeds) /\ r \in Repositories
        BY <2>1, SeedInRange
    <2>4. Range(parents') = Range(parents) \cup Range(parentSites[r])
        BY <1>b, <2>1, <2>3 DEF TypeOK
    <2>5. AmongParents'
        BY <1>0, <2>1, <2>2, <2>3, <2>4 DEF AmongParents, AroundSeeds, ClosedUnderParents
    <2>6. \A i \in 1..Len(seeds) :
              i < position' => Range(parentSites[seeds[i]]) \subseteq Range(parents')
        <3> SUFFICES ASSUME NEW i \in 1..Len(seeds), i < position'
                     PROVE  Range(parentSites[seeds[i]]) \subseteq Range(parents')
            OBVIOUS
        <3>1. i < position \/ i = position
            BY <2>1, <1>a
        <3> QED
            BY <3>1, <2>2, <2>4
    <2> QED
        BY <1>0, <2>1, <2>2, <2>5, <2>6, NothingFound DEF SearchInv, NotFoundAfterAllParents
<1>6. CASE SitesRead
    <2>1. /\ phase = "sites" /\ phase' = "parents" /\ position > Len(seeds)
          /\ UNCHANGED <<visited, parents, found, seeds>>
        BY <1>6 DEF SitesRead
    <2>2. /\ found = None /\ visited \cap holders = {} /\ visited \subseteq Range(seeds)
          /\ Range(seeds) \subseteq visited /\ AmongParents
          /\ \A i \in 1..Len(seeds) :
                 i < position => Range(parentSites[seeds[i]]) \subseteq Range(parents)
        BY <2>1 DEF SearchInv
    <2>3. \A r \in visited : Range(parentSites[r]) \subseteq visited \cup Range(parents)
        BY <1>a, <2>1, <2>2
    <2>4. AmongParents'
        BY <1>0, <2>1, <2>2 DEF AmongParents, AroundSeeds
    <2> QED
        BY <1>0, <2>1, <2>2, <2>3, <2>4, NothingFound DEF SearchInv, NotFoundAfterAllParents
<1>7. CASE phase \in {"parents", "subsidiaries"} /\ UNCHANGED seeds
           /\ phase' \in {"parents", "subsidiaries", "done"} /\ ~ UNCHANGED crawlVars
    <2>1. /\ found = None /\ visited \cap holders = {} /\ Range(seeds) \subseteq visited
          /\ \A r \in visited : Range(parentSites[r]) \subseteq visited \cup Range(parents)
          /\ AmongParents \/ ParentsSearched
          /\ phase = "subsidiaries" => parents = <<>>
        BY <1>7 DEF SearchInv
    <2>2. ASSUME visited \subseteq visited', ParentsSearched
          PROVE  ParentsSearched'
        BY <1>0, <1>7, <2>2 DEF ParentsSearched, AroundSeeds
    <2>3. ASSUME parents = <<>>
          PROVE  ClosedUnderParents(visited) /\ ParentsSearched
        BY <2>1, <2>3, RangeOfEmpty DEF ParentsSearched, AroundSeeds, ClosedUnderParents
    <2>4. ASSUME NEW r \in Repositories, FindAt(r),
                 \/ \A set \in SUBSET Repositories : AroundSeeds(set) => r \in set
                 \/ ParentsSearched
          PROVE  SearchInv'
        <3>1. found' = r /\ found' # None /\ phase' = "done" /\ r \in holders
            BY <2>4, CrawlerAssumption DEF FindAt
        <3>2. NearestFirst'
            BY <1>7, <2>1, <2>4, <3>1, WebFixed, FindIsNearest
        <3> QED
            BY <3>1, <3>2 DEF SearchInv, NotFoundAfterAllParents
    <2>5. CASE SkipParent
        <3>1. /\ phase = "parents" /\ phase' = "parents" /\ parents # <<>>
              /\ Head(parents) \in visited /\ parents' = Tail(parents)
              /\ UNCHANGED <<visited, found>>
            BY <2>5 DEF SkipParent
        <3>2. Range(parents) = {Head(parents)} \cup Range(parents')
            BY <3>1, RangeOfQueue DEF TypeOK
        <3>3. AmongParents => AmongParents'
            BY <1>0, <1>7, <3>1, <3>2 DEF AmongParents, AroundSeeds
        <3>4. \A r \in visited : Range(parentSites[r]) \subseteq visited \cup Range(parents')
            BY <2>1, <3>1, <3>2
        <3> QED
            BY <1>0, <1>7, <2>1, <2>2, <3>1, <3>3, <3>4, NothingFound
            DEF SearchInv, NotFoundAfterAllParents
    <2>6. CASE VisitParent
        <3> DEFINE r == Head(parents)
        <3>1. phase = "parents" /\ parents # <<>> /\ r \notin visited
            BY <2>6 DEF VisitParent
        <3>2. /\ r \in Repositories /\ Tail(parents) \in Seq(Repositories)
              /\ Range(parents) = {r} \cup Range(Tail(parents))
            BY <3>1, RangeOfQueue DEF TypeOK
        <3>3. CASE FindAt(r)
            <4>1. AmongParents => \A set \in SUBSET Repositories : AroundSeeds(set) => r \in set
                BY <3>2 DEF AmongParents
            <4> QED
                BY <2>1, <2>4, <3>2, <3>3, <4>1
        <3>4. CASE ~FindAt(r)
            <4>1. /\ r \notin holders /\ visited' = visited \cup {r} /\ UNCHANGED <<phase, found>>
                  /\ parents' = Tail(parents) \o parentSites[r]
                BY <2>6, <3>4 DEF VisitParent
            <4>2. Range(parents') = Range(Tail(parents)) \cup Range(parentSites[r])
                BY <1>b, <3>2, <4>1 DEF TypeOK
            <4>3. AmongParents => AmongParents'
                BY <1>0, <1>7, <3>2, <4>1, <4>2
                DEF AmongParents, AroundSeeds, ClosedUnderParents
            <4>4. \A q \in visited' : Range(parentSites[q]) \subseteq visited' \cup Range(parents')
                BY <2>1, <3>2, <4>1, <4>2
            <4> QED
                BY <1>0, <1>7, <2>1, <2>2, <3>1, <4>1, <4>3, <4>4, NothingFound
                DEF SearchInv, NotFoundAfterAllParents
        <3> QED
            BY <3>3, <3>4
    <2>7. CASE ParentsDrained
        <3>1. /\ phase' = "subsidiaries" /\ parents = <<>>
              /\ UNCHANGED <<visited, parents, found>>
            BY <2>7 DEF ParentsDrained
        <3> QED
            BY <1>0, <1>7, <2>1, <2>2, <2>3, <3>1, NothingFound
            DEF SearchInv, NotFoundAfterAllParents
    <2>8. CASE SkipSubsidiary
        <3>1. phase' = "subsidiaries" /\ phase = phase' /\ UNCHANGED <<visited, parents, found>>
            BY <2>8 DEF SkipSubsidiary
        <3> QED
            BY <1>0, <1>7, <2>1, <2>2, <2>3, <3>1, NothingFound
            DEF SearchInv, NotFoundAfterAllParents
    <2>9. CASE VisitSubsidiary
        <3> DEFINE r == Head(subsidiaries)
        <3>1. phase = "subsidiaries" /\ subsidiaries # <<>> /\ parents = <<>>
            BY <2>1, <2>9 DEF VisitSubsidiary
        <3>2. r \in Repositories /\ ParentsSearched
            BY <2>3, <3>1, RangeOfQueue DEF TypeOK
        <3>3. CASE FindAt(r)
            BY <2>4, <3>2, <3>3
        <3>4. CASE ~FindAt(r)
            <4>1. /\ r \notin holders /\ visited' = visited \cup {r} /\ phase' = "parents"
                  /\ parents' = parents \o parentSites[r] /\ found' = found
                BY <2>9, <3>4 DEF VisitSubsidiary
            <4>2. Range(parents') = Range(parents) \cup Range(parentSites[r])
                BY <1>b, <3>2, <4>1 DEF TypeOK
            <4>3. \A q \in visited' : Range(parentSites[q]) \subseteq visited' \cup Range(parents')
                BY <2>1, <4>1, <4>2
            <4> QED
                BY <1>0, <1>7, <2>1, <2>2, <3>2, <4>1, <4>3, NothingFound
                DEF SearchInv, NotFoundAfterAllParents
        <3> QED
            BY <3>3, <3>4
    <2>10. CASE Exhausted
        <3>1. phase = "subsidiaries" /\ phase' = "done" /\ UNCHANGED <<visited, parents, found>>
            BY <2>10 DEF Exhausted
        <3> QED
            BY <1>0, <1>7, <2>1, <2>3, <3>1, NothingFound
            DEF SearchInv, NotFoundAfterAllParents
    <2> QED
        BY <1>7, <2>5, <2>6, <2>7, <2>8, <2>9, <2>10
        DEF Next, NormalizeSeed, SeedsNormalized, VisitSeed, SeedsVisited, ReadSeedSite, SitesRead
<1>8. CASE UNCHANGED crawlVars
    BY <1>8 DEF crawlVars, web, SearchInv, AmongParents, ParentsSearched, AroundSeeds,
                ClosedUnderParents, NotFoundAfterAllParents, NearestFirst
<1>9. \/ NormalizeSeed \/ SeedsNormalized \/ VisitSeed \/ SeedsVisited \/ ReadSeedSite
      \/ SitesRead \/ UNCHANGED crawlVars
      \/ /\ phase \in {"parents", "subsidiaries"} /\ UNCHANGED seeds
         /\ phase' \in {"parents", "subsidiaries", "done"}
    BY DEF Next, SkipParent, VisitParent, ParentsDrained, SkipSubsidiary, VisitSubsidiary,
           Exhausted, FindAt
<1> QED
    BY <1>1, <1>2, <1>3, <1>4, <1>5, <1>6, <1>7, <1>8, <1>9

\* SearchInv holds throughout every search.
LEMMA SearchInvariant == Spec => []SearchInv
<1>1. Init => SearchInv
    BY DEF Init, SearchInv, NotFoundAfterAllParents, NearestFirst
<1>2. TypeOK /\ TypeOK' /\ SearchInv /\ [Next]_crawlVars => SearchInv'
    BY NextPreservesSearchInv
<1> QED
    BY <1>1, <1>2, CrawlTypeCorrect, PTL DEF Spec

\* Which repository a model comes from is decided by the configured order,
\* for every web of links.
THEOREM NearestAlwaysFirst == Spec => []NearestFirst
<1>1. SearchInv => NearestFirst
    BY DEF SearchInv
<1> QED
    BY <1>1, SearchInvariant, PTL

-----------------------------------------------------------------------------
(* How far the search has gone down.  This part is the same for both ports. *)

\* A queued parent is a parent of a visited repository.
ParentsMet ==
    \A p \in Range(parents) : \E q \in visited : p \in Range(parentSites[q])

\* The search goes down from some of the visited repositories, the seeds
\* among them: their subsidiaries have been visited or are queued.  It has
\* met the others as parents.
SearchedBelow ==
    \E below \in SUBSET visited :
        /\ Range(seeds) \subseteq below
        /\ \A v \in visited \ below : \E q \in visited : v \in Range(parentSites[q])
        /\ \A r \in below : Range(subsidiarySites[r]) \subseteq visited \cup Range(subsidiaries)

BelowInv ==
    /\ phase \in {"normalize", "seeds"} => parents = <<>> /\ subsidiaries = <<>>
    /\ phase \in {"normalize", "seeds", "sites"} => visited \subseteq Range(seeds)
    /\ phase = "normalize" => visited = {}
    /\ phase = "sites" =>
           \A i \in 1..Len(seeds) :
               i < position => Range(subsidiarySites[seeds[i]]) \subseteq Range(subsidiaries)
    /\ ParentsMet
    /\ phase \in {"parents", "subsidiaries", "done"} => SearchedBelow
    /\ phase = "done" => subsidiaries = <<>>

\* When no subsidiary is left, all of them have been visited.
LEMMA WentBelowWhenDone ==
    ASSUME BelowInv, phase = "done"
    PROVE  \E below \in SUBSET visited : WentBelow(below)
BY RangeOfEmpty DEF BelowInv, SearchedBelow, WentBelow

\* Parents of r are queued: they have been met when r is visited.
LEMMA ParentsMetKept ==
    ASSUME ParentsMet, NEW r, r \in visited', visited \subseteq visited',
           parentSites' = parentSites,
           Range(parents') \subseteq Range(parents) \cup Range(parentSites[r])
    PROVE  ParentsMet'
BY DEF ParentsMet

\* Visiting or skipping a queued parent r goes down from nowhere else.
LEMMA BelowParent ==
    ASSUME BelowInv, NEW r \in Range(parents), visited' = visited \cup {r},
           phase = "parents", phase' = "parents",
           Range(parents') \subseteq Range(parents) \cup Range(parentSites[r]),
           UNCHANGED <<parentSites, subsidiarySites, seeds, subsidiaries>>
    PROVE  BelowInv'
<1>1. ParentsMet'
    BY ParentsMetKept DEF BelowInv
<1>2. PICK below \in SUBSET visited :
          /\ Range(seeds) \subseteq below
          /\ \A v \in visited \ below : \E q \in visited : v \in Range(parentSites[q])
          /\ \A s \in below : Range(subsidiarySites[s]) \subseteq visited \cup Range(subsidiaries)
    BY DEF BelowInv, SearchedBelow
<1>3. \E q \in visited : r \in Range(parentSites[q])
    BY DEF BelowInv, ParentsMet
<1>4. \A v \in visited' \ below : \E q \in visited' : v \in Range(parentSites[q])
    BY <1>2, <1>3
<1>5. SearchedBelow'
    BY <1>2, <1>4 DEF SearchedBelow
<1> QED BY <1>1, <1>5 DEF BelowInv

\* Visiting a queued subsidiary r goes down from r too.
LEMMA BelowSubsidiary ==
    ASSUME BelowInv, NEW r, visited' = visited \cup {r},
           phase = "subsidiaries", phase' = "parents",
           Range(parents') \subseteq Range(parents) \cup Range(parentSites[r]),
           Range(subsidiaries) \subseteq {r} \cup Range(subsidiaries'),
           Range(subsidiarySites[r]) \subseteq Range(subsidiaries'),
           UNCHANGED <<parentSites, subsidiarySites, seeds>>
    PROVE  BelowInv'
<1>1. ParentsMet'
    BY ParentsMetKept DEF BelowInv
<1>2. PICK below \in SUBSET visited :
          /\ Range(seeds) \subseteq below
          /\ \A v \in visited \ below : \E q \in visited : v \in Range(parentSites[q])
          /\ \A s \in below : Range(subsidiarySites[s]) \subseteq visited \cup Range(subsidiaries)
    BY DEF BelowInv, SearchedBelow
<1>3. PICK more : more = below \cup {r}
    OBVIOUS
<1>4. /\ more \in SUBSET visited' /\ Range(seeds) \subseteq more
      /\ \A v \in visited' \ more : \E q \in visited' : v \in Range(parentSites[q])
    BY <1>2, <1>3
<1>5. \A s \in more : Range(subsidiarySites[s]) \subseteq visited' \cup Range(subsidiaries')
    BY <1>2, <1>3
<1>6. SearchedBelow'
    BY <1>4, <1>5 DEF SearchedBelow
<1> QED BY <1>1, <1>6 DEF BelowInv

\* A queued subsidiary that has been visited can be dropped.
LEMMA BelowSkip ==
    ASSUME BelowInv, NEW r \in visited,
           phase = "subsidiaries", phase' = "subsidiaries",
           Range(subsidiaries) \subseteq {r} \cup Range(subsidiaries'),
           UNCHANGED <<parentSites, subsidiarySites, seeds, visited, parents>>
    PROVE  BelowInv'
<1>1. ParentsMet'
    BY DEF BelowInv, ParentsMet
<1>2. SearchedBelow'
    BY DEF BelowInv, SearchedBelow
<1> QED BY <1>1, <1>2 DEF BelowInv

\* The steps that both ports share.
LEMMA BelowShared ==
    ASSUME TypeOK, BelowInv, UNCHANGED web,
           phase \in {"sites", "parents", "subsidiaries"} => Range(seeds) \subseteq visited,
           \/ NormalizeSeed \/ SeedsNormalized \/ SeedsVisited
           \/ ReadSeedSite \/ SitesRead \/ ParentsDrained \/ Exhausted
    PROVE  BelowInv'
<1>a. /\ Len(seeds) \in Nat /\ Range(seeds) = {seeds[i] : i \in 1..Len(seeds)}
      /\ position \in Nat \ {0}
    <2>1. seeds \in Seq(Repositories) /\ position \in Nat \ {0}
        BY DEF TypeOK
    <2> QED BY <2>1, LenProperties, RangeEquality
<1>b. parentSites' = parentSites /\ subsidiarySites' = subsidiarySites
    BY DEF web
<1>1. CASE NormalizeSeed \/ SeedsNormalized
    <2>1. /\ phase = "normalize" /\ phase' \in {"normalize", "seeds"}
          /\ UNCHANGED <<visited, parents, subsidiaries>>
        BY <1>1 DEF NormalizeSeed, SeedsNormalized
    <2> QED BY <2>1, RangeOfEmpty DEF BelowInv, ParentsMet
<1>2. CASE SeedsVisited
    <2>1. /\ phase = "seeds" /\ phase' = "sites" /\ position' = 1
          /\ UNCHANGED <<seeds, visited, parents, subsidiaries>>
        BY <1>2 DEF SeedsVisited
    <2>2. \A i \in 1..Len(seeds) : ~(i < position')
        BY <1>a, <2>1
    <2> QED BY <2>1, <2>2, RangeOfEmpty DEF BelowInv, ParentsMet
<1>3. CASE ReadSeedSite
    <2>1. PICK r : r = seeds[position]
        OBVIOUS
    <2>2. /\ phase = "sites" /\ phase' = "sites" /\ position <= Len(seeds)
          /\ parents' = parents \o parentSites[r] /\ position' = position + 1
          /\ subsidiaries' = subsidiaries \o subsidiarySites[r]
          /\ UNCHANGED <<visited, seeds>>
        BY <1>3, <2>1 DEF ReadSeedSite
    <2>3. r \in visited /\ r \in Repositories
        BY <2>1, <2>2, SeedInRange
    <2>4. \A s, t \in Seq(Repositories) : Range(s \o t) = Range(s) \cup Range(t)
        BY RangeConcatenation
    <2>5. /\ Range(parents') = Range(parents) \cup Range(parentSites[r])
          /\ Range(subsidiaries') = Range(subsidiaries) \cup Range(subsidiarySites[r])
        BY <2>2, <2>3, <2>4 DEF TypeOK
    <2>6. ParentsMet'
        BY <1>b, <2>2, <2>3, <2>5, ParentsMetKept DEF BelowInv
    <2>7. \A i \in 1..Len(seeds) : i < position' => i < position \/ i = position
        BY <1>a, <2>2
    <2>8. \A i \in 1..Len(seeds) :
              i < position' => Range(subsidiarySites[seeds[i]]) \subseteq Range(subsidiaries')
        BY <2>1, <2>2, <2>5, <2>7 DEF BelowInv
    <2> QED BY <1>b, <2>2, <2>6, <2>8 DEF BelowInv
<1>4. CASE SitesRead
    <2>1. /\ phase = "sites" /\ phase' = "parents" /\ position > Len(seeds)
          /\ UNCHANGED <<seeds, visited, parents, subsidiaries>>
        BY <1>4 DEF SitesRead
    <2>2. visited = Range(seeds) /\ ParentsMet'
        BY <1>b, <2>1 DEF BelowInv, ParentsMet
    <2>3. \A r \in visited : Range(subsidiarySites[r]) \subseteq Range(subsidiaries)
        BY <1>a, <2>1, <2>2 DEF BelowInv
    <2>4. SearchedBelow'
        BY <1>b, <2>1, <2>2, <2>3 DEF SearchedBelow
    <2> QED BY <2>1, <2>2, <2>4 DEF BelowInv
<1>5. CASE ParentsDrained \/ Exhausted
    <2>1. /\ phase \in {"parents", "subsidiaries"} /\ phase' \in {"subsidiaries", "done"}
          /\ phase' = "done" => subsidiaries = <<>>
          /\ UNCHANGED <<seeds, visited, parents, subsidiaries>>
        BY <1>5 DEF ParentsDrained, Exhausted
    <2>2. ParentsMet' /\ SearchedBelow'
        BY <1>b, <2>1 DEF BelowInv, ParentsMet, SearchedBelow
    <2> QED BY <2>1, <2>2 DEF BelowInv
<1> QED BY <1>1, <1>2, <1>3, <1>4, <1>5

\* The native search keeps BelowInv until it finds the model.
LEMMA NextPreservesBelowInv ==
    ASSUME TypeOK, SearchInv, found = None => BelowInv, [Next]_crawlVars, found' = None
    PROVE  BelowInv'
<1>0. UNCHANGED web
    BY WebFixed
<1>a. /\ parentSites' = parentSites /\ subsidiarySites' = subsidiarySites
      /\ \A r \in Repositories : /\ parentSites[r] \in Seq(Repositories)
                                 /\ subsidiarySites[r] \in Seq(Repositories)
      /\ \A s, t \in Seq(Repositories) : Range(s \o t) = Range(s) \cup Range(t)
    BY <1>0, RangeConcatenation DEF web, TypeOK
<1>b. found = None /\ BelowInv
    <2>1. found = None
        BY DEF SearchInv, Next, crawlVars, NormalizeSeed, SeedsNormalized, VisitSeed,
               SeedsVisited, ReadSeedSite, SitesRead, SkipParent, VisitParent, ParentsDrained,
               SkipSubsidiary, VisitSubsidiary, Exhausted
    <2> QED BY <2>1
<1>1. CASE \/ NormalizeSeed \/ SeedsNormalized \/ SeedsVisited
           \/ ReadSeedSite \/ SitesRead \/ ParentsDrained \/ Exhausted
    BY <1>0, <1>1, <1>b, BelowShared DEF SearchInv
<1>2. CASE VisitSeed
    <2>1. PICK r : r = seeds[position]
        OBVIOUS
    <2>2. r \in Range(seeds) /\ r \in Repositories /\ r # None
        BY <1>2, <2>1, SeedInRange, CrawlerAssumption DEF VisitSeed
    <2>3. /\ phase = "seeds" /\ phase' = "seeds" /\ visited' = visited \cup {r}
          /\ UNCHANGED <<seeds, parents, subsidiaries>>
        BY <1>2, <2>1, <2>2 DEF VisitSeed, FindAt
    <2> QED BY <1>a, <1>b, <2>2, <2>3, RangeOfEmpty DEF BelowInv, ParentsMet
<1>3. CASE SkipParent \/ VisitParent
    <2>1. PICK r : r = Head(parents)
        OBVIOUS
    <2>2. /\ r \in Repositories /\ Tail(parents) \in Seq(Repositories) /\ r # None
          /\ Range(parents) = {r} \cup Range(Tail(parents))
        <3>1. parents # <<>> /\ parents \in Seq(Repositories)
            BY <1>3 DEF SkipParent, VisitParent, TypeOK
        <3> QED BY <2>1, <3>1, RangeOfQueue, CrawlerAssumption
    <2>3. /\ phase = "parents" /\ phase' = "parents" /\ visited' = visited \cup {r}
          /\ parents' \in {Tail(parents), Tail(parents) \o parentSites[r]}
          /\ UNCHANGED <<seeds, subsidiaries>>
        BY <1>3, <2>1, <2>2 DEF SkipParent, VisitParent, FindAt
    <2>4. Range(parents') \subseteq Range(parents) \cup Range(parentSites[r])
        BY <1>a, <2>2, <2>3
    <2> QED BY <1>a, <1>b, <2>2, <2>3, <2>4, BelowParent
<1>4. CASE SkipSubsidiary
    <2>1. PICK r : r = Head(subsidiaries)
        OBVIOUS
    <2>2. /\ r \in visited /\ phase = "subsidiaries" /\ phase' = "subsidiaries"
          /\ Range(subsidiaries) = {r} \cup Range(subsidiaries')
          /\ UNCHANGED <<seeds, visited, parents>>
        BY <1>4, <2>1, RangeOfQueue DEF SkipSubsidiary, TypeOK
    <2> QED BY <1>a, <1>b, <2>2, BelowSkip
<1>5. CASE VisitSubsidiary
    <2>1. PICK r : r = Head(subsidiaries)
        OBVIOUS
    <2>2. /\ r \in Repositories /\ Tail(subsidiaries) \in Seq(Repositories) /\ r # None
          /\ Range(subsidiaries) = {r} \cup Range(Tail(subsidiaries))
        <3>1. subsidiaries # <<>> /\ subsidiaries \in Seq(Repositories)
            BY <1>5 DEF VisitSubsidiary, TypeOK
        <3> QED BY <2>1, <3>1, RangeOfQueue, CrawlerAssumption
    <2>3. /\ phase = "subsidiaries" /\ phase' = "parents" /\ visited' = visited \cup {r}
          /\ parents' = parents \o parentSites[r]
          /\ subsidiaries' = Tail(subsidiaries) \o subsidiarySites[r]
          /\ UNCHANGED seeds
        BY <1>5, <2>1, <2>2 DEF VisitSubsidiary, FindAt
    <2>4. /\ Range(parents') = Range(parents) \cup Range(parentSites[r])
          /\ Range(subsidiaries') = Range(Tail(subsidiaries)) \cup Range(subsidiarySites[r])
        BY <1>a, <2>2, <2>3 DEF TypeOK
    <2>5. /\ Range(subsidiaries) \subseteq {r} \cup Range(subsidiaries')
          /\ Range(subsidiarySites[r]) \subseteq Range(subsidiaries')
        BY <2>2, <2>4
    <2> QED BY <1>a, <1>b, <2>3, <2>4, <2>5, BelowSubsidiary
<1>6. CASE UNCHANGED crawlVars
    BY <1>6, <1>b DEF crawlVars, web, BelowInv, ParentsMet, SearchedBelow
<1> QED BY <1>1, <1>2, <1>3, <1>4, <1>5, <1>6 DEF Next

\* The native search answers "not found" only after everything that the
\* documented links lead to, parents and subsidiaries alike, for every web of
\* links.
THEOREM NotFoundOnlyAfterAll == Spec => []NotFoundAfterAll
<1>1. Init => (found = None => BelowInv)
    BY RangeOfEmpty DEF Init, BelowInv, ParentsMet
<1>2. TypeOK /\ SearchInv /\ (found = None => BelowInv) /\ [Next]_crawlVars
          => (found = None => BelowInv)'
    BY NextPreservesBelowInv
<1>3. SearchInv /\ (found = None => BelowInv) => NotFoundAfterAll
    BY WentBelowWhenDone DEF SearchInv, NotFoundAfterAllParents, NotFoundAfterAll
<1> QED
    BY <1>1, <1>2, <1>3, CrawlTypeCorrect, SearchInvariant, PTL DEF Spec

-----------------------------------------------------------------------------
(* Both ports.  A native search takes the steps of RepositoryCrawler.  A   *)
(* JavaScript search keeps its promises as long as it is open: it has      *)
(* found nothing and not met the limit, so that every repository it takes  *)
(* from a queue has been visited.                                          *)

WalkTypes ==
    /\ TypeOK
    /\ port \in {"native", "js"}
    /\ listing \in BOOLEAN
    /\ limit \in Nat
    /\ IsFiniteSet(visited)

Open == found = None /\ Cardinality(visited) < limit

OpenInv ==
    /\ visited \cap holders = {}
    /\ phase \in {"normalize", "seeds", "sites"} => visited \subseteq Range(seeds)
    /\ phase = "normalize" => visited = {}
    /\ phase \in {"normalize", "seeds"} => parents = <<>>
    /\ phase = "seeds" => \A i \in 1..Len(seeds) : i < position => seeds[i] \in visited
    /\ phase \in {"sites", "parents", "subsidiaries", "done"} => Range(seeds) \subseteq visited
    /\ phase = "sites" =>
           /\ AmongParents
           /\ \A i \in 1..Len(seeds) :
                  i < position => Range(parentSites[seeds[i]]) \subseteq Range(parents)
    /\ phase \in {"parents", "subsidiaries", "done"} =>
           /\ \A r \in visited : Range(parentSites[r]) \subseteq visited \cup Range(parents)
           /\ AmongParents \/ ParentsSearched
    /\ phase \in {"subsidiaries", "done"} => parents = <<>>

WalkerInv ==
    /\ found # None => phase = "done"
    /\ NearestFirst
    /\ Open => OpenInv

WalkInv ==
    /\ WalkTypes
    /\ ReachInv
    /\ port = "native" => SearchInv /\ (found = None => BelowInv)
    /\ port = "js" => WalkerInv /\ (Open => BelowInv)

\* A step of either port: one of the native search, or one of the three in
\* which the JavaScript search differs.
LEMMA WalkStepKinds ==
    ASSUME [WalkNext]_walkVars
    PROVE  /\ UNCHANGED walkMode
           /\ \/ [Next]_crawlVars
              \/ WalkSeed \/ WalkParent \/ WalkSubsidiary
<1>1. CASE WalkNext
    BY <1>1 DEF WalkNext, Next
<1>2. CASE UNCHANGED walkVars
    BY <1>2 DEF walkVars
<1> QED BY <1>1, <1>2

\* What one step of the JavaScript search does to the queues; r is the
\* repository it takes.
LEMMA WalkSeedDoes ==
    ASSUME WalkTypes, WalkSeed, NEW r, r = seeds[position]
    PROVE  /\ r \in Range(seeds) /\ r \in Repositories
           /\ phase = "seeds" /\ position <= Len(seeds) /\ port = "js"
           /\ UNCHANGED <<web, seeds, parents, subsidiaries>>
           /\ \/ /\ Admitted(r) /\ FindAt(r) /\ position' = position
              \/ /\ ~(Admitted(r) /\ r \in holders) /\ visited' = VisitedWith(r)
                 /\ position' = position + 1 /\ UNCHANGED <<phase, found>>
<1>1. position <= Len(seeds) /\ TypeOK
    BY DEF WalkSeed, WalkTypes
<1>2. r \in Range(seeds) /\ r \in Repositories
    BY <1>1, SeedInRange
<1> QED BY <1>2 DEF WalkSeed

LEMMA WalkParentDoes ==
    ASSUME WalkTypes, WalkParent, NEW r, r = Head(parents)
    PROVE  /\ r \in Repositories /\ Tail(parents) \in Seq(Repositories)
           /\ Range(parents) = {r} \cup Range(Tail(parents))
           /\ phase = "parents" /\ port = "js"
           /\ UNCHANGED <<web, position, seeds, subsidiaries>>
           /\ \/ /\ Admitted(r) /\ FindAt(r) /\ parents' = Tail(parents)
              \/ /\ ~(Admitted(r) /\ r \in holders) /\ visited' = VisitedWith(r)
                 /\ UNCHANGED <<phase, found>>
                 /\ \/ Follows(r) /\ parents' = Tail(parents) \o parentSites[r]
                    \/ ~Follows(r) /\ parents' = Tail(parents)
           /\ Range(Tail(parents) \o parentSites[r])
                  = Range(Tail(parents)) \cup Range(parentSites[r])
<1>1. parents \in Seq(Repositories) /\ parents # <<>>
    BY DEF WalkParent, WalkTypes, TypeOK
<1>2. /\ r \in Repositories /\ Tail(parents) \in Seq(Repositories)
      /\ Range(parents) = {r} \cup Range(Tail(parents))
    BY <1>1, RangeOfQueue
<1>3. parentSites[r] \in Seq(Repositories)
    BY <1>2 DEF WalkTypes, TypeOK
<1>a. \A s, t \in Seq(Repositories) : Range(s \o t) = Range(s) \cup Range(t)
    BY RangeConcatenation
<1>4. Range(Tail(parents) \o parentSites[r]) = Range(Tail(parents)) \cup Range(parentSites[r])
    BY <1>2, <1>3, <1>a
<1> QED BY <1>2, <1>4 DEF WalkParent

LEMMA WalkSubsidiaryDoes ==
    ASSUME WalkTypes, WalkSubsidiary, NEW r, r = Head(subsidiaries)
    PROVE  /\ r \in Repositories /\ Tail(subsidiaries) \in Seq(Repositories)
           /\ Range(subsidiaries) = {r} \cup Range(Tail(subsidiaries))
           /\ phase = "subsidiaries" /\ port = "js"
           /\ UNCHANGED <<web, position, seeds>>
           /\ \/ /\ Admitted(r) /\ FindAt(r) /\ subsidiaries' = Tail(subsidiaries)
                 /\ UNCHANGED parents
              \/ /\ ~(Admitted(r) /\ r \in holders) /\ Follows(r) /\ visited' = VisitedWith(r)
                 /\ subsidiaries' = Tail(subsidiaries) \o subsidiarySites[r]
                 /\ parents' = parents \o parentSites[r]
                 /\ phase' = "parents" /\ UNCHANGED found
              \/ /\ ~Follows(r) /\ subsidiaries' = Tail(subsidiaries)
                 /\ UNCHANGED <<phase, visited, parents, found>>
           /\ Range(Tail(subsidiaries) \o subsidiarySites[r])
                  = Range(Tail(subsidiaries)) \cup Range(subsidiarySites[r])
           /\ Range(parents \o parentSites[r]) = Range(parents) \cup Range(parentSites[r])
<1>1. subsidiaries \in Seq(Repositories) /\ subsidiaries # <<>> /\ parents \in Seq(Repositories)
    BY DEF WalkSubsidiary, WalkTypes, TypeOK
<1>2. /\ r \in Repositories /\ Tail(subsidiaries) \in Seq(Repositories)
      /\ Range(subsidiaries) = {r} \cup Range(Tail(subsidiaries))
    BY <1>1, RangeOfQueue
<1>3. parentSites[r] \in Seq(Repositories) /\ subsidiarySites[r] \in Seq(Repositories)
    BY <1>2 DEF WalkTypes, TypeOK
<1>a. \A s, t \in Seq(Repositories) : Range(s \o t) = Range(s) \cup Range(t)
    BY RangeConcatenation
<1>4. /\ Range(Tail(subsidiaries) \o subsidiarySites[r])
           = Range(Tail(subsidiaries)) \cup Range(subsidiarySites[r])
      /\ Range(parents \o parentSites[r]) = Range(parents) \cup Range(parentSites[r])
    BY <1>1, <1>2, <1>3, <1>a
<1> QED BY <1>2, <1>4 DEF WalkSubsidiary

\* The types of both ports; a search has visited finitely many repositories.
LEMMA WalkTypesKept ==
    ASSUME WalkTypes, [WalkNext]_walkVars
    PROVE  WalkTypes'
<1>1. UNCHANGED <<port, listing, limit>>
    BY WalkStepKinds DEF walkMode
<1>2. \A r : IsFiniteSet(visited \cup {r})
    BY FS_AddElement DEF WalkTypes
<1>3. \A r : VisitedWith(r) \in {visited, visited \cup {r}}
    BY DEF VisitedWith
<1>4. \A s, t \in Seq(Repositories) : s \o t \in Seq(Repositories)
    BY ConcatProperties
<1>5. CASE [Next]_crawlVars
    <2>1. TypeOK'
        BY <1>5, NextPreservesTypeOK DEF WalkTypes
    <2>2. \E r : visited' \in {visited, visited \cup {r}}
        BY <1>5 DEF Next, crawlVars, NormalizeSeed, SeedsNormalized, VisitSeed, SeedsVisited,
                    ReadSeedSite, SitesRead, SkipParent, VisitParent, ParentsDrained,
                    SkipSubsidiary, VisitSubsidiary, Exhausted, FindAt
    <2> QED BY <1>1, <1>2, <2>1, <2>2 DEF WalkTypes
<1>6. CASE WalkSeed
    <2>1. PICK r : r = seeds[position]
        OBVIOUS
    <2>2. /\ r \in Repositories /\ phase = "seeds"
          /\ UNCHANGED <<web, seeds, parents, subsidiaries>>
          /\ visited' \in {visited, visited \cup {r}} /\ position' \in {position, position + 1}
          /\ phase' \in {phase, "done"} /\ found' \in {found, r}
        BY <1>3, <1>6, <2>1, WalkSeedDoes DEF FindAt
    <2>3. position' \in Nat \ {0}
        <3>1. position \in Nat /\ position \in Nat \ {0}
            BY DEF WalkTypes, TypeOK
        <3>2. position + 1 \in Nat \ {0}
            BY <3>1
        <3> QED BY <2>2, <3>1, <3>2
    <2>4. visited' \subseteq Repositories
        BY <2>2 DEF WalkTypes, TypeOK
    <2>5. IsFiniteSet(visited')
        BY <1>2, <2>2 DEF WalkTypes
    <2> QED BY <1>1, <2>2, <2>3, <2>4, <2>5 DEF WalkTypes, TypeOK, web
<1>7. CASE WalkParent
    <2>1. PICK r : r = Head(parents)
        OBVIOUS
    <2>2. /\ r \in Repositories /\ Tail(parents) \in Seq(Repositories)
          /\ UNCHANGED <<web, position, seeds, subsidiaries>>
          /\ visited' \in {visited, visited \cup {r}}
          /\ parents' \in {Tail(parents), Tail(parents) \o parentSites[r]}
          /\ phase' \in {phase, "done"} /\ found' \in {found, r}
        BY <1>3, <1>7, <2>1, WalkParentDoes DEF FindAt
    <2>3. parents' \in Seq(Repositories)
        BY <1>4, <2>2 DEF WalkTypes, TypeOK
    <2> QED BY <1>1, <1>2, <2>2, <2>3 DEF WalkTypes, TypeOK, web
<1>8. CASE WalkSubsidiary
    <2>1. PICK r : r = Head(subsidiaries)
        OBVIOUS
    <2>2. /\ r \in Repositories /\ Tail(subsidiaries) \in Seq(Repositories)
          /\ UNCHANGED <<web, position, seeds>>
          /\ visited' \in {visited, visited \cup {r}}
          /\ parents' \in {parents, parents \o parentSites[r]}
          /\ subsidiaries' \in {Tail(subsidiaries), Tail(subsidiaries) \o subsidiarySites[r]}
          /\ phase' \in {phase, "parents", "done"} /\ found' \in {found, r}
        BY <1>3, <1>8, <2>1, WalkSubsidiaryDoes DEF FindAt
    <2>3. parents' \in Seq(Repositories) /\ subsidiaries' \in Seq(Repositories)
        BY <1>4, <2>2 DEF WalkTypes, TypeOK
    <2> QED BY <1>1, <1>2, <2>2, <2>3 DEF WalkTypes, TypeOK, web
<1> QED BY <1>5, <1>6, <1>7, <1>8, WalkStepKinds

\* Neither port leaves the documented links.
LEMMA WalkReachKept ==
    ASSUME WalkTypes, ReachInv, [WalkNext]_walkVars
    PROVE  ReachInv'
<1>1. CASE [Next]_crawlVars
    BY <1>1, NextPreservesReachInv DEF WalkTypes
<1>2. CASE WalkSeed \/ WalkParent \/ WalkSubsidiary
    <2>1. /\ phase # "normalize" /\ phase' # "normalize"
          /\ UNCHANGED <<web, seeds>>
        BY <1>2 DEF WalkSeed, WalkParent, WalkSubsidiary, FindAt
    <2> SUFFICES ASSUME NEW below \in SUBSET Repositories, NEW set \in SUBSET Repositories,
                        Covers(below, set)'
                 PROVE  /\ visited' \subseteq set
                        /\ Range(parents') \subseteq set
                        /\ Range(subsidiaries') \subseteq below
        BY <2>1 DEF ReachInv
    <2>2. Covers(below, set)
        BY <2>1 DEF Covers, ClosedUnderParents, ClosedUnderSubsidiaries, web
    <2>3. /\ visited \subseteq set
          /\ Range(parents) \subseteq set
          /\ Range(subsidiaries) \subseteq below
        BY <2>1, <2>2 DEF ReachInv
    <2>4. /\ Range(seeds) \subseteq below /\ below \subseteq set
          /\ \A r \in set : Range(parentSites[r]) \subseteq set
          /\ \A r \in below : Range(subsidiarySites[r]) \subseteq below
        BY <2>2 DEF Covers, ClosedUnderParents, ClosedUnderSubsidiaries
    <2>5. \A r : VisitedWith(r) \subseteq visited \cup {r}
        BY DEF VisitedWith
    <2>6. CASE WalkSeed
        <3>1. PICK r : r = seeds[position]
            OBVIOUS
        <3>2. r \in Range(seeds) /\ visited' \subseteq visited \cup {r}
              /\ UNCHANGED <<parents, subsidiaries>>
            BY <2>5, <2>6, <3>1, WalkSeedDoes DEF FindAt
        <3> QED BY <2>3, <2>4, <3>2
    <2>7. CASE WalkParent
        <3>1. PICK r : r = Head(parents)
            OBVIOUS
        <3>2. /\ Range(parents) = {r} \cup Range(Tail(parents))
              /\ subsidiaries' = subsidiaries
              /\ FindAt(r) \/ visited' = VisitedWith(r)
            BY <2>7, <3>1, WalkParentDoes
        <3>3. visited' \subseteq visited \cup {r}
            BY <2>5, <3>2 DEF FindAt
        <3>4. /\ parents' = Tail(parents) \/ parents' = Tail(parents) \o parentSites[r]
              /\ Range(Tail(parents) \o parentSites[r])
                     = Range(Tail(parents)) \cup Range(parentSites[r])
            BY <2>7, <3>1, WalkParentDoes
        <3>5. Range(parents') \subseteq Range(Tail(parents)) \cup Range(parentSites[r])
            BY <3>4
        <3> QED BY <2>3, <2>4, <3>2, <3>3, <3>5
    <2>8. CASE WalkSubsidiary
        <3>1. PICK r : r = Head(subsidiaries)
            OBVIOUS
        <3>a. Range(subsidiaries) = {r} \cup Range(Tail(subsidiaries))
            BY <2>8, <3>1, WalkSubsidiaryDoes
        <3>c. visited' \subseteq visited \cup {r}
            <4>1. FindAt(r) \/ visited' = VisitedWith(r) \/ visited' = visited
                BY <2>8, <3>1, WalkSubsidiaryDoes
            <4> QED BY <2>5, <4>1 DEF FindAt
        <3>d. /\ parents' = parents \/ parents' = parents \o parentSites[r]
              /\ \/ subsidiaries' = Tail(subsidiaries)
                 \/ subsidiaries' = Tail(subsidiaries) \o subsidiarySites[r]
            BY <2>8, <3>1, WalkSubsidiaryDoes
        <3>b. /\ Range(Tail(subsidiaries) \o subsidiarySites[r])
                     = Range(Tail(subsidiaries)) \cup Range(subsidiarySites[r])
              /\ Range(parents \o parentSites[r]) = Range(parents) \cup Range(parentSites[r])
            BY <2>8, <3>1, WalkSubsidiaryDoes
        <3>2. /\ Range(parents') \subseteq Range(parents) \cup Range(parentSites[r])
              /\ Range(subsidiaries')
                     \subseteq Range(Tail(subsidiaries)) \cup Range(subsidiarySites[r])
            BY <3>b, <3>d
        <3> QED BY <2>3, <2>4, <3>a, <3>c, <3>2
    <2> QED BY <1>2, <2>6, <2>7, <2>8
<1> QED BY <1>1, <1>2, WalkStepKinds

-----------------------------------------------------------------------------
\* A search that has not met the limit had not met it before.
LEMMA OpenBefore ==
    ASSUME WalkTypes, WalkTypes', UNCHANGED limit, visited \subseteq visited',
           Cardinality(visited') < limit'
    PROVE  Cardinality(visited) < limit
<1>1. IsFiniteSet(visited) /\ IsFiniteSet(visited') /\ limit \in Nat
    BY DEF WalkTypes
<1>2. Cardinality(visited) <= Cardinality(visited')
    BY <1>1, FS_Subset
<1>3. Cardinality(visited) \in Nat /\ Cardinality(visited') \in Nat
    BY <1>1, FS_CardinalityType
<1> QED BY <1>1, <1>2, <1>3

\* While the search is open, a visit that does not find the model leaves
\* its repository visited, and that repository does not hold the model.
LEMMA VisitWhileOpen ==
    ASSUME Open, OpenInv, NEW r, ~(Admitted(r) /\ r \in holders)
    PROVE  VisitedWith(r) = visited \cup {r} /\ r \notin holders
BY DEF Open, OpenInv, Admitted, VisitedWith

\* The first two loops, and reading the sites of the seeds.
LEMMA WalkerSeedSteps ==
    ASSUME WalkTypes, WalkTypes', WalkerInv, UNCHANGED walkMode,
           \/ NormalizeSeed \/ SeedsNormalized \/ WalkSeed \/ SeedsVisited
           \/ ReadSeedSite \/ SitesRead
    PROVE  WalkerInv'
<1>0. /\ UNCHANGED <<web, limit, listing>> /\ phase # "done"
      /\ found = None /\ (Open <=> Cardinality(visited) < limit)
    BY DEF walkMode, NormalizeSeed, SeedsNormalized, WalkSeed, SeedsVisited, ReadSeedSite,
           SitesRead, WalkerInv, Open
<1>a. /\ parentSites' = parentSites /\ holders' = holders
      /\ subsidiarySites' = subsidiarySites
      /\ \A set : ClosedUnderParents(set)' <=> ClosedUnderParents(set)
    BY <1>0 DEF web, ClosedUnderParents
<1>b. /\ Len(seeds) \in Nat /\ Range(seeds) = {seeds[i] : i \in 1..Len(seeds)}
      /\ position \in Nat \ {0}
    <2>1. seeds \in Seq(Repositories) /\ position \in Nat \ {0}
        BY DEF WalkTypes, TypeOK
    <2>2. Len(seeds) \in Nat
        BY <2>1, LenProperties
    <2>3. Range(seeds) = {seeds[i] : i \in 1..Len(seeds)}
        BY <2>1, RangeEquality
    <2> QED BY <2>1, <2>2, <2>3
<1>c. \A s, t \in Seq(Repositories) : Range(s \o t) = Range(s) \cup Range(t)
    BY RangeConcatenation
<1>1. CASE NormalizeSeed \/ SeedsNormalized
    <2>1. /\ phase = "normalize" /\ phase' \in {"normalize", "seeds"}
          /\ phase' = "seeds" => position' = 1 /\ seeds' = seeds
          /\ UNCHANGED <<visited, parents, subsidiaries, found>>
        BY <1>1 DEF NormalizeSeed, SeedsNormalized
    <2>2. ASSUME Open'
          PROVE  OpenInv'
        <3>1. OpenInv
            BY <1>0, <2>1, <2>2 DEF Open, WalkerInv
        <3>2. visited = {} /\ parents = <<>>
            BY <2>1, <3>1 DEF OpenInv
        <3>3. phase' = "seeds" => \A i \in 1..Len(seeds') : ~(i < position')
            BY <1>b, <2>1
        <3> QED BY <2>1, <3>2, <3>3 DEF OpenInv
    <2> QED BY <1>0, <2>1, <2>2, NothingFound DEF WalkerInv
<1>2. CASE WalkSeed
    <2>1. PICK r : r = seeds[position]
        OBVIOUS
    <2>2. /\ r \in Range(seeds) /\ r \in Repositories /\ r # None
          /\ phase = "seeds" /\ position <= Len(seeds)
          /\ UNCHANGED <<seeds, parents, subsidiaries>>
        BY <1>2, <2>1, WalkSeedDoes, CrawlerAssumption
    <2>3. CASE Admitted(r) /\ FindAt(r)
        <3>1. found' = r /\ found' # None /\ phase' = "done" /\ Open /\ OpenInv
            BY <1>0, <2>2, <2>3 DEF FindAt, Admitted, WalkerInv
        <3>2. \A i \in DOMAIN seeds : seeds[i] \in holders => \E j \in 1..i : seeds[j] = r
            <4> SUFFICES ASSUME NEW i \in DOMAIN seeds, seeds[i] \in holders
                         PROVE  \E j \in 1..i : seeds[j] = r
                OBVIOUS
            <4>1. i \in 1..Len(seeds)
                BY LenProperties DEF WalkTypes, TypeOK
            <4>2. ~(i < position)
                BY <2>2, <3>1, <4>1 DEF OpenInv
            <4> QED BY <1>b, <2>1, <4>1, <4>2
        <3>3. NearestFirst'
            BY <1>a, <2>2, <3>1, <3>2 DEF NearestFirst
        <3> QED BY <3>1, <3>3 DEF WalkerInv, Open
    <2>4. CASE ~(Admitted(r) /\ FindAt(r))
        <3>1. /\ ~(Admitted(r) /\ r \in holders) /\ visited' = VisitedWith(r)
              /\ position' = position + 1 /\ phase' = "seeds" /\ found' = None
            BY <1>0, <1>2, <2>1, <2>2, <2>4, WalkSeedDoes
        <3>2. ASSUME Open'
              PROVE  OpenInv'
            <4>1. Open /\ OpenInv
                BY <1>0, <3>1, <3>2, OpenBefore DEF Open, WalkerInv, VisitedWith
            <4>2. visited' = visited \cup {r} /\ r \notin holders
                BY <3>1, <4>1, VisitWhileOpen
            <4>3. \A i \in 1..Len(seeds) : i < position' => seeds[i] \in visited'
                <5>1. \A i \in 1..Len(seeds) : i < position' => i < position \/ i = position
                    BY <1>b, <3>1
                <5> QED BY <2>1, <2>2, <4>1, <4>2, <5>1 DEF OpenInv
            <4> QED BY <1>a, <2>2, <3>1, <4>1, <4>2, <4>3 DEF OpenInv
        <3> QED BY <1>0, <3>1, <3>2, NothingFound DEF WalkerInv
    <2> QED BY <2>3, <2>4
<1>3. CASE SeedsVisited
    <2>1. /\ phase = "seeds" /\ phase' = "sites" /\ position > Len(seeds) /\ position' = 1
          /\ UNCHANGED <<visited, parents, subsidiaries, found, seeds>>
        BY <1>3 DEF SeedsVisited
    <2>2. ASSUME Open'
          PROVE  OpenInv'
        <3>1. OpenInv
            BY <1>0, <2>1, <2>2 DEF Open, WalkerInv
        <3>2. /\ visited \subseteq Range(seeds) /\ parents = <<>>
              /\ \A i \in 1..Len(seeds) : i < position => seeds[i] \in visited
            BY <2>1, <3>1 DEF OpenInv
        <3>3. Range(seeds) \subseteq visited
            BY <1>b, <2>1, <3>2
        <3>4. AmongParents'
            BY <2>1, <3>2, RangeOfEmpty DEF AmongParents, AroundSeeds
        <3>5. \A i \in 1..Len(seeds) : ~(i < position')
            BY <1>b, <2>1
        <3> QED BY <1>a, <2>1, <3>1, <3>3, <3>4, <3>5 DEF OpenInv
    <2> QED BY <1>0, <2>1, <2>2, NothingFound DEF WalkerInv
<1>4. CASE ReadSeedSite
    <2>1. PICK r : r = seeds[position]
        OBVIOUS
    <2>2. /\ phase = "sites" /\ phase' = "sites" /\ position <= Len(seeds)
          /\ parents' = parents \o parentSites[r] /\ position' = position + 1
          /\ UNCHANGED <<visited, found, seeds>>
        BY <1>4, <2>1 DEF ReadSeedSite
    <2>3. r \in Range(seeds) /\ r \in Repositories
        BY <2>1, <2>2, SeedInRange DEF WalkTypes
    <2>4. Range(parents') = Range(parents) \cup Range(parentSites[r])
        BY <1>c, <2>2, <2>3 DEF WalkTypes, TypeOK
    <2>5. ASSUME Open'
          PROVE  OpenInv'
        <3>1. OpenInv
            BY <1>0, <2>2, <2>5 DEF Open, WalkerInv
        <3>2. AmongParents'
            BY <1>a, <2>2, <2>3, <2>4, <3>1
            DEF OpenInv, AmongParents, AroundSeeds, ClosedUnderParents
        <3>3. \A i \in 1..Len(seeds) :
                  i < position' => Range(parentSites[seeds[i]]) \subseteq Range(parents')
            <4>1. \A i \in 1..Len(seeds) : i < position' => i < position \/ i = position
                BY <1>b, <2>2
            <4> QED BY <2>1, <2>2, <2>4, <3>1, <4>1 DEF OpenInv
        <3> QED BY <1>a, <2>2, <3>1, <3>2, <3>3 DEF OpenInv
    <2> QED BY <1>0, <2>2, <2>5, NothingFound DEF WalkerInv
<1>5. CASE SitesRead
    <2>1. /\ phase = "sites" /\ phase' = "parents" /\ position > Len(seeds)
          /\ UNCHANGED <<visited, parents, subsidiaries, found, seeds>>
        BY <1>5 DEF SitesRead
    <2>2. ASSUME Open'
          PROVE  OpenInv'
        <3>1. OpenInv
            BY <1>0, <2>1, <2>2 DEF Open, WalkerInv
        <3>2. /\ visited = Range(seeds) /\ AmongParents
              /\ \A i \in 1..Len(seeds) : Range(parentSites[seeds[i]]) \subseteq Range(parents)
            BY <1>b, <2>1, <3>1 DEF OpenInv
        <3>3. \A r \in visited : Range(parentSites[r]) \subseteq Range(parents)
            BY <1>b, <3>2
        <3>4. AmongParents'
            BY <1>a, <2>1, <3>2 DEF AmongParents, AroundSeeds
        <3> QED BY <1>a, <2>1, <3>1, <3>2, <3>3, <3>4 DEF OpenInv
    <2> QED BY <1>0, <2>1, <2>2, NothingFound DEF WalkerInv
<1> QED BY <1>1, <1>2, <1>3, <1>4, <1>5

\* The loops over the two queues.
LEMMA WalkerQueueSteps ==
    ASSUME WalkTypes, WalkTypes', WalkerInv, UNCHANGED walkMode,
           WalkParent \/ ParentsDrained \/ WalkSubsidiary \/ Exhausted
    PROVE  WalkerInv'
<1>0. /\ UNCHANGED <<web, limit, listing, seeds>> /\ phase \in {"parents", "subsidiaries"}
      /\ found = None /\ (Open <=> Cardinality(visited) < limit)
    BY DEF walkMode, WalkParent, ParentsDrained, WalkSubsidiary, Exhausted, WalkerInv, Open
<1>a. /\ parentSites' = parentSites /\ holders' = holders
      /\ subsidiarySites' = subsidiarySites /\ Range(seeds') = Range(seeds)
      /\ \A set : ClosedUnderParents(set)' <=> ClosedUnderParents(set)
    BY <1>0 DEF web, ClosedUnderParents
<1>b. ASSUME OpenInv
      PROVE  /\ visited \cap holders = {} /\ Range(seeds) \subseteq visited
             /\ \A r \in visited : Range(parentSites[r]) \subseteq visited \cup Range(parents)
             /\ AmongParents \/ ParentsSearched
             /\ phase = "subsidiaries" => parents = <<>>
    BY <1>0, <1>b DEF OpenInv
<1>c. ASSUME visited \subseteq visited', ParentsSearched
      PROVE  ParentsSearched'
    BY <1>a, <1>c DEF ParentsSearched, AroundSeeds
<1>d. ASSUME OpenInv, parents = <<>>
      PROVE  ParentsSearched
    BY <1>b, <1>d, RangeOfEmpty DEF ParentsSearched, AroundSeeds, ClosedUnderParents
<1>e. ASSUME NEW r \in Repositories, Admitted(r), FindAt(r),
             OpenInv => \/ \A set \in SUBSET Repositories : AroundSeeds(set) => r \in set
                        \/ ParentsSearched
      PROVE  WalkerInv'
    <2>1. found' = r /\ found' # None /\ phase' = "done" /\ r \in holders
        BY <1>e, CrawlerAssumption DEF FindAt
    <2>2. OpenInv
        BY <1>0, <1>e DEF Admitted, WalkerInv
    <2>3. NearestFirst'
        BY <1>0, <1>b, <1>e, <2>1, <2>2, FindIsNearest DEF WalkTypes
    <2> QED BY <2>1, <2>3 DEF WalkerInv, Open
<1>1. CASE WalkParent
    <2>1. PICK r : r = Head(parents)
        OBVIOUS
    <2>2. /\ r \in Repositories /\ Range(parents) = {r} \cup Range(Tail(parents))
          /\ phase = "parents" /\ subsidiaries' = subsidiaries
          /\ Range(Tail(parents) \o parentSites[r])
                 = Range(Tail(parents)) \cup Range(parentSites[r])
        BY <1>1, <2>1, WalkParentDoes
    <2>3. CASE Admitted(r) /\ FindAt(r)
        <3>1. AmongParents => \A set \in SUBSET Repositories : AroundSeeds(set) => r \in set
            BY <2>2 DEF AmongParents
        <3> QED BY <1>b, <1>e, <2>2, <2>3, <3>1
    <2>4. CASE ~(Admitted(r) /\ FindAt(r))
        <3>1. /\ ~(Admitted(r) /\ r \in holders) /\ visited' = VisitedWith(r)
              /\ phase' = "parents" /\ found' = None
              /\ \/ Follows(r) /\ parents' = Tail(parents) \o parentSites[r]
                 \/ ~Follows(r) /\ parents' = Tail(parents)
            BY <1>0, <1>1, <2>1, <2>2, <2>4, WalkParentDoes
        <3>2. ASSUME Open'
              PROVE  OpenInv'
            <4>1. Open /\ OpenInv
                BY <1>0, <3>1, <3>2, OpenBefore DEF Open, WalkerInv, VisitedWith
            <4>2. visited' = visited \cup {r} /\ r \notin holders
                BY <3>1, <4>1, VisitWhileOpen
            <4>3. /\ Range(parents') \subseteq Range(parents) \cup Range(parentSites[r])
                  /\ Range(Tail(parents)) \subseteq Range(parents')
                BY <2>2, <3>1
            <4>4. r \in visited \/ Range(parentSites[r]) \subseteq Range(parents')
                BY <2>2, <3>1, <4>1 DEF Follows, Admitted, Open
            <4>5. \A q \in visited' : Range(parentSites[q]) \subseteq visited' \cup Range(parents')
                BY <1>b, <2>2, <4>1, <4>2, <4>3, <4>4
            <4>6. AmongParents => AmongParents'
                <5> SUFFICES ASSUME AmongParents, NEW set \in SUBSET Repositories,
                                    AroundSeeds(set)
                             PROVE  visited' \subseteq set /\ Range(parents') \subseteq set
                    BY <1>a DEF AmongParents, AroundSeeds
                <5>1. visited \subseteq set /\ Range(parents) \subseteq set
                    BY DEF AmongParents
                <5>2. r \in set /\ Range(parentSites[r]) \subseteq set
                    BY <2>2, <5>1 DEF AroundSeeds, ClosedUnderParents
                <5> QED BY <4>2, <4>3, <5>1, <5>2
            <4>7. visited' \cap holders = {} /\ Range(seeds) \subseteq visited'
                BY <1>b, <4>1, <4>2
            <4>8. (AmongParents \/ ParentsSearched)'
                BY <1>b, <1>c, <4>1, <4>2, <4>6
            <4> QED BY <1>0, <1>a, <3>1, <4>5, <4>7, <4>8 DEF OpenInv
        <3> QED BY <1>0, <3>1, <3>2, NothingFound DEF WalkerInv
    <2> QED BY <2>3, <2>4
<1>2. CASE WalkSubsidiary
    <2>1. PICK r : r = Head(subsidiaries)
        OBVIOUS
    <2>2. /\ r \in Repositories /\ Range(subsidiaries) = {r} \cup Range(Tail(subsidiaries))
          /\ phase = "subsidiaries"
          /\ Range(Tail(subsidiaries) \o subsidiarySites[r])
                 = Range(Tail(subsidiaries)) \cup Range(subsidiarySites[r])
          /\ Range(parents \o parentSites[r]) = Range(parents) \cup Range(parentSites[r])
        BY <1>2, <2>1, WalkSubsidiaryDoes
    <2>3. CASE Admitted(r) /\ FindAt(r)
        BY <1>b, <1>d, <1>e, <2>2, <2>3
    <2>4. CASE /\ ~(Admitted(r) /\ r \in holders) /\ Follows(r) /\ visited' = VisitedWith(r)
               /\ subsidiaries' = Tail(subsidiaries) \o subsidiarySites[r]
               /\ parents' = parents \o parentSites[r]
               /\ phase' = "parents" /\ UNCHANGED found
        <3>1. ASSUME Open'
              PROVE  OpenInv'
            <4>1. Open /\ OpenInv
                BY <1>0, <2>4, <3>1, OpenBefore DEF Open, WalkerInv, VisitedWith
            <4>2. visited' = visited \cup {r} /\ r \notin holders
                BY <2>4, <4>1, VisitWhileOpen
            <4>3. \A q \in visited' : Range(parentSites[q]) \subseteq visited' \cup Range(parents')
                BY <1>b, <2>2, <2>4, <4>1, <4>2
            <4>4. ParentsSearched'
                BY <1>b, <1>c, <1>d, <2>2, <4>1, <4>2
            <4>5. visited' \cap holders = {} /\ Range(seeds) \subseteq visited'
                BY <1>b, <4>1, <4>2
            <4> QED BY <1>0, <1>a, <1>b, <2>4, <4>1, <4>3, <4>4, <4>5 DEF OpenInv
        <3> QED BY <1>0, <2>4, <3>1, NothingFound DEF WalkerInv
    <2>5. CASE /\ ~Follows(r) /\ subsidiaries' = Tail(subsidiaries)
               /\ UNCHANGED <<phase, visited, parents, found>>
        <3>1. ASSUME Open'
              PROVE  OpenInv'
            <4>1. OpenInv
                BY <1>0, <2>5, <3>1 DEF Open, WalkerInv
            <4>2. ParentsSearched'
                BY <1>b, <1>c, <1>d, <2>2, <2>5, <4>1
            <4> QED BY <1>0, <1>a, <1>b, <2>2, <2>5, <4>1, <4>2 DEF OpenInv
        <3> QED BY <1>0, <2>5, <3>1, NothingFound DEF WalkerInv
    <2> QED BY <1>2, <2>1, <2>3, <2>4, <2>5, WalkSubsidiaryDoes
<1>3. CASE ParentsDrained \/ Exhausted
    <2>1. /\ UNCHANGED <<visited, parents, subsidiaries, found>>
          /\ \/ phase' = "subsidiaries" /\ parents = <<>>
             \/ phase' = "done" /\ phase = "subsidiaries" /\ subsidiaries = <<>>
        BY <1>3 DEF ParentsDrained, Exhausted
    <2>2. ASSUME Open'
          PROVE  OpenInv'
        <3>1. OpenInv
            BY <1>0, <2>1, <2>2 DEF Open, WalkerInv
        <3>2. parents = <<>> /\ ParentsSearched'
            BY <1>b, <1>c, <1>d, <2>1, <3>1
        <3> QED BY <1>a, <1>b, <2>1, <3>1, <3>2 DEF OpenInv
    <2> QED BY <1>0, <2>1, <2>2, NothingFound DEF WalkerInv
<1> QED BY <1>1, <1>2, <1>3

\* An open JavaScript search goes down like the native one.
LEMMA WalkBelowKept ==
    ASSUME WalkTypes, WalkTypes', WalkerInv, Open => BelowInv, Open', WalkNext, port = "js"
    PROVE  BelowInv'
<1>0. UNCHANGED walkMode /\ TypeOK
    BY DEF WalkNext, WalkTypes
<1>a. /\ UNCHANGED web /\ parentSites' = parentSites /\ subsidiarySites' = subsidiarySites
      /\ visited \subseteq visited' /\ (found # None => found' = found)
    <2>1. CASE WalkSeed \/ WalkParent \/ WalkSubsidiary
        <3>1. found = None
            BY <2>1 DEF WalkSeed, WalkParent, WalkSubsidiary, WalkerInv
        <3> QED BY <2>1, <3>1 DEF WalkSeed, WalkParent, WalkSubsidiary, VisitedWith, FindAt, web
    <2>2. CASE ~(WalkSeed \/ WalkParent \/ WalkSubsidiary)
        BY <2>2 DEF WalkNext, NormalizeSeed, SeedsNormalized, SeedsVisited, ReadSeedSite,
                    SitesRead, ParentsDrained, Exhausted, web
    <2> QED BY <2>1, <2>2
<1>b. Open /\ OpenInv /\ BelowInv /\ found = None /\ found' = None
    <2>1. found = None /\ found' = None
        BY <1>a DEF Open
    <2>2. Cardinality(visited) < limit
        BY <1>0, <1>a, OpenBefore DEF Open, walkMode
    <2> QED BY <2>1, <2>2 DEF Open, WalkerInv
<1>1. CASE \/ NormalizeSeed \/ SeedsNormalized \/ SeedsVisited
           \/ ReadSeedSite \/ SitesRead \/ ParentsDrained \/ Exhausted
    BY <1>0, <1>1, <1>a, <1>b, BelowShared DEF OpenInv
<1>2. CASE WalkSeed
    <2>1. PICK r : r = seeds[position]
        OBVIOUS
    <2>2. /\ r \in Range(seeds) /\ r # None /\ phase = "seeds"
          /\ UNCHANGED <<seeds, parents, subsidiaries>>
          /\ ~(Admitted(r) /\ FindAt(r))
        BY <1>2, <1>b, <2>1, WalkSeedDoes, CrawlerAssumption DEF FindAt
    <2>3. ~(Admitted(r) /\ r \in holders) /\ visited' = VisitedWith(r) /\ phase' = "seeds"
        BY <1>2, <2>1, <2>2, WalkSeedDoes
    <2>4. visited' = visited \cup {r}
        BY <1>b, <2>3, VisitWhileOpen
    <2> QED BY <1>a, <1>b, <2>2, <2>3, <2>4, RangeOfEmpty DEF BelowInv, ParentsMet
<1>3. CASE WalkParent
    <2>1. PICK r : r = Head(parents)
        OBVIOUS
    <2>2. /\ r \in Repositories /\ r # None /\ phase = "parents"
          /\ Range(parents) = {r} \cup Range(Tail(parents))
          /\ Range(Tail(parents) \o parentSites[r])
                 = Range(Tail(parents)) \cup Range(parentSites[r])
          /\ UNCHANGED <<seeds, subsidiaries>> /\ ~(Admitted(r) /\ FindAt(r))
        BY <1>3, <1>b, <2>1, WalkParentDoes, CrawlerAssumption DEF FindAt
    <2>3. /\ ~(Admitted(r) /\ r \in holders) /\ visited' = VisitedWith(r) /\ phase' = "parents"
          /\ parents' \in {Tail(parents), Tail(parents) \o parentSites[r]}
        BY <1>3, <2>1, <2>2, WalkParentDoes
    <2>4. visited' = visited \cup {r}
        BY <1>b, <2>3, VisitWhileOpen
    <2>5. Range(parents') \subseteq Range(parents) \cup Range(parentSites[r])
        BY <2>2, <2>3
    <2> QED BY <1>a, <1>b, <2>2, <2>3, <2>4, <2>5, BelowParent
<1>4. CASE WalkSubsidiary
    <2>1. PICK r : r = Head(subsidiaries)
        OBVIOUS
    <2>2. /\ r \in Repositories /\ r # None /\ phase = "subsidiaries"
          /\ Range(subsidiaries) = {r} \cup Range(Tail(subsidiaries))
          /\ Range(Tail(subsidiaries) \o subsidiarySites[r])
                 = Range(Tail(subsidiaries)) \cup Range(subsidiarySites[r])
          /\ Range(parents \o parentSites[r]) = Range(parents) \cup Range(parentSites[r])
          /\ UNCHANGED seeds /\ ~(Admitted(r) /\ FindAt(r))
        BY <1>4, <1>b, <2>1, WalkSubsidiaryDoes, CrawlerAssumption DEF FindAt
    <2>3. CASE /\ ~(Admitted(r) /\ r \in holders) /\ visited' = VisitedWith(r)
               /\ subsidiaries' = Tail(subsidiaries) \o subsidiarySites[r]
               /\ parents' = parents \o parentSites[r]
               /\ phase' = "parents"
        <3>1. visited' = visited \cup {r}
            BY <1>b, <2>3, VisitWhileOpen
        <3>2. /\ Range(parents') = Range(parents) \cup Range(parentSites[r])
              /\ Range(subsidiaries') = Range(Tail(subsidiaries)) \cup Range(subsidiarySites[r])
            BY <2>2, <2>3
        <3>3. /\ Range(subsidiaries) \subseteq {r} \cup Range(subsidiaries')
              /\ Range(subsidiarySites[r]) \subseteq Range(subsidiaries')
            BY <2>2, <3>2
        <3> QED BY <1>a, <1>b, <2>2, <2>3, <3>1, <3>2, <3>3, BelowSubsidiary
    <2>4. CASE /\ ~Follows(r) /\ subsidiaries' = Tail(subsidiaries)
               /\ UNCHANGED <<phase, visited, parents>>
        <3>1. r \in visited
            BY <1>b, <2>4 DEF Follows, Admitted, Open
        <3>2. Range(subsidiaries) \subseteq {r} \cup Range(subsidiaries')
            BY <2>2, <2>4
        <3> QED BY <1>a, <1>b, <2>2, <2>4, <3>1, <3>2, BelowSkip
    <2> QED BY <1>4, <2>1, <2>2, <2>3, <2>4, WalkSubsidiaryDoes
<1> QED BY <1>1, <1>2, <1>3, <1>4 DEF WalkNext

\* The invariant of both ports.
LEMMA WalkInvKept ==
    ASSUME WalkInv, [WalkNext]_walkVars
    PROVE  WalkInv'
<1>1. WalkTypes /\ WalkTypes' /\ ReachInv'
    BY WalkTypesKept, WalkReachKept DEF WalkInv
<1>2. UNCHANGED walkMode /\ port' = port
    BY WalkStepKinds DEF walkMode
<1>3. ASSUME port = "native"
      PROVE  SearchInv' /\ (found = None => BelowInv)'
    <2>1. [Next]_crawlVars
        BY <1>3, WalkStepKinds DEF WalkSeed, WalkParent, WalkSubsidiary
    <2> QED BY <1>1, <1>3, <2>1, NextPreservesSearchInv, NextPreservesBelowInv
            DEF WalkInv, WalkTypes
<1>4. ASSUME port = "js"
      PROVE  WalkerInv' /\ (Open => BelowInv)'
    <2>1. WalkerInv /\ (Open => BelowInv)
        BY <1>4 DEF WalkInv
    <2>2. CASE UNCHANGED walkVars
        <3>1. WalkerInv'
            BY <2>1, <2>2
            DEF walkVars, walkMode, crawlVars, web, WalkerInv, Open, OpenInv, NearestFirst,
                AmongParents, ParentsSearched, AroundSeeds, ClosedUnderParents
        <3>2. (Open => BelowInv)'
            BY <2>1, <2>2
            DEF walkVars, walkMode, crawlVars, web, Open, BelowInv, ParentsMet, SearchedBelow
        <3> QED BY <3>1, <3>2
    <2>3. CASE WalkNext
        <3>1. WalkerInv'
            BY <1>1, <1>2, <1>4, <2>1, <2>3, WalkerSeedSteps, WalkerQueueSteps DEF WalkNext
        <3>2. (Open => BelowInv)'
            BY <1>1, <1>4, <2>1, <2>3, WalkBelowKept
        <3> QED BY <3>1, <3>2
    <2> QED BY <2>2, <2>3
<1> QED BY <1>1, <1>2, <1>3, <1>4 DEF WalkInv, WalkTypes

LEMMA WalkInvariant == WalkSpec => []WalkInv
<1>1. WalkInit => WalkInv
    <2> SUFFICES ASSUME WalkInit PROVE WalkInv
        OBVIOUS
    <2>1. Init /\ TypeOK /\ ReachInv /\ SearchInv
        BY CrawlerAssumption
        DEF WalkInit, Init, TypeOK, ReachInv, SearchInv, NotFoundAfterAllParents, NearestFirst
    <2>2. limit \in Nat
        BY WalkerAssumption DEF WalkInit
    <2>3. WalkTypes
        BY <2>1, <2>2, FS_EmptySet DEF WalkInit, Init, WalkTypes
    <2>4. WalkerInv
        BY <2>1, RangeOfEmpty DEF Init, WalkerInv, NearestFirst, OpenInv
    <2>5. BelowInv
        BY <2>1, RangeOfEmpty DEF Init, BelowInv, ParentsMet
    <2> QED BY <2>1, <2>3, <2>4, <2>5 DEF WalkInv
<1>2. WalkInv /\ [WalkNext]_walkVars => WalkInv'
    BY WalkInvKept
<1> QED BY <1>1, <1>2, PTL DEF WalkSpec

-----------------------------------------------------------------------------
\* Neither port visits a repository outside the documented links, for every
\* web and every limit.
THEOREM WalksOnlyReachable == WalkSpec => []VisitsOnlyReachable
<1>1. WalkInv => VisitsOnlyReachable
    BY DEF WalkInv, ReachInv, VisitsOnlyReachable
<1> QED BY <1>1, WalkInvariant, PTL

\* In both ports, and whatever the visit limit is, the configured order
\* decides which repository a model comes from.
THEOREM WalksNearestFirst == WalkSpec => []NearestFirst
<1>1. WalkInv => NearestFirst
    BY DEF WalkInv, WalkTypes, SearchInv, WalkerInv
<1> QED BY <1>1, WalkInvariant, PTL

\* Both ports answer "not found", and listModels is done, only after
\* everything that the documented links lead to, parents and subsidiaries
\* alike; the JavaScript ones unless the visit limit has been met.
THEOREM WalksBeforeNotFound == WalkSpec => []NotFoundAfterAllReachable
<1>1. WalkInv => NotFoundAfterAllReachable
    <2> SUFFICES ASSUME WalkInv, phase = "done", found = None,
                        port = "js" => Cardinality(visited) < limit
                 PROVE  /\ visited \cap holders = {}
                        /\ ClosedUnderParents(visited)
                        /\ \E below \in SUBSET visited : WentBelow(below)
        BY DEF NotFoundAfterAllReachable, NotFoundAfterAll
    <2>1. BelowInv /\ visited \cap holders = {} /\ ClosedUnderParents(visited)
        <3>1. CASE port = "native"
            BY <3>1 DEF WalkInv, SearchInv, NotFoundAfterAllParents
        <3>2. CASE port = "js"
            <4>1. BelowInv /\ OpenInv
                BY <3>2 DEF WalkInv, WalkerInv, Open
            <4>2. parents = <<>>
                  /\ visited \cap holders = {}
                  /\ \A r \in visited : Range(parentSites[r]) \subseteq visited \cup Range(parents)
                BY <4>1 DEF OpenInv
            <4> QED BY <4>1, <4>2, RangeOfEmpty DEF ClosedUnderParents
        <3> QED BY <3>1, <3>2 DEF WalkInv, WalkTypes
    <2> QED BY <2>1, WentBelowWhenDone
<1> QED BY <1>1, WalkInvariant, PTL
=============================================================================
