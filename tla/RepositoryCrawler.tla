------------------------- MODULE RepositoryCrawler -------------------------
(***************************************************************************)
(* The native search through a graph of model repositories                 *)
(* (RepositoryCrawler::findModel and ::listModels).  One step is one       *)
(* iteration of one of their loops.                                        *)
(*                                                                         *)
(* A repository is named by its normalized URI.  What the backend answers  *)
(* is fixed for a search, because RepositoryManager memoizes every index   *)
(* and site it loads, failures included: holders are the repositories      *)
(* whose index offers the wanted model, a repository whose index or site   *)
(* cannot be loaded (or whose site links are not followed) is no holder or *)
(* has no links.  A link or seed that is not a URI only adds a diagnostic, *)
(* so the lists below hold the links that resolve.                         *)
(*                                                                         *)
(* listModels runs the same loops and only lacks findModel's early return: *)
(* it takes the steps of a search for a model that no repository holds,    *)
(* and lists the models of the repositories in visited.                    *)
(***************************************************************************)
EXTENDS Integers, Sequences, Functions

CONSTANTS
    Repositories,
    SeedLists,          \* the configured lists to consider, repetitions included
    ParentLists,        \* the possible parentSites of one repository
    SubsidiaryLists,    \* the possible subsidiarySites of one repository
    None

ASSUME CrawlerAssumption ==
    /\ SeedLists \subseteq Seq(Repositories)
    /\ ParentLists \subseteq Seq(Repositories)
    /\ SubsidiaryLists \subseteq Seq(Repositories)
    /\ None \notin Repositories

VARIABLES
    configured,         \* options.repositories
    parentSites,        \* parentSites[r]: what loadSite(r) answers
    subsidiarySites,
    holders,
    phase,              \* the loop being executed
    position,           \* its index into configured or seeds
    seeds,
    visited,
    parents,            \* the two queues of repositories still to visit
    subsidiaries,
    found               \* the repository findModel answers with, or None

web == <<configured, parentSites, subsidiarySites, holders>>
crawlVars == <<web, phase, position, seeds, visited, parents, subsidiaries, found>>

Init ==
    /\ configured \in SeedLists
    /\ parentSites \in [Repositories -> ParentLists]
    /\ subsidiarySites \in [Repositories -> SubsidiaryLists]
    /\ holders \in SUBSET Repositories
    /\ phase = "normalize"
    /\ position = 1
    /\ seeds = <<>>
    /\ visited = {}
    /\ parents = <<>>
    /\ subsidiaries = <<>>
    /\ found = None

\* normalizeSeeds: a seed that repeats an earlier one is dropped.
NormalizeSeed ==
    /\ phase = "normalize"
    /\ position <= Len(configured)
    /\ seeds' = IF configured[position] \in Range(seeds)
                THEN seeds ELSE Append(seeds, configured[position])
    /\ position' = position + 1
    /\ UNCHANGED <<web, phase, visited, parents, subsidiaries, found>>

SeedsNormalized ==
    /\ phase = "normalize"
    /\ position > Len(configured)
    /\ phase' = "seeds"
    /\ position' = 1
    /\ UNCHANGED <<web, seeds, visited, parents, subsidiaries, found>>

\* The model is found at r, and the search returns.
FindAt(r) ==
    /\ r \in holders
    /\ visited' = visited \cup {r}
    /\ found' = r
    /\ phase' = "done"

VisitSeed ==
    /\ phase = "seeds"
    /\ position <= Len(seeds)
    /\ \/ FindAt(seeds[position]) /\ UNCHANGED position
       \/ /\ seeds[position] \notin holders
          /\ visited' = visited \cup {seeds[position]}
          /\ position' = position + 1
          /\ UNCHANGED <<phase, found>>
    /\ UNCHANGED <<web, seeds, parents, subsidiaries>>

SeedsVisited ==
    /\ phase = "seeds"
    /\ position > Len(seeds)
    /\ phase' = "sites"
    /\ position' = 1
    /\ UNCHANGED <<web, seeds, visited, parents, subsidiaries, found>>

\* Only after every seed has been searched are their links queued.
ReadSeedSite ==
    /\ phase = "sites"
    /\ position <= Len(seeds)
    /\ parents' = parents \o parentSites[seeds[position]]
    /\ subsidiaries' = subsidiaries \o subsidiarySites[seeds[position]]
    /\ position' = position + 1
    /\ UNCHANGED <<web, phase, seeds, visited, found>>

SitesRead ==
    /\ phase = "sites"
    /\ position > Len(seeds)
    /\ phase' = "parents"
    /\ UNCHANGED <<web, position, seeds, visited, parents, subsidiaries, found>>

SkipParent ==
    /\ phase = "parents"
    /\ parents # <<>>
    /\ Head(parents) \in visited
    /\ parents' = Tail(parents)
    /\ UNCHANGED <<web, phase, position, seeds, visited, subsidiaries, found>>

\* A bug of a search that follows every link of a parent.
VisitParent_allLinks ==
    /\ phase = "parents"
    /\ parents # <<>>
    /\ Head(parents) \notin visited
    /\ visited' = visited \cup {Head(parents)}
    /\ parents' = Tail(parents) \o parentSites[Head(parents)]
    /\ subsidiaries' = subsidiaries \o subsidiarySites[Head(parents)]
    /\ UNCHANGED <<web, phase, position, seeds, found>>

VisitParent ==
    /\ phase = "parents"
    /\ parents # <<>>
    /\ Head(parents) \notin visited
    /\ \/ FindAt(Head(parents)) /\ parents' = Tail(parents)
       \/ /\ Head(parents) \notin holders
          /\ visited' = visited \cup {Head(parents)}
          /\ parents' = Tail(parents) \o parentSites[Head(parents)]
          /\ UNCHANGED <<phase, found>>
    /\ UNCHANGED <<web, position, seeds, subsidiaries>>

\* A bug of a search that goes on to the subsidiaries too early.
ParentsDrained_any ==
    /\ phase = "parents"
    /\ phase' = "subsidiaries"
    /\ UNCHANGED <<web, position, seeds, visited, parents, subsidiaries, found>>

ParentsDrained ==
    /\ phase = "parents"
    /\ parents = <<>>
    /\ phase' = "subsidiaries"
    /\ UNCHANGED <<web, position, seeds, visited, parents, subsidiaries, found>>

SkipSubsidiary ==
    /\ phase = "subsidiaries"
    /\ subsidiaries # <<>>
    /\ Head(subsidiaries) \in visited
    /\ subsidiaries' = Tail(subsidiaries)
    /\ UNCHANGED <<web, phase, position, seeds, visited, parents, found>>

\* A bug of a search that goes down one level only.
VisitSubsidiary_oneLevel ==
    /\ phase = "subsidiaries"
    /\ subsidiaries # <<>>
    /\ Head(subsidiaries) \notin visited
    /\ LET r == Head(subsidiaries)
       IN  \/ FindAt(r) /\ UNCHANGED parents
           \/ /\ r \notin holders
              /\ visited' = visited \cup {r}
              /\ parents' = parents \o parentSites[r]
              /\ phase' = "parents"
              /\ UNCHANGED found
    /\ subsidiaries' = Tail(subsidiaries)
    /\ UNCHANGED <<web, position, seeds>>

\* The parents of a subsidiary are searched before the next subsidiary.
VisitSubsidiary ==
    /\ phase = "subsidiaries"
    /\ subsidiaries # <<>>
    /\ Head(subsidiaries) \notin visited
    /\ LET r == Head(subsidiaries)
       IN  \/ FindAt(r) /\ subsidiaries' = Tail(subsidiaries) /\ UNCHANGED parents
           \/ /\ r \notin holders
              /\ visited' = visited \cup {r}
              /\ subsidiaries' = Tail(subsidiaries) \o subsidiarySites[r]
              /\ parents' = parents \o parentSites[r]
              /\ phase' = "parents"
              /\ UNCHANGED found
    /\ UNCHANGED <<web, position, seeds>>

Exhausted ==
    /\ phase = "subsidiaries"
    /\ subsidiaries = <<>>
    /\ phase' = "done"
    /\ UNCHANGED <<web, position, seeds, visited, parents, subsidiaries, found>>

Next ==
    \/ NormalizeSeed
    \/ SeedsNormalized
    \/ VisitSeed
    \/ SeedsVisited
    \/ ReadSeedSite
    \/ SitesRead
    \/ SkipParent
    \/ VisitParent
    \/ ParentsDrained
    \/ SkipSubsidiary
    \/ VisitSubsidiary
    \/ Exhausted

Spec == Init /\ [][Next]_crawlVars

-----------------------------------------------------------------------------

ClosedUnderParents(set) == \A r \in set : Range(parentSites[r]) \subseteq set
ClosedUnderSubsidiaries(set) == \A r \in set : Range(subsidiarySites[r]) \subseteq set

\* The sets of repositories that the documented search covers: the seeds,
\* what is below them along subsidiary links (below), and the parents of
\* all of these.
Covers(below, set) ==
    /\ Range(seeds) \subseteq below
    /\ below \subseteq set
    /\ ClosedUnderSubsidiaries(below)
    /\ ClosedUnderParents(set)

TypeOK ==
    /\ configured \in Seq(Repositories)
    /\ parentSites \in [Repositories -> Seq(Repositories)]
    /\ subsidiarySites \in [Repositories -> Seq(Repositories)]
    /\ holders \subseteq Repositories
    /\ phase \in {"normalize", "seeds", "sites", "parents", "subsidiaries", "done"}
    /\ position \in Nat \ {0}
    /\ seeds \in Seq(Repositories)
    /\ visited \subseteq Repositories
    /\ parents \in Seq(Repositories)
    /\ subsidiaries \in Seq(Repositories)
    /\ found \in Repositories \cup {None}

\* The search stays within the documented links: it never reaches a
\* repository through the subsidiaries of a mere parent.
VisitsOnlyReachable ==
    phase # "normalize" =>
        \A below, set \in SUBSET Repositories : Covers(below, set) => visited \subseteq set

\* The search has gone down from the repositories in below: the seeds are
\* among them, and all their subsidiaries have been visited.  A visited
\* repository that it has not gone down from was met as a parent.
WentBelow(below) ==
    /\ Range(seeds) \subseteq below
    /\ \A r \in below : Range(subsidiarySites[r]) \subseteq visited
    /\ \A r \in visited \ below : \E child \in visited : r \in Range(parentSites[child])

\* findModel answers "not found", and listModels is done, only after all the
\* documented links have been followed, whatever cycles they form: to every
\* parent of every visited repository, and to the subsidiaries of the seeds
\* and of all repositories below them, except of one that was visited as a
\* parent ("already visited" ones are skipped).
NotFoundAfterAll ==
    phase = "done" /\ found = None =>
        /\ visited \cap holders = {}
        /\ ClosedUnderParents(visited)
        /\ \E below \in SUBSET visited : WentBelow(below)

\* The configured order decides which repository a model comes from: an
\* earlier seed before a later one, a seed before its parents, and the
\* parents of the seeds, however remote, before any subsidiary.
NearestFirst ==
    found # None =>
        /\ \A i \in DOMAIN seeds :
               seeds[i] \in holders => \E j \in 1..i : seeds[j] = found
        /\ \/ \A set \in SUBSET Repositories :
                  Range(seeds) \subseteq set /\ ClosedUnderParents(set) => found \in set
           \/ \E set \in SUBSET Repositories :
                  /\ Range(seeds) \subseteq set
                  /\ ClosedUnderParents(set)
                  /\ set \cap holders = {}
=============================================================================
