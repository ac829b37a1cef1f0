----------------------- MODULE RepositoryGraphWalker -----------------------
(***************************************************************************)
(* The JavaScript search through the same graph (RepositoryGraphWalker of  *)
(* @ilic/repository-core).  It differs from the native one in two ways:    *)
(* at most limit repositories are visited, and findModel, but not          *)
(* listModels, reads the site of a repository it takes from a queue even   *)
(* when it does not visit its index.  The seeds are normalized and the     *)
(* seeds' sites are read as in RepositoryCrawler.  The two ports are put   *)
(* side by side, and asked the same questions.                             *)
(***************************************************************************)
EXTENDS RepositoryCrawler, FiniteSets

CONSTANTS
    VisitLimits,        \* policy.maxRepositoriesVisited
    MaxLinks            \* bound on the links of a kind at one repository: a
                        \* JavaScript search that does not end then has
                        \* finitely many states

ASSUME WalkerAssumption == VisitLimits \subseteq Nat \ {0} /\ MaxLinks \in Nat

VARIABLES
    port,               \* "native" or "js"
    listing,            \* listModels or findModel (js)
    limit

walkMode == <<port, listing, limit>>
walkVars == <<crawlVars, walkMode>>

WalkInit ==
    /\ Init
    /\ port \in {"native", "js"}
    /\ listing \in BOOLEAN
    /\ listing => port = "js" /\ holders = {}
    /\ limit \in IF port = "js" THEN VisitLimits ELSE {0}
    /\ port = "js" =>
           \A r \in Repositories : /\ Len(parentSites[r]) <= MaxLinks
                                   /\ Len(subsidiarySites[r]) <= MaxLinks

\* #visitIndex loads the index of r: it is new and the limit not reached.
Admitted(r) == r \notin visited /\ Cardinality(visited) < limit

\* What a visit of r, which does not find the model, leaves in visited.
VisitedWith(r) == IF Admitted(r) THEN visited \cup {r} ELSE visited

\* A bug of a listModels that follows the links of visited repositories too.
Follows_always(r) == TRUE

\* findModel follows the links of r in any case, listModels if it visits r.
Follows(r) == listing => Admitted(r)

WalkSeed ==
    /\ port = "js"
    /\ phase = "seeds"
    /\ position <= Len(seeds)
    /\ LET r == seeds[position]
       IN  \/ Admitted(r) /\ FindAt(r) /\ UNCHANGED position
           \/ /\ ~(Admitted(r) /\ r \in holders)
              /\ visited' = VisitedWith(r)
              /\ position' = position + 1
              /\ UNCHANGED <<phase, found>>
    /\ UNCHANGED <<web, seeds, parents, subsidiaries>>

WalkParent ==
    /\ port = "js"
    /\ phase = "parents"
    /\ parents # <<>>
    /\ LET r == Head(parents)
       IN  \/ Admitted(r) /\ FindAt(r) /\ parents' = Tail(parents)
           \/ /\ ~(Admitted(r) /\ r \in holders)
              /\ visited' = VisitedWith(r)
              /\ parents' = IF Follows(r) THEN Tail(parents) \o parentSites[r]
                                          ELSE Tail(parents)
              /\ UNCHANGED <<phase, found>>
    /\ UNCHANGED <<web, position, seeds, subsidiaries>>

WalkSubsidiary ==
    /\ port = "js"
    /\ phase = "subsidiaries"
    /\ subsidiaries # <<>>
    /\ LET r == Head(subsidiaries)
       IN  \/ Admitted(r) /\ FindAt(r) /\ subsidiaries' = Tail(subsidiaries) /\ UNCHANGED parents
           \/ /\ ~(Admitted(r) /\ r \in holders)
              /\ Follows(r)
              /\ visited' = VisitedWith(r)
              /\ subsidiaries' = Tail(subsidiaries) \o subsidiarySites[r]
              /\ parents' = parents \o parentSites[r]
              /\ phase' = "parents"
              /\ UNCHANGED found
           \/ /\ ~Follows(r)
              /\ subsidiaries' = Tail(subsidiaries)
              /\ UNCHANGED <<phase, visited, parents, found>>
    /\ UNCHANGED <<web, position, seeds>>

\* The steps in which the ports differ, then those they share.
WalkNext ==
    /\ \/ WalkSeed
       \/ WalkParent
       \/ WalkSubsidiary
       \/ port = "native" /\ VisitSeed
       \/ port = "native" /\ SkipParent
       \/ port = "native" /\ VisitParent
       \/ port = "native" /\ SkipSubsidiary
       \/ port = "native" /\ VisitSubsidiary
       \/ NormalizeSeed
       \/ SeedsNormalized
       \/ SeedsVisited
       \/ ReadSeedSite
       \/ SitesRead
       \/ ParentsDrained
       \/ Exhausted
    /\ UNCHANGED walkMode

\* A search waits for nothing but resources, and keeps taking steps as long as
\* requests end: the native transport has timeouts, that requests of the
\* JavaScript one end is assumed.
WalkSpec == WalkInit /\ [][WalkNext]_walkVars /\ WF_walkVars(WalkNext)

-----------------------------------------------------------------------------

\* No repository leads back to itself: some ranking descends along all links.
Acyclic ==
    \E rank \in [Repositories -> 1..Cardinality(Repositories)] :
        \A r \in Repositories :
            \A l \in Range(parentSites[r]) \cup Range(subsidiarySites[r]) : rank[l] < rank[r]

\* The same rule for both ports and for listModels: nothing that the documented
\* links lead to is left out, unless a JavaScript search met the visit limit.
NotFoundAfterAllReachable ==
    (port = "js" => Cardinality(visited) < limit) => NotFoundAfterAll

\* Native searches and listModels return for every web, the JavaScript
\* findModel for every web without cycles.
TerminatesUnlessCyclic == (port = "native" \/ listing \/ Acyclic) => <>(phase = "done")

=============================================================================
