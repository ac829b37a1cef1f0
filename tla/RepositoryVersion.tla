-------------------------- MODULE RepositoryVersion --------------------------
(***************************************************************************)
(* The choice of one version of a model from the index of a repository     *)
(* (selectLatestVersion; version-selector.js is the same in JavaScript).   *)
(* An index is the sequence of its entries, in repository order; here an   *)
(* entry is named by its position, as by its address in the code.          *)
(***************************************************************************)
EXTENDS FiniteSetsExt, Sequences

CONSTANT None

\* supportedSchemaLanguagePreference
Preference == <<"ili2_4", "ili2_3", "ili1">>

Candidates(index, name, language) ==
    {i \in DOMAIN index : /\ index[i].name = name
                          /\ index[i].language = language
                          /\ ~index[i].browseOnly}

Roots(index, candidates) == {i \in candidates : index[i].precursor = None}

\* A bug of a selection that takes the last successor.
Follow_last(index, candidates) ==
    LET follow[open \in SUBSET candidates] ==
            [current \in candidates |->
                LET successors == {i \in open : index[i].precursor = index[current].version}
                IN  IF successors = {} THEN current
                    ELSE follow[open \ successors][Max(successors)]]
        roots == Roots(index, candidates)
    IN  follow[candidates \ roots][Min(roots)]

\* From the first root to the first successor of the current version, as
\* long as there is one; open: the candidates that are not accounted for.
Follow(index, candidates) ==
    LET follow[open \in SUBSET candidates] ==
            [current \in candidates |->
                LET successors == {i \in open : index[i].precursor = index[current].version}
                IN  IF successors = {} THEN current
                    ELSE follow[open \ successors][Min(successors)]]
        roots == Roots(index, candidates)
    IN  follow[candidates \ roots][Min(roots)]

SelectAmong(index, candidates) ==
    IF Roots(index, candidates) = {} THEN 0 ELSE Follow(index, candidates)

\* The position of the entry that is selected, or 0.  Without a language the
\* first of the preference that has a selection decides.
SelectLatest(index, name, language) ==
    LET In(l) == SelectAmong(index, Candidates(index, name, l))
        having == {k \in DOMAIN Preference : In(Preference[k]) # 0}
    IN  IF language # None THEN In(language)
        ELSE IF having = {} THEN 0
        ELSE In(Preference[Min(having)])

-----------------------------------------------------------------------------
\* The version that is meant where no two candidates have the same version:
\* nothing succeeds it, and it lies on a chain from the first root in which
\* every entry is the first successor of the one before.  A root succeeds
\* nothing, not even an entry without a version.
IsLatest(index, candidates, selected) ==
    LET roots == Roots(index, candidates)
        Successors(i) == {j \in candidates \ roots : index[j].precursor = index[i].version}
    IN  /\ Successors(selected) = {}
        /\ \E chain \in SUBSET candidates :
               /\ selected \in chain
               /\ \A i \in chain : \/ i = Min(roots)
                                  \/ \E j \in chain : i \in Successors(j) /\ i = Min(Successors(j))

DistinctVersions(index, candidates) ==
    \A i, j \in candidates : index[i].version = index[j].version => i = j
=============================================================================
