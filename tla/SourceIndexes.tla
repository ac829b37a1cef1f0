--------------------------- MODULE SourceIndexes ---------------------------
(***************************************************************************)
(* SourceModelIndex and SourceDependencyIndex                              *)
(* (source/core/incremental): per source the header of its current bytes,  *)
(* and reverse maps from a model name to the URIs that declare or require  *)
(* it.  Vectors that the code keeps sorted and free of duplicates are sets.*)
(***************************************************************************)
EXTENDS PartialMap, Sequences

EmptyModelIndex == [records |-> EmptyMap, definers |-> EmptyMap, requirers |-> EmptyMap]

EmptyDependencyIndex == [requiredByUri |-> EmptyMap, urisByRequiredModel |-> EmptyMap]

Elements(seq) == {seq[i] : i \in DOMAIN seq}

UrisOf(reverse, model) == IF model \in DOMAIN reverse THEN reverse[model] ELSE {}

\* Mutant of EraseEdges: a URI list that becomes empty is kept.
EraseEdges_keepsEmpty(reverse, models, uri) ==
    [m \in DOMAIN reverse |-> IF m \in models THEN reverse[m] \ {uri} ELSE reverse[m]]

\* Remove uri from the lists of the models; a list that becomes empty goes.
EraseEdges(reverse, models, uri) ==
    [m \in {n \in DOMAIN reverse : n \in models => reverse[n] # {uri}} |->
        IF m \in models THEN reverse[m] \ {uri} ELSE reverse[m]]

AddEdges(reverse, models, uri) ==
    [m \in DOMAIN reverse \cup models |->
        IF m \in models THEN UrisOf(reverse, m) \cup {uri} ELSE reverse[m]]

RemoveReverse(index, uri) ==
    LET record == index.records[uri]
    IN  [index EXCEPT !.definers  = EraseEdges(@, record.declaredModels, uri),
                      !.requirers = EraseEdges(@, record.requiredModels, uri)]

AddReverse(index, uri) ==
    LET record == index.records[uri]
    IN  [index EXCEPT !.definers  = AddEdges(@, record.declaredModels, uri),
                      !.requirers = AddEdges(@, record.requiredModels, uri)]

ModelRecord(header, stamp) ==
    [iliVersion          |-> header.iliVersion,
     declaredModels      |-> Elements(header.models),
     requiredModels      |-> Elements(header.requiredModels),
     stamp               |-> stamp,
     syntacticallyUsable |-> header.usable]

\* SourceModelIndex::replace.
ReplaceRecord(index, uri, record) ==
    LET cleared == IF uri \in DOMAIN index.records THEN RemoveReverse(index, uri) ELSE index
    IN  AddReverse([cleared EXCEPT !.records = Put(@, uri, record)], uri)

\* SourceModelIndex::remove.
RemoveRecord(index, uri) ==
    IF uri \in DOMAIN index.records
    THEN [RemoveReverse(index, uri) EXCEPT !.records = Drop(@, {uri})]
    ELSE index

\* SourceDependencyIndex::removeSource.
RemoveDependencies(index, uri) ==
    IF uri \in DOMAIN index.requiredByUri
    THEN [requiredByUri |-> Drop(index.requiredByUri, {uri}),
          urisByRequiredModel |->
              EraseEdges(index.urisByRequiredModel, index.requiredByUri[uri], uri)]
    ELSE index

\* SourceDependencyIndex::replaceSourceDependencies.
ReplaceDependencies(index, uri, models) ==
    LET cleared == RemoveDependencies(index, uri)
    IN  [requiredByUri |-> Put(cleared.requiredByUri, uri, models),
         urisByRequiredModel |-> AddEdges(cleared.urisByRequiredModel, models, uri)]

-----------------------------------------------------------------------------

\* A reverse map is exact for a forward map: it lists under each model just
\* the URIs whose forward set names it, and no model with an empty list.
Exact(reverse, forward) ==
    /\ DOMAIN reverse = UNION {forward[u] : u \in DOMAIN forward}
    /\ \A m \in DOMAIN reverse : reverse[m] = {u \in DOMAIN forward : m \in forward[u]}

Declared(index) == [u \in DOMAIN index.records |-> index.records[u].declaredModels]

Required(index) == [u \in DOMAIN index.records |-> index.records[u].requiredModels]

\* Both checkInvariants, strengthened from "no edge is missing" to "no edge is
\* missing and none is left over".
IndexesExact(modelIndex, dependencyIndex) ==
    /\ Exact(modelIndex.definers, Declared(modelIndex))
    /\ Exact(modelIndex.requirers, Required(modelIndex))
    /\ Exact(dependencyIndex.urisByRequiredModel, dependencyIndex.requiredByUri)
=============================================================================
