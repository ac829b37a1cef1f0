---------------------- MODULE IncrementalSessionProofs ----------------------
(***************************************************************************)
(* Proofs about the source store and about a whole session, for every set  *)
(* of URIs, texts, documents and requests, every digest function,          *)
(* collisions included, every limit of the caches and every compilation    *)
(* function that parses and loads registered sources only.                 *)
(***************************************************************************)
EXTENDS IncrementalSession, ParsedCacheProofs

-----------------------------------------------------------------------------
(* What one step of the store can do, reduced to three shapes: bytes are   *)
(* stored under a fresh stamp, a version is raised, a source is removed.   *)

\* Bytes enter the store under the next revision and generation.
Stores(u) ==
    \E t \in Texts, v \in Versions, d \in Nat :
        /\ u \in Uris \ InvalidUris
        /\ u \in DOMAIN identities =>
               d >= identities[u].documentVersion
        /\ Store(u, t, v, FreshIdentity(t, d))

\* Only the visible version of a live source grows.
Raises(u) == \E t \in Texts, v \in Versions : VersionOnly(u, t, v)

\* Every step of the store is one of the three shapes or changes nothing.
LEMMA StepShapes ==
    ASSUME TypeOK, MapsAgree, [Next]_sourceVars
    PROVE  \/ \E u \in Uris : Stores(u) \/ Raises(u) \/ Removed(u)
           \/ UNCHANGED sourceVars
<1> USE SourceManagerAssumption
<1>1. CASE UNCHANGED sourceVars
    BY <1>1
<1>2. ASSUME NEW u \in Uris, NEW t \in Texts, NEW v \in Versions, Update(u, t, v)
      PROVE  Stores(u) \/ Raises(u) \/ UNCHANGED sourceVars
    <2>1. CASE Rejected(u, t, v) \/ Unchanged(u, t, v)
        BY <2>1 DEF Rejected, Unchanged
    <2>2. CASE VersionOnly(u, t, v)
        BY <2>2 DEF Raises
    <2>3. CASE ContentChanged(u, t, v)
        <3> DEFINE d == VisibleVersion(u, v)
        <3>1. /\ u \in DOMAIN identities
              /\ identities[u].documentVersion \in Nat
            BY <2>3 DEF ContentChanged, Live, MapsAgree, TypeOK, SourceIdentity
        <3>2. d \in Nat /\ d >= identities[u].documentVersion
            <4>1. v \in Nat /\ (v = 0 \/ ~(v < identities[u].documentVersion))
                BY <2>3 DEF ContentChanged, OutdatedVersion
            <4>2. CASE v = 0
                BY <3>1, <4>2 DEF VisibleVersion
            <4>3. CASE v # 0
                <5>1. d = v
                    BY <4>3 DEF VisibleVersion
                <5> HIDE DEF d
                <5> QED BY <3>1, <4>1, <4>3, <5>1
            <4> QED BY <4>2, <4>3
        <3>3. Store(u, t, v, FreshIdentity(t, d)) /\ u \in Uris \ InvalidUris
            BY <2>3 DEF ContentChanged
        <3> QED BY <3>2, <3>3 DEF Stores
    <2>4. CASE Added(u, t, v) \/ Reintroduced(u, t, v)
        <3>1. /\ u \in Uris \ InvalidUris /\ u \notin DOMAIN identities
              /\ Store(u, t, v, FreshIdentity(t, v)) /\ v \in Nat
            BY <2>4 DEF Added, Reintroduced, Live, MapsAgree
        <3> QED BY <3>1 DEF Stores
    <2> QED BY <1>2, <2>1, <2>2, <2>3, <2>4 DEF Update
<1>3. ASSUME NEW u \in Uris, Removed(u) \/ RemoveAbsent(u)
      PROVE  Removed(u) \/ UNCHANGED sourceVars
    BY <1>3 DEF RemoveAbsent
<1> QED BY <1>1, <1>2, <1>3 DEF Next

-----------------------------------------------------------------------------

\* The inductive invariant of the store: that new stamps are unique rests on no
\* stamp being ahead of its counter, and that on the maps being disjoint.
StoreInv == TypeOK /\ MapsAgree /\ StampsUnique

\* An empty store satisfies the invariant.
LEMMA InitEstablishesStoreInv == Init => StoreInv
BY SourceManagerAssumption
DEF Init, StoreInv, TypeOK, MapsAgree, StampsUnique, Stamped, EmptyMap

\* Storing bytes under a fresh stamp preserves the invariant.
LEMMA StorePreserves ==
    ASSUME StoreInv, NEW u \in Uris, Stores(u)
    PROVE  StoreInv'
<1> USE SourceManagerAssumption
<1>1. PICK t \in Texts, v \in Versions, d \in Nat :
         /\ u \in Uris \ InvalidUris
         /\ Store(u, t, v, FreshIdentity(t, d))
    BY DEF Stores
<1> DEFINE id == FreshIdentity(t, d)
           buf == [text |-> t, version |-> v]
<1>2. /\ id \in SourceIdentity /\ buf \in SourceBuffer
      /\ id.contentRevision = nextContentRevision + 1
      /\ id.sourceGeneration = generation + 1
      /\ id.digest = Digest[t]
    BY DEF FreshIdentity, SourceIdentity, SourceBuffer, StoreInv, TypeOK
<1>3. /\ sources' = [x \in DOMAIN sources \cup {u} |-> IF x = u THEN buf ELSE sources[x]]
      /\ identities' =
            [x \in DOMAIN identities \cup {u} |-> IF x = u THEN id ELSE identities[x]]
      /\ removedIdentities' = [x \in DOMAIN removedIdentities \ {u} |-> removedIdentities[x]]
      /\ nextContentRevision' = nextContentRevision + 1
      /\ generation' = generation + 1
    BY <1>1 DEF Store, Put, Drop
<1> HIDE DEF id, buf
<1>4. TypeOK'
    <2>1. sources' \in [DOMAIN sources' -> SourceBuffer]
        BY <1>2, <1>3 DEF StoreInv, TypeOK
    <2>2. identities' \in [DOMAIN identities' -> SourceIdentity]
        BY <1>2, <1>3 DEF StoreInv, TypeOK
    <2>3. removedIdentities' \in [DOMAIN removedIdentities' -> SourceIdentity]
        BY <1>3 DEF StoreInv, TypeOK
    <2> QED BY <1>1, <1>3, <2>1, <2>2, <2>3 DEF StoreInv, TypeOK
<1>5. MapsAgree'
    BY <1>2, <1>3 DEF StoreInv, MapsAgree, buf
<1>6. StampsUnique'
    <2>1. /\ Stamped' = Stamped \cup {u}
          /\ \A x \in Stamped' : Stamp(x)' = IF x = u THEN id ELSE Stamp(x)
        BY <1>3 DEF Stamped, Stamp, StoreInv, MapsAgree
    <2>2. nextContentRevision \in Nat /\ generation \in Nat
        BY DEF StoreInv, TypeOK
    <2>3. \A x \in Stamped : /\ Stamp(x).contentRevision \in 1..nextContentRevision
                             /\ Stamp(x).sourceGeneration \in 1..generation
        BY DEF StoreInv, StampsUnique
    <2>4. \A x \in Stamped' :
              /\ Stamp(x)'.contentRevision \in 1..(nextContentRevision + 1)
              /\ Stamp(x)'.sourceGeneration \in 1..(generation + 1)
        BY <1>2, <2>1, <2>2, <2>3
    <2>5. ASSUME NEW x \in Stamped', NEW y \in Stamped', x # y
          PROVE  /\ Stamp(x)'.contentRevision # Stamp(y)'.contentRevision
                 /\ Stamp(x)'.sourceGeneration # Stamp(y)'.sourceGeneration
        <3>1. CASE x # u /\ y # u
            BY <2>1, <2>5, <3>1 DEF StoreInv, StampsUnique
        <3>2. CASE x = u \/ y = u
            BY <1>2, <2>1, <2>2, <2>3, <2>5, <3>2
        <3> QED BY <3>1, <3>2
    <2> QED BY <1>3, <2>4, <2>5 DEF StampsUnique
<1> QED BY <1>4, <1>5, <1>6 DEF StoreInv

\* Raising the visible version of a live source preserves the invariant.
LEMMA RaisePreserves ==
    ASSUME StoreInv, NEW u \in Uris, Raises(u)
    PROVE  StoreInv'
<1> USE SourceManagerAssumption
<1>1. PICK t \in Texts, v \in Versions : VersionOnly(u, t, v)
    BY DEF Raises
<1>2. /\ u \in DOMAIN sources /\ u \in DOMAIN identities /\ v \in Nat
      /\ sources' = [sources EXCEPT ![u].version = v]
      /\ identities' = [identities EXCEPT ![u].documentVersion = v]
      /\ UNCHANGED <<removedIdentities, nextContentRevision, generation>>
    BY <1>1 DEF VersionOnly, Live, StoreInv, MapsAgree
<1>3. TypeOK'
    BY <1>2 DEF StoreInv, TypeOK, SourceBuffer, SourceIdentity
<1>4. /\ DOMAIN sources' = DOMAIN sources /\ DOMAIN identities' = DOMAIN identities
      /\ \A x \in DOMAIN sources : sources'[x].text = sources[x].text
      /\ \A x \in DOMAIN identities :
            /\ identities'[x].digest = identities[x].digest
            /\ identities'[x].contentRevision = identities[x].contentRevision
            /\ identities'[x].sourceGeneration = identities[x].sourceGeneration
    BY <1>2 DEF StoreInv, TypeOK, SourceBuffer, SourceIdentity
<1>5. MapsAgree'
    BY <1>2, <1>4 DEF StoreInv, MapsAgree
<1>6. StampsUnique'
    <2>1. /\ Stamped' = Stamped
          /\ \A x \in Stamped :
                /\ Stamp(x)'.contentRevision = Stamp(x).contentRevision
                /\ Stamp(x)'.sourceGeneration = Stamp(x).sourceGeneration
        BY <1>2, <1>4 DEF Stamped, Stamp
    <2> QED BY <1>2, <2>1 DEF StoreInv, StampsUnique
<1> QED BY <1>3, <1>5, <1>6 DEF StoreInv

\* Removing a live source preserves the invariant.
LEMMA RemovePreserves ==
    ASSUME StoreInv, NEW u \in Uris, Removed(u)
    PROVE  StoreInv'
<1> DEFINE id == [identities[u] EXCEPT !.sourceGeneration = generation + 1]
<1>1. /\ u \in DOMAIN sources /\ u \in DOMAIN identities
      /\ removedIdentities' = [x \in DOMAIN removedIdentities \cup {u} |->
                                  IF x = u THEN id ELSE removedIdentities[x]]
      /\ sources' = [x \in DOMAIN sources \ {u} |-> sources[x]]
      /\ identities' = [x \in DOMAIN identities \ {u} |-> identities[x]]
      /\ nextContentRevision' = nextContentRevision
      /\ generation' = generation + 1
    BY DEF Removed, Live, Put, Drop, StoreInv, MapsAgree
<1>2. /\ id \in SourceIdentity
      /\ id.contentRevision = identities[u].contentRevision
      /\ id.sourceGeneration = generation + 1
    BY <1>1 DEF StoreInv, TypeOK, SourceIdentity
<1> HIDE DEF id
<1>3. TypeOK'
    <2>1. sources' \in [DOMAIN sources' -> SourceBuffer]
        BY <1>1 DEF StoreInv, TypeOK
    <2>2. identities' \in [DOMAIN identities' -> SourceIdentity]
        BY <1>1 DEF StoreInv, TypeOK
    <2>3. removedIdentities' \in [DOMAIN removedIdentities' -> SourceIdentity]
        BY <1>1, <1>2 DEF StoreInv, TypeOK
    <2> QED BY <1>1, <2>1, <2>2, <2>3 DEF StoreInv, TypeOK
<1>4. MapsAgree'
    BY <1>1 DEF StoreInv, MapsAgree
<1>5. StampsUnique'
    <2>1. /\ Stamped' = Stamped /\ u \in Stamped
          /\ Stamp(u) = identities[u] /\ Stamp(u)' = id
          /\ \A x \in Stamped \ {u} : Stamp(x)' = Stamp(x)
        BY <1>1 DEF Stamped, Stamp, StoreInv, MapsAgree
    <2>2. /\ nextContentRevision \in Nat /\ generation \in Nat
          /\ \A x \in Stamped : /\ Stamp(x).contentRevision \in 1..nextContentRevision
                                /\ Stamp(x).sourceGeneration \in 1..generation
        BY DEF StoreInv, TypeOK, StampsUnique
    <2>3. \A x \in Stamped' : /\ Stamp(x)'.contentRevision \in 1..nextContentRevision
                              /\ Stamp(x)'.sourceGeneration \in 1..(generation + 1)
        BY <1>2, <2>1, <2>2
    <2>4. ASSUME NEW x \in Stamped, NEW y \in Stamped, x # y
          PROVE  /\ Stamp(x)'.contentRevision # Stamp(y)'.contentRevision
                 /\ Stamp(x)'.sourceGeneration # Stamp(y)'.sourceGeneration
        <3>1. /\ Stamp(x).contentRevision # Stamp(y).contentRevision
              /\ Stamp(x).sourceGeneration # Stamp(y).sourceGeneration
            BY <2>4 DEF StoreInv, StampsUnique
        <3> QED BY <1>2, <2>1, <2>2, <2>4, <3>1
    <2> QED BY <1>1, <2>1, <2>3, <2>4 DEF StampsUnique
<1> QED BY <1>3, <1>4, <1>5 DEF StoreInv

\* Every step of the store preserves the invariant.
LEMMA NextPreservesStoreInv == StoreInv /\ [Next]_sourceVars => StoreInv'
<1> SUFFICES ASSUME StoreInv, [Next]_sourceVars PROVE StoreInv'
    OBVIOUS
<1>1. CASE UNCHANGED sourceVars
    BY <1>1 DEF StoreInv, sourceVars, TypeOK, MapsAgree, StampsUnique, Stamped, Stamp
<1>2. CASE \E u \in Uris : Stores(u) \/ Raises(u) \/ Removed(u)
    BY <1>2, StorePreserves, RaisePreserves, RemovePreserves
<1> QED BY <1>1, <1>2, StepShapes DEF StoreInv

\* The inductive invariant holds in every reachable state.
THEOREM StoreInvariant == Spec => []StoreInv
<1> QED BY InitEstablishesStoreInv, NextPreservesStoreInv, PTL DEF Spec

\* The variables of the store keep their types; no refused URI is ever stored.
THEOREM TypeCorrect == Spec => []TypeOK
<1>1. StoreInv => TypeOK
    BY DEF StoreInv
<1> QED BY <1>1, StoreInvariant, PTL

\* sources_, identities_ and removedIdentities_ agree in every reachable state.
THEOREM MapsAlwaysAgree == Spec => []MapsAgree
<1>1. StoreInv => MapsAgree
    BY DEF StoreInv
<1> QED BY <1>1, StoreInvariant, PTL

\* No revision and no generation is ever carried by two URIs.
THEOREM StampsAlwaysUnique == Spec => []StampsUnique
<1>1. StoreInv => StampsUnique
    BY DEF StoreInv
<1> QED BY <1>1, StoreInvariant, PTL

-----------------------------------------------------------------------------
(* Action properties, from the invariant and the three step shapes.        *)

\* A live identity after a step either has a revision beyond all revisions
\* issued before it, or its source was live with that revision and those bytes.
LEMMA StepPinsBytes ==
    ASSUME StoreInv, [Next]_sourceVars
    PROVE  /\ nextContentRevision' >= nextContentRevision
           /\ \A u \in DOMAIN identities' :
                  identities'[u].contentRevision <= nextContentRevision =>
                      /\ u \in DOMAIN sources /\ u \in DOMAIN identities
                      /\ identities[u].contentRevision = identities'[u].contentRevision
                      /\ sources[u].text = sources'[u].text
<1> DEFINE Pins ==
        /\ nextContentRevision' >= nextContentRevision
        /\ \A u \in DOMAIN identities' :
               identities'[u].contentRevision <= nextContentRevision =>
                   /\ u \in DOMAIN sources /\ u \in DOMAIN identities
                   /\ identities[u].contentRevision = identities'[u].contentRevision
                   /\ sources[u].text = sources'[u].text
<1>0. nextContentRevision \in Nat /\ DOMAIN identities = DOMAIN sources
    BY DEF StoreInv, TypeOK, MapsAgree
<1>1. CASE UNCHANGED sourceVars
    BY <1>0, <1>1 DEF sourceVars
<1>2. ASSUME NEW u \in Uris, Stores(u)
      PROVE  Pins
    <2>1. PICK t \in Texts, v \in Versions, d \in Nat :
             Store(u, t, v, FreshIdentity(t, d))
        BY <1>2 DEF Stores
    <2>2. /\ DOMAIN identities' = DOMAIN identities \cup {u}
          /\ identities'[u].contentRevision = nextContentRevision + 1
          /\ \A x \in DOMAIN identities \ {u} : identities'[x] = identities[x]
          /\ \A x \in DOMAIN sources \ {u} : sources'[x] = sources[x]
          /\ nextContentRevision' = nextContentRevision + 1
        BY <2>1 DEF Store, Put, FreshIdentity
    <2> QED BY <1>0, <2>2
<1>3. ASSUME NEW u \in Uris, Raises(u)
      PROVE  Pins
    <2>1. PICK t \in Texts, v \in Versions : VersionOnly(u, t, v)
        BY <1>3 DEF Raises
    <2>2. /\ u \in DOMAIN sources /\ nextContentRevision' = nextContentRevision
          /\ DOMAIN identities' = DOMAIN identities
          /\ \A x \in DOMAIN identities :
                 identities'[x].contentRevision = identities[x].contentRevision
          /\ \A x \in DOMAIN sources : sources'[x].text = sources[x].text
        BY <1>0, <2>1 DEF VersionOnly, Live, StoreInv, TypeOK, SourceBuffer, SourceIdentity
    <2> QED BY <1>0, <2>2
<1>4. ASSUME NEW u \in Uris, Removed(u)
      PROVE  Pins
    BY <1>0, <1>4 DEF Removed, Drop
<1> QED BY <1>1, <1>2, <1>3, <1>4, StepShapes DEF StoreInv

\* Bytes never appear under a content revision that was issued earlier, and
\* bytes with an issued revision never change.
THEOREM RevisionsPinBytes == Spec => RevisionPinsBytes
<1>1. ASSUME StoreInv, [Next]_sourceVars
      PROVE  [\A u \in DOMAIN identities' :
               identities'[u].contentRevision <= nextContentRevision =>
                   /\ u \in DOMAIN sources /\ u \in DOMAIN identities
                   /\ identities[u].contentRevision = identities'[u].contentRevision
                   /\ sources[u].text = sources'[u].text]_sourceVars
    BY <1>1, StepPinsBytes
<1> QED BY <1>1, StoreInvariant, PTL DEF Spec, RevisionPinsBytes

\* The document version of an identity never falls while its source is in the
\* session.
THEOREM IdentityVersionsAlwaysGrow == Spec => IdentityVersionsGrow
<1> DEFINE Keeps == \A u \in DOMAIN identities \cap DOMAIN identities' :
               identities'[u].documentVersion >= identities[u].documentVersion
<1>1. ASSUME StoreInv, [Next]_sourceVars
      PROVE  [Keeps]_sourceVars
    <2> USE SourceManagerAssumption
    <2>0. \A x \in DOMAIN identities : identities[x].documentVersion \in Nat
        BY <1>1 DEF StoreInv, TypeOK, SourceIdentity
    <2>1. CASE UNCHANGED sourceVars
        BY <2>1
    <2>2. ASSUME NEW u \in Uris, Stores(u)
          PROVE  Keeps
        <3>1. PICK t \in Texts, v \in Versions, d \in Nat :
                 /\ u \in DOMAIN identities => d >= identities[u].documentVersion
                 /\ Store(u, t, v, FreshIdentity(t, d))
            BY <2>2 DEF Stores
        <3>2. /\ identities'[u].documentVersion = d
              /\ \A x \in DOMAIN identities \ {u} : identities'[x] = identities[x]
            BY <3>1 DEF Store, Put, FreshIdentity
        <3> QED BY <2>0, <3>1, <3>2
    <2>3. ASSUME NEW u \in Uris, Raises(u)
          PROVE  Keeps
        <3>1. PICK t \in Texts, v \in Versions : VersionOnly(u, t, v)
            BY <2>3 DEF Raises
        <3>2. /\ u \in DOMAIN identities /\ v > identities[u].documentVersion
              /\ identities' = [identities EXCEPT ![u].documentVersion = v]
            BY <1>1, <3>1 DEF VersionOnly, Live, StoreInv, MapsAgree
        <3>3. /\ identities'[u].documentVersion = v
              /\ \A x \in DOMAIN identities \ {u} : identities'[x] = identities[x]
            BY <1>1, <3>2 DEF StoreInv, TypeOK, SourceIdentity
        <3> QED BY <2>0, <3>2, <3>3
    <2>4. ASSUME NEW u \in Uris, Removed(u)
          PROVE  Keeps
        BY <1>1, <2>0, <2>4 DEF Removed, Drop
    <2> QED BY <1>1, <2>1, <2>2, <2>3, <2>4, StepShapes DEF StoreInv
<1> QED BY <1>1, StoreInvariant, PTL DEF Spec, IdentityVersionsGrow

-----------------------------------------------------------------------------
(* Lemmas about the reverse indexes.                                       *)

\* Erasing the edges of one source leaves the index exact for the others.
LEMMA EraseEdgesExact ==
    ASSUME NEW reverse, NEW forward, NEW u \in DOMAIN forward,
           Exact(reverse, forward)
    PROVE  Exact(EraseEdges(reverse, forward[u], u), Drop(forward, {u}))
<1> DEFINE erased == EraseEdges(reverse, forward[u], u)
           rest   == Drop(forward, {u})
<1>1. /\ DOMAIN rest = DOMAIN forward \ {u}
      /\ \A x \in DOMAIN rest : rest[x] = forward[x]
    BY DEF Drop
<1>2. /\ DOMAIN erased = {n \in DOMAIN reverse : n \in forward[u] => reverse[n] # {u}}
      /\ \A m \in DOMAIN erased :
            erased[m] = IF m \in forward[u] THEN reverse[m] \ {u} ELSE reverse[m]
    BY DEF EraseEdges
<1>3. /\ \A m : m \in DOMAIN reverse <=> \E x \in DOMAIN forward : m \in forward[x]
      /\ \A m \in DOMAIN reverse : reverse[m] = {x \in DOMAIN forward : m \in forward[x]}
    BY DEF Exact
<1> HIDE DEF erased, rest
<1>4. \A m : m \in DOMAIN erased <=> \E x \in DOMAIN rest : m \in rest[x]
    <2>1. ASSUME NEW m, m \in DOMAIN erased
          PROVE  \E x \in DOMAIN rest : m \in rest[x]
        <3>1. m \in DOMAIN reverse /\ (m \in forward[u] => reverse[m] # {u})
            BY <1>2, <2>1
        <3>2. PICK x \in DOMAIN forward : m \in forward[x] /\ x # u
            <4>1. PICK y \in DOMAIN forward : m \in forward[y]
                BY <1>3, <3>1
            <4>2. CASE y # u
                BY <4>1, <4>2
            <4>3. CASE y = u
                <5>1. u \in reverse[m] /\ reverse[m] # {u}
                    BY <1>3, <3>1, <4>1, <4>3
                <5>2. PICK z \in reverse[m] : z # u
                    BY <5>1
                <5> QED BY <1>3, <3>1, <5>2
            <4> QED BY <4>2, <4>3
        <3> QED BY <1>1, <3>2
    <2>2. ASSUME NEW m, NEW x \in DOMAIN rest, m \in rest[x]
          PROVE  m \in DOMAIN erased
        <3>1. x \in DOMAIN forward /\ x # u /\ m \in forward[x]
            BY <1>1, <2>2
        <3>2. m \in DOMAIN reverse /\ x \in reverse[m]
            BY <1>3, <3>1
        <3> QED BY <1>2, <3>1, <3>2
    <2> QED BY <2>1, <2>2
<1>5. ASSUME NEW m \in DOMAIN erased
      PROVE  erased[m] = {x \in DOMAIN rest : m \in rest[x]}
    <2>1. m \in DOMAIN reverse
        BY <1>2, <1>5
    <2>2. ASSUME NEW x
          PROVE  x \in erased[m] <=> x \in DOMAIN rest /\ m \in rest[x]
        <3>1. x \in reverse[m] <=> x \in DOMAIN forward /\ m \in forward[x]
            BY <1>3, <2>1
        <3>2. x \in DOMAIN rest <=> x \in DOMAIN forward /\ x # u
            BY <1>1
        <3>3. CASE m \in forward[u]
            BY <1>1, <1>2, <1>5, <3>1, <3>2, <3>3
        <3>4. CASE m \notin forward[u]
            BY <1>1, <1>2, <1>5, <3>1, <3>2, <3>4
        <3> QED BY <3>3, <3>4
    <2> QED BY <2>2
<1>6. DOMAIN erased = UNION {rest[x] : x \in DOMAIN rest}
    BY <1>4
<1> QED BY <1>5, <1>6 DEF Exact, erased, rest

\* Adding the edges of a source that had none leaves the index exact.
LEMMA AddEdgesExact ==
    ASSUME NEW reverse, NEW forward, NEW u, u \notin DOMAIN forward, NEW models,
           Exact(reverse, forward)
    PROVE  Exact(AddEdges(reverse, models, u), Put(forward, u, models))
<1> DEFINE added == AddEdges(reverse, models, u)
           all   == Put(forward, u, models)
<1>1. /\ DOMAIN all = DOMAIN forward \cup {u}
      /\ all[u] = models
      /\ \A x \in DOMAIN forward : all[x] = forward[x]
    BY DEF Put
<1>2. /\ DOMAIN added = DOMAIN reverse \cup models
      /\ \A m \in DOMAIN added :
            added[m] = IF m \in models
                       THEN (IF m \in DOMAIN reverse THEN reverse[m] ELSE {}) \cup {u}
                       ELSE reverse[m]
    BY DEF AddEdges, UrisOf
<1>3. /\ \A m : m \in DOMAIN reverse <=> \E x \in DOMAIN forward : m \in forward[x]
      /\ \A m \in DOMAIN reverse : reverse[m] = {x \in DOMAIN forward : m \in forward[x]}
    BY DEF Exact
<1> HIDE DEF added, all
<1>4. \A m : m \in DOMAIN added <=> \E x \in DOMAIN all : m \in all[x]
    BY <1>1, <1>2, <1>3
<1>5. ASSUME NEW m \in DOMAIN added
      PROVE  added[m] = {x \in DOMAIN all : m \in all[x]}
    <2>1. ASSUME NEW x
          PROVE  x \in added[m] <=> x \in DOMAIN all /\ m \in all[x]
        <3>1. m \in DOMAIN reverse =>
                 (x \in reverse[m] <=> x \in DOMAIN forward /\ m \in forward[x])
            BY <1>3
        <3>2. m \notin DOMAIN reverse => ~(x \in DOMAIN forward /\ m \in forward[x])
            BY <1>3
        <3>3. /\ x \in DOMAIN all <=> x \in DOMAIN forward \/ x = u
              /\ x \in DOMAIN forward => x # u /\ all[x] = forward[x]
            BY <1>1
        <3>4. CASE m \in models
            <4>1. x \in added[m] <=> (m \in DOMAIN reverse /\ x \in reverse[m]) \/ x = u
                <5>1. added[m] = (IF m \in DOMAIN reverse THEN reverse[m] ELSE {}) \cup {u}
                    BY <1>2, <1>5, <3>4
                <5> QED BY <5>1
            <4> QED BY <1>1, <3>1, <3>2, <3>3, <3>4, <4>1
        <3>5. CASE m \notin models
            <4>1. m \in DOMAIN reverse /\ added[m] = reverse[m]
                BY <1>2, <1>5, <3>5
            <4> QED BY <1>1, <3>1, <3>3, <3>5, <4>1
        <3> QED BY <3>4, <3>5
    <2> QED BY <2>1
<1>6. DOMAIN added = UNION {all[x] : x \in DOMAIN all}
    BY <1>4
<1> QED BY <1>5, <1>6 DEF Exact, added, all

-----------------------------------------------------------------------------
(* The reverse maps of a session.                                          *)

\* The shape of the two indexes: records with their fields.
IndexShape ==
    /\ modelIndex = [records   |-> modelIndex.records,
                     definers  |-> modelIndex.definers,
                     requirers |-> modelIndex.requirers]
    /\ dependencyIndex = [requiredByUri       |-> dependencyIndex.requiredByUri,
                          urisByRequiredModel |-> dependencyIndex.urisByRequiredModel]

\* The inductive invariant behind IndexesMirrorSources.
IndexInv == StoreInv /\ IndexShape /\ IndexesMirrorSources

\* Indexing the new bytes of one source keeps both indexes exact.
LEMMA ReplaceRecordExact ==
    ASSUME NEW index, NEW uri, NEW record,
           index = [records   |-> index.records,
                    definers  |-> index.definers,
                    requirers |-> index.requirers],
           Exact(index.definers, Declared(index)),
           Exact(index.requirers, Required(index))
    PROVE  LET new == ReplaceRecord(index, uri, record)
           IN  /\ new = [records   |-> Put(index.records, uri, record),
                         definers  |-> new.definers,
                         requirers |-> new.requirers]
               /\ Exact(new.definers, Declared(new))
               /\ Exact(new.requirers, Required(new))
<1> DEFINE cleared == IF uri \in DOMAIN index.records THEN RemoveReverse(index, uri) ELSE index
           rest(forward) == Drop(forward, {uri})
           new == ReplaceRecord(index, uri, record)
<1>1. /\ cleared = [records |-> index.records, definers |-> cleared.definers,
                    requirers |-> cleared.requirers]
      /\ Exact(cleared.definers, rest(Declared(index)))
      /\ Exact(cleared.requirers, rest(Required(index)))
    <2>1. CASE uri \in DOMAIN index.records
        <3>1. /\ cleared = [records   |-> index.records,
                            definers  |-> EraseEdges(index.definers, Declared(index)[uri], uri),
                            requirers |-> EraseEdges(index.requirers, Required(index)[uri], uri)]
              /\ uri \in DOMAIN Declared(index) /\ uri \in DOMAIN Required(index)
            BY <2>1 DEF RemoveReverse, Declared, Required
        <3> QED BY <3>1, EraseEdgesExact
    <2>2. CASE uri \notin DOMAIN index.records
        <3>1. cleared = index
            BY <2>2
        <3>2. rest(Declared(index)) = Declared(index) /\ rest(Required(index)) = Required(index)
            BY <2>2 DEF Drop, Declared, Required
        <3> QED BY <3>1, <3>2
    <2> QED BY <2>1, <2>2
<1>2. new = [records   |-> Put(index.records, uri, record),
             definers  |-> AddEdges(cleared.definers, record.declaredModels, uri),
             requirers |-> AddEdges(cleared.requirers, record.requiredModels, uri)]
    <2> DEFINE stored == [cleared EXCEPT !.records = Put(@, uri, record)]
    <2>1. stored = [records |-> Put(index.records, uri, record),
                    definers |-> cleared.definers, requirers |-> cleared.requirers]
        BY <1>1
    <2>2. Put(index.records, uri, record)[uri] = record
        BY DEF Put
    <2>3. new = AddReverse(stored, uri)
        BY DEF ReplaceRecord
    <2> HIDE DEF cleared, stored, new
    <2> QED BY <2>1, <2>2, <2>3 DEF AddReverse
<1>3. /\ uri \notin DOMAIN rest(Declared(index)) /\ uri \notin DOMAIN rest(Required(index))
      /\ Declared(new) = Put(rest(Declared(index)), uri, record.declaredModels)
      /\ Required(new) = Put(rest(Required(index)), uri, record.requiredModels)
    BY <1>2 DEF Declared, Required, Drop, Put
<1> HIDE DEF cleared, rest, new
<1>4. Exact(new.definers, Declared(new))
    BY <1>1, <1>2, <1>3, AddEdgesExact
<1>5. Exact(new.requirers, Required(new))
    BY <1>1, <1>2, <1>3, AddEdgesExact
<1> QED BY <1>2, <1>4, <1>5 DEF new

\* Forgetting one source keeps the model index exact.
LEMMA RemoveRecordExact ==
    ASSUME NEW index, NEW uri \in DOMAIN index.records,
           index = [records   |-> index.records,
                    definers  |-> index.definers,
                    requirers |-> index.requirers],
           Exact(index.definers, Declared(index)),
           Exact(index.requirers, Required(index))
    PROVE  LET new == RemoveRecord(index, uri)
           IN  /\ new = [records   |-> Drop(index.records, {uri}),
                         definers  |-> new.definers,
                         requirers |-> new.requirers]
               /\ Exact(new.definers, Declared(new))
               /\ Exact(new.requirers, Required(new))
<1> DEFINE new == RemoveRecord(index, uri)
<1>1. /\ new = [records   |-> Drop(index.records, {uri}),
                definers  |-> EraseEdges(index.definers, Declared(index)[uri], uri),
                requirers |-> EraseEdges(index.requirers, Required(index)[uri], uri)]
      /\ uri \in DOMAIN Declared(index) /\ uri \in DOMAIN Required(index)
    BY DEF RemoveRecord, RemoveReverse, Declared, Required
<1>2. /\ Declared(new) = Drop(Declared(index), {uri})
      /\ Required(new) = Drop(Required(index), {uri})
    BY <1>1 DEF Declared, Required, Drop
<1> HIDE DEF new
<1> QED BY <1>1, <1>2, EraseEdgesExact DEF new

\* The same for the dependency index.
LEMMA RemoveDependenciesExact ==
    ASSUME NEW index, NEW uri,
           index = [requiredByUri       |-> index.requiredByUri,
                    urisByRequiredModel |-> index.urisByRequiredModel],
           index.requiredByUri = [u \in DOMAIN index.requiredByUri |-> index.requiredByUri[u]],
           Exact(index.urisByRequiredModel, index.requiredByUri)
    PROVE  LET new == RemoveDependencies(index, uri)
           IN  /\ new = [requiredByUri       |-> Drop(index.requiredByUri, {uri}),
                         urisByRequiredModel |-> new.urisByRequiredModel]
               /\ Exact(new.urisByRequiredModel, new.requiredByUri)
<1>1. CASE uri \in DOMAIN index.requiredByUri
    BY <1>1, EraseEdgesExact DEF RemoveDependencies
<1>2. CASE uri \notin DOMAIN index.requiredByUri
    <2>1. Drop(index.requiredByUri, {uri}) = index.requiredByUri
        BY <1>2 DEF Drop
    <2> QED BY <1>2, <2>1 DEF RemoveDependencies
<1> QED BY <1>1, <1>2

\* Replacing the dependencies of one source keeps the dependency index exact.
LEMMA ReplaceDependenciesExact ==
    ASSUME NEW index, NEW uri, NEW models,
           index = [requiredByUri       |-> index.requiredByUri,
                    urisByRequiredModel |-> index.urisByRequiredModel],
           index.requiredByUri = [u \in DOMAIN index.requiredByUri |-> index.requiredByUri[u]],
           Exact(index.urisByRequiredModel, index.requiredByUri)
    PROVE  LET new == ReplaceDependencies(index, uri, models)
           IN  /\ new = [requiredByUri       |-> Put(index.requiredByUri, uri, models),
                         urisByRequiredModel |-> new.urisByRequiredModel]
               /\ Exact(new.urisByRequiredModel, new.requiredByUri)
<1> DEFINE cleared == RemoveDependencies(index, uri)
           new == ReplaceDependencies(index, uri, models)
<1>1. /\ cleared.requiredByUri = Drop(index.requiredByUri, {uri})
      /\ Exact(cleared.urisByRequiredModel, cleared.requiredByUri)
    BY RemoveDependenciesExact
<1>2. /\ uri \notin DOMAIN Drop(index.requiredByUri, {uri})
      /\ Put(Drop(index.requiredByUri, {uri}), uri, models)
            = Put(index.requiredByUri, uri, models)
    BY DEF Put, Drop
<1>3. new = [requiredByUri       |-> Put(cleared.requiredByUri, uri, models),
             urisByRequiredModel |-> AddEdges(cleared.urisByRequiredModel, models, uri)]
    BY DEF ReplaceDependencies
<1> HIDE DEF cleared, new
<1>4. Exact(AddEdges(cleared.urisByRequiredModel, models, uri),
            Put(cleared.requiredByUri, uri, models))
    BY <1>1, <1>2, AddEdgesExact
<1> QED BY <1>1, <1>2, <1>3, <1>4 DEF new

-----------------------------------------------------------------------------
(* Steps of the session as steps of its parts.                             *)

\* What a step may do to the store and the indexes.
Indexes(u, t) ==
    /\ \E identity :
          /\ sources' = Put(sources, u, sources'[u]) /\ sources'[u].text = t
          /\ identities' = Put(identities, u, identity)
    /\ modelIndex' = ReplaceRecord(modelIndex, u,
                         ModelRecord(Header[t], ContentStamp(identities'[u])))
    /\ dependencyIndex' = ReplaceDependencies(dependencyIndex, u,
                              Elements(Header[t].requiredModels))

\* A removal forgets u in both indexes.
Forgets(u) ==
    /\ Removed(u)
    /\ modelIndex' = RemoveRecord(modelIndex, u)
    /\ dependencyIndex' = RemoveDependencies(dependencyIndex, u)

\* The other operations leave contents and indexes alone.
Keeps ==
    /\ UNCHANGED sourceVars \/ \E u \in Uris, t \in Texts, v \in Versions : VersionOnly(u, t, v)
    /\ UNCHANGED <<modelIndex, dependencyIndex>>

\* Every operation of a session is a step of its source store, and indexes one
\* source anew, forgets one, or leaves contents and indexes alone.
LEMMA SessionSteps ==
    ASSUME [SessionNext]_vars
    PROVE  /\ [Next]_sourceVars
           /\ Keeps \/ \E u \in Uris : Forgets(u) \/ \E t \in Texts : Indexes(u, t)
<1> USE IncrementalSessionAssumption
<1>1. CASE UNCHANGED vars
    BY <1>1 DEF vars, cacheState, sourceVars, Keeps
<1>2. ASSUME NEW doc \in Documents, NEW v \in Versions, UpdateSource(doc[1], doc[2], v)
      PROVE  /\ [Next]_sourceVars
             /\ Keeps \/ \E u \in Uris, t \in Texts : Indexes(u, t)
    <2> DEFINE u == doc[1]
               t == doc[2]
    <2>1. u \in Uris /\ t \in Texts
        OBVIOUS
    <2> HIDE DEF u, t
    <2>2. CASE UpdateKept(u, t, v)
        BY <2>1, <2>2 DEF UpdateKept, Next, Update, Keeps, cacheState, Rejected, Unchanged
    <2>3. CASE UpdateAdded(u, t, v) \/ UpdateChanged(u, t, v)
        <3>1. /\ Added(u, t, v) \/ ContentChanged(u, t, v) \/ Reintroduced(u, t, v)
              /\ modelIndex' = ReplaceRecord(modelIndex, u,
                                   ModelRecord(Header[t], ContentStamp(identities'[u])))
              /\ dependencyIndex' = ReplaceDependencies(dependencyIndex, u,
                                        Elements(Header[t].requiredModels))
            BY <2>3 DEF UpdateAdded, UpdateChanged, Reindex, ModelRecord
        <3>2. Next
            BY <2>1, <3>1 DEF Next, Update
        <3>3. PICK identity : Store(u, t, v, identity)
            BY <3>1 DEF Added, ContentChanged, Reintroduced
        <3>4. /\ sources'[u] = [text |-> t, version |-> v]
              /\ sources' = Put(sources, u, sources'[u])
              /\ identities' = Put(identities, u, identity)
            BY <3>3 DEF Store, Put
        <3> QED BY <2>1, <3>1, <3>2, <3>4 DEF Indexes
    <2> QED BY <1>2, <2>2, <2>3 DEF UpdateSource, u, t
<1>3. ASSUME NEW u \in Uris, RemoveSource(u)
      PROVE  [Next]_sourceVars /\ (Keeps \/ Forgets(u))
    BY <1>3 DEF RemoveSource, Next, RemoveAbsent, Keeps, cacheState, Forgets
<1>4. ASSUME \/ \E u \in Uris : Parse(u) \/ EditorSnapshot(u)
             \/ \E request \in Requests : CompileAndAnalyze(request) \/ CompileOnly(request)
             \/ ClearIncrementalCaches
      PROVE  UNCHANGED sourceVars /\ Keeps
    BY <1>4 DEF Parse, EditorSnapshot, Snapshot, CompileAndAnalyze, AnalyzeHit, AnalyzeMiss,
                CompileOnly, ClearIncrementalCaches, Keeps
<1> QED BY <1>1, <1>2, <1>3, <1>4 DEF SessionNext

-----------------------------------------------------------------------------
(* The indexes mirror the sources.                                         *)

\* An empty session satisfies the index invariant.
LEMMA InitEstablishesIndexInv == SessionInit => IndexInv
<1> SUFFICES ASSUME SessionInit PROVE IndexInv
    OBVIOUS
<1>1. StoreInv
    BY InitEstablishesStoreInv DEF SessionInit
<1>2. /\ modelIndex = [records |-> EmptyMap, definers |-> EmptyMap, requirers |-> EmptyMap]
      /\ dependencyIndex = [requiredByUri |-> EmptyMap, urisByRequiredModel |-> EmptyMap]
      /\ sources = EmptyMap
    BY DEF SessionInit, EmptyModelIndex, EmptyDependencyIndex, Init
<1>3. IndexShape
    BY <1>2 DEF IndexShape
<1>4. Declared(modelIndex) = EmptyMap /\ Required(modelIndex) = EmptyMap
    BY <1>2 DEF Declared, Required, EmptyMap
<1>5. Exact(EmptyMap, EmptyMap)
    BY DEF Exact, EmptyMap
<1>6. modelIndex.records = [u \in DOMAIN sources |->
              ModelRecord(Header[sources[u].text], ContentStamp(identities[u]))]
    BY <1>2 DEF EmptyMap
<1> QED BY <1>1, <1>2, <1>3, <1>4, <1>5, <1>6 DEF IndexInv, IndexesMirrorSources, IndexesExact

\* Every operation of the session preserves the index invariant.
LEMMA NextPreservesIndexInv == IndexInv /\ [SessionNext]_vars => IndexInv'
<1> SUFFICES ASSUME IndexInv, [SessionNext]_vars PROVE IndexInv'
    OBVIOUS
<1> DEFINE Records == [u \in DOMAIN sources |->
                         ModelRecord(Header[sources[u].text], ContentStamp(identities[u]))]
<1>1. StoreInv'
    BY SessionSteps, NextPreservesStoreInv DEF IndexInv
<1>2. /\ IndexShape
      /\ modelIndex.records = Records
      /\ dependencyIndex.requiredByUri = Required(modelIndex)
      /\ Exact(modelIndex.definers, Declared(modelIndex))
      /\ Exact(modelIndex.requirers, Required(modelIndex))
      /\ Exact(dependencyIndex.urisByRequiredModel, dependencyIndex.requiredByUri)
      /\ DOMAIN identities = DOMAIN sources
    BY DEF IndexInv, IndexesMirrorSources, IndexesExact, StoreInv, MapsAgree
<1>3. dependencyIndex.requiredByUri =
          [u \in DOMAIN dependencyIndex.requiredByUri |-> dependencyIndex.requiredByUri[u]]
    BY <1>2 DEF Required
<1>4. CASE Keeps
    <2>1. Records' = Records
        <3>1. CASE UNCHANGED sourceVars
            BY <3>1 DEF sourceVars
        <3>2. CASE \E u \in Uris, t \in Texts, v \in Versions : VersionOnly(u, t, v)
            <4>1. PICK u \in Uris, t \in Texts, v \in Versions : VersionOnly(u, t, v)
                BY <3>2
            <4>2. /\ DOMAIN sources' = DOMAIN sources
                  /\ \A x \in DOMAIN sources :
                        /\ sources'[x].text = sources[x].text
                        /\ ContentStamp(identities'[x]) = ContentStamp(identities[x])
                BY <1>2, <4>1 DEF VersionOnly, Live, IndexInv, StoreInv, TypeOK,
                                  SourceBuffer, SourceIdentity, ContentStamp
            <4> QED BY <4>2
        <3> QED BY <1>4, <3>1, <3>2 DEF Keeps
    <2>2. modelIndex' = modelIndex /\ dependencyIndex' = dependencyIndex
        BY <1>4 DEF Keeps
    <2>3. IndexShape'
        BY <1>2, <2>2 DEF IndexShape
    <2>4. Declared(modelIndex)' = Declared(modelIndex) /\ Required(modelIndex)' = Required(modelIndex)
        BY <2>2 DEF Declared, Required
    <2>5. /\ Exact(modelIndex.definers, Declared(modelIndex))'
          /\ Exact(modelIndex.requirers, Required(modelIndex))'
          /\ Exact(dependencyIndex.urisByRequiredModel, dependencyIndex.requiredByUri)'
        BY <1>2, <2>2, <2>4 DEF Exact
    <2> QED BY <1>1, <1>2, <2>1, <2>2, <2>3, <2>4, <2>5
            DEF IndexInv, IndexesMirrorSources, IndexesExact
<1>5. ASSUME NEW u \in Uris, NEW t \in Texts, Indexes(u, t)
      PROVE  IndexInv'
    <2> DEFINE record == ModelRecord(Header[t], ContentStamp(identities'[u]))
               newModels == ReplaceRecord(modelIndex, u, record)
               newDependencies == ReplaceDependencies(dependencyIndex, u, record.requiredModels)
    <2>1. /\ newModels = [records |-> Put(modelIndex.records, u, record),
                          definers |-> newModels.definers, requirers |-> newModels.requirers]
          /\ Exact(newModels.definers, Declared(newModels))
          /\ Exact(newModels.requirers, Required(newModels))
        BY <1>2, ReplaceRecordExact DEF IndexShape
    <2>2. /\ newDependencies =
                [requiredByUri |-> Put(dependencyIndex.requiredByUri, u, record.requiredModels),
                 urisByRequiredModel |-> newDependencies.urisByRequiredModel]
          /\ Exact(newDependencies.urisByRequiredModel, newDependencies.requiredByUri)
        BY <1>2, <1>3, ReplaceDependenciesExact DEF IndexShape
    <2>3. modelIndex' = newModels /\ dependencyIndex' = newDependencies
        BY <1>5 DEF Indexes, ModelRecord
    <2>4. Put(modelIndex.records, u, record) = Records'
        <3>1. /\ DOMAIN sources' = DOMAIN sources \cup {u}
              /\ sources'[u].text = t
              /\ \A x \in DOMAIN sources \ {u} :
                    sources'[x] = sources[x] /\ identities'[x] = identities[x]
            BY <1>2, <1>5 DEF Indexes, Put
        <3> QED BY <1>2, <3>1 DEF Put
    <2>5. Put(dependencyIndex.requiredByUri, u, record.requiredModels) = Required(newModels)
        <3>1. newModels.records = Put(modelIndex.records, u, record)
            BY <2>1
        <3> HIDE DEF record, newModels
        <3>2. /\ DOMAIN newModels.records = DOMAIN modelIndex.records \cup {u}
              /\ \A x \in DOMAIN newModels.records :
                    newModels.records[x] = IF x = u THEN record ELSE modelIndex.records[x]
            BY <3>1 DEF Put
        <3> DEFINE models == modelIndex.records
                   required == dependencyIndex.requiredByUri
        <3>3. required = [x \in DOMAIN models |-> models[x].requiredModels]
            BY <1>2 DEF Required
        <3> HIDE DEF models, required
        <3>4. Put(required, u, record.requiredModels) =
                 [x \in DOMAIN models \cup {u} |->
                     (IF x = u THEN record ELSE models[x]).requiredModels]
            BY <3>3 DEF Put
        <3>5. Required(newModels) =
                 [x \in DOMAIN models \cup {u} |->
                     (IF x = u THEN record ELSE models[x]).requiredModels]
            BY <3>2 DEF Required, models
        <3> QED BY <3>4, <3>5 DEF required
    <2> HIDE DEF record, newModels, newDependencies, Records
    <2>6. IndexShape'
        BY <2>1, <2>2, <2>3 DEF IndexShape
    <2>7. modelIndex'.records = Records' /\ dependencyIndex'.requiredByUri = Required(modelIndex')
        BY <2>1, <2>2, <2>3, <2>4, <2>5
    <2>8. IndexesExact(modelIndex', dependencyIndex')
        BY <2>1, <2>2, <2>3 DEF IndexesExact
    <2> QED BY <1>1, <2>6, <2>7, <2>8 DEF IndexInv, IndexesMirrorSources, Records
<1>6. ASSUME NEW u \in Uris, Forgets(u)
      PROVE  IndexInv'
    <2> DEFINE newModels == RemoveRecord(modelIndex, u)
               newDependencies == RemoveDependencies(dependencyIndex, u)
    <2>1. u \in DOMAIN modelIndex.records
        BY <1>2, <1>6 DEF Forgets, Removed, Live
    <2>2. /\ newModels = [records |-> Drop(modelIndex.records, {u}),
                          definers |-> newModels.definers, requirers |-> newModels.requirers]
          /\ Exact(newModels.definers, Declared(newModels))
          /\ Exact(newModels.requirers, Required(newModels))
        BY <1>2, <2>1, RemoveRecordExact DEF IndexShape
    <2>3. /\ newDependencies =
                [requiredByUri |-> Drop(dependencyIndex.requiredByUri, {u}),
                 urisByRequiredModel |-> newDependencies.urisByRequiredModel]
          /\ Exact(newDependencies.urisByRequiredModel, newDependencies.requiredByUri)
        BY <1>2, <1>3, RemoveDependenciesExact DEF IndexShape
    <2>4. modelIndex' = newModels /\ dependencyIndex' = newDependencies
        BY <1>6 DEF Forgets
    <2>5. Drop(modelIndex.records, {u}) = Records'
        <3>1. /\ DOMAIN sources' = DOMAIN sources \ {u}
              /\ \A x \in DOMAIN sources \ {u} :
                    sources'[x] = sources[x] /\ identities'[x] = identities[x]
            BY <1>2, <1>6 DEF Forgets, Removed, Drop
        <3> QED BY <1>2, <3>1 DEF Drop
    <2>6. Drop(dependencyIndex.requiredByUri, {u}) = Required(newModels)
        BY <1>2, <2>2 DEF Drop, Required
    <2> HIDE DEF newModels, newDependencies, Records
    <2>7. IndexShape'
        BY <2>2, <2>3, <2>4 DEF IndexShape
    <2>8. modelIndex'.records = Records' /\ dependencyIndex'.requiredByUri = Required(modelIndex')
        BY <2>2, <2>3, <2>4, <2>5, <2>6
    <2>9. IndexesExact(modelIndex', dependencyIndex')
        BY <2>2, <2>3, <2>4 DEF IndexesExact
    <2> QED BY <1>1, <2>7, <2>8, <2>9 DEF IndexInv, IndexesMirrorSources, Records
<1> QED BY <1>4, <1>5, <1>6, SessionSteps

\* After any history of updates, removals and reintroductions both indexes of a
\* session describe exactly the sources it holds.
THEOREM IndexesAlwaysMirrorSources == SessionSpec => []IndexesMirrorSources
<1>1. IndexInv => IndexesMirrorSources
    BY DEF IndexInv
<1> QED BY <1>1, InitEstablishesIndexInv, NextPreservesIndexInv, PTL DEF SessionSpec

-----------------------------------------------------------------------------
(* A cached analysis is only served for the bytes it was made from.        *)

\* An entry of the root cache is pinned: it remembers a text and a stamp for
\* each closure source, the stamp was issued, and as long as a live source
\* carries the revision of the stamp it holds that text.
Pinned(entry) ==
    /\ DOMAIN entry.result.texts = entry.closure
    /\ \A u \in entry.closure :
          /\ entry.stamps[u][1] \in 0..nextContentRevision
          /\ (u \in DOMAIN identities /\ identities[u].contentRevision = entry.stamps[u][1])
                => u \in DOMAIN sources /\ sources[u].text = entry.result.texts[u]

\* The inductive invariant behind HitsServeCurrentBytes.
PinnedInv ==
    /\ StoreInv
    /\ rootCache = [entries       |-> rootCache.entries,
                    recency       |-> rootCache.recency,
                    retainedBytes |-> rootCache.retainedBytes]
    /\ \A key \in DOMAIN rootCache.entries : Pinned(rootCache.entries[key])

\* The entries of a cache after a step that only takes entries away.
Within(new, old) ==
    /\ DOMAIN new \subseteq DOMAIN old
    /\ \A key \in DOMAIN new : new[key] = old[key]

\* Erasing, evicting and touching never alter an entry.
LEMMA CacheOperationsWithin ==
    ASSUME NEW cache, NEW keys, NEW n, NEW b
    PROVE  /\ Erase(cache, keys) = [entries       |-> Erase(cache, keys).entries,
                                    recency       |-> Erase(cache, keys).recency,
                                    retainedBytes |-> Erase(cache, keys).retainedBytes]
           /\ Within(Erase(cache, keys).entries, cache.entries)
           /\ LET evicted == EvictUntilWithinBudget(cache, n, b)
              IN  /\ evicted = [entries       |-> evicted.entries,
                                recency       |-> evicted.recency,
                                retainedBytes |-> evicted.retainedBytes]
                  /\ Within(evicted.entries, cache.entries)
<1>1. ASSUME NEW gone
      PROVE  /\ Erase(cache, gone) = [entries       |-> Erase(cache, gone).entries,
                                      recency       |-> Erase(cache, gone).recency,
                                      retainedBytes |-> Erase(cache, gone).retainedBytes]
             /\ Erase(cache, gone).entries = Drop(cache.entries, gone \cap DOMAIN cache.entries)
    BY DEF Erase
<1>2. ASSUME NEW gone
      PROVE  Within(Erase(cache, gone).entries, cache.entries)
    BY <1>1 DEF Within, Drop
<1>3. PICK victims : EvictUntilWithinBudget(cache, n, b) = Erase(cache, victims)
    BY DEF EvictUntilWithinBudget
<1> QED BY <1>1, <1>2, <1>3

\* A step of the store keeps an entry pinned.
LEMMA StorePinned ==
    ASSUME StoreInv, [Next]_sourceVars, NEW entry, Pinned(entry)
    PROVE  Pinned(entry)'
<1>1. nextContentRevision \in Nat /\ nextContentRevision' \in Nat
    BY NextPreservesStoreInv DEF StoreInv, TypeOK
<1>2. StoreInv'
    BY NextPreservesStoreInv
<1>3. ASSUME NEW u \in entry.closure
      PROVE  entry.stamps[u][1] \in 0..nextContentRevision'
    BY <1>1, <1>3, StepPinsBytes DEF Pinned
<1>4. ASSUME NEW u \in entry.closure, u \in DOMAIN identities',
             identities'[u].contentRevision = entry.stamps[u][1]
      PROVE  u \in DOMAIN sources' /\ sources'[u].text = entry.result.texts[u]
    <2>1. identities'[u].contentRevision <= nextContentRevision
        BY <1>1, <1>4 DEF Pinned
    <2>2. /\ u \in DOMAIN identities
          /\ identities[u].contentRevision = identities'[u].contentRevision
          /\ sources[u].text = sources'[u].text
        BY <1>4, <2>1, StepPinsBytes
    <2>3. sources[u].text = entry.result.texts[u]
        BY <1>4, <2>2 DEF Pinned
    <2>4. u \in DOMAIN sources'
        BY <1>2, <1>4 DEF StoreInv, MapsAgree
    <2> QED BY <2>2, <2>3, <2>4
<1> QED BY <1>3, <1>4 DEF Pinned

\* The entry a miss inserts.
NewEntry(request) ==
    LET run    == Compile(request, TextsOf(sources))
        stamps == [u \in ToSet(run.closure) |-> ContentStamp(identities[u])]
    IN  RootEntry(request, run.closure, stamps, Analysis(request, run, sources))

\* It is pinned.
LEMMA NewEntryPinned ==
    ASSUME StoreInv, NEW request \in Requests
    PROVE  Pinned(NewEntry(request))
<1> DEFINE run == Compile(request, TextsOf(sources))
           C   == ToSet(run.closure)
           stamps == [u \in C |-> ContentStamp(identities[u])]
           entry == RootEntry(request, run.closure, stamps, Analysis(request, run, sources))
<1>0. entry = NewEntry(request)
    BY DEF NewEntry
<1>1. C \subseteq DOMAIN sources
    <2>1. DOMAIN sources \in SUBSET Uris /\ TextsOf(sources) \in [DOMAIN sources -> Texts]
        BY DEF StoreInv, TypeOK, TextsOf, SourceBuffer
    <2>2. run.closure \in Seq(DOMAIN sources)
        BY <2>1, IncrementalSessionAssumption
    <2>3. \A s \in Seq(DOMAIN sources) : ToSet(s) \subseteq DOMAIN sources
        BY DEF ToSet
    <2> QED BY <2>2, <2>3
<1>2. /\ entry.closure = C /\ entry.stamps = stamps
      /\ entry.result.texts = [u \in C |-> sources[u].text]
    BY DEF RootEntry, Analysis
<1>3. /\ DOMAIN identities = DOMAIN sources /\ nextContentRevision \in Nat
      /\ \A u \in DOMAIN identities : identities[u].contentRevision \in 1..nextContentRevision
    BY DEF StoreInv, TypeOK, MapsAgree, StampsUnique, Stamped, Stamp
<1> HIDE DEF C, entry
<1>4. \A u \in C : entry.stamps[u][1] = identities[u].contentRevision
    BY <1>2 DEF ContentStamp
<1>5. Pinned(entry)
    BY <1>1, <1>2, <1>3, <1>4, SMTT(30) DEF Pinned, C
<1> QED BY <1>0, <1>5

\* What an operation of the session may do to the root cache.
LEMMA RootCacheOperations ==
    ASSUME [SessionNext]_vars
    PROVE  \/ UNCHANGED rootCache
           \/ \E keys : rootCache' = Erase(rootCache, keys)
           \/ rootCache' = EmptyCache
           \/ \E key \in DOMAIN rootCache.entries : rootCache' = Touch(rootCache, key)
           \/ \E request \in Requests : AnalyzeMiss(request)
<1>1. CASE UNCHANGED vars
    BY <1>1 DEF vars, cacheState
<1>2. ASSUME NEW u, NEW t, NEW v, UpdateSource(u, t, v)
      PROVE  UNCHANGED rootCache \/ \E keys : rootCache' = Erase(rootCache, keys)
    BY <1>2 DEF UpdateSource, UpdateKept, UpdateAdded, UpdateChanged, cacheState,
                InvalidateIf, InvalidateBySource
<1>3. ASSUME NEW u, RemoveSource(u)
      PROVE  UNCHANGED rootCache \/ \E keys : rootCache' = Erase(rootCache, keys)
    BY <1>3 DEF RemoveSource, cacheState, InvalidateIf
<1>4. ASSUME NEW u, Parse(u) \/ EditorSnapshot(u)
      PROVE  UNCHANGED rootCache
    BY <1>4 DEF Parse, EditorSnapshot, Snapshot
<1>5. ASSUME NEW request \in Requests, CompileAndAnalyze(request) \/ CompileOnly(request)
      PROVE  UNCHANGED rootCache \/ (\E key \in DOMAIN rootCache.entries : rootCache' = Touch(rootCache, key))
                \/ AnalyzeMiss(request)
    BY <1>5 DEF CompileAndAnalyze, AnalyzeHit, CompileOnly, ExactMatches
<1>6. CASE ClearIncrementalCaches
    BY <1>6 DEF ClearIncrementalCaches
<1> QED BY <1>1, <1>2, <1>3, <1>4, <1>5, <1>6 DEF SessionNext

\* Entries go, and the entry computed for the request may come.
Gains(request) ==
    \A key \in DOMAIN rootCache'.entries :
        \/ rootCache'.entries[key] = NewEntry(request)
        \/ /\ key \in DOMAIN rootCache.entries
           /\ rootCache'.entries[key] = rootCache.entries[key]

\* Every operation of the session only removes entries from the root cache,
\* but for an analysis that misses, which adds the entry it has computed.
LEMMA RootCacheSteps ==
    ASSUME PinnedInv, [SessionNext]_vars
    PROVE  /\ rootCache' = [entries       |-> rootCache'.entries,
                            recency       |-> rootCache'.recency,
                            retainedBytes |-> rootCache'.retainedBytes]
           /\ \/ Within(rootCache'.entries, rootCache.entries)
              \/ UNCHANGED sourceVars /\ \E request \in Requests : Gains(request)
<1> DEFINE Shape(c) == c = [entries |-> c.entries, recency |-> c.recency,
                            retainedBytes |-> c.retainedBytes]
<1>0. Shape(rootCache) /\ StoreInv
    BY DEF PinnedInv
<1>1. CASE UNCHANGED rootCache
    BY <1>0, <1>1 DEF Within
<1>2. CASE \E keys : rootCache' = Erase(rootCache, keys)
    BY <1>2, CacheOperationsWithin
<1>3. CASE rootCache' = EmptyCache
    BY <1>3 DEF EmptyCache, EmptyMap, Within
<1>4. ASSUME NEW key, rootCache' = Touch(rootCache, key)
      PROVE  Shape(rootCache') /\ rootCache'.entries = rootCache.entries
    BY <1>0, <1>4 DEF Touch
<1>5. ASSUME NEW request \in Requests, AnalyzeMiss(request)
      PROVE  /\ Shape(rootCache')
             /\ UNCHANGED sourceVars /\ Gains(request)
    <2> DEFINE run    == Compile(request, TextsOf(sources))
               stamps == [u \in ToSet(run.closure) |-> ContentStamp(identities[u])]
               entry  == RootEntry(request, run.closure, stamps, Analysis(request, run, sources))
               new    == RootKey(request, run.closure, stamps)
               erased == Erase(rootCache, {new})
               filled == Insert(erased, new, entry)
    <2>1. /\ rootCache' = EvictUntilWithinBudget(filled, MaxRootEntries, MaxRootBytes)
          /\ UNCHANGED sourceVars
        BY <1>5 DEF AnalyzeMiss, InsertRoot
    <2>2. entry = NewEntry(request)
        BY DEF NewEntry
    <2> HIDE DEF run, stamps, entry, new
    <2>3. Within(erased.entries, rootCache.entries)
        BY CacheOperationsWithin
    <2>4. filled.entries = Put(erased.entries, new, entry)
        BY DEF Insert
    <2>5. Shape(rootCache') /\ Within(rootCache'.entries, filled.entries)
        BY <2>1, CacheOperationsWithin
    <2> HIDE DEF erased, filled
    <2>6. ASSUME NEW key \in DOMAIN rootCache'.entries
          PROVE  \/ rootCache'.entries[key] = entry
                 \/ /\ key \in DOMAIN rootCache.entries
                    /\ rootCache'.entries[key] = rootCache.entries[key]
        BY <2>3, <2>4, <2>5, <2>6 DEF Within, Put
    <2> QED BY <2>1, <2>2, <2>5, <2>6 DEF Gains
<1>6. \/ UNCHANGED rootCache
      \/ \E keys : rootCache' = Erase(rootCache, keys)
      \/ rootCache' = EmptyCache
      \/ \E key : rootCache' = Touch(rootCache, key)
      \/ \E request \in Requests : AnalyzeMiss(request)
    BY RootCacheOperations
<1>7. CASE \E key : rootCache' = Touch(rootCache, key)
    BY <1>4, <1>7 DEF Within
<1>8. CASE \E request \in Requests : AnalyzeMiss(request)
    BY <1>5, <1>8
<1> QED BY <1>1, <1>2, <1>3, <1>6, <1>7, <1>8

\* Every operation of the session preserves the pinning invariant.
LEMMA NextPreservesPinnedInv == PinnedInv /\ [SessionNext]_vars => PinnedInv'
<1> SUFFICES ASSUME PinnedInv, [SessionNext]_vars PROVE PinnedInv'
    OBVIOUS
<1>1. StoreInv /\ [Next]_sourceVars /\ StoreInv'
    BY SessionSteps, NextPreservesStoreInv DEF PinnedInv
<1>2. ASSUME NEW key \in DOMAIN rootCache'.entries
      PROVE  Pinned(rootCache'.entries[key])
    <2>1. CASE Within(rootCache'.entries, rootCache.entries)
        BY <1>2, <2>1 DEF PinnedInv, Within
    <2>2. CASE \E request \in Requests : Gains(request)
        BY <1>1, <1>2, <2>2, NewEntryPinned DEF PinnedInv, Gains
    <2> QED BY <2>1, <2>2, RootCacheSteps
<1>3. ASSUME NEW key \in DOMAIN rootCache'.entries
      PROVE  Pinned(rootCache.entries[key])'
    <2>1. PICK entry : entry = rootCache'.entries[key]
        OBVIOUS
    <2>2. Pinned(entry)
        BY <1>2, <2>1
    <2>3. Pinned(entry)'
        BY <1>1, <2>2, StorePinned
    <2> QED BY <2>1, <2>3 DEF Pinned
<1> QED BY <1>1, <1>3, RootCacheSteps DEF PinnedInv

\* Whatever the client did before, and however the compilation resolves
\* imports, a cached analysis is reused only if every source of its closure
\* still holds the bytes the analysis was made from.
THEOREM HitsAlwaysServeCurrentBytes == SessionSpec => []HitsServeCurrentBytes
<1>1. SessionInit => PinnedInv
    BY InitEstablishesStoreInv DEF SessionInit, PinnedInv, EmptyCache, EmptyMap
<1>2. PinnedInv => HitsServeCurrentBytes
    <2> SUFFICES ASSUME PinnedInv, NEW request \in Requests,
                        NEW key \in ExactMatches(rootCache, request, identities),
                        NEW u \in DOMAIN rootCache.entries[key].result.texts
                 PROVE  /\ u \in DOMAIN sources
                        /\ rootCache.entries[key].result.texts[u] = sources[u].text
        BY DEF HitsServeCurrentBytes
    <2> DEFINE entry == rootCache.entries[key]
    <2>1. Pinned(entry) /\ Reusable(entry, request, identities)
        BY DEF PinnedInv, ExactMatches
    <2> HIDE DEF entry
    <2>2. u \in entry.closure
        BY <2>1 DEF Pinned, entry
    <2>3. u \in DOMAIN identities /\ identities[u].contentRevision = entry.stamps[u][1]
        BY <2>1, <2>2 DEF Reusable, ContentStamp
    <2> QED BY <2>1, <2>2, <2>3 DEF Pinned, entry
<1> QED BY <1>1, <1>2, NextPreservesPinnedInv, PTL DEF SessionSpec

-----------------------------------------------------------------------------
(* The artifacts of the parsed source cache are current.                   *)

\* One artifact of a run.
EnsureOne(c, u) ==
    IF u \in DOMAIN sources
    THEN EnsureParsed(c, u, sources[u].text, identities[u], "StrictCompiler")
    ELSE EnsureBuiltin(c)

\* f gives, for each set of the first k indices, the cache after ensuring the
\* artifacts at these indices in order.
IsStages(f, cache, uris, k) ==
    f = [s \in SUBSET (1..k) |->
            IF s = {} THEN cache ELSE EnsureOne(f[s \ {Max(s)}], uris[Max(s)])]

\* The stages exist for every number of indices.
LEMMA StagesExist ==
    ASSUME NEW cache, NEW uris, NEW n \in Nat
    PROVE  \E f : IsStages(f, cache, uris, n)
<1> DEFINE Good == {k \in Nat : \E f : IsStages(f, cache, uris, k)}
<1>1. 0 \in Good
    <2>1. \A f : f = [s \in SUBSET (1..0) |-> cache] => IsStages(f, cache, uris, 0)
        BY DEF IsStages
    <2> QED BY <2>1
<1>2. ASSUME NEW k \in 1..n, k - 1 \in Good
      PROVE  k \in Good
    <2>1. PICK f : IsStages(f, cache, uris, k - 1)
        BY <1>2
    <2> DEFINE g == [s \in SUBSET (1..k) |->
                        IF k \in s THEN EnsureOne(f[s \ {k}], uris[k]) ELSE f[s]]
    <2>2. ASSUME NEW s \in SUBSET (1..k), k \in s
          PROVE  g[s] = EnsureOne(g[s \ {Max(s)}], uris[Max(s)])
        <3>1. Max(s) = k
            BY <2>2, MaxOfFirst
        <3> QED BY <2>2, <3>1
    <2>3. ASSUME NEW s \in SUBSET (1..k), k \notin s
          PROVE  g[s] = IF s = {} THEN cache ELSE EnsureOne(g[s \ {Max(s)}], uris[Max(s)])
        <3>1. s \in SUBSET (1..(k - 1))
            BY <2>3
        <3>2. f[s] = IF s = {} THEN cache ELSE EnsureOne(f[s \ {Max(s)}], uris[Max(s)])
            BY <2>1, <3>1 DEF IsStages
        <3> QED BY <2>3, <3>2
    <2> HIDE DEF g
    <2>4. IsStages(g, cache, uris, k)
        <3>1. g = [s \in SUBSET (1..k) |-> g[s]]
            BY DEF g
        <3> QED BY <2>2, <2>3, <3>1 DEF IsStages
    <2> QED BY <2>4
<1> HIDE DEF Good
<1>3. n \in Good
    BY <1>1, <1>2, IndexInduction
<1> QED BY <1>3 DEF Good

\* h[k] is the cache after the first k of the artifacts.
OneByOne(h, cache, uris, n) ==
    /\ h[0] = cache
    /\ h[n] = EnsureAllParsed(cache, uris)
    /\ \A k \in 1..n : h[k] = EnsureOne(h[k - 1], uris[k])

\* EnsureAllParsed ensures one artifact after the other.
LEMMA EnsureAllParsedSteps ==
    ASSUME NEW cache, NEW uris, NEW n \in Nat, DOMAIN uris = 1..n
    PROVE  \E h : OneByOne(h, cache, uris, n)
<1> DEFINE f == CHOOSE g : IsStages(g, cache, uris, n)
           h == [k \in 0..n |-> f[1..k]]
<1>1. IsStages(f, cache, uris, n)
    BY StagesExist
<1>2. EnsureAllParsed(cache, uris) = f[1..n]
    BY DEF EnsureAllParsed, FoldLeft, MapThenFoldSet, EnsureOne, IsStages
<1> HIDE DEF f
<1>3. h[0] = cache
    BY <1>1 DEF IsStages
<1>4. ASSUME NEW k \in 1..n
      PROVE  h[k] = EnsureOne(h[k - 1], uris[k])
    <2> DEFINE s == 1..k
    <2>1. s \in SUBSET (1..n) /\ s # {} /\ k \in s /\ s \ {k} = 1..(k - 1)
        OBVIOUS
    <2>2. Max(s) = k
        BY <2>1, MaxOfFirst
    <2> HIDE DEF s
    <2>3. f[s] = EnsureOne(f[s \ {Max(s)}], uris[Max(s)])
        BY <1>1, <2>1 DEF IsStages
    <2>4. h[k] = f[1..k] /\ h[k - 1] = f[1..(k - 1)]
        OBVIOUS
    <2> HIDE DEF h
    <2>5. f[s] = EnsureOne(f[s \ {k}], uris[k])
        BY <2>2, <2>3, Zenon
    <2> QED BY <2>1, <2>4, <2>5, Zenon DEF s
<1>5. h[n] = EnsureAllParsed(cache, uris)
    BY <1>2
<1> HIDE DEF h
<1> QED BY <1>3, <1>4, <1>5 DEF OneByOne

\* The artifacts of a cache belong to the present content of these sources.
CurrentIn(cache, srcs, ids) ==
    /\ cache = [entries       |-> cache.entries,
                recency       |-> cache.recency,
                retainedBytes |-> cache.retainedBytes]
    /\ \A key \in DOMAIN cache.entries :
          \/ key.uri = Builtin
          \/ /\ key.uri \in DOMAIN srcs
             /\ <<key.contentRevision, key.digest>> = ContentStamp(ids[key.uri])
             /\ cache.entries[key].bytes = srcs[key.uri].text

\* getOrBuild leaves the retained artifacts as they are, but for the one asked
\* for, which is the artifact of the bytes handed over.
LEMMA GetOrBuildAdds ==
    ASSUME NEW cache, NEW key, NEW text,
           cache = [entries       |-> cache.entries,
                    recency       |-> cache.recency,
                    retainedBytes |-> cache.retainedBytes]
    PROVE  LET new == GetOrBuild(cache, key, text)
           IN  /\ new = [entries       |-> new.entries,
                         recency       |-> new.recency,
                         retainedBytes |-> new.retainedBytes]
               /\ \A k \in DOMAIN new.entries :
                     \/ k = key /\ new.entries[k].bytes = text
                     \/ k \in DOMAIN cache.entries /\ new.entries[k] = cache.entries[k]
<1> DEFINE entry   == [bytes |-> text, size |-> ArtifactSize[text]]
           cleared == Erase(cache, {key})
           filled  == Insert(cleared, key, entry)
           evicted == EvictUntilWithinBudget(filled, MaxParsedEntries, MaxParsedBytes)
           new     == GetOrBuild(cache, key, text)
<1>1. new = Touch(cache, key) \/ new = evicted \/ new = cleared
    BY DEF GetOrBuild
<1>2. Within(cleared.entries, cache.entries) /\ Within(evicted.entries, filled.entries)
    BY CacheOperationsWithin
<1>3. filled.entries = Put(cleared.entries, key, entry) /\ entry.bytes = text
    BY DEF Insert
<1>4. CASE new = Touch(cache, key)
    <2>1. new = [entries       |-> cache.entries,
                 recency       |-> Append(Without(cache.recency, {key}), key),
                 retainedBytes |-> cache.retainedBytes]
        BY <1>4 DEF Touch
    <2> QED BY <2>1
<1>5. CASE new = evicted
    <2>1. new = [entries       |-> new.entries,
                 recency       |-> new.recency,
                 retainedBytes |-> new.retainedBytes]
        BY <1>5, CacheOperationsWithin
    <2> HIDE DEF cleared, filled, evicted, entry, new
    <2>2. ASSUME NEW k \in DOMAIN new.entries
          PROVE  \/ k = key /\ new.entries[k].bytes = text
                 \/ k \in DOMAIN cache.entries /\ new.entries[k] = cache.entries[k]
        BY <1>2, <1>3, <1>5, <2>2 DEF Within, Put
    <2> QED BY <2>1, <2>2 DEF new
<1>6. CASE new = cleared
    <2>1. new = [entries       |-> new.entries,
                 recency       |-> new.recency,
                 retainedBytes |-> new.retainedBytes]
        BY <1>6, CacheOperationsWithin
    <2> QED BY <1>2, <1>6, <2>1 DEF Within
<1> QED BY <1>1, <1>4, <1>5, <1>6

\* ensureParsed keeps a cache of current artifacts current.
LEMMA EnsureParsedCurrent ==
    ASSUME NEW cache, NEW srcs, NEW ids, CurrentIn(cache, srcs, ids)
    PROVE  /\ \A u \in DOMAIN srcs, mode \in ParseModes :
                 CurrentIn(EnsureParsed(cache, u, srcs[u].text, ids[u], mode), srcs, ids)
           /\ CurrentIn(EnsureBuiltin(cache), srcs, ids)
<1>1. ASSUME NEW u, NEW text, NEW identity, NEW mode,
             \/ u = Builtin
             \/ u \in DOMAIN srcs /\ text = srcs[u].text
                /\ <<identity.contentRevision, identity.digest>> = ContentStamp(ids[u])
      PROVE  CurrentIn(EnsureParsed(cache, u, text, identity, mode), srcs, ids)
    <2> DEFINE key == ParsedSourceKey(u, identity.contentRevision, identity.digest, mode)
               new == GetOrBuild(cache, key, text)
    <2>1. /\ key.uri = u
          /\ <<key.contentRevision, key.digest>> =
                 <<identity.contentRevision, identity.digest>>
        BY DEF ParsedSourceKey
    <2> HIDE DEF key
    <2>2. /\ new = [entries       |-> new.entries,
                    recency       |-> new.recency,
                    retainedBytes |-> new.retainedBytes]
          /\ \A k \in DOMAIN new.entries :
                \/ k = key /\ new.entries[k].bytes = text
                \/ k \in DOMAIN cache.entries /\ new.entries[k] = cache.entries[k]
        BY GetOrBuildAdds DEF CurrentIn
    <2> HIDE DEF new
    <2>3. CurrentIn(new, srcs, ids)
        BY <1>1, <2>1, <2>2 DEF CurrentIn
    <2> QED BY <2>3 DEF EnsureParsed, key, new
<1>2. \A u \in DOMAIN srcs, mode \in ParseModes :
          CurrentIn(EnsureParsed(cache, u, srcs[u].text, ids[u], mode), srcs, ids)
    BY <1>1 DEF ContentStamp
<1>3. EnsureBuiltin(cache) =
          EnsureParsed(cache, Builtin, BuiltinText,
                       [contentRevision |-> 0, digest |-> BuiltinText], "StrictCompiler")
    BY DEF EnsureBuiltin, EnsureParsed
<1>4. CurrentIn(EnsureBuiltin(cache), srcs, ids)
    BY <1>1, <1>3
<1> QED BY <1>2, <1>4

\* So does every sequence of them.
LEMMA EnsureAllParsedCurrent ==
    ASSUME NEW cache, NEW uris, NEW n \in Nat, DOMAIN uris = 1..n,
           CurrentIn(cache, sources, identities)
    PROVE  CurrentIn(EnsureAllParsed(cache, uris), sources, identities)
<1>0. PICK h : OneByOne(h, cache, uris, n)
    BY EnsureAllParsedSteps
<1>1. /\ h[0] = cache
      /\ h[n] = EnsureAllParsed(cache, uris)
      /\ \A k \in 1..n : h[k] = EnsureOne(h[k - 1], uris[k])
    BY <1>0 DEF OneByOne
<1> DEFINE Good == {k \in 0..n : CurrentIn(h[k], sources, identities)}
<1>2. 0 \in Good
    BY <1>1
<1>3. ASSUME NEW k \in 1..n, k - 1 \in Good
      PROVE  k \in Good
    <2> DEFINE before == h[k - 1]
    <2>1. CurrentIn(before, sources, identities) /\ h[k] = EnsureOne(before, uris[k])
        BY <1>1, <1>3
    <2> HIDE DEF before
    <2>2. /\ \A u \in DOMAIN sources :
                CurrentIn(EnsureParsed(before, u, sources[u].text, identities[u],
                                       "StrictCompiler"), sources, identities)
          /\ CurrentIn(EnsureBuiltin(before), sources, identities)
        BY <2>1, EnsureParsedCurrent DEF ParseModes
    <2>3. CurrentIn(EnsureOne(before, uris[k]), sources, identities)
        BY <2>2 DEF EnsureOne
    <2> QED BY <2>1, <2>3
<1> HIDE DEF Good
<1>4. n \in Good
    BY <1>2, <1>3, IndexInduction
<1> QED BY <1>1, <1>4 DEF Good

\* The inductive invariant behind ArtifactsCurrent.
ArtifactInv == StoreInv /\ CurrentIn(parsedCache, sources, identities)

\* Erasing artifacts keeps the others current.
LEMMA InvalidateUriCurrent ==
    ASSUME NEW cache, NEW u, NEW srcs, NEW ids, CurrentIn(cache, srcs, ids)
    PROVE  /\ CurrentIn(InvalidateUri(cache, u), srcs, ids)
           /\ \A key \in DOMAIN InvalidateUri(cache, u).entries : key.uri # u
<1> DEFINE gone == {k \in DOMAIN cache.entries : k.uri = u}
           new  == Erase(cache, gone)
<1>1. /\ new = [entries       |-> new.entries,
                recency       |-> new.recency,
                retainedBytes |-> new.retainedBytes]
      /\ Within(new.entries, cache.entries)
    BY CacheOperationsWithin
<1>2. DOMAIN new.entries = DOMAIN cache.entries \ (gone \cap DOMAIN cache.entries)
    BY DEF Erase, Drop
<1> HIDE DEF new
<1>3. CurrentIn(new, srcs, ids)
    BY <1>1 DEF CurrentIn, Within
<1>4. \A key \in DOMAIN new.entries : key.uri # u
    BY <1>2
<1> QED BY <1>3, <1>4 DEF InvalidateUri, new

\* Every operation of the session preserves the invariant.
LEMMA NextPreservesArtifactInv == ArtifactInv /\ [SessionNext]_vars => ArtifactInv'
<1> SUFFICES ASSUME ArtifactInv, [SessionNext]_vars PROVE ArtifactInv'
    OBVIOUS
<1> USE IncrementalSessionAssumption
<1>1. StoreInv /\ StoreInv' /\ CurrentIn(parsedCache, sources, identities)
      /\ DOMAIN identities = DOMAIN sources
    BY SessionSteps, NextPreservesStoreInv DEF ArtifactInv, StoreInv, MapsAgree
<1> SUFFICES CurrentIn(parsedCache', sources', identities')
    <2>1. CurrentIn(parsedCache, sources, identities)'
              = CurrentIn(parsedCache', sources', identities')
        BY DEF CurrentIn, ContentStamp
    <2> QED BY <1>1, <2>1 DEF ArtifactInv
<1>2. CASE UNCHANGED <<parsedCache, sources, identities>>
    BY <1>1, <1>2
<1>3. ASSUME NEW u \in Uris, NEW t \in Texts, NEW v \in Versions, UpdateKept(u, t, v)
      PROVE  CurrentIn(parsedCache', sources', identities')
    <2>1. CASE Rejected(u, t, v) \/ Unchanged(u, t, v)
        BY <1>1, <1>3, <2>1 DEF UpdateKept, cacheState, Rejected, Unchanged, sourceVars
    <2>2. CASE VersionOnly(u, t, v)
        <3>1. /\ DOMAIN sources' = DOMAIN sources
              /\ \A x \in DOMAIN sources :
                    /\ sources'[x].text = sources[x].text
                    /\ ContentStamp(identities'[x]) = ContentStamp(identities[x])
            BY <1>1, <2>2 DEF VersionOnly, Live, StoreInv, TypeOK,
                              SourceBuffer, SourceIdentity, ContentStamp
        <3>2. parsedCache' = parsedCache
            BY <1>3 DEF UpdateKept, cacheState
        <3> QED BY <1>1, <3>1, <3>2 DEF CurrentIn
    <2> QED BY <1>3, <2>1, <2>2 DEF UpdateKept
<1>4. ASSUME NEW u \in Uris, NEW t \in Texts, NEW v \in Versions,
             UpdateAdded(u, t, v) \/ UpdateChanged(u, t, v)
      PROVE  CurrentIn(parsedCache', sources', identities')
    <2>1. PICK base : /\ CurrentIn(base, sources, identities)
                      /\ \A key \in DOMAIN base.entries : key.uri = u => key.uri = Builtin
                      /\ parsedCache' = EnsureParsed(base, u, t, identities'[u],
                                                     "StrictCompiler")
        <3>1. CASE UpdateAdded(u, t, v)
            <4>1. /\ u \notin DOMAIN sources
                  /\ parsedCache' = EnsureParsed(parsedCache, u, t, identities'[u],
                                                 "StrictCompiler")
                BY <3>1 DEF UpdateAdded, Added, Live, Reindex
            <4> QED BY <1>1, <4>1 DEF CurrentIn
        <3>2. CASE UpdateChanged(u, t, v)
            <4>1. parsedCache' = EnsureParsed(InvalidateUri(parsedCache, u), u, t,
                                              identities'[u], "StrictCompiler")
                BY <3>2 DEF UpdateChanged, Reindex
            <4> QED BY <1>1, <4>1, InvalidateUriCurrent
        <3> QED BY <1>4, <3>1, <3>2
    <2>2. Added(u, t, v) \/ ContentChanged(u, t, v) \/ Reintroduced(u, t, v)
        BY <1>4 DEF UpdateAdded, UpdateChanged
    <2>3. PICK identity : Store(u, t, v, identity)
        BY <2>2 DEF Added, ContentChanged, Reintroduced
    <2>4. /\ sources' = Put(sources, u, [text |-> t, version |-> v])
          /\ identities' = Put(identities, u, identity)
        BY <2>3 DEF Store
    <2>5. /\ u \in DOMAIN sources' /\ sources'[u].text = t
          /\ \A x \in DOMAIN sources : x # u => /\ x \in DOMAIN sources'
                                                /\ sources'[x] = sources[x]
                                                /\ identities'[x] = identities[x]
        BY <1>1, <2>4 DEF Put
    <2>6. CurrentIn(base, sources', identities')
        <3>1. PICK after, idsAfter : after = sources' /\ idsAfter = identities'
            OBVIOUS
        <3>2. \A x \in DOMAIN sources : x # u => /\ x \in DOMAIN after
                                                 /\ after[x] = sources[x]
                                                 /\ idsAfter[x] = identities[x]
            BY <2>5, <3>1
        <3>3. CurrentIn(base, after, idsAfter)
            BY <2>1, <3>2 DEF CurrentIn
        <3> QED BY <3>1, <3>3
    <2> QED BY <2>1, <2>5, <2>6, EnsureParsedCurrent DEF ParseModes
<1>5. ASSUME NEW u \in Uris, RemoveSource(u)
      PROVE  CurrentIn(parsedCache', sources', identities')
    <2>1. CASE Removed(u) /\ parsedCache' = InvalidateUri(parsedCache, u)
        <3>1. /\ CurrentIn(parsedCache', sources, identities)
              /\ \A key \in DOMAIN parsedCache'.entries : key.uri # u
            BY <1>1, <2>1, InvalidateUriCurrent
        <3>2. PICK cache, after, idsAfter :
                  cache = parsedCache' /\ after = sources' /\ idsAfter = identities'
            OBVIOUS
        <3>3. \A x \in DOMAIN sources : x # u => /\ x \in DOMAIN after
                                                 /\ after[x] = sources[x]
                                                 /\ idsAfter[x] = identities[x]
            BY <1>1, <2>1, <3>2 DEF Removed, Drop
        <3>4. CurrentIn(cache, after, idsAfter)
            BY <3>1, <3>2, <3>3 DEF CurrentIn
        <3> QED BY <3>2, <3>4
    <2>2. CASE UNCHANGED <<parsedCache, sources, identities>>
        BY <1>2, <2>2
    <2> QED BY <1>5, <2>1, <2>2 DEF RemoveSource, RemoveAbsent, sourceVars, cacheState
<1>6. ASSUME NEW u \in Uris, NEW mode \in ParseModes, Snapshot(u, mode)
      PROVE  CurrentIn(parsedCache', sources', identities')
    <2>1. /\ sources' = sources /\ identities' = identities
          /\ parsedCache' = IF u \in DOMAIN sources
                            THEN EnsureParsed(parsedCache, u, sources[u].text, identities[u],
                                              mode)
                            ELSE parsedCache
        BY <1>6 DEF Snapshot, sourceVars
    <2>2. CurrentIn(parsedCache', sources, identities)
        BY <1>1, <2>1, EnsureParsedCurrent
    <2> QED BY <2>1, <2>2
<1>7. ASSUME NEW request \in Requests, AnalyzeMiss(request) \/ CompileOnly(request)
      PROVE  CurrentIn(parsedCache', sources', identities')
    <2> DEFINE run == Compile(request, TextsOf(sources))
    <2>1. /\ run.closure \in Seq(DOMAIN sources)
          /\ run.parses \in Seq(DOMAIN sources \cup {Builtin})
        <3>1. DOMAIN sources \in SUBSET Uris /\ TextsOf(sources) \in [DOMAIN sources -> Texts]
            BY <1>1 DEF StoreInv, TypeOK, TextsOf, SourceBuffer
        <3> QED BY <3>1
    <2>2. /\ sources' = sources /\ identities' = identities
          /\ \/ parsedCache' = EnsureAllParsed(parsedCache, run.parses)
             \/ parsedCache' = EnsureAllParsed(parsedCache, run.parses \o run.closure)
        BY <1>7 DEF AnalyzeMiss, CompileOnly, sourceVars
    <2> HIDE DEF run
    <2>3. /\ Len(run.parses) \in Nat /\ DOMAIN run.parses = 1..Len(run.parses)
          /\ Len(run.parses \o run.closure) \in Nat
          /\ DOMAIN (run.parses \o run.closure) = 1..Len(run.parses \o run.closure)
        <3>1. run.closure \in Seq(DOMAIN sources \cup {Builtin})
            BY <2>1
        <3>2. run.parses \o run.closure \in Seq(DOMAIN sources \cup {Builtin})
            BY <2>1, <3>1
        <3>3. \A s \in Seq(DOMAIN sources \cup {Builtin}) :
                  Len(s) \in Nat /\ DOMAIN s = 1..Len(s)
            OBVIOUS
        <3> QED BY <2>1, <3>2, <3>3, ZenonT(60)
    <2>4. CurrentIn(parsedCache', sources, identities)
        <3>1. CurrentIn(parsedCache, sources, identities)
            BY <1>1
        <3>2. CurrentIn(EnsureAllParsed(parsedCache, run.parses), sources, identities)
            BY <2>3, <3>1, EnsureAllParsedCurrent
        <3>3. CurrentIn(EnsureAllParsed(parsedCache, run.parses \o run.closure),
                        sources, identities)
            BY <2>3, <3>1, EnsureAllParsedCurrent
        <3> QED BY <2>2, <3>2, <3>3
    <2> QED BY <2>2, <2>4
<1>8. CASE ClearIncrementalCaches
    BY <1>8 DEF ClearIncrementalCaches, EmptyCache, EmptyMap, CurrentIn
<1>9. ASSUME NEW request \in Requests, AnalyzeHit(request)
      PROVE  UNCHANGED <<parsedCache, sources, identities>>
    BY <1>9 DEF AnalyzeHit, sourceVars
<1>10. ASSUME NEW doc \in Documents, NEW v \in Versions, UpdateSource(doc[1], doc[2], v)
       PROVE  CurrentIn(parsedCache', sources', identities')
    <2>1. doc[1] \in Uris /\ doc[2] \in Texts
        OBVIOUS
    <2> QED BY <1>3, <1>4, <1>10, <2>1 DEF UpdateSource
<1>11. CASE UNCHANGED vars
    BY <1>2, <1>11 DEF vars, sourceVars, cacheState
<1> QED BY <1>2, <1>5, <1>6, <1>7, <1>8, <1>9, <1>10, <1>11
        DEF SessionNext, Parse, EditorSnapshot, CompileAndAnalyze, ParseModes

\* Whatever the client did before, however many artifacts the compilations
\* evicted, and whether or not the digests of two contents collide: what the
\* parsed source cache retains for a source was parsed from its present bytes.
THEOREM ArtifactsAlwaysCurrent == SessionSpec => []ArtifactsCurrent
<1>1. SessionInit => ArtifactInv
    BY InitEstablishesStoreInv DEF SessionInit, ArtifactInv, CurrentIn, EmptyCache, EmptyMap
<1>2. ArtifactInv => ArtifactsCurrent
    BY DEF ArtifactInv, CurrentIn, ArtifactsCurrent
<1> QED BY <1>1, <1>2, NextPreservesArtifactInv, PTL DEF SessionSpec

-----------------------------------------------------------------------------
(* Both caches stay within their limits.                                   *)

RootBounded(c) == Sound(c) /\ WithinBudget(c, MaxRootEntries, MaxRootBytes)

\* The empty root cache is within every limit.
LEMMA EmptyRootBounded == RootBounded(EmptyCache)
<1>1. Cardinality(DOMAIN EmptyCache.entries) = 0
    BY EmptySound, FS_EmptySet, Zenon
<1>2. EmptyCache.retainedBytes = 0
    BY DEF EmptyCache
<1> QED BY <1>1, <1>2, EmptySound, RootAnalysisCacheAssumption DEF RootBounded, WithinBudget

\* The inductive invariant behind CachesBounded.
BoundedInv == StoreInv /\ Bounded(parsedCache) /\ RootBounded(rootCache)

\* One artifact more keeps the parsed source cache bounded.
LEMMA EnsureParsedBounded ==
    ASSUME NEW c, Bounded(c)
    PROVE  /\ \A u, t, identity, mode :
                 t \in Texts => Bounded(EnsureParsed(c, u, t, identity, mode))
           /\ Bounded(EnsureBuiltin(c))
<1>1. Texts \cup {BuiltinText} \subseteq DOMAIN ArtifactSize
    BY IncrementalSessionAssumption
<1> QED BY <1>1, GetOrBuildBounded DEF EnsureParsed, EnsureBuiltin

\* So do all the artifacts of a run.
LEMMA EnsureAllParsedBounded ==
    ASSUME NEW cache, NEW uris, NEW n \in Nat, DOMAIN uris = 1..n, StoreInv, Bounded(cache)
    PROVE  Bounded(EnsureAllParsed(cache, uris))
<1>0. PICK h : OneByOne(h, cache, uris, n)
    BY EnsureAllParsedSteps
<1>1. /\ h[0] = cache
      /\ h[n] = EnsureAllParsed(cache, uris)
      /\ \A k \in 1..n : h[k] = EnsureOne(h[k - 1], uris[k])
    BY <1>0 DEF OneByOne
<1> DEFINE Good == {k \in 0..n : Bounded(h[k])}
<1>2. 0 \in Good
    BY <1>1
<1>3. ASSUME NEW k \in 1..n, k - 1 \in Good
      PROVE  k \in Good
    <2> DEFINE before == h[k - 1]
    <2>1. Bounded(before) /\ h[k] = EnsureOne(before, uris[k])
        BY <1>1, <1>3
    <2> HIDE DEF before
    <2>2. \A u \in DOMAIN sources : sources[u].text \in Texts
        BY DEF StoreInv, TypeOK, SourceBuffer
    <2>3. Bounded(EnsureOne(before, uris[k]))
        BY <2>1, <2>2, EnsureParsedBounded DEF EnsureOne
    <2> QED BY <2>1, <2>3
<1> HIDE DEF Good
<1>4. n \in Good
    BY <1>2, <1>3, IndexInduction
<1> QED BY <1>1, <1>4 DEF Good

\* A new analysis keeps the root cache bounded.
LEMMA InsertRootBounded ==
    ASSUME NEW c, RootBounded(c), NEW key, NEW entry, entry.size \in Nat
    PROVE  RootBounded(InsertRoot(c, key, entry))
<1> DEFINE cleared == Erase(c, {key})
           filled  == Insert(cleared, key, entry)
<1>1. Sound(cleared) /\ DOMAIN cleared.entries = DOMAIN c.entries \ {key}
    BY EraseSound DEF RootBounded
<1> HIDE DEF cleared
<1>2. key \notin DOMAIN cleared.entries
    BY <1>1
<1>3. Sound(filled)
    BY <1>1, <1>2, InsertSound
<1> HIDE DEF filled
<1>4. RootBounded(EvictUntilWithinBudget(filled, MaxRootEntries, MaxRootBytes))
    BY <1>3, EvictSound, RootAnalysisCacheAssumption DEF RootBounded
<1> QED BY <1>4 DEF InsertRoot, cleared, filled

\* Every operation of the session preserves the invariant.
LEMMA NextPreservesBoundedInv == BoundedInv /\ [SessionNext]_vars => BoundedInv'
<1> SUFFICES ASSUME BoundedInv, [SessionNext]_vars PROVE BoundedInv'
    OBVIOUS
<1>1. StoreInv /\ StoreInv' /\ Bounded(parsedCache) /\ RootBounded(rootCache)
    BY SessionSteps, NextPreservesStoreInv DEF BoundedInv
<1>2. /\ \A u \in DOMAIN sources : sources[u].text \in Texts
      /\ \A request \in Requests :
            LET run == Compile(request, TextsOf(sources))
            IN  /\ run.closure \in Seq(DOMAIN sources)
                /\ run.parses \in Seq(DOMAIN sources \cup {Builtin})
    <2>1. DOMAIN sources \in SUBSET Uris /\ TextsOf(sources) \in [DOMAIN sources -> Texts]
        BY <1>1 DEF StoreInv, TypeOK, TextsOf, SourceBuffer
    <2> QED BY <1>1, <2>1, IncrementalSessionAssumption DEF StoreInv, TypeOK, SourceBuffer
<1>3. Bounded(parsedCache')
    <2>1. ASSUME NEW uri
          PROVE  Bounded(InvalidateUri(parsedCache, uri))
        BY <1>1, EraseBounded, ParsedSourceCacheAssumption DEF InvalidateUri, Bounded
    <2>2. ASSUME NEW doc \in Documents, NEW v, UpdateSource(doc[1], doc[2], v)
          PROVE  Bounded(parsedCache')
        <3>1. doc[2] \in Texts
            BY IncrementalSessionAssumption
        <3>2. \/ parsedCache' = parsedCache
              \/ \E c : /\ c = parsedCache \/ c = InvalidateUri(parsedCache, doc[1])
                        /\ parsedCache' = EnsureParsed(c, doc[1], doc[2], identities'[doc[1]],
                                                       "StrictCompiler")
            BY <2>2 DEF UpdateSource, UpdateKept, UpdateAdded, UpdateChanged, Reindex, cacheState
        <3> QED BY <1>1, <2>1, <3>1, <3>2, EnsureParsedBounded
    <2>3. ASSUME NEW u, RemoveSource(u)
          PROVE  Bounded(parsedCache')
        BY <1>1, <2>1, <2>3 DEF RemoveSource, cacheState
    <2>4. ASSUME NEW u, Parse(u) \/ EditorSnapshot(u)
          PROVE  Bounded(parsedCache')
        BY <1>1, <1>2, <2>4, EnsureParsedBounded DEF Parse, EditorSnapshot, Snapshot
    <2>5. ASSUME NEW request \in Requests, CompileAndAnalyze(request) \/ CompileOnly(request)
          PROVE  Bounded(parsedCache')
        <3> DEFINE run == Compile(request, TextsOf(sources))
        <3>1. \/ parsedCache' = parsedCache
              \/ parsedCache' = EnsureAllParsed(parsedCache, run.parses)
              \/ parsedCache' = EnsureAllParsed(parsedCache, run.parses \o run.closure)
            BY <2>5 DEF CompileAndAnalyze, AnalyzeHit, AnalyzeMiss, CompileOnly
        <3>2. /\ run.closure \in Seq(DOMAIN sources \cup {Builtin})
              /\ run.parses \in Seq(DOMAIN sources \cup {Builtin})
            BY <1>2
        <3> HIDE DEF run
        <3>3. run.parses \o run.closure \in Seq(DOMAIN sources \cup {Builtin})
            BY <3>2
        <3>4. \A s \in Seq(DOMAIN sources \cup {Builtin}) : Len(s) \in Nat /\ DOMAIN s = 1..Len(s)
            OBVIOUS
        <3> QED BY <1>1, <3>1, <3>2, <3>3, <3>4, EnsureAllParsedBounded
    <2>6. CASE ClearIncrementalCaches
        BY <2>6, EmptyBounded DEF ClearIncrementalCaches
    <2>7. CASE UNCHANGED vars
        BY <1>1, <2>7 DEF vars, cacheState
    <2> QED BY <2>2, <2>3, <2>4, <2>5, <2>6, <2>7 DEF SessionNext
<1>4. RootBounded(rootCache')
    <2>1. CASE UNCHANGED rootCache
        BY <1>1, <2>1
    <2>2. ASSUME NEW keys, rootCache' = Erase(rootCache, keys)
          PROVE  RootBounded(rootCache')
        BY <1>1, <2>2, EraseBounded, RootAnalysisCacheAssumption DEF RootBounded
    <2>3. CASE rootCache' = EmptyCache
        BY <2>3, EmptyRootBounded
    <2>4. ASSUME NEW key \in DOMAIN rootCache.entries, rootCache' = Touch(rootCache, key)
          PROVE  RootBounded(rootCache')
        <3> DEFINE d == Touch(rootCache, key)
        <3>1. Sound(d) /\ d.entries = rootCache.entries
              /\ d.retainedBytes = rootCache.retainedBytes
            BY <1>1, TouchSound DEF RootBounded
        <3> HIDE DEF d
        <3>2. RootBounded(d)
            BY <1>1, <3>1 DEF RootBounded, WithinBudget
        <3> QED BY <2>4, <3>2 DEF d
    <2>5. ASSUME NEW request \in Requests, AnalyzeMiss(request)
          PROVE  RootBounded(rootCache')
        <3>1. PICK key, stamps, result :
                  LET run == Compile(request, TextsOf(sources))
                  IN  rootCache' = InsertRoot(rootCache, key,
                                       RootEntry(request, run.closure, stamps, result))
            BY <2>5 DEF AnalyzeMiss
        <3> DEFINE closure == Compile(request, TextsOf(sources)).closure
                   entry   == RootEntry(request, closure, stamps, result)
        <3>2. closure \in Seq(DOMAIN sources)
            BY <1>2
        <3> HIDE DEF closure
        <3>3. entry.size \in Nat
            <4>1. entry.size = 1 + Len(closure)
                BY DEF RootEntry, RootEntrySize
            <4> QED BY <3>2, <4>1
        <3> HIDE DEF entry
        <3>4. RootBounded(InsertRoot(rootCache, key, entry))
            BY <1>1, <3>3, InsertRootBounded
        <3> QED BY <3>1, <3>4 DEF entry, closure
    <2> QED BY <2>1, <2>2, <2>3, <2>4, <2>5, RootCacheOperations
<1> QED BY <1>1, <1>3, <1>4 DEF BoundedInv

\* Whatever the client does and however many artifacts a compilation needs,
\* the accounting of both caches is exact and all four limits of
\* IncrementalCacheOptions hold between any two operations.
THEOREM CachesAlwaysBounded == SessionSpec => []CachesBounded
<1>1. SessionInit => BoundedInv
    BY InitEstablishesStoreInv, EmptyBounded, EmptyRootBounded DEF SessionInit, BoundedInv
<1>2. BoundedInv => CachesBounded
    BY SoundAccounted DEF BoundedInv, Bounded, RootBounded, CachesBounded
<1> QED BY <1>1, <1>2, NextPreservesBoundedInv, PTL DEF SessionSpec
-----------------------------------------------------------------------------
(* A warm session answers like a cold one, for compilations that are       *)
(* local (CompilationIsLocal).                                             *)

\* The entry is what a run on these texts has computed.
MadeFrom(entry, texts, versions) ==
    LET run == Compile(entry.request, texts)
    IN  /\ entry.request \in Requests
        /\ entry.closure = ToSet(run.closure)
        /\ entry.missingModels = run.missingModels
        /\ entry.resolvedModels = run.resolvedModels
        /\ entry.result =
               [request        |-> entry.request,
                texts          |-> [u \in entry.closure |-> texts[u]],
                versions       |-> [u \in entry.closure |-> versions[u]],
                missingModels  |-> run.missingModels,
                resolvedModels |-> run.resolvedModels,
                ordered        |-> run.ordered,
                success        |-> run.success]

\* A cached analysis is the outcome of a run on texts that the session could
\* hold, with some versions.
Computed(entry) == \E texts \in Registrable : \E versions : MadeFrom(entry, texts, versions)

\* The invariant behind the reuse of analyses.
ReuseInv ==
    /\ PinnedInv
    /\ IsFiniteSet(DOMAIN sources)
    /\ TextsOf(sources) \in Registrable
    /\ \A key \in DOMAIN rootCache.entries : Computed(rootCache.entries[key])

\* What a step does to the texts of the session: nothing, or it registers a
\* document under one URI, or removes one.
TextSteps ==
    \/ TextsOf(sources') = TextsOf(sources) /\ DOMAIN sources' = DOMAIN sources
    \/ \E doc \in Documents : \E version :
           sources' = Put(sources, doc[1], [text |-> doc[2], version |-> version])
    \/ \E u \in Uris : sources' = Drop(sources, {u})

\* Every operation of the session is such a step.
LEMMA SessionTextSteps ==
    ASSUME StoreInv, [SessionNext]_vars
    PROVE  TextSteps
<1>1. CASE UNCHANGED sources
    BY <1>1 DEF TextSteps
<1>2. ASSUME NEW doc \in Documents, NEW v \in Versions, UpdateSource(doc[1], doc[2], v)
      PROVE  TextSteps
    <2>1. PICK u, t : u = doc[1] /\ t = doc[2]
        OBVIOUS
    <2>2. CASE Rejected(u, t, v) \/ Unchanged(u, t, v)
        BY <1>1, <2>2 DEF Rejected, Unchanged, sourceVars
    <2>3. CASE VersionOnly(u, t, v)
        <3>1. u \in DOMAIN sources /\ sources' = [sources EXCEPT ![u].version = v]
            BY <2>3 DEF VersionOnly, Live
        <3>2. sources \in [DOMAIN sources -> SourceBuffer]
            BY DEF StoreInv, TypeOK
        <3>3. /\ DOMAIN sources' = DOMAIN sources
              /\ \A w \in DOMAIN sources : sources'[w].text = sources[w].text
            BY <3>1, <3>2 DEF SourceBuffer
        <3> QED BY <3>3 DEF TextSteps, TextsOf
    <2>4. CASE ContentChanged(u, t, v) \/ Added(u, t, v) \/ Reintroduced(u, t, v)
        <3>1. sources' = Put(sources, u, [text |-> t, version |-> v])
            BY <2>4 DEF ContentChanged, Added, Reintroduced, Store
        <3> QED BY <1>2, <2>1, <3>1 DEF TextSteps
    <2> QED BY <1>2, <2>1, <2>2, <2>3, <2>4 DEF UpdateSource, UpdateKept, UpdateAdded, UpdateChanged
<1>3. ASSUME NEW u \in Uris, RemoveSource(u)
      PROVE  TextSteps
    <2>1. CASE Removed(u)
        BY <2>1 DEF Removed, TextSteps
    <2>2. CASE RemoveAbsent(u)
        BY <1>1, <2>2 DEF RemoveAbsent, sourceVars
    <2> QED BY <1>3, <2>1, <2>2 DEF RemoveSource
<1>4. ASSUME \/ \E u \in Uris : Parse(u) \/ EditorSnapshot(u)
             \/ \E request \in Requests : CompileAndAnalyze(request) \/ CompileOnly(request)
             \/ ClearIncrementalCaches
             \/ UNCHANGED vars
      PROVE  UNCHANGED sources
    BY <1>4 DEF Parse, EditorSnapshot, Snapshot, CompileAndAnalyze, AnalyzeHit, AnalyzeMiss,
                CompileOnly, ClearIncrementalCaches, sourceVars, vars
<1> QED BY <1>1, <1>2, <1>3, <1>4 DEF SessionNext

\* The session only ever holds finitely many documents that clients submit.
LEMMA TextStepsRegistrable ==
    ASSUME TextsOf(sources) \in Registrable, IsFiniteSet(DOMAIN sources), TextSteps
    PROVE  TextsOf(sources') \in Registrable /\ IsFiniteSet(DOMAIN sources')
<1>1. CASE TextsOf(sources') = TextsOf(sources) /\ DOMAIN sources' = DOMAIN sources
    BY <1>1
<1>0. /\ DOMAIN sources \in SUBSET Uris
      /\ \A w \in DOMAIN sources : sources[w].text \in Texts /\ <<w, sources[w].text>> \in Documents
    <2>1. PICK uris \in SUBSET Uris : TextsOf(sources) \in [uris -> Texts]
        BY DEF Registrable
    <2>2. DOMAIN TextsOf(sources) = DOMAIN sources
        BY DEF TextsOf
    <2>3. uris = DOMAIN sources
        BY <2>1, <2>2
    <2>4. \A w \in DOMAIN sources : TextsOf(sources)[w] = sources[w].text
        BY DEF TextsOf
    <2>5. \A w \in DOMAIN sources : <<w, TextsOf(sources)[w]>> \in Documents
        BY <2>2 DEF Registrable
    <2> QED BY <2>1, <2>3, <2>4, <2>5
<1>4. ASSUME DOMAIN sources' \in SUBSET Uris,
             \A w \in DOMAIN sources' : <<w, sources'[w].text>> \in Documents
      PROVE  TextsOf(sources') \in Registrable
    <2>1. \A w \in DOMAIN sources' : sources'[w].text \in Texts
        BY <1>4, IncrementalSessionAssumption
    <2> QED BY <1>4, <2>1 DEF Registrable, TextsOf
<1>2. ASSUME NEW doc \in Documents, NEW version,
             sources' = Put(sources, doc[1], [text |-> doc[2], version |-> version])
      PROVE  TextsOf(sources') \in Registrable /\ IsFiniteSet(DOMAIN sources')
    <2>1. PICK u \in Uris, t \in Texts : doc = <<u, t>>
        BY IncrementalSessionAssumption
    <2>2. /\ DOMAIN sources' = DOMAIN sources \cup {u}
          /\ \A w \in DOMAIN sources' : sources'[w].text = IF w = u THEN t ELSE sources[w].text
        BY <1>2, <2>1 DEF Put
    <2>3. \A w \in DOMAIN sources' : <<w, sources'[w].text>> \in Documents
        BY <1>0, <1>2, <2>1, <2>2
    <2>4. DOMAIN sources' \in SUBSET Uris
        BY <1>0, <2>1, <2>2
    <2>5. IsFiniteSet(DOMAIN sources')
        BY <2>2, FS_AddElement
    <2> QED BY <1>4, <2>3, <2>4, <2>5
<1>3. ASSUME NEW u \in Uris, sources' = Drop(sources, {u})
      PROVE  TextsOf(sources') \in Registrable /\ IsFiniteSet(DOMAIN sources')
    <2>1. /\ DOMAIN sources' = DOMAIN sources \ {u}
          /\ \A w \in DOMAIN sources' : sources'[w] = sources[w]
        BY <1>3 DEF Drop
    <2>2. IsFiniteSet(DOMAIN sources')
        BY <2>1, FS_RemoveElement
    <2> QED BY <1>0, <1>4, <2>1, <2>2
<1> QED BY <1>1, <1>2, <1>3 DEF TextSteps

\* The entry a miss inserts is the outcome of a run on the present texts.
LEMMA NewEntryComputed ==
    ASSUME StoreInv, NEW request \in Requests, TextsOf(sources) \in Registrable
    PROVE  Computed(NewEntry(request))
<1>1. PICK texts \in Registrable : texts = TextsOf(sources)
    OBVIOUS
<1>2. PICK run : run = Compile(request, texts)
    OBVIOUS
<1>3. PICK stamps : stamps = [u \in ToSet(run.closure) |-> ContentStamp(identities[u])]
    OBVIOUS
<1>4. PICK entry : entry = RootEntry(request, run.closure, stamps, Analysis(request, run, sources))
    OBVIOUS
<1>5. PICK versions : versions = [u \in DOMAIN sources |-> sources[u].version]
    OBVIOUS
<1>6. PICK C : C = ToSet(run.closure)
    OBVIOUS
<1>7. C \subseteq DOMAIN sources
    <2>1. DOMAIN sources \in SUBSET Uris /\ TextsOf(sources) \in [DOMAIN sources -> Texts]
        BY DEF StoreInv, TypeOK, TextsOf, SourceBuffer
    <2>2. run.closure \in Seq(DOMAIN sources)
        BY <1>1, <1>2, <2>1, IncrementalSessionAssumption
    <2>3. \A s \in Seq(DOMAIN sources) : ToSet(s) \subseteq DOMAIN sources
        BY DEF ToSet
    <2> QED BY <1>6, <2>2, <2>3
<1>8. /\ [u \in C |-> sources[u].text] = [u \in C |-> texts[u]]
      /\ [u \in C |-> sources[u].version] = [u \in C |-> versions[u]]
    BY <1>1, <1>5, <1>7 DEF TextsOf
<1>9. /\ entry.request = request /\ entry.closure = C
      /\ entry.missingModels = run.missingModels /\ entry.resolvedModels = run.resolvedModels
      /\ entry.result = [request        |-> request,
                         texts          |-> [u \in C |-> texts[u]],
                         versions       |-> [u \in C |-> versions[u]],
                         missingModels  |-> run.missingModels,
                         resolvedModels |-> run.resolvedModels,
                         ordered        |-> run.ordered,
                         success        |-> run.success]
    BY <1>4, <1>6, <1>8 DEF RootEntry, Analysis
<1>10. Computed(entry)
    BY <1>1, <1>2, <1>6, <1>9 DEF Computed, MadeFrom
<1> QED BY <1>1, <1>2, <1>3, <1>4, <1>10 DEF NewEntry

\* Every operation of the session preserves the reuse invariant.
LEMMA NextPreservesReuseInv == ReuseInv /\ [SessionNext]_vars => ReuseInv'
<1> SUFFICES ASSUME ReuseInv, [SessionNext]_vars PROVE ReuseInv'
    OBVIOUS
<1>1. PinnedInv /\ StoreInv /\ PinnedInv'
    BY NextPreservesPinnedInv DEF ReuseInv, PinnedInv
<1>2. TextsOf(sources') \in Registrable /\ IsFiniteSet(DOMAIN sources')
    BY <1>1, SessionTextSteps, TextStepsRegistrable DEF ReuseInv
<1>3. ASSUME NEW key \in DOMAIN rootCache'.entries
      PROVE  Computed(rootCache'.entries[key])
    <2>1. CASE Within(rootCache'.entries, rootCache.entries)
        BY <1>3, <2>1 DEF ReuseInv, Within
    <2>2. CASE \E request \in Requests : Gains(request)
        BY <1>1, <1>3, <2>2, NewEntryComputed DEF ReuseInv, Gains
    <2> QED BY <1>1, <2>1, <2>2, RootCacheSteps
<1>4. ASSUME NEW key \in DOMAIN rootCache'.entries
      PROVE  Computed(rootCache.entries[key])'
    BY <1>3, <1>4 DEF Computed, MadeFrom
<1>5. TextsOf(sources)' \in Registrable'
    BY <1>2 DEF TextsOf, Registrable
<1> QED BY <1>1, <1>2, <1>4, <1>5 DEF ReuseInv

\* An empty session satisfies the reuse invariant.
LEMMA InitEstablishesReuseInv == SessionInit => ReuseInv
<1> SUFFICES ASSUME SessionInit PROVE ReuseInv
    OBVIOUS
<1>1. PinnedInv
    BY InitEstablishesStoreInv DEF SessionInit, PinnedInv, EmptyCache, EmptyMap
<1>2. sources = EmptyMap /\ DOMAIN sources = {} /\ DOMAIN rootCache.entries = {}
    BY DEF SessionInit, Init, EmptyMap, EmptyCache
<1>3. TextsOf(sources) \in Registrable
    BY <1>2 DEF TextsOf, Registrable
<1> QED BY <1>1, <1>2, <1>3, FS_EmptySet DEF ReuseInv

\* Two analyses with the same outcome of the same bytes are the same, once
\* the versions are refreshed.
LEMMA RefreshedIsCold ==
    ASSUME NEW buffers, NEW entry, NEW texts, NEW versions, NEW run, NEW cold,
           entry.closure = ToSet(run.closure),
           entry.result = [request        |-> entry.request,
                           texts          |-> [u \in entry.closure |-> texts[u]],
                           versions       |-> [u \in entry.closure |-> versions[u]],
                           missingModels  |-> run.missingModels,
                           resolvedModels |-> run.resolvedModels,
                           ordered        |-> run.ordered,
                           success        |-> run.success],
           SameOutcome(run, cold), cold = Compile(entry.request, TextsOf(buffers)),
           \A u \in entry.closure : u \in DOMAIN buffers /\ buffers[u].text = texts[u]
    PROVE  Refreshed(entry.result, buffers) = ColdAnalysis(entry.request, buffers)
<1>1. PICK C : C = entry.closure
    OBVIOUS
<1>2. ToSet(cold.closure) = C
    BY <1>1 DEF SameOutcome
<1>3. ColdAnalysis(entry.request, buffers) =
          [request        |-> entry.request,
           texts          |-> [u \in C |-> buffers[u].text],
           versions       |-> [u \in C |-> buffers[u].version],
           missingModels  |-> cold.missingModels,
           resolvedModels |-> cold.resolvedModels,
           ordered        |-> cold.ordered,
           success        |-> cold.success]
    BY <1>2 DEF ColdAnalysis, Analysis
<1>4. [u \in C |-> texts[u]] = [u \in C |-> buffers[u].text]
    BY <1>1
<1>5. PICK shown : shown = [u \in C |-> versions[u]]
    OBVIOUS
<1>6. DOMAIN shown = C /\ C \subseteq DOMAIN buffers
    BY <1>1, <1>5
<1>7. [u \in DOMAIN shown |-> IF u \in DOMAIN buffers THEN buffers[u].version ELSE shown[u]]
          = [u \in C |-> buffers[u].version]
    BY <1>6
<1>8. entry.result = [request        |-> entry.request,
                      texts          |-> [u \in C |-> buffers[u].text],
                      versions       |-> shown,
                      missingModels  |-> cold.missingModels,
                      resolvedModels |-> cold.resolvedModels,
                      ordered        |-> cold.ordered,
                      success        |-> cold.success]
    BY <1>1, <1>4, <1>5 DEF SameOutcome
<1>9. Refreshed(entry.result, buffers) =
          [request        |-> entry.request,
           texts          |-> [u \in C |-> buffers[u].text],
           versions       |-> [u \in DOMAIN shown |->
                                 IF u \in DOMAIN buffers THEN buffers[u].version ELSE shown[u]],
           missingModels  |-> cold.missingModels,
           resolvedModels |-> cold.resolvedModels,
           ordered        |-> cold.ordered,
           success        |-> cold.success]
    BY <1>8 DEF Refreshed
<1> QED BY <1>3, <1>7, <1>9

\* What findExact accepts has the texts of its closure in the session; with
\* missing models the closure is the whole session.
LEMMA ReusableMatches ==
    ASSUME ReuseInv, NEW key \in DOMAIN rootCache.entries,
           NEW entry, entry = rootCache.entries[key], Reusable(entry, entry.request, identities)
    PROVE  /\ \A u \in entry.closure :
                  u \in DOMAIN sources /\ sources[u].text = entry.result.texts[u]
           /\ entry.missingModels = {} \/ entry.closure = DOMAIN sources
<1>1. Pinned(entry) /\ StoreInv /\ DOMAIN identities = DOMAIN sources
    BY DEF ReuseInv, PinnedInv, StoreInv, MapsAgree
<1>2. \A u \in entry.closure :
          u \in DOMAIN sources /\ sources[u].text = entry.result.texts[u]
    BY <1>1 DEF Pinned, Reusable, ContentStamp
<1>3. CASE Cardinality(entry.closure) = Cardinality(DOMAIN identities)
    <2>1. entry.closure \subseteq DOMAIN sources /\ IsFiniteSet(DOMAIN sources)
        BY <1>2 DEF ReuseInv
    <2>2. entry.closure = DOMAIN sources
        BY <1>1, <1>3, <2>1, FS_Subset
    <2> QED BY <1>2, <2>2
<1> QED BY <1>2, <1>3 DEF Reusable

\* A hit that meets the promise is the cold analysis.
LEMMA HitIsCold ==
    ASSUME CompilationIsLocal, ReuseInv, NEW request \in Requests,
           NEW key \in ExactMatches(rootCache, request, identities),
           Promised(rootCache.entries[key].result, request, sources)
    PROVE  Refreshed(rootCache.entries[key].result, sources) = ColdAnalysis(request, sources)
<1>1. PICK entry : entry = rootCache.entries[key]
    OBVIOUS
<1>2. key \in DOMAIN rootCache.entries /\ Reusable(entry, request, identities)
    BY <1>1 DEF ExactMatches
<1>3. entry.request = request
    BY <1>2 DEF Reusable
<1>4. /\ \A u \in entry.closure :
             u \in DOMAIN sources /\ sources[u].text = entry.result.texts[u]
      /\ entry.missingModels = {} \/ entry.closure = DOMAIN sources
    BY <1>1, <1>2, <1>3, ReusableMatches
<1>5. Computed(entry) /\ StoreInv
    BY <1>1, <1>2 DEF ReuseInv, PinnedInv
<1>6. PICK texts \in Registrable : \E versions : MadeFrom(entry, texts, versions)
    BY <1>5 DEF Computed
<1>7. PICK run : run = Compile(request, texts)
    OBVIOUS
<1>8. PICK others \in Registrable : others = TextsOf(sources)
    BY DEF ReuseInv
<1>9. PICK versions : MadeFrom(entry, texts, versions)
    BY <1>6
<1>10. /\ entry.closure = ToSet(run.closure) /\ entry.missingModels = run.missingModels
       /\ entry.result = [request        |-> entry.request,
                          texts          |-> [u \in entry.closure |-> texts[u]],
                          versions       |-> [u \in entry.closure |-> versions[u]],
                          missingModels  |-> run.missingModels,
                          resolvedModels |-> run.resolvedModels,
                          ordered        |-> run.ordered,
                          success        |-> run.success]
    BY <1>3, <1>7, <1>9 DEF MadeFrom
<1>11. entry.result.texts = [u \in entry.closure |-> texts[u]]
    BY <1>10
<1>12. /\ \A u \in entry.closure : u \in DOMAIN sources /\ sources[u].text = texts[u]
       /\ ToSet(request) \subseteq entry.closure
    BY <1>1, <1>4, <1>11 DEF Promised
<1>13. PICK cold : cold = Compile(entry.request, TextsOf(sources))
    OBVIOUS
<1>14. SameOutcome(run, cold)
    <2>1. DOMAIN others = DOMAIN sources /\ \A u \in DOMAIN sources : others[u] = sources[u].text
        BY <1>8 DEF TextsOf
    <2>2. run.missingModels = {} \/ ToSet(run.closure) = DOMAIN others
        BY <1>4, <1>10, <2>1
    <2>3. ToSet(request) \subseteq ToSet(run.closure)
        BY <1>10, <1>12
    <2>4. \A u \in ToSet(run.closure) : u \in DOMAIN others /\ others[u] = texts[u]
        BY <1>10, <1>12, <2>1
    <2>5. Unambiguous(RequiredBy([u \in ToSet(run.closure) |-> texts[u]]), others)
        BY <1>1, <1>8, <1>10, <1>11 DEF Promised
    <2>6. SameOutcome(run, Compile(request, others))
        BY <1>7, <2>2, <2>3, <2>4, <2>5 DEF CompilationIsLocal
    <2> QED BY <1>3, <1>8, <1>13, <2>6
<1>15. PICK buffers : buffers = sources
    OBVIOUS
<1>16. Refreshed(entry.result, buffers) = ColdAnalysis(entry.request, buffers)
    BY <1>10, <1>12, <1>13, <1>14, <1>15, RefreshedIsCold
<1> QED BY <1>1, <1>3, <1>15, <1>16

\* What is cached is always the outcome of a run on texts the session held.
LEMMA ReuseInvariant == SessionSpec => []ReuseInv
BY InitEstablishesReuseInv, NextPreservesReuseInv, PTL DEF SessionSpec

\* If the outcome of a compilation depends on its closure only, where no other
\* source declares a model that the closure requires, a warm session answers
\* like a cold one: what findExact returns for a request whose roots it covers
\* is, unless another source has come to declare a model it requires, the
\* analysis of the present sources with the versions shown now; after any
\* history of edits, analyses and evictions.
THEOREM WarmAlwaysCold ==
    ASSUME CompilationIsLocal
    PROVE  SessionSpec => []WarmEqualsColdAsPromised
<1>1. ReuseInv => WarmEqualsColdAsPromised
    BY HitIsCold DEF WarmEqualsColdAsPromised
<1> QED BY <1>1, ReuseInvariant, PTL

-----------------------------------------------------------------------------
(* The session implements its contract.                                    *)

\* A step that changes the documents is an edit of the contract.
LEMMA EditsSources ==
    ASSUME NEW u, answer' = NoAnswer,
           u \in DOMAIN sources \cup DOMAIN sources',
           DOMAIN sources \ {u} = DOMAIN sources' \ {u},
           \A w \in DOMAIN sources \ {u} : sources'[w] = sources[w]
    PROVE  Contract!Edit
BY DEF Contract!Edit

\* Every operation of the session is a step of the contract.
LEMMA ContractStep ==
    ASSUME CompilationIsLocal, ReuseInv, [SessionNext]_vars
    PROVE  [Contract!Next]_<<sources, answer>>
<1>1. CASE UNCHANGED vars
    BY <1>1 DEF vars, sourceVars
<1>2. CASE UNCHANGED sources /\ answer' = NoAnswer
    BY <1>2 DEF Contract!Next, Contract!Other
<1>3. ASSUME NEW doc \in Documents, NEW v \in Versions, UpdateSource(doc[1], doc[2], v)
      PROVE  Contract!Next
    <2>1. PICK u, t : u = doc[1] /\ t = doc[2]
        OBVIOUS
    <2>2. answer' = NoAnswer
        BY <1>3 DEF UpdateSource
    <2>3. CASE Rejected(u, t, v) \/ Unchanged(u, t, v)
        BY <2>2, <2>3 DEF Rejected, Unchanged, sourceVars, Contract!Next, Contract!Other
    <2>4. CASE VersionOnly(u, t, v)
        <3>1. u \in DOMAIN sources /\ sources' = [sources EXCEPT ![u].version = v]
            BY <2>4 DEF VersionOnly, Live
        <3>2. DOMAIN sources' = DOMAIN sources /\ \A w \in DOMAIN sources \ {u} : sources'[w] = sources[w]
            BY <3>1
        <3> QED BY <2>2, <3>1, <3>2, EditsSources DEF Contract!Next
    <2>5. CASE ContentChanged(u, t, v) \/ Added(u, t, v) \/ Reintroduced(u, t, v)
        <3>1. sources' = Put(sources, u, [text |-> t, version |-> v])
            BY <2>5 DEF ContentChanged, Added, Reintroduced, Store
        <3>2. /\ DOMAIN sources' = DOMAIN sources \cup {u}
              /\ \A w \in DOMAIN sources \ {u} : sources'[w] = sources[w]
            BY <3>1 DEF Put
        <3>3. u \in DOMAIN sources' /\ DOMAIN sources \ {u} = DOMAIN sources' \ {u}
            BY <3>2
        <3> QED BY <2>2, <3>2, <3>3, EditsSources DEF Contract!Next
    <2> QED BY <1>3, <2>1, <2>3, <2>4, <2>5 DEF UpdateSource, UpdateKept, UpdateAdded, UpdateChanged
<1>4. ASSUME NEW u \in Uris, RemoveSource(u)
      PROVE  Contract!Next
    <2>1. answer' = NoAnswer
        BY <1>4 DEF RemoveSource
    <2>2. CASE Removed(u)
        <3>1. u \in DOMAIN sources /\ sources' = Drop(sources, {u})
            BY <2>2 DEF Removed, Live
        <3>2. /\ DOMAIN sources \ {u} = DOMAIN sources' \ {u}
              /\ \A w \in DOMAIN sources \ {u} : sources'[w] = sources[w]
            BY <3>1 DEF Drop
        <3> QED BY <2>1, <3>1, <3>2, EditsSources DEF Contract!Next
    <2>3. CASE RemoveAbsent(u)
        BY <2>1, <2>3 DEF RemoveAbsent, sourceVars, Contract!Next, Contract!Other
    <2> QED BY <1>4, <2>2, <2>3 DEF RemoveSource
<1>5. ASSUME \/ \E u \in Uris : Parse(u) \/ EditorSnapshot(u)
             \/ \E request \in Requests : CompileOnly(request)
             \/ ClearIncrementalCaches
      PROVE  UNCHANGED sources /\ answer' = NoAnswer
    BY <1>5 DEF Parse, EditorSnapshot, Snapshot, CompileOnly, ClearIncrementalCaches, sourceVars
<1>6. ASSUME NEW request \in Requests, CompileAndAnalyze(request)
      PROVE  Contract!Next
    <2>1. UNCHANGED sources
        BY <1>6 DEF CompileAndAnalyze, AnalyzeHit, AnalyzeMiss, sourceVars
    <2>2. CASE AnalyzeMiss(request)
        <3>1. answer' = ColdAnalysis(request, sources)
            BY <2>2 DEF AnalyzeMiss, ColdAnalysis
        <3>2. answer'.request = request
            BY <3>1 DEF ColdAnalysis, Analysis
        <3> QED BY <2>1, <3>1, <3>2 DEF Contract!Next, Contract!Analyze
    <2>3. CASE AnalyzeHit(request)
        <3>1. PICK key \in ExactMatches(rootCache, request, identities) :
                  answer' = Refreshed(rootCache.entries[key].result, sources)
            BY <2>3 DEF AnalyzeHit
        <3>2. PICK result : result = rootCache.entries[key].result
            OBVIOUS
        <3>3. /\ result.request = request
              /\ answer'.request = result.request /\ answer'.texts = result.texts
            <4>1. PICK entry : entry = rootCache.entries[key]
                OBVIOUS
            <4>2. Computed(entry) /\ entry.request = request /\ result = entry.result
                BY <3>2, <4>1 DEF ExactMatches, Reusable, ReuseInv
            <4>3. PICK a, b, c, d, e, f :
                      result = [request |-> request, texts |-> a, versions |-> b,
                                missingModels |-> c, resolvedModels |-> d, ordered |-> e,
                                success |-> f]
                BY <4>2 DEF Computed, MadeFrom
            <4>4. answer' = [result EXCEPT !.versions =
                      [u \in DOMAIN @ |-> IF u \in DOMAIN sources THEN sources[u].version ELSE @[u]]]
                BY <3>1, <3>2 DEF Refreshed
            <4> QED BY <4>3, <4>4
        <3>4. Promised(answer', request, sources) => Promised(result, request, sources)
            BY <3>3 DEF Promised
        <3>5. Promised(answer', request, sources) => answer' = ColdAnalysis(request, sources)
            BY <3>1, <3>2, <3>4, HitIsCold
        <3> QED BY <2>1, <3>3, <3>5 DEF Contract!Next, Contract!Analyze
    <2> QED BY <1>6, <2>2, <2>3 DEF CompileAndAnalyze
<1> QED BY <1>1, <1>2, <1>3, <1>4, <1>5, <1>6 DEF SessionNext

\* Under the same hypothesis a session with its caches, indexes and identities
\* implements the contract of a session without any: every operation is an
\* edit of one document, an analysis answered with the cold one, or neither.
THEOREM SessionImplementsContract ==
    ASSUME CompilationIsLocal
    PROVE  SessionSpec => ImplementsContract
<1>1. SessionInit => Contract!Init
    BY DEF SessionInit, Init, Contract!Init, EmptyMap
<1>2. ReuseInv /\ [SessionNext]_vars => [Contract!Next]_(Contract!contractVars)
    BY ContractStep DEF Contract!contractVars
<1> QED BY <1>1, <1>2, ReuseInvariant, PTL DEF SessionSpec, ImplementsContract, Contract!Spec

-----------------------------------------------------------------------------
(* Adding a source (AdditionIsLocal).                                      *)

\* Only an addition brings a URI that had no stamp.
LEMMA NewStampIsAdded ==
    ASSUME StoreInv, [SessionNext]_vars, NEW n \in DOMAIN identities', n \notin Stamped
    PROVE  \E doc \in Documents : \E v \in Versions :
               n = doc[1] /\ UpdateAdded(doc[1], doc[2], v)
<1>1. n \notin DOMAIN identities /\ n \notin DOMAIN removedIdentities /\ n \notin DOMAIN sources
    BY DEF Stamped, StoreInv, MapsAgree
<1>2. ~ UNCHANGED identities
    BY <1>1
<1>3. ASSUME NEW u, NEW identity, identities' = Put(identities, u, identity)
      PROVE  u = n
    BY <1>1, <1>3 DEF Put
<1>4. ASSUME NEW doc \in Documents, NEW v \in Versions, UpdateSource(doc[1], doc[2], v)
      PROVE  n = doc[1] /\ UpdateAdded(doc[1], doc[2], v)
    <2>1. PICK u, t : u = doc[1] /\ t = doc[2]
        OBVIOUS
    <2>2. ~UpdateKept(u, t, v)
        BY <1>1, <1>2 DEF UpdateKept, Rejected, Unchanged, VersionOnly, sourceVars
    <2>3. CASE ContentChanged(u, t, v) \/ Added(u, t, v) \/ Reintroduced(u, t, v)
        <3>1. u = n
            BY <1>3, <2>3 DEF ContentChanged, Added, Reintroduced, Store
        <3>2. ~ContentChanged(u, t, v) /\ ~Reintroduced(u, t, v)
            BY <1>1, <3>1 DEF ContentChanged, Reintroduced, Live
        <3> QED BY <1>4, <2>1, <2>2, <3>1, <3>2 DEF UpdateSource, UpdateChanged
    <2> QED BY <1>4, <2>1, <2>2, <2>3 DEF UpdateSource, UpdateAdded, UpdateChanged
<1>5. ASSUME NEW u, RemoveSource(u)
      PROVE  FALSE
    BY <1>1, <1>2, <1>5 DEF RemoveSource, Removed, RemoveAbsent, sourceVars, Drop
<1>6. ASSUME \/ \E u \in Uris : Parse(u) \/ EditorSnapshot(u)
             \/ \E request \in Requests : CompileAndAnalyze(request) \/ CompileOnly(request)
             \/ ClearIncrementalCaches
             \/ UNCHANGED vars
      PROVE  FALSE
    BY <1>2, <1>6 DEF Parse, EditorSnapshot, Snapshot, CompileAndAnalyze, AnalyzeHit, AnalyzeMiss,
                CompileOnly, ClearIncrementalCaches, sourceVars, vars
<1> QED BY <1>4, <1>5, <1>6 DEF SessionNext

\* What an addition does.
LEMMA AdditionStep ==
    ASSUME StoreInv, NEW u, NEW t, NEW v, UpdateAdded(u, t, v)
    PROVE  /\ u \notin DOMAIN sources
           /\ sources' = Put(sources, u, [text |-> t, version |-> v])
           /\ identities' = Put(identities, u, FreshIdentity(t, v))
           /\ TextsOf(sources') = Put(TextsOf(sources), u, t)
<1>1. /\ u \notin DOMAIN sources
      /\ sources' = Put(sources, u, [text |-> t, version |-> v])
      /\ identities' = Put(identities, u, FreshIdentity(t, v))
    BY DEF UpdateAdded, Added, Store, Live
<1>2. /\ DOMAIN sources' = DOMAIN sources \cup {u}
      /\ \A w \in DOMAIN sources' : sources'[w].text = IF w = u THEN t ELSE sources[w].text
    BY <1>1 DEF Put
<1>3. TextsOf(sources') = Put(TextsOf(sources), u, t)
    BY <1>2 DEF TextsOf, Put
<1> QED BY <1>1, <1>3

\* An entry that stays in the cache when a source is added was there before,
\* and the source is usable and declares only models that are neither
\* resolved nor missing in it.
LEMMA EntryStays ==
    ASSUME StoreInv, IndexInv', NEW u, NEW t, NEW v, UpdateAdded(u, t, v),
           NEW key \in DOMAIN rootCache'.entries
    PROVE  /\ key \in DOMAIN rootCache.entries
           /\ rootCache'.entries[key] = rootCache.entries[key]
           /\ Header[t].usable
           /\ Elements(Header[t].models) # {}
           /\ Elements(Header[t].models) \cap rootCache.entries[key].resolvedModels = {}
<1>1. PICK record : record = ModelRecord(Header[t], ContentStamp(identities'[u]))
    OBVIOUS
<1>2. modelIndex'.records[u] = record
    <2>1. modelIndex'.records = [w \in DOMAIN sources' |->
              ModelRecord(Header[sources'[w].text], ContentStamp(identities'[w]))]
        BY DEF IndexInv, IndexesMirrorSources
    <2>2. u \in DOMAIN sources' /\ sources'[u].text = t
        <3>1. sources' = Put(sources, u, [text |-> t, version |-> v])
            BY AdditionStep
        <3> QED BY <3>1 DEF Put
    <2> QED BY <1>1, <2>1, <2>2
<1>3. /\ record.syntacticallyUsable = Header[t].usable
      /\ record.declaredModels = Elements(Header[t].models)
    BY <1>1 DEF ModelRecord
<1>4. PICK gone : gone = {k \in DOMAIN rootCache.entries :
                             InvalidatedByAdding(rootCache.entries[k], record)}
    OBVIOUS
<1>5. rootCache' = Erase(rootCache, gone)
    BY <1>2, <1>4 DEF UpdateAdded, InvalidateIf
<1>6. rootCache'.entries = Drop(rootCache.entries, gone \cap DOMAIN rootCache.entries)
    BY <1>5 DEF Erase
<1>7. /\ key \in DOMAIN rootCache.entries /\ key \notin gone
      /\ rootCache'.entries[key] = rootCache.entries[key]
    BY <1>6 DEF Drop
<1>8. ~InvalidatedByAdding(rootCache.entries[key], record)
    BY <1>4, <1>7
<1> QED BY <1>3, <1>7, <1>8 DEF InvalidatedByAdding

\* An analysis that is cold has the outcome of the present sources.
LEMMA ColdIsSame ==
    ASSUME NEW buffers, NEW entry, NEW texts, NEW versions, NEW run, NEW cold,
           entry.closure = ToSet(run.closure),
           entry.result = [request        |-> entry.request,
                           texts          |-> [u \in entry.closure |-> texts[u]],
                           versions       |-> [u \in entry.closure |-> versions[u]],
                           missingModels  |-> run.missingModels,
                           resolvedModels |-> run.resolvedModels,
                           ordered        |-> run.ordered,
                           success        |-> run.success],
           cold = Compile(entry.request, TextsOf(buffers)),
           Refreshed(entry.result, buffers) = ColdAnalysis(entry.request, buffers)
    PROVE  SameOutcome(run, cold)
<1>1. PICK T : T = [u \in entry.closure |-> texts[u]]
    OBVIOUS
<1>2. PICK V : V = [u \in entry.closure |-> versions[u]]
    OBVIOUS
<1>3. PICK N : N = [u \in DOMAIN V |-> IF u \in DOMAIN buffers THEN buffers[u].version ELSE V[u]]
    OBVIOUS
<1>4. PICK T2 : T2 = [u \in ToSet(cold.closure) |-> buffers[u].text]
    OBVIOUS
<1>5. PICK V2 : V2 = [u \in ToSet(cold.closure) |-> buffers[u].version]
    OBVIOUS
<1>6. entry.result = [request |-> entry.request, texts |-> T, versions |-> V,
                      missingModels |-> run.missingModels,
                      resolvedModels |-> run.resolvedModels,
                      ordered |-> run.ordered, success |-> run.success]
    BY <1>1, <1>2
<1>7. Refreshed(entry.result, buffers) =
          [request |-> entry.request, texts |-> T, versions |-> N,
           missingModels |-> run.missingModels, resolvedModels |-> run.resolvedModels,
           ordered |-> run.ordered, success |-> run.success]
    BY <1>3, <1>6 DEF Refreshed
<1>8. ColdAnalysis(entry.request, buffers) =
          [request |-> entry.request, texts |-> T2, versions |-> V2,
           missingModels |-> cold.missingModels, resolvedModels |-> cold.resolvedModels,
           ordered |-> cold.ordered, success |-> cold.success]
    BY <1>4, <1>5 DEF ColdAnalysis, Analysis
<1>9. PICK x : x = Refreshed(entry.result, buffers)
    OBVIOUS
<1>10. /\ x.texts = T /\ x.missingModels = run.missingModels
       /\ x.resolvedModels = run.resolvedModels
       /\ x.ordered = run.ordered /\ x.success = run.success
    BY <1>7, <1>9
<1>11. /\ x.texts = T2 /\ x.missingModels = cold.missingModels
       /\ x.resolvedModels = cold.resolvedModels
       /\ x.ordered = cold.ordered /\ x.success = cold.success
    BY <1>8, <1>9
<1>12. entry.closure = ToSet(cold.closure)
    <2>1. DOMAIN T = entry.closure /\ DOMAIN T2 = ToSet(cold.closure) /\ T = T2
        BY <1>1, <1>4, <1>10, <1>11
    <2> QED BY <2>1
<1> QED BY <1>10, <1>11, <1>12 DEF SameOutcome

\* A reusable success that is cold before an addition is cold after it.
LEMMA AdditionKeepsCold ==
    ASSUME AdditionIsLocal, ReuseInv, NEW doc \in Documents, NEW v \in Versions,
           UpdateAdded(doc[1], doc[2], v), IndexInv',
           NEW key \in DOMAIN rootCache'.entries, NEW entry, entry = rootCache'.entries[key],
           entry.result.success, Reusable(entry, entry.request, identities'),
           Reusable(entry, entry.request, identities) =>
               Refreshed(entry.result, sources) = ColdAnalysis(entry.request, sources)
    PROVE  Refreshed(entry.result, sources') = ColdAnalysis(entry.request, sources')
<1>1. PICK u, t : u = doc[1] /\ t = doc[2]
    OBVIOUS
<1>2. /\ UpdateAdded(u, t, v) /\ StoreInv /\ nextContentRevision \in Nat
      /\ DOMAIN identities = DOMAIN sources
    BY <1>1 DEF ReuseInv, PinnedInv, StoreInv, TypeOK, MapsAgree
<1>3. /\ u \notin DOMAIN sources
      /\ sources' = Put(sources, u, [text |-> t, version |-> v])
      /\ identities' = Put(identities, u, FreshIdentity(t, v))
      /\ TextsOf(sources') = Put(TextsOf(sources), u, t)
    BY <1>2, AdditionStep
<1>4. /\ key \in DOMAIN rootCache.entries /\ entry = rootCache.entries[key]
      /\ Header[t].usable /\ Elements(Header[t].models) # {}
      /\ Elements(Header[t].models) \cap entry.resolvedModels = {}
    BY <1>2, EntryStays
<1>5. Pinned(entry) /\ Computed(entry)
    BY <1>4 DEF ReuseInv, PinnedInv
<1>6. PICK texts \in Registrable : \E versions : MadeFrom(entry, texts, versions)
    BY <1>5 DEF Computed
<1>7. PICK versions : MadeFrom(entry, texts, versions)
    BY <1>6
<1>8. PICK run : run = Compile(entry.request, texts)
    OBVIOUS
<1>9. /\ entry.request \in Requests
      /\ entry.closure = ToSet(run.closure)
      /\ entry.missingModels = run.missingModels /\ entry.resolvedModels = run.resolvedModels
      /\ entry.result = [request        |-> entry.request,
                         texts          |-> [w \in entry.closure |-> texts[w]],
                         versions       |-> [w \in entry.closure |-> versions[w]],
                         missingModels  |-> run.missingModels,
                         resolvedModels |-> run.resolvedModels,
                         ordered        |-> run.ordered,
                         success        |-> run.success]
    BY <1>7, <1>8 DEF MadeFrom
<1>10. run.success /\ run.missingModels = {}
    BY <1>8, <1>9 DEF AdditionIsLocal
\* The stamp of the new source is in no closure.
<1>11. u \notin entry.closure
    <2> SUFFICES ASSUME u \in entry.closure PROVE FALSE
        OBVIOUS
    <2>1. ContentStamp(identities'[u]) = entry.stamps[u]
        BY DEF Reusable
    <2>2. identities'[u].contentRevision = nextContentRevision + 1
        BY <1>3 DEF Put, FreshIdentity
    <2>3. entry.stamps[u][1] = nextContentRevision + 1
        BY <2>1, <2>2 DEF ContentStamp
    <2> QED BY <1>2, <1>5, <2>3 DEF Pinned
<1>12. \A w \in entry.closure :
           /\ w \in DOMAIN identities /\ ContentStamp(identities[w]) = entry.stamps[w]
           /\ w \in DOMAIN sources /\ sources'[w] = sources[w] /\ w \in DOMAIN sources'
    BY <1>2, <1>3, <1>11 DEF Reusable, Put
<1>13. Reusable(entry, entry.request, identities)
    BY <1>9, <1>10, <1>12 DEF Reusable
<1>14. PICK cold : cold = Compile(entry.request, TextsOf(sources))
    OBVIOUS
<1>15. SameOutcome(run, cold)
    <2>1. PICK buffers : buffers = sources
        OBVIOUS
    <2>2. /\ Refreshed(entry.result, buffers) = ColdAnalysis(entry.request, buffers)
          /\ cold = Compile(entry.request, TextsOf(buffers))
        BY <1>13, <1>14, <2>1
    <2> QED BY ONLY <1>9, <2>2, ColdIsSame
<1>16. PICK before \in Registrable : before = TextsOf(sources)
    BY DEF ReuseInv
<1>17. PICK warm : warm = Compile(entry.request, TextsOf(sources'))
    OBVIOUS
<1>18. SameOutcome(cold, warm)
    <2>1. cold = Compile(entry.request, before) /\ cold.success
        BY <1>10, <1>14, <1>15, <1>16 DEF SameOutcome
    <2>2. Elements(Header[t].models) \cap cold.resolvedModels = {}
        BY <1>4, <1>9, <1>15 DEF SameOutcome
    <2>3. u \notin DOMAIN before
        BY <1>3, <1>16 DEF TextsOf
    <2>4. SameOutcome(cold, Compile(entry.request, Put(before, u, t)))
        BY <1>1, <1>4, <1>9, <2>1, <2>2, <2>3 DEF AdditionIsLocal
    <2> QED BY <1>3, <1>16, <1>17, <2>4
<1>19. SameOutcome(run, warm)
    BY <1>15, <1>18 DEF SameOutcome
<1>20. \A w \in entry.closure : sources[w].text = texts[w]
    <2>1. \A w \in entry.closure : sources[w].text = entry.result.texts[w]
        BY <1>4, <1>13, ReusableMatches
    <2>2. entry.result.texts = [w \in entry.closure |-> texts[w]]
        BY <1>9
    <2> QED BY <2>1, <2>2
<1>21. \A w \in entry.closure : w \in DOMAIN sources' /\ sources'[w].text = texts[w]
    BY <1>12, <1>20
<1>22. PICK buffers : buffers = sources'
    OBVIOUS
<1>23. Refreshed(entry.result, buffers) = ColdAnalysis(entry.request, buffers)
    BY <1>9, <1>17, <1>19, <1>21, <1>22, RefreshedIsCold
<1> QED BY <1>22, <1>23

\* If a successful compilation is not changed by one more source that declares
\* other models, the rules of SourceImpactAnalyzer are enough: registering a
\* source under a new URI turns no reusable success of the cache stale.
THEOREM AddingNeverMakesStale ==
    ASSUME AdditionIsLocal
    PROVE  SessionSpec => AddingNeverStales
<1>1. ReuseInv /\ IndexInv' /\ [SessionNext]_vars =>
          ((\E u \in DOMAIN identities' : u \notin Stamped)
              => StaleSuccesses(rootCache', identities', sources')
                     \subseteq StaleSuccesses(rootCache, identities, sources))
    <2> SUFFICES ASSUME ReuseInv, IndexInv', [SessionNext]_vars,
                        NEW n \in DOMAIN identities', n \notin Stamped,
                        NEW key \in StaleSuccesses(rootCache', identities', sources')
                 PROVE  key \in StaleSuccesses(rootCache, identities, sources)
        OBVIOUS
    <2>1. StoreInv
        BY DEF ReuseInv, PinnedInv
    <2>2. PICK doc \in Documents : \E v \in Versions : UpdateAdded(doc[1], doc[2], v)
        BY <2>1, NewStampIsAdded
    <2>3. PICK v \in Versions : UpdateAdded(doc[1], doc[2], v)
        BY <2>2
    <2>4. PICK entry : entry = rootCache'.entries[key]
        OBVIOUS
    <2>5. /\ key \in DOMAIN rootCache'.entries /\ entry.result.success
          /\ Reusable(entry, entry.request, identities')
          /\ Refreshed(entry.result, sources') # ColdAnalysis(entry.request, sources')
        BY <2>4 DEF StaleSuccesses
    <2>6. key \in DOMAIN rootCache.entries /\ entry = rootCache.entries[key]
        BY <2>1, <2>3, <2>4, <2>5, EntryStays
    <2>7. /\ Reusable(entry, entry.request, identities)
          /\ Refreshed(entry.result, sources) # ColdAnalysis(entry.request, sources)
        BY <2>3, <2>4, <2>5, AdditionKeepsCold
    <2> QED BY <2>5, <2>6, <2>7 DEF StaleSuccesses
<1> QED BY <1>1, ReuseInvariant, InitEstablishesIndexInv, NextPreservesIndexInv, PTL
        DEF SessionSpec, AddingNeverStales
=============================================================================
