--------------------------- MODULE SourceManager ---------------------------
(***************************************************************************)
(* The in-memory source store of a CompilerSession                         *)
(* (source/core/SourceManager.cpp).  A client hands over the bytes of a    *)
(* document under a URI together with the version its editor shows; the    *)
(* store classifies the update and stamps every accepted byte string with  *)
(* a content revision.  All caches of the session are keyed by that stamp, *)
(* so what they may reuse rests on the properties stated here.             *)
(*                                                                         *)
(* Bytes are an element of Texts; contentHash and byteLength are the two   *)
(* parts of Digest[text], which need not be injective (FNV-1a is "only a   *)
(* fast cache hint").                                                      *)
(***************************************************************************)
EXTENDS Integers, PartialMap

CONSTANTS
    Uris,           \* URIs a client may name
    InvalidUris,    \* those SourceManager::update refuses (empty, embedded NUL)
    Texts,          \* byte strings
    Digest,         \* Digest[text] = contentHash and byteLength of text
    Versions,       \* document versions clients send; 0 = "no version given"
    MaxRevision,    \* bound on nextContentRevision (model checking only)
    MaxGeneration   \* bound on generation (model checking only)

ASSUME SourceManagerAssumption ==
    /\ InvalidUris \subseteq Uris
    /\ Versions \subseteq Nat
    /\ DOMAIN Digest = Texts
    /\ MaxRevision \in Nat
    /\ MaxGeneration \in Nat

VARIABLES
    sources,            \* URI -> [text, version]
    identities,         \* URI -> identity of a live source
    removedIdentities,  \* URI -> identity a removed source had
    nextContentRevision,
    generation

sourceVars ==
    <<sources, identities, removedIdentities, nextContentRevision, generation>>

SourceBuffer == [text : Texts, version : Nat]

SourceIdentity ==
    [documentVersion  : Nat,
     contentRevision  : Nat,
     sourceGeneration : Nat,
     digest           : {Digest[t] : t \in Texts}]

Init ==
    /\ sources = EmptyMap
    /\ identities = EmptyMap
    /\ removedIdentities = EmptyMap
    /\ nextContentRevision = 0
    /\ generation = 0

-----------------------------------------------------------------------------
(* SourceManager::update.  The classification is decided by the guards of  *)
(* the six actions below, which are mutually exclusive.                    *)

Live(uri) == uri \in DOMAIN sources

SameBytes(uri, text) == sources[uri].text = text

\* Line 44: an older, explicitly given version never replaces a live source.
OutdatedVersion(uri, version) ==
    /\ version # 0
    /\ version < identities[uri].documentVersion

\* Lines 50-51: version zero keeps the version already known.
VisibleVersion(uri, version) ==
    IF version = 0 THEN identities[uri].documentVersion ELSE version

\* Mutant of FreshIdentity: nextContentRevision_++ in place of ++nextContentRevision_.
FreshIdentity_postIncrement(text, documentVersion) ==
    [documentVersion  |-> documentVersion,
     contentRevision  |-> nextContentRevision,
     sourceGeneration |-> generation + 1,
     digest           |-> Digest[text]]

\* The identity given to bytes that the store has not held under this URI.
FreshIdentity(text, documentVersion) ==
    [documentVersion  |-> documentVersion,
     contentRevision  |-> nextContentRevision + 1,
     sourceGeneration |-> generation + 1,
     digest           |-> Digest[text]]

\* Lines 99-102.
Store(uri, text, version, identity) ==
    /\ nextContentRevision < MaxRevision
    /\ generation < MaxGeneration
    /\ nextContentRevision' = nextContentRevision + 1
    /\ generation' = generation + 1
    /\ sources' = Put(sources, uri, [text |-> text, version |-> version])
    /\ identities' = Put(identities, uri, identity)
    /\ removedIdentities' = Drop(removedIdentities, {uri})

Rejected(uri, text, version) ==
    /\ \/ uri \in InvalidUris
       \/ Live(uri) /\ OutdatedVersion(uri, version)
    /\ UNCHANGED sourceVars

Unchanged(uri, text, version) ==
    /\ uri \notin InvalidUris
    /\ Live(uri)
    /\ SameBytes(uri, text)
    /\ version \in {0, identities[uri].documentVersion}
    /\ UNCHANGED sourceVars

VersionOnly(uri, text, version) ==
    /\ uri \notin InvalidUris
    /\ Live(uri)
    /\ SameBytes(uri, text)
    /\ version > identities[uri].documentVersion
    /\ sources' = [sources EXCEPT ![uri].version = version]
    /\ identities' = [identities EXCEPT ![uri].documentVersion = version]
    /\ UNCHANGED <<removedIdentities, nextContentRevision, generation>>

\* The buffer receives the version as passed (line 99), the identity the
\* visible one (line 76).
ContentChanged(uri, text, version) ==
    /\ uri \notin InvalidUris
    /\ Live(uri)
    /\ ~OutdatedVersion(uri, version)
    /\ ~SameBytes(uri, text)
    /\ Store(uri, text, version, FreshIdentity(text, VisibleVersion(uri, version)))

Added(uri, text, version) ==
    /\ uri \notin InvalidUris
    /\ ~Live(uri)
    /\ uri \notin DOMAIN removedIdentities
    /\ Store(uri, text, version, FreshIdentity(text, version))

\* A source that comes back is accepted with any version.
Reintroduced(uri, text, version) ==
    /\ uri \notin InvalidUris
    /\ ~Live(uri)
    /\ uri \in DOMAIN removedIdentities
    /\ Store(uri, text, version, FreshIdentity(text, version))

Update(uri, text, version) ==
    \/ Rejected(uri, text, version)
    \/ Unchanged(uri, text, version)
    \/ VersionOnly(uri, text, version)
    \/ ContentChanged(uri, text, version)
    \/ Added(uri, text, version)
    \/ Reintroduced(uri, text, version)

\* SourceManager::remove; removing an absent source returns false.
RemoveAbsent(uri) == ~Live(uri) /\ UNCHANGED sourceVars

\* Mutant of Removed: the tombstone is stamped without advancing generation_.
Removed_sameGeneration(uri) ==
    /\ Live(uri)
    /\ removedIdentities' =
           Put(removedIdentities, uri,
               [identities[uri] EXCEPT !.sourceGeneration = generation])
    /\ sources' = Drop(sources, {uri})
    /\ identities' = Drop(identities, {uri})
    /\ UNCHANGED <<nextContentRevision, generation>>

Removed(uri) ==
    /\ Live(uri)
    /\ generation < MaxGeneration
    /\ generation' = generation + 1
    /\ removedIdentities' =
           Put(removedIdentities, uri,
               [identities[uri] EXCEPT !.sourceGeneration = generation + 1])
    /\ sources' = Drop(sources, {uri})
    /\ identities' = Drop(identities, {uri})
    /\ UNCHANGED nextContentRevision

Next ==
    \E uri \in Uris :
        \/ \E text \in Texts, version \in Versions : Update(uri, text, version)
        \/ Removed(uri)
        \/ RemoveAbsent(uri)

Spec == Init /\ [][Next]_sourceVars

-----------------------------------------------------------------------------
(* Properties.                                                             *)

\* Every variable of the store has its type; live and removed sources are
\* accepted URIs.
TypeOK ==
    /\ DOMAIN sources \cup DOMAIN removedIdentities \subseteq Uris \ InvalidUris
    /\ sources \in [DOMAIN sources -> SourceBuffer]
    /\ identities \in [DOMAIN identities -> SourceIdentity]
    /\ removedIdentities \in [DOMAIN removedIdentities -> SourceIdentity]
    /\ nextContentRevision \in Nat
    /\ generation \in Nat

\* The three maps of SourceManager agree: a URI is live in both sources_ and
\* identities_ or in neither, never both live and removed, and the identity of
\* a live source carries the hash and length of the bytes stored under it.
MapsAgree ==
    /\ DOMAIN identities = DOMAIN sources
    /\ DOMAIN removedIdentities \cap DOMAIN sources = {}
    /\ \A u \in DOMAIN sources : identities[u].digest = Digest[sources[u].text]

Stamped == DOMAIN identities \cup DOMAIN removedIdentities

Stamp(u) == IF u \in DOMAIN identities THEN identities[u] ELSE removedIdentities[u]

\* A content revision and a source generation are issued once: no two URIs,
\* live or removed, carry the same one, and none is ahead of its counter.
StampsUnique ==
    /\ \A u \in Stamped : /\ Stamp(u).contentRevision \in 1..nextContentRevision
                          /\ Stamp(u).sourceGeneration \in 1..generation
    /\ \A u, v \in Stamped :
           u # v => /\ Stamp(u).contentRevision # Stamp(v).contentRevision
                    /\ Stamp(u).sourceGeneration # Stamp(v).sourceGeneration

\* A content revision pins its bytes for ever: in every step, a live identity
\* whose revision had been issued before belongs to a source that was live
\* with that revision and those bytes.  New bytes, and bytes that return after
\* a removal, therefore never meet a cache entry made for an older revision.
RevisionPinsBytes ==
    [][\A u \in DOMAIN identities' :
           identities'[u].contentRevision <= nextContentRevision =>
               /\ u \in DOMAIN sources /\ u \in DOMAIN identities
               /\ identities[u].contentRevision = identities'[u].contentRevision
               /\ sources[u].text = sources'[u].text]_sourceVars

\* While a source stays in the session the document version of its identity,
\* which decides whether an update is outdated, never decreases.  It says
\* nothing of the version in the buffer, which snapshots show: an update with
\* new bytes and version 0 resets that one (line 99).
IdentityVersionsGrow ==
    [][\A u \in DOMAIN identities \cap DOMAIN identities' :
           identities'[u].documentVersion >= identities[u].documentVersion]_sourceVars
=============================================================================
