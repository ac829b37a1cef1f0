------------------------- MODULE RepositoryResources -------------------------
(***************************************************************************)
(* RepositoryResourceCoordinator.load (packages/repository-core) for one    *)
(* URI over the file cache: a client looks the entry up, checks it, asks    *)
(* the transport, checks the answer and stores it.  Between the awaits of   *)
(* one load the steps of the others take place, and what the load has read  *)
(* of the cache may be outdated when it uses it.                            *)
(*                                                                         *)
(* A request fixes offline, allowStaleOnError, the MD5 expected (None: not  *)
(* given, or validateChecksums is off) and the ttl; optional decides how a  *)
(* failure is reported.  What the kind of a resource decides, its limit of  *)
(* bytes, is the set Oversized.                                             *)
(***************************************************************************)
EXTENDS NodeFileCache

CONSTANTS
    Requests,
    Digest,         \* the MD5 of a body
    Oversized       \* bodies that exceed the limit

ASSUME ResourcesAssumption ==
    /\ DOMAIN Digest = Bodies
    /\ Oversized \subseteq Bodies
    /\ \A r \in Requests : /\ r.offline \in BOOLEAN
                           /\ r.allowStale \in BOOLEAN
                           /\ r.ttl \in Nat

VARIABLES load      \* load[c]: the load of client c, or its last answer

resourcesVars == <<cacheVars, load>>

\* What the transport may answer; transient() tells the failures apart.
Failures == {"not found", "refused", "transient", "cancelled"}

\* mismatch: the cached content had the wrong checksum.  fault, history: the
\* transport failed, was cancelled or had a body that is wrong or too large.
NoLoad == [pc |-> "idle", request |-> None, entry |-> None, mismatch |-> FALSE,
           body |-> None, success |-> FALSE, fromCache |-> FALSE, stale |-> FALSE,
           fault |-> FALSE]

Init == CacheInit /\ load = [c \in Clients |-> NoLoad]

-----------------------------------------------------------------------------
Matches(request, body) == request.expected # None => Digest[body] = request.expected

\* classifyCacheEntry: an entry of the future is stale, and so is every
\* entry when there is no ttl.
Fresh(entry, now, ttl) ==
    entry.storedAt <= now /\ ttl > 0 /\ now < entry.storedAt + ttl

\* A load that is over keeps its request and its answer.
Failed(l) ==
    [NoLoad EXCEPT !.pc = "done", !.request = l.request, !.fault = l.fault]
Answer(l, body, fromCache, stale) ==
    [NoLoad EXCEPT !.pc = "done", !.request = l.request, !.fault = l.fault,
                   !.body = body, !.success = TRUE, !.fromCache = fromCache,
                   !.stale = stale, !.mismatch = l.mismatch]

Goes(c, l) == load' = [load EXCEPT ![c] = l]

-----------------------------------------------------------------------------
Begin(c) ==
    /\ load[c].pc \in {"idle", "done"}
    /\ \E r \in Requests : Goes(c, [NoLoad EXCEPT !.pc = "cache", !.request = r])
    /\ Sets(c, StartGet)
    /\ UNCHANGED <<clock, json, data, puts, removals, faults, stored>>

\* clear() of the cache, by whoever owns it.
Clear(c) ==
    /\ load[c].pc \in {"idle", "done"}
    /\ Goes(c, [NoLoad EXCEPT !.pc = "clearing"])
    /\ Sets(c, [NoOp EXCEPT !.pc = "list"])
    /\ UNCHANGED <<clock, json, data, puts, removals, faults, stored>>

Cleared(c) ==
    /\ load[c].pc = "clearing" /\ op[c].pc = "deleted"
    /\ Goes(c, NoLoad)
    /\ Sets(c, NoOp)
    /\ UNCHANGED <<clock, json, data, puts, removals, faults, stored>>

\* The cache has answered.
Classify(c) ==
    /\ load[c].pc = "cache" /\ op[c].pc = "got"
    /\ LET request == load[c].request
           entry == op[c].entry
           fresh == entry # None /\ Fresh(entry, clock, request.ttl)
           usable == entry # None /\ (fresh \/ request.offline)
       IN  \/ /\ usable /\ Matches(request, entry.body)
              /\ Goes(c, Answer(load[c], entry.body, TRUE, ~fresh))
              /\ Sets(c, NoOp)
           \/ /\ usable /\ ~Matches(request, entry.body)
              /\ Goes(c, [load[c] EXCEPT !.pc = "discard", !.entry = entry,
                                         !.mismatch = TRUE])
              /\ Sets(c, StartDelete)
           \/ /\ ~usable
              /\ Goes(c, IF request.offline THEN Failed(load[c])
                         ELSE [load[c] EXCEPT !.pc = "transport", !.entry = entry])
              /\ Sets(c, NoOp)
    /\ UNCHANGED <<clock, json, data, puts, removals, faults, stored>>

\* #cacheDelete: a failure is a warning.
Discarded(c) ==
    /\ load[c].pc = "discard" /\ op[c].pc = "deleted"
    /\ Goes(c, IF load[c].request.offline THEN Failed(load[c])
               ELSE [load[c] EXCEPT !.pc = "transport"])
    /\ Sets(c, NoOp)
    /\ UNCHANGED <<clock, json, data, puts, removals, faults, stored>>

\* A bug of a load that forgets that it has found its entry to be wrong.
TransportFails_forgets(c) ==
    /\ load[c].pc = "transport"
    /\ \E failure \in Failures :
           LET l == [load[c] EXCEPT !.fault = TRUE]
               standsIn == /\ failure = "transient"
                           /\ l.request.allowStale
                           /\ l.entry # None
           IN  Goes(c, IF standsIn THEN Answer(l, l.entry.body, TRUE, TRUE)
                       ELSE Failed(l))
    /\ UNCHANGED <<clock, json, data, puts, op, removals, faults, stored>>

\* The transport failed: an entry that is out of date may stand in, not so
\* one that was found to be wrong.
TransportFails(c) ==
    /\ load[c].pc = "transport"
    /\ \E failure \in Failures :
           LET l == [load[c] EXCEPT !.fault = TRUE]
               standsIn == /\ failure = "transient"
                           /\ l.request.allowStale
                           /\ ~l.mismatch /\ l.entry # None
           IN  Goes(c, IF standsIn THEN Answer(l, l.entry.body, TRUE, TRUE)
                       ELSE Failed(l))
    /\ UNCHANGED <<clock, json, data, puts, op, removals, faults, stored>>

\* The transport has answered: what passes is stored.
TransportAnswers(c) ==
    /\ load[c].pc = "transport"
    /\ \E body \in Bodies :
           \/ /\ body \in Oversized \/ ~Matches(load[c].request, body)
              /\ Goes(c, Failed([load[c] EXCEPT !.fault = TRUE]))
              /\ UNCHANGED op
           \/ /\ body \notin Oversized /\ Matches(load[c].request, body)
              /\ Goes(c, [load[c] EXCEPT !.pc = "store", !.body = body])
              /\ Sets(c, StartPut(body, clock))
    /\ UNCHANGED <<clock, json, data, puts, removals, faults, stored>>

\* A bug of a load that gives up when it cannot store.
Stored_orFails(c) ==
    /\ load[c].pc = "store" /\ op[c].pc = "put"
    /\ Goes(c, IF op[c].ok THEN Answer(load[c], load[c].body, FALSE, FALSE)
               ELSE Failed(load[c]))
    /\ Sets(c, NoOp)
    /\ UNCHANGED <<clock, json, data, puts, removals, faults, stored>>

\* #cachePut: a failure is a warning.
Stored(c) ==
    /\ load[c].pc = "store" /\ op[c].pc = "put"
    /\ Goes(c, Answer(load[c], load[c].body, FALSE, FALSE))
    /\ Sets(c, NoOp)
    /\ UNCHANGED <<clock, json, data, puts, removals, faults, stored>>

Crash(c) ==
    /\ load[c].pc \notin {"idle", "done"}
    /\ Goes(c, NoLoad)
    /\ CacheCrash(c)

Tick == CacheTick /\ UNCHANGED load
PowerLoss == CachePowerLoss /\ load' = [c \in Clients |-> NoLoad]

\* A step of the file cache for an operation of a load.
InCache == RecordGap /\ UNCHANGED load

Next ==
    \/ \E c \in Clients :
           \/ Begin(c) /\ RecordGap
           \/ Clear(c) /\ RecordGap
           \/ Cleared(c) /\ RecordGap
           \/ Classify(c) /\ RecordGap
           \/ Discarded(c) /\ RecordGap
           \/ TransportFails(c) /\ RecordGap
           \/ TransportAnswers(c) /\ RecordGap
           \/ Stored(c) /\ RecordGap
           \/ Crash(c) /\ RecordGap
           \/ GetMetadata(c) /\ InCache
           \/ GetContent(c) /\ InCache
           \/ GetFails(c) /\ InCache
           \/ PutTemporaries(c) /\ InCache
           \/ PutContent(c) /\ InCache
           \/ PutMetadata(c) /\ InCache
           \/ PutUnblock(c) /\ InCache
           \/ PutUndo(c) /\ InCache
           \/ PutClean(c) /\ InCache
           \/ DeleteLookup(c) /\ InCache
           \/ ClearLookup(c) /\ InCache
           \/ Remove(c) /\ InCache
           \/ RemovalsDone(c) /\ InCache
    \/ Tick /\ RecordGap
    \/ PowerLoss /\ RecordGap

Spec == Init /\ [][Next]_resourcesVars

-----------------------------------------------------------------------------
TypeOK ==
    /\ CacheTypeOK
    /\ \A c \in Clients :
           /\ load[c].pc \in {"idle", "cache", "discard", "transport", "store",
                              "clearing", "done"}
           /\ load[c].body \in Bodies \cup {None}
           /\ load[c].entry \in Entries \cup {None}

\* An answer that is not marked stale has the content that its checksum asks
\* for, wherever it came from; and so has every answer of a load that was
\* offline or has found its entry to be wrong: such an entry never comes back
\* as the stale one that stands in for a failed download.
UnmarkedAnswersVerified ==
    \A c \in Clients :
        /\ load[c].pc = "done" /\ load[c].success
        /\ load[c].stale => load[c].request.offline \/ load[c].mismatch
        => Matches(load[c].request, load[c].body)

\* The cache can not make a load fail that may use the network: neither its
\* wrong entries nor its failures, only the transport does.
CacheNeverFailsLoads ==
    \A c \in Clients :
        load[c].pc = "done" /\ ~load[c].success /\ ~load[c].request.offline
            => load[c].fault
=============================================================================
