---------------------- MODULE RepositoryResourceLoader ----------------------
(***************************************************************************)
(* Loading one remote resource through the file cache                      *)
(* (RepositoryResourceLoader::load and ::loadModel over RepositoryCache),  *)
(* by several processes that share the cache directory and may crash.      *)
(*                                                                         *)
(* A step is one access to what processes share: reading the cache file,   *)
(* reading its modification time, one request to the server, creating,     *)
(* completing and renaming a temporary file, removing the cache file.      *)
(* What a process computes in between belongs to the step before.          *)
(*                                                                         *)
(* A request fixes the options of the call: offline, allowStaleOnError,    *)
(* the MD5 expected (None: not given, or validateChecksums is off) and     *)
(* whether the answer must be a file (materialize).  The options optional  *)
(* and kind change messages only.                                          *)
(***************************************************************************)
EXTENDS Naturals

CONSTANTS
    Processes,
    Bodies,         \* what the server may answer with
    Digest,         \* the MD5 of a body
    Requests,
    InitialFiles,   \* cache files that earlier runs may have left
    Ttl,
    MaxTime,        \* bound on the clock
    Torn,           \* a file that has been created and not been completed
    None

ASSUME LoaderAssumption ==
    /\ Ttl \in Nat \ {0} /\ MaxTime \in Nat
    /\ Torn \notin Bodies /\ None \notin Bodies /\ Torn # None
    /\ DOMAIN Digest = Bodies \cup {Torn}
    /\ \A r \in Requests : /\ r.offline \in BOOLEAN
                           /\ r.allowStale \in BOOLEAN
                           /\ r.materialize \in BOOLEAN
    /\ InitialFiles \subseteq [content : Bodies, written : Nat]

VARIABLES
    clock,
    body,           \* what the server has at present
    cacheFile,      \* the published file, or None
    temporary,      \* temporary[p]: the temporary file p is writing, or None
    call            \* call[p]: the call p is in, or has last returned from

loaderVars == <<clock, body, cacheFile, temporary, call>>

Places == {"idle", "lookup", "age", "request", "open", "write", "publish",
           "invalidate", "materialize", "done"}

\* retried: the one repeated download of loadModel is under way or over.
\* The last four fields only record what happened: when the cache file was
\* written whose content was read; whether it was out of date when the age
\* was taken, and whether another file was in its place by then; and whether
\* the call met a fault outside the cache: a server that did not answer or
\* had a wrong body, or a private directory that could not be written.
NoCall ==
    [pc |-> "idle", request |-> None, cached |-> None, content |-> None,
     fromCache |-> FALSE, stale |-> FALSE, path |-> "none", success |-> FALSE,
     retried |-> FALSE, stamp |-> 0, expired |-> FALSE, swapped |-> FALSE,
     fault |-> FALSE]

Init ==
    /\ clock = 0
    /\ body \in Bodies
    /\ cacheFile \in InitialFiles \cup {None}
    /\ temporary = [p \in Processes |-> None]
    /\ call = [p \in Processes |-> NoCall]

-----------------------------------------------------------------------------
\* What loadModel does with a resource in hand.

Matches(request, content) ==
    request.expected # None => Digest[content] = request.expected

\* A call that is over keeps its request and its answer only.
Failed(c) ==
    [NoCall EXCEPT !.pc = "done", !.request = c.request, !.fault = c.fault]

Accepted(c) ==
    [c EXCEPT !.pc = IF c.request.materialize THEN "materialize" ELSE "done",
              !.success = TRUE, !.cached = None, !.retried = FALSE]

\* A bug of a loader that believes what it has stored itself.
Check_trustsCache(c) ==
    IF Matches(c.request, c.content) \/ c.fromCache THEN Accepted(c) ELSE Failed(c)

\* A bug of a loader that does not try again.
Check_noRetry(c) ==
    IF Matches(c.request, c.content) THEN Accepted(c) ELSE Failed(c)

\* A bug of a loader that downloads until the checksum matches.
Check_untilMatch(c) ==
    IF Matches(c.request, c.content) THEN Accepted(c)
    ELSE IF ~c.request.offline THEN [c EXCEPT !.pc = "invalidate"]
    ELSE Failed(c)

Check(c) ==
    IF Matches(c.request, c.content) THEN Accepted(c)
    ELSE IF c.fromCache /\ ~c.request.offline THEN [c EXCEPT !.pc = "invalidate"]
    ELSE Failed(c)

FromCache(c, stale) ==
    [c EXCEPT !.content = c.cached, !.fromCache = TRUE, !.stale = stale,
              !.path = "cache"]

\* What load does once the cache has been looked up.
AfterLookup(c, fresh) ==
    IF c.cached # None /\ (fresh \/ c.request.offline)
    THEN Check(FromCache(c, ~fresh))
    ELSE IF c.request.offline THEN Failed(c)
    ELSE [c EXCEPT !.pc = "request"]

\* A bug of a loader that does not say that the entry is out of date.
AfterFailure_unmarked(c) ==
    IF ~c.retried /\ c.cached # None /\ c.request.allowStale
    THEN Check(FromCache(c, FALSE))
    ELSE Failed(c)

\* The request failed: in load an expired entry may stand in, in the retry
\* of loadModel nothing does.
AfterFailure(c) ==
    IF ~c.retried /\ c.cached # None /\ c.request.allowStale
    THEN Check(FromCache(c, TRUE))
    ELSE Failed(c)

-----------------------------------------------------------------------------
Begin(p) ==
    /\ call[p].pc \in {"idle", "done"}
    /\ \E r \in Requests :
           call' = [call EXCEPT ![p] = [NoCall EXCEPT !.pc = "lookup", !.request = r]]
    /\ UNCHANGED <<clock, body, cacheFile, temporary>>

\* RepositoryCache::lookup: the content, and in a step of its own the age.
LookupContent(p) ==
    /\ call[p].pc = "lookup"
    /\ call' = [call EXCEPT ![p] =
           IF cacheFile = None THEN AfterLookup(@, FALSE)
           ELSE [@ EXCEPT !.pc = "age", !.cached = cacheFile.content,
                          !.stamp = cacheFile.written]]
    /\ UNCHANGED <<clock, body, cacheFile, temporary>>

\* now - written < ttl, also when written lies in the future.
LookupAge(p) ==
    /\ call[p].pc = "age"
    /\ call' = [call EXCEPT ![p] =
           AfterLookup([@ EXCEPT !.stamp = 0,
                                 !.expired = clock >= call[p].stamp + Ttl,
                                 !.swapped = cacheFile # None /\ cacheFile.written # call[p].stamp],
                       cacheFile # None /\ clock < cacheFile.written + Ttl)]
    /\ UNCHANGED <<clock, body, cacheFile, temporary>>

\* download: the server answers with what it has, or it fails.
Request(p) ==
    /\ call[p].pc = "request"
    /\ \/ call' = [call EXCEPT ![p] =
              [@ EXCEPT !.pc = "open", !.content = body, !.fromCache = FALSE,
                        !.stale = FALSE, !.path = "none", !.expired = FALSE,
                        !.swapped = FALSE,
                        !.fault = call[p].fault \/ ~Matches(call[p].request, body)]]
       \/ call' = [call EXCEPT ![p] = AfterFailure([@ EXCEPT !.fault = TRUE])]
    /\ UNCHANGED <<clock, body, cacheFile, temporary>>

\* writeAtomically.  If a step fails the temporary file is removed, and the
\* download goes on without a file.
StoreFailed(p) ==
    /\ temporary' = [temporary EXCEPT ![p] = None]
    /\ call' = [call EXCEPT ![p] = Check(@)]
    /\ UNCHANGED cacheFile

\* A bug of a cache that writes into the file it publishes.
OpenTemporary_inPlace(p) ==
    /\ call[p].pc = "open"
    /\ cacheFile' = [content |-> Torn, written |-> clock]
    /\ temporary' = [temporary EXCEPT ![p] = [content |-> Torn, written |-> clock]]
    /\ call' = [call EXCEPT ![p].pc = "write"]
    /\ UNCHANGED <<clock, body>>

OpenTemporary(p) ==
    /\ call[p].pc = "open"
    /\ \/ /\ temporary' = [temporary EXCEPT ![p] = [content |-> Torn, written |-> clock]]
          /\ call' = [call EXCEPT ![p].pc = "write"]
          /\ UNCHANGED cacheFile
       \/ StoreFailed(p)
    /\ UNCHANGED <<clock, body>>

WriteTemporary(p) ==
    /\ call[p].pc = "write"
    /\ \/ /\ temporary' = [temporary EXCEPT
                 ![p] = [content |-> call[p].content, written |-> clock]]
          /\ call' = [call EXCEPT ![p].pc = "publish"]
          /\ UNCHANGED cacheFile
       \/ StoreFailed(p)
    /\ UNCHANGED <<clock, body>>

PublishFile(p) ==
    /\ call[p].pc = "publish"
    /\ \/ /\ cacheFile' = temporary[p]
          /\ temporary' = [temporary EXCEPT ![p] = None]
          /\ call' = [call EXCEPT ![p] = Check([@ EXCEPT !.path = "cache"])]
       \/ StoreFailed(p)
    /\ UNCHANGED <<clock, body>>

\* The cached body is not the one expected: remove the cache file, whatever
\* it holds by now, and download again.
Invalidate(p) ==
    /\ call[p].pc = "invalidate"
    /\ cacheFile' = None
    /\ call' = [call EXCEPT ![p].pc = "request", ![p].retried = TRUE]
    /\ UNCHANGED <<clock, body, temporary>>

\* materializeFallback: without a file in the cache the content is written
\* to a directory of the process.
Materialize(p) ==
    /\ call[p].pc = "materialize"
    /\ \/ /\ call[p].path = "cache" /\ cacheFile # None
          /\ call' = [call EXCEPT ![p].pc = "done"]
       \/ /\ call[p].path = "none" \/ cacheFile = None
          /\ \/ call' = [call EXCEPT ![p].pc = "done", ![p].path = "private"]
             \/ call' = [call EXCEPT ![p] = Failed([@ EXCEPT !.fault = TRUE])]
    /\ UNCHANGED <<clock, body, cacheFile, temporary>>

\* A process ends in the middle of a call.  Its temporary file stays on disk
\* under a name that no process uses again.
Crash(p) ==
    /\ call[p].pc \notin {"idle", "done"}
    /\ call' = [call EXCEPT ![p] = NoCall]
    /\ temporary' = [temporary EXCEPT ![p] = None]
    /\ UNCHANGED <<clock, body, cacheFile>>

Tick ==
    /\ clock < MaxTime
    /\ clock' = clock + 1
    /\ UNCHANGED <<body, cacheFile, temporary, call>>

\* The repository publishes another body under the same URI.
ServerChange ==
    /\ body' \in Bodies \ {body}
    /\ UNCHANGED <<clock, cacheFile, temporary, call>>

Step(p) ==
    \/ LookupContent(p)
    \/ LookupAge(p)
    \/ Request(p)
    \/ OpenTemporary(p)
    \/ WriteTemporary(p)
    \/ PublishFile(p)
    \/ Invalidate(p)
    \/ Materialize(p)

Next ==
    \/ \E p \in Processes : Begin(p) \/ Step(p) \/ Crash(p)
    \/ Tick
    \/ ServerChange

Spec == Init /\ [][Next]_loaderVars

\* A call is synchronous and the transport bounds its requests: a process
\* that has begun a call keeps taking its steps, or crashes.
FairSpec == Spec /\ \A p \in Processes : WF_loaderVars(Step(p))

-----------------------------------------------------------------------------
TypeOK ==
    /\ clock \in 0..MaxTime
    /\ body \in Bodies
    /\ cacheFile \in [content : Bodies, written : Nat] \cup {None}
    /\ \A p \in Processes :
           /\ temporary[p] \in [content : Bodies \cup {Torn}, written : Nat] \cup {None}
           /\ call[p].pc \in Places
           /\ call[p].pc # "idle" => call[p].request \in Requests
           /\ call[p].cached \in Bodies \cup {None}
           /\ call[p].content \in Bodies \cup {None}
           /\ call[p].path \in {"none", "cache", "private"}

\* A call succeeds only with the body its checksum asks for, whether that
\* came from the server, from a fresh entry, from an expired one that stood
\* in for a failed download or from one served offline, and whatever other
\* processes stored, replaced or removed meanwhile.
VerifiedAnswers ==
    \A p \in Processes :
        call[p].pc \in {"materialize", "done"} /\ call[p].success =>
            /\ call[p].content \in Bodies
            /\ Matches(call[p].request, call[p].content)

\* A download is stored before its checksum is known, so the cache may hold
\* a wrong body, and keeps it after the call has failed.  It never makes a
\* later call fail that may use the network: such a call fails only if it
\* met a fault outside the cache itself.
WrongFileNeverBlocks ==
    \A p \in Processes :
        call[p].pc = "done" /\ ~call[p].success /\ ~call[p].request.offline
            => call[p].fault

\* Readers and later runs see whole files only, although processes may end
\* at any step of a write and several write at a time; and a store that
\* fails removes its temporary file.
FilesWhole ==
    /\ cacheFile # None => cacheFile.content \in Bodies
    /\ \A p \in Processes :
           call[p].pc \in {"idle", "lookup", "materialize", "done"} => temporary[p] = None

\* Every call returns or ends with its process: the retry after a checksum
\* mismatch happens once, also if other processes keep storing wrong bodies.
LoadsReturn ==
    \A p \in Processes : call[p].pc # "idle" ~> call[p].pc \in {"idle", "done"}

\* An answer from the cache that is not marked stale was out of date only if
\* another process published a file between the two looks of lookup(), which
\* then takes the age of the new file for that of the content it has read.
FreshMeansRecent ==
    \A p \in Processes :
        /\ call[p].pc = "done" /\ call[p].success
        /\ call[p].fromCache /\ ~call[p].stale /\ call[p].expired
        => call[p].swapped
=============================================================================
