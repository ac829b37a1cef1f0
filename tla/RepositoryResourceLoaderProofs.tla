------------------- MODULE RepositoryResourceLoaderProofs -------------------
(***************************************************************************)
(* Proofs about RepositoryResourceLoader for any number of processes, any  *)
(* set of bodies and requests, any TTL and any cache files left by earlier *)
(* runs.  A call is treated as a record of its own: the lemmas say what    *)
(* the operators on calls make of a good one.                              *)
(***************************************************************************)
EXTENDS RepositoryResourceLoader, TLAPS

Files == [content : Bodies, written : Nat]
Drafts == [content : Bodies \cup {Torn}, written : Nat]

Calls ==
    [pc : Places, request : Requests \cup {None}, cached : Bodies \cup {None},
     content : Bodies \cup {None}, fromCache : BOOLEAN, stale : BOOLEAN,
     path : {"none", "cache", "private"}, success : BOOLEAN, retried : BOOLEAN,
     stamp : Nat, expired : BOOLEAN, swapped : BOOLEAN, fault : BOOLEAN]

\* A resource in hand: if it came from the server and is wrong, that is a
\* fault; if it came from the cache and is not marked stale, it is out of
\* date only if the file was replaced during the lookup.
InHand(c) ==
    /\ c.content \in Bodies
    /\ ~c.fromCache /\ ~Matches(c.request, c.content) => c.fault
    /\ c.fromCache /\ ~c.stale /\ c.expired => c.swapped

\* What holds of a call wherever it is.
GoodCall(c) ==
    /\ c.pc # "idle" => c.request \in Requests
    /\ c.pc = "lookup" => c.cached = None
    /\ c.pc = "age" => c.cached \in Bodies
    /\ c.pc \in {"open", "write", "publish"} => InHand(c) /\ ~c.fromCache
    /\ c.pc \in {"materialize", "done"} /\ c.success =>
           InHand(c) /\ Matches(c.request, c.content)
    /\ c.pc = "done" /\ ~c.success /\ ~c.request.offline => c.fault
    /\ c.pc = "materialize" => c.success

\* The temporary file of a call.
GoodDraft(c, t) ==
    /\ c.pc \notin {"write", "publish"} => t = None
    /\ c.pc = "publish" => t \in Files

LoaderInv ==
    /\ clock \in Nat
    /\ body \in Bodies
    /\ cacheFile \in Files \cup {None}
    /\ temporary \in [Processes -> Drafts \cup {None}]
    /\ call \in [Processes -> Calls]
    /\ \A p \in Processes : GoodCall(call[p]) /\ GoodDraft(call[p], temporary[p])

-----------------------------------------------------------------------------
\* A call that has not begun.
LEMMA NoCallGood == NoCall \in Calls /\ GoodCall(NoCall) /\ NoCall.pc = "idle"
BY DEF NoCall, Calls, Places, GoodCall

\* Failed: a call may end without success if it is offline or has met a fault.
LEMMA FailedGood ==
    ASSUME NEW c \in Calls, c.request \in Requests, c.request.offline \/ c.fault
    PROVE  Failed(c) \in Calls /\ GoodCall(Failed(c)) /\ Failed(c).pc = "done"
<1> DEFINE f == Failed(c)
<1>1. /\ f \in Calls /\ f.pc = "done" /\ f.success = FALSE
      /\ f.request = c.request /\ f.fault = c.fault
    BY DEF Failed, NoCall, Calls, Places
<1> HIDE DEF f
<1>2. GoodCall(f)
    BY <1>1 DEF GoodCall
<1> QED BY <1>1, <1>2 DEF f

\* Accepted: what matches is a good answer.
LEMMA AcceptedGood ==
    ASSUME NEW c \in Calls, c.request \in Requests, InHand(c),
           Matches(c.request, c.content)
    PROVE  /\ Accepted(c) \in Calls
           /\ GoodCall(Accepted(c))
           /\ Accepted(c).pc \in {"materialize", "done"}
<1> DEFINE a == Accepted(c)
<1>1. /\ a \in Calls
      /\ a.pc \in {"materialize", "done"}
      /\ a.success
      /\ a.request = c.request /\ a.content = c.content
      /\ a.fromCache = c.fromCache /\ a.stale = c.stale /\ a.fault = c.fault
      /\ a.expired = c.expired /\ a.swapped = c.swapped
    BY DEF Accepted, Calls, Places
<1>2. InHand(a) /\ Matches(a.request, a.content)
    BY <1>1 DEF InHand
<1> HIDE DEF a
<1>3. GoodCall(a)
    BY <1>1, <1>2 DEF GoodCall
<1> QED BY <1>1, <1>3 DEF a

\* Check: whatever is in hand becomes an answer, a failure with a reason, or
\* the reason to download again.
LEMMA CheckGood ==
    ASSUME NEW c \in Calls, c.request \in Requests, InHand(c)
    PROVE  /\ Check(c) \in Calls
           /\ GoodCall(Check(c))
           /\ Check(c).pc \in {"materialize", "done", "invalidate"}
<1>1. CASE Matches(c.request, c.content)
    BY <1>1, AcceptedGood DEF Check
<1>2. CASE /\ ~Matches(c.request, c.content)
           /\ c.fromCache /\ ~c.request.offline
    <2> DEFINE r == [c EXCEPT !.pc = "invalidate"]
    <2>1. Check(c) = r
        BY <1>2 DEF Check
    <2>2. r \in Calls /\ r.pc = "invalidate" /\ r.request = c.request
        BY DEF Calls, Places
    <2> HIDE DEF r
    <2>3. GoodCall(r)
        BY <2>2 DEF GoodCall
    <2> QED BY <2>1, <2>2, <2>3
<1>3. CASE /\ ~Matches(c.request, c.content)
           /\ ~(c.fromCache /\ ~c.request.offline)
    <2>1. c.request.offline \/ c.fault
        BY <1>3, LoaderAssumption DEF InHand, Calls
    <2>2. Check(c) = Failed(c)
        BY <1>3 DEF Check
    <2> QED BY <2>1, <2>2, FailedGood
<1> QED BY <1>1, <1>2, <1>3
\* FromCache: the entry in hand.
LEMMA FromCacheGood ==
    ASSUME NEW c \in Calls, NEW stale \in BOOLEAN,
           c.cached \in Bodies, c.request \in Requests,
           ~stale /\ c.expired => c.swapped
    PROVE  /\ FromCache(c, stale) \in Calls
           /\ FromCache(c, stale).request = c.request
           /\ InHand(FromCache(c, stale))
<1> DEFINE f == FromCache(c, stale)
<1>1. /\ f \in Calls /\ f.request = c.request
      /\ f.content = c.cached /\ f.fromCache = TRUE /\ f.stale = stale
      /\ f.expired = c.expired /\ f.swapped = c.swapped
    BY DEF FromCache, Calls
<1> HIDE DEF f
<1>2. InHand(f)
    BY <1>1 DEF InHand
<1> QED BY <1>1, <1>2 DEF f

\* AfterLookup: with the cache looked up the call goes to its checks, to the
\* server, or fails because it is offline.
LEMMA AfterLookupGood ==
    ASSUME NEW c \in Calls, NEW fresh \in BOOLEAN, c.request \in Requests,
           fresh /\ c.expired => c.swapped
    PROVE  /\ AfterLookup(c, fresh) \in Calls
           /\ GoodCall(AfterLookup(c, fresh))
           /\ AfterLookup(c, fresh).pc \notin {"write", "publish"}
<1>1. CASE c.cached # None /\ (fresh \/ c.request.offline)
    <2>1. c.cached \in Bodies /\ (~fresh) \in BOOLEAN
        BY <1>1 DEF Calls
    <2> DEFINE f == FromCache(c, ~fresh)
    <2>2. f \in Calls /\ f.request \in Requests /\ InHand(f)
        BY <2>1, FromCacheGood
    <2>3. AfterLookup(c, fresh) = Check(f)
        BY <1>1 DEF AfterLookup
    <2> HIDE DEF f
    <2> QED BY <2>2, <2>3, CheckGood
<1>2. CASE ~(c.cached # None /\ (fresh \/ c.request.offline)) /\ c.request.offline
    BY <1>2, FailedGood DEF AfterLookup
<1>3. CASE ~(c.cached # None /\ (fresh \/ c.request.offline)) /\ ~c.request.offline
    <2> DEFINE r == [c EXCEPT !.pc = "request"]
    <2>1. AfterLookup(c, fresh) = r
        BY <1>3 DEF AfterLookup
    <2>2. r \in Calls /\ r.pc = "request" /\ r.request = c.request
        BY DEF Calls, Places
    <2> HIDE DEF r
    <2> QED BY <2>1, <2>2 DEF GoodCall
<1> QED BY <1>1, <1>2, <1>3

\* AfterFailure: without an answer of the server.
LEMMA AfterFailureGood ==
    ASSUME NEW c \in Calls, c.request \in Requests, c.fault
    PROVE  /\ AfterFailure(c) \in Calls
           /\ GoodCall(AfterFailure(c))
           /\ AfterFailure(c).pc \notin {"write", "publish"}
<1>1. CASE ~c.retried /\ c.cached # None /\ c.request.allowStale
    <2>1. c.cached \in Bodies
        BY <1>1 DEF Calls
    <2> DEFINE f == FromCache(c, TRUE)
    <2>2. f \in Calls /\ f.request \in Requests /\ InHand(f)
        BY <2>1, FromCacheGood
    <2>3. AfterFailure(c) = Check(f)
        BY <1>1 DEF AfterFailure
    <2> HIDE DEF f
    <2> QED BY <2>2, <2>3, CheckGood
<1>2. CASE ~(~c.retried /\ c.cached # None /\ c.request.allowStale)
    BY <1>2, FailedGood DEF AfterFailure
<1> QED BY <1>1, <1>2

-----------------------------------------------------------------------------
\* No call has begun; the cache file is one that an earlier run has left.
LEMMA InitLoaderInv == Init => LoaderInv
<1> SUFFICES ASSUME Init PROVE LoaderInv
    OBVIOUS
<1>1. /\ clock \in Nat /\ body \in Bodies
      /\ cacheFile \in Files \cup {None}
    BY LoaderAssumption DEF Init, LoaderAssumption, Files
<1>2. /\ temporary \in [Processes -> Drafts \cup {None}]
      /\ call \in [Processes -> Calls]
    BY NoCallGood DEF Init
<1>3. \A p \in Processes : GoodCall(call[p]) /\ GoodDraft(call[p], temporary[p])
    BY NoCallGood DEF Init, GoodDraft
<1> QED BY <1>1, <1>2, <1>3 DEF LoaderInv

\* A step of one process that puts a good call in the place of another.
LEMMA OneCall ==
    ASSUME LoaderInv, NEW p \in Processes,
           NEW c \in Calls, GoodCall(c),
           NEW t \in Drafts \cup {None}, GoodDraft(c, t),
           call' = [call EXCEPT ![p] = c],
           temporary' = [temporary EXCEPT ![p] = t],
           cacheFile' \in Files \cup {None},
           clock' = clock, body' = body
    PROVE  LoaderInv'
<1>1. /\ call' \in [Processes -> Calls]
      /\ temporary' \in [Processes -> Drafts \cup {None}]
      /\ clock' \in Nat /\ body' \in Bodies
    BY DEF LoaderInv
<1>2. \A q \in Processes : GoodCall(call'[q]) /\ GoodDraft(call'[q], temporary'[q])
    BY DEF LoaderInv
<1> QED BY <1>1, <1>2 DEF LoaderInv

\* The same for a step that leaves the files alone.
LEMMA OneCallNoFile ==
    ASSUME LoaderInv, NEW p \in Processes, call[p].pc \notin {"write", "publish"},
           NEW c \in Calls, GoodCall(c), c.pc \notin {"write", "publish"},
           call' = [call EXCEPT ![p] = c],
           UNCHANGED <<clock, body, cacheFile, temporary>>
    PROVE  LoaderInv'
<1>1. temporary[p] = None
    BY DEF LoaderInv, GoodDraft
<1>2. /\ temporary' = [temporary EXCEPT ![p] = None]
      /\ GoodDraft(c, None)
      /\ cacheFile' \in Files \cup {None}
    BY <1>1 DEF LoaderInv, GoodDraft
<1> QED BY <1>2, OneCall

\* What the proofs of the steps need to know of a process and its call.
LEMMA Known ==
    ASSUME LoaderInv, NEW p \in Processes
    PROVE  /\ call[p] \in Calls /\ GoodCall(call[p])
           /\ GoodDraft(call[p], temporary[p])
           /\ cacheFile \in Files \cup {None}
           /\ cacheFile # None => cacheFile \in Files
           /\ None \in Drafts \cup {None}
BY DEF LoaderInv

\* lookup, first half: no entry, or its content.
LEMMA LookupContentInv ==
    ASSUME LoaderInv, NEW p \in Processes, LookupContent(p)
    PROVE  LoaderInv'
<1>1. /\ call[p] \in Calls /\ call[p].pc = "lookup"
      /\ call[p].request \in Requests /\ call[p].cached = None
    BY Known DEF LookupContent, GoodCall
<1>2. CASE cacheFile = None
    <2> DEFINE c == AfterLookup(call[p], FALSE)
    <2>1. c \in Calls /\ GoodCall(c) /\ c.pc \notin {"write", "publish"}
        BY <1>1, AfterLookupGood
    <2>2. call' = [call EXCEPT ![p] = c]
        BY <1>2 DEF LookupContent
    <2> HIDE DEF c
    <2> QED BY <1>1, <2>1, <2>2, OneCallNoFile DEF LookupContent
<1>3. CASE cacheFile # None
    <2> DEFINE c == [call[p] EXCEPT !.pc = "age", !.cached = cacheFile.content,
                                    !.stamp = cacheFile.written]
    <2>1. cacheFile.content \in Bodies /\ cacheFile.written \in Nat
        BY <1>3, Known DEF Files
    <2>2. /\ c \in Calls /\ c.pc = "age" /\ c.request = call[p].request
          /\ c.cached \in Bodies
        BY <1>1, <2>1 DEF Calls, Places
    <2>3. call' = [call EXCEPT ![p] = c]
        BY <1>3 DEF LookupContent
    <2> HIDE DEF c
    <2>4. GoodCall(c)
        BY <1>1, <2>2 DEF GoodCall
    <2> QED BY <1>1, <2>2, <2>3, <2>4, OneCallNoFile DEF LookupContent
<1> QED BY <1>2, <1>3

\* lookup, second half: an entry that counts as fresh is out of date only if
\* the file is another one by now.
LEMMA LookupAgeInv ==
    ASSUME LoaderInv, NEW p \in Processes, LookupAge(p)
    PROVE  LoaderInv'
<1> DEFINE fresh == cacheFile # None /\ clock < cacheFile.written + Ttl
           expired == clock >= call[p].stamp + Ttl
           swapped == cacheFile # None /\ cacheFile.written # call[p].stamp
           d == [call[p] EXCEPT !.stamp = 0, !.expired = expired, !.swapped = swapped]
           c == AfterLookup(d, fresh)
<1>1. /\ call[p] \in Calls /\ call[p].pc = "age" /\ call[p].request \in Requests
    BY Known DEF LookupAge, GoodCall
<1>2. fresh \in BOOLEAN /\ expired \in BOOLEAN /\ swapped \in BOOLEAN
    OBVIOUS
<1>3. fresh /\ expired => swapped
    <2> SUFFICES ASSUME fresh, expired PROVE swapped
        OBVIOUS
    <2>1. cacheFile.written \in Nat /\ call[p].stamp \in Nat /\ clock \in Nat /\ Ttl \in Nat
        BY <1>1, Known, LoaderAssumption DEF LoaderInv, Files, Calls, LoaderAssumption
    <2>2. cacheFile.written # call[p].stamp
        BY <2>1
    <2> QED BY <2>2
<1>4. call' = [call EXCEPT ![p] = c]
    BY DEF LookupAge
<1> HIDE DEF fresh, expired, swapped
<1>5. /\ d \in Calls /\ d.request \in Requests
      /\ d.expired = expired /\ d.swapped = swapped
    BY <1>1, <1>2 DEF Calls
<1> HIDE DEF d
<1>6. c \in Calls /\ GoodCall(c) /\ c.pc \notin {"write", "publish"}
    BY <1>2, <1>3, <1>5, AfterLookupGood
<1> HIDE DEF c
<1> QED BY <1>1, <1>4, <1>6, OneCallNoFile DEF LookupAge

\* download: a body in hand, or a failure.
LEMMA RequestInv ==
    ASSUME LoaderInv, NEW p \in Processes, Request(p)
    PROVE  LoaderInv'
<1>1. /\ call[p] \in Calls /\ call[p].pc = "request"
      /\ call[p].request \in Requests /\ body \in Bodies
    BY Known DEF Request, GoodCall, LoaderInv
<1> DEFINE wrong == ~Matches(call[p].request, body)
           d == [call[p] EXCEPT !.pc = "open", !.content = body, !.fromCache = FALSE,
                        !.stale = FALSE, !.path = "none", !.expired = FALSE,
                        !.swapped = FALSE, !.fault = call[p].fault \/ wrong]
           e == [call[p] EXCEPT !.fault = TRUE]
<1>2. CASE call' = [call EXCEPT ![p] = d]
    <2>1. wrong \in BOOLEAN
        OBVIOUS
    <2> HIDE DEF wrong
    <2>2. /\ d \in Calls /\ d.pc = "open" /\ d.request = call[p].request
          /\ d.content = body /\ d.fromCache = FALSE /\ (wrong => d.fault)
        BY <1>1, <2>1, ZenonT(60) DEF Calls, Places
    <2> HIDE DEF d
    <2>3. InHand(d) /\ ~d.fromCache
        BY <1>1, <2>2 DEF InHand, wrong
    <2>4. GoodCall(d)
        BY <1>1, <2>2, <2>3 DEF GoodCall
    <2> QED BY <1>1, <1>2, <2>2, <2>4, OneCallNoFile DEF Request
<1>3. CASE call' = [call EXCEPT ![p] = AfterFailure(e)]
    <2>1. e \in Calls /\ e.request \in Requests /\ e.fault
        BY <1>1 DEF Calls
    <2> HIDE DEF e
    <2> DEFINE c == AfterFailure(e)
    <2>2. c \in Calls /\ GoodCall(c) /\ c.pc \notin {"write", "publish"}
        BY <2>1, AfterFailureGood
    <2>3. call' = [call EXCEPT ![p] = c]
        BY <1>3
    <2> HIDE DEF c
    <2> QED BY <1>1, <2>2, <2>3, OneCallNoFile DEF Request
<1> QED BY <1>2, <1>3 DEF Request

\* A store that fails leaves what was downloaded in hand.
LEMMA StoreFailedInv ==
    ASSUME LoaderInv, NEW p \in Processes, call[p].pc \in {"open", "write", "publish"},
           StoreFailed(p), UNCHANGED <<clock, body>>
    PROVE  LoaderInv'
<1> DEFINE c == Check(call[p])
<1>1. call[p] \in Calls /\ call[p].request \in Requests /\ InHand(call[p])
    BY Known DEF GoodCall
<1>2. c \in Calls /\ GoodCall(c) /\ c.pc \in {"materialize", "done", "invalidate"}
    BY <1>1, CheckGood
<1>3. /\ call' = [call EXCEPT ![p] = c]
      /\ temporary' = [temporary EXCEPT ![p] = None]
      /\ cacheFile' \in Files \cup {None}
    BY Known DEF StoreFailed
<1> HIDE DEF c
<1>4. GoodDraft(c, None)
    BY <1>2 DEF GoodDraft
<1> QED BY <1>2, <1>3, <1>4, OneCall

\* A call that goes on to write or to publish keeps what it has in hand.
LEMMA GoesOn ==
    ASSUME LoaderInv, NEW p \in Processes, call[p].pc \in {"open", "write"},
           NEW place \in {"write", "publish"}
    PROVE  /\ [call[p] EXCEPT !.pc = place] \in Calls
           /\ [call[p] EXCEPT !.pc = place].pc = place
           /\ GoodCall([call[p] EXCEPT !.pc = place])
<1> DEFINE c == [call[p] EXCEPT !.pc = place]
<1>1. call[p] \in Calls /\ call[p].request \in Requests /\ InHand(call[p]) /\ ~call[p].fromCache
    BY Known DEF GoodCall
<1>2. /\ c \in Calls /\ c.pc = place /\ c.request = call[p].request
      /\ c.content = call[p].content /\ c.fromCache = call[p].fromCache
      /\ c.stale = call[p].stale /\ c.expired = call[p].expired
      /\ c.swapped = call[p].swapped /\ c.fault = call[p].fault
    BY <1>1 DEF Calls, Places
<1> HIDE DEF c
<1>3. InHand(c) /\ ~c.fromCache
    BY <1>1, <1>2 DEF InHand
<1>4. GoodCall(c)
    BY <1>1, <1>2, <1>3 DEF GoodCall
<1> QED BY <1>2, <1>4 DEF c

\* writeAtomically creates its temporary file ...
LEMMA OpenTemporaryInv ==
    ASSUME LoaderInv, NEW p \in Processes, OpenTemporary(p)
    PROVE  LoaderInv'
<1>1. CASE StoreFailed(p)
    BY <1>1, StoreFailedInv DEF OpenTemporary
<1>2. CASE ~StoreFailed(p)
    <2> DEFINE c == [call[p] EXCEPT !.pc = "write"]
               t == [content |-> Torn, written |-> clock]
    <2>1. /\ call' = [call EXCEPT ![p] = c]
          /\ temporary' = [temporary EXCEPT ![p] = t]
          /\ cacheFile' \in Files \cup {None}
          /\ clock' = clock /\ body' = body
        BY <1>2, Known DEF OpenTemporary
    <2>2. c \in Calls /\ c.pc = "write" /\ GoodCall(c)
        BY GoesOn DEF OpenTemporary
    <2>3. t \in Drafts \cup {None}
        BY DEF Drafts, LoaderInv
    <2> HIDE DEF c, t
    <2>4. GoodDraft(c, t)
        BY <2>2 DEF GoodDraft
    <2> QED BY <2>1, <2>2, <2>3, <2>4, OneCall
<1> QED BY <1>1, <1>2

\* ... and completes it.
LEMMA WriteTemporaryInv ==
    ASSUME LoaderInv, NEW p \in Processes, WriteTemporary(p)
    PROVE  LoaderInv'
<1>1. CASE StoreFailed(p)
    BY <1>1, StoreFailedInv DEF WriteTemporary
<1>2. CASE ~StoreFailed(p)
    <2> DEFINE c == [call[p] EXCEPT !.pc = "publish"]
               t == [content |-> call[p].content, written |-> clock]
    <2>1. /\ call' = [call EXCEPT ![p] = c]
          /\ temporary' = [temporary EXCEPT ![p] = t]
          /\ cacheFile' \in Files \cup {None}
          /\ clock' = clock /\ body' = body
        BY <1>2, Known DEF WriteTemporary
    <2>2. c \in Calls /\ c.pc = "publish" /\ GoodCall(c)
        BY GoesOn DEF WriteTemporary
    <2>3. t \in Files /\ t \in Drafts \cup {None}
        BY Known DEF WriteTemporary, GoodCall, InHand, Files, Drafts, LoaderInv
    <2> HIDE DEF c, t
    <2>4. GoodDraft(c, t)
        BY <2>2, <2>3 DEF GoodDraft
    <2> QED BY <2>1, <2>2, <2>3, <2>4, OneCall
<1> QED BY <1>1, <1>2

\* What is published was whole before it got its name.
LEMMA PublishFileInv ==
    ASSUME LoaderInv, NEW p \in Processes, PublishFile(p)
    PROVE  LoaderInv'
<1>1. CASE StoreFailed(p)
    BY <1>1, StoreFailedInv DEF PublishFile
<1>2. CASE ~StoreFailed(p)
    <2> DEFINE d == [call[p] EXCEPT !.path = "cache"]
               c == Check(d)
    <2>1. call[p] \in Calls /\ call[p].request \in Requests /\ InHand(call[p])
        BY Known DEF GoodCall, PublishFile
    <2>2. /\ d \in Calls /\ d.request = call[p].request /\ d.content = call[p].content
          /\ d.fromCache = call[p].fromCache /\ d.stale = call[p].stale
          /\ d.expired = call[p].expired /\ d.swapped = call[p].swapped
          /\ d.fault = call[p].fault
        BY <2>1 DEF Calls
    <2>3. /\ call' = [call EXCEPT ![p] = c]
          /\ temporary' = [temporary EXCEPT ![p] = None]
          /\ cacheFile' = temporary[p]
          /\ clock' = clock /\ body' = body
        BY <1>2 DEF PublishFile
    <2>4. cacheFile' \in Files \cup {None}
        BY <2>3, Known DEF GoodDraft, PublishFile
    <2> HIDE DEF d
    <2>5. InHand(d)
        BY <2>1, <2>2 DEF InHand
    <2>6. c \in Calls /\ GoodCall(c) /\ c.pc \in {"materialize", "done", "invalidate"}
        BY <2>1, <2>2, <2>5, CheckGood
    <2> HIDE DEF c
    <2>7. GoodDraft(c, None)
        BY <2>6 DEF GoodDraft
    <2> QED BY <2>3, <2>4, <2>6, <2>7, OneCall
<1> QED BY <1>1, <1>2

\* The retry of loadModel begins.
LEMMA InvalidateInv ==
    ASSUME LoaderInv, NEW p \in Processes, Invalidate(p)
    PROVE  LoaderInv'
<1> DEFINE c == [call[p] EXCEPT !.pc = "request", !.retried = TRUE]
<1>1. /\ call[p] \in Calls /\ call[p].pc = "invalidate"
      /\ call[p].request \in Requests /\ temporary[p] = None
    BY Known DEF GoodCall, GoodDraft, Invalidate
<1>2. c \in Calls /\ c.pc = "request" /\ c.request = call[p].request
    BY <1>1 DEF Calls, Places
<1>3. /\ call' = [call EXCEPT ![p] = c]
      /\ temporary' = [temporary EXCEPT ![p] = None]
      /\ cacheFile' \in Files \cup {None}
      /\ clock' = clock /\ body' = body
    BY <1>1 DEF Invalidate, LoaderInv
<1> HIDE DEF c
<1>4. GoodCall(c) /\ GoodDraft(c, None)
    BY <1>1, <1>2 DEF GoodCall, GoodDraft
<1> QED BY <1>2, <1>3, <1>4, OneCall

\* materializeFallback keeps the answer, or fails with a fault.
LEMMA MaterializeInv ==
    ASSUME LoaderInv, NEW p \in Processes, Materialize(p)
    PROVE  LoaderInv'
<1>1. /\ call[p] \in Calls /\ call[p].pc = "materialize" /\ call[p].request \in Requests
      /\ call[p].success /\ InHand(call[p]) /\ Matches(call[p].request, call[p].content)
    BY Known DEF GoodCall, Materialize
<1>2. ASSUME NEW path \in {"none", "cache", "private"},
             call' = [call EXCEPT ![p] = [call[p] EXCEPT !.pc = "done", !.path = path]]
      PROVE  LoaderInv'
    <2> DEFINE c == [call[p] EXCEPT !.pc = "done", !.path = path]
    <2>1. /\ c \in Calls /\ c.pc = "done" /\ c.request = call[p].request
          /\ c.content = call[p].content /\ c.fromCache = call[p].fromCache
          /\ c.stale = call[p].stale /\ c.expired = call[p].expired
          /\ c.swapped = call[p].swapped /\ c.fault = call[p].fault
          /\ c.success = call[p].success
        BY <1>1 DEF Calls, Places
    <2>2. call' = [call EXCEPT ![p] = c]
        BY <1>2
    <2> HIDE DEF c
    <2>3. InHand(c) /\ Matches(c.request, c.content)
        BY <1>1, <2>1 DEF InHand
    <2>4. GoodCall(c)
        BY <1>1, <2>1, <2>3 DEF GoodCall
    <2> QED BY <1>1, <2>1, <2>2, <2>4, OneCallNoFile DEF Materialize
<1>3. ASSUME call' = [call EXCEPT ![p] = Failed([call[p] EXCEPT !.fault = TRUE])]
      PROVE  LoaderInv'
    <2> DEFINE d == [call[p] EXCEPT !.fault = TRUE]
               c == Failed(d)
    <2>1. d \in Calls /\ d.request \in Requests /\ d.fault
        BY <1>1 DEF Calls
    <2>2. call' = [call EXCEPT ![p] = c]
        BY <1>3
    <2> HIDE DEF d
    <2>3. c \in Calls /\ GoodCall(c) /\ c.pc = "done"
        BY <2>1, FailedGood
    <2> HIDE DEF c
    <2> QED BY <1>1, <2>2, <2>3, OneCallNoFile DEF Materialize
<1>4. CASE call' = [call EXCEPT ![p].pc = "done"]
    <2>1. [call[p] EXCEPT !.pc = "done", !.path = call[p].path] = [call[p] EXCEPT !.pc = "done"]
        BY <1>1 DEF Calls
    <2>2. call[p].path \in {"none", "cache", "private"}
        BY <1>1 DEF Calls
    <2> QED BY <1>2, <1>4, <2>1, <2>2
<1> QED BY <1>2, <1>3, <1>4 DEF Materialize

\* A call begins, or its process ends and leaves the temporary file behind
\* under a name of its own.
LEMMA BeginCrashInv ==
    ASSUME LoaderInv, NEW p \in Processes, Begin(p) \/ Crash(p)
    PROVE  LoaderInv'
<1>1. CASE Begin(p)
    <2>1. PICK r \in Requests :
              call' = [call EXCEPT ![p] = [NoCall EXCEPT !.pc = "lookup", !.request = r]]
        BY <1>1 DEF Begin
    <2> DEFINE c == [NoCall EXCEPT !.pc = "lookup", !.request = r]
    <2>2. c \in Calls /\ c.pc = "lookup" /\ c.request = r /\ c.cached = None
        BY DEF NoCall, Calls, Places
    <2>3. call' = [call EXCEPT ![p] = c]
        BY <2>1
    <2> HIDE DEF c
    <2>4. GoodCall(c)
        BY <2>2 DEF GoodCall
    <2> QED BY <1>1, <2>2, <2>3, <2>4, OneCallNoFile DEF Begin
<1>2. CASE Crash(p)
    <2>1. /\ call' = [call EXCEPT ![p] = NoCall]
          /\ temporary' = [temporary EXCEPT ![p] = None]
          /\ cacheFile' \in Files \cup {None}
          /\ clock' = clock /\ body' = body
        BY <1>2, Known DEF Crash
    <2>2. GoodDraft(NoCall, None)
        BY NoCallGood DEF GoodDraft
    <2> QED BY <2>1, <2>2, NoCallGood, OneCall, Known
<1> QED BY <1>1, <1>2

\* Every step keeps the invariant.
LEMMA NextLoaderInv == LoaderInv /\ [Next]_loaderVars => LoaderInv'
<1> SUFFICES ASSUME LoaderInv, [Next]_loaderVars PROVE LoaderInv'
    OBVIOUS
<1>1. ASSUME NEW p \in Processes, Begin(p) \/ Step(p) \/ Crash(p)
      PROVE  LoaderInv'
    <2>1. CASE Begin(p) \/ Crash(p)
        BY <2>1, BeginCrashInv
    <2>2. CASE Step(p)
        BY <2>2, LookupContentInv, LookupAgeInv, RequestInv, OpenTemporaryInv,
           WriteTemporaryInv, PublishFileInv, InvalidateInv, MaterializeInv DEF Step
    <2> QED BY <1>1, <2>1, <2>2
<1>2. CASE Tick \/ ServerChange
    <2>1. clock' \in Nat /\ body' \in Bodies
        BY <1>2 DEF Tick, ServerChange, LoaderInv
    <2>2. UNCHANGED <<cacheFile, temporary, call>>
        BY <1>2 DEF Tick, ServerChange
    <2> QED BY <2>1, <2>2 DEF LoaderInv
<1>3. CASE UNCHANGED loaderVars
    BY <1>3 DEF LoaderInv, loaderVars
<1> QED BY <1>1, <1>2, <1>3 DEF Next

\* The invariant holds throughout.
THEOREM LoaderInvariant == Spec => []LoaderInv
<1> QED BY InitLoaderInv, NextLoaderInv, PTL DEF Spec

\* A call succeeds only with the body its checksum asks for, however the
\* processes that share the cache interleave and crash.
THEOREM AnswersAlwaysVerified == Spec => []VerifiedAnswers
<1>1. LoaderInv => VerifiedAnswers
    BY DEF LoaderInv, GoodCall, InHand, VerifiedAnswers
<1> QED BY <1>1, LoaderInvariant, PTL

\* A call that may use the network fails only through a fault outside the
\* cache, whatever the cache holds.
THEOREM WrongFilesNeverBlock == Spec => []WrongFileNeverBlocks
<1>1. LoaderInv => WrongFileNeverBlocks
    BY DEF LoaderInv, GoodCall, WrongFileNeverBlocks
<1> QED BY <1>1, LoaderInvariant, PTL

\* The cache file is always a whole one, and no temporary file outlives the
\* store that made it but by a crash.
THEOREM FilesAlwaysWhole == Spec => []FilesWhole
<1>1. LoaderInv => FilesWhole
    BY LoaderAssumption DEF LoaderInv, Files, GoodDraft, FilesWhole
<1> QED BY <1>1, LoaderInvariant, PTL

\* An answer that is not marked stale is out of date only if the file was
\* replaced between the two looks of the lookup, for every TTL.
THEOREM FreshAlwaysRecent == Spec => []FreshMeansRecent
<1>1. LoaderInv => FreshMeansRecent
    BY DEF LoaderInv, GoodCall, InHand, FreshMeansRecent
<1> QED BY <1>1, LoaderInvariant, PTL
=============================================================================
