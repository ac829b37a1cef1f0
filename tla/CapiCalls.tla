----------------------------- MODULE CapiCalls -----------------------------
(***************************************************************************)
(* Threads that call the C ABI.  A call looks its session up in the        *)
(* session registry (under the registry's mutex), works on the session     *)
(* (under the session's mutex, with the exceptions below) and stores its   *)
(* answer in the result registry.  Each registry operation is one step,    *)
(* because it holds the registry's mutex throughout and calls nothing that *)
(* takes another lock.                                                     *)
(*                                                                         *)
(* Some calls read a session's sources without its mutex: ilic_format, and *)
(* ilic_parse and ilic_editor_snapshot when they report an exception.      *)
(*                                                                         *)
(* A session is the number of its creation; its data is abstracted to the  *)
(* one URI the calls name being registered or not; what the update and the *)
(* analysis compute is IncrementalSession's subject.  An answer is the     *)
(* number of the call that produced it.                                    *)
(***************************************************************************)
EXTENDS Integers, PartialMap

CONSTANTS
    Threads,
    SessionModulus,     \* 2^32: handles of sessions are uint32_t ...
    HandleModulus,      \* 2^32: ... and so are those of results
    MaxSessions,        \* bound on ilic_session_create calls
    MaxCalls,           \* bound on calls on a session
    NoThread

ASSUME CapiAssumption ==
    /\ SessionModulus \in Nat /\ SessionModulus > 1
    /\ HandleModulus \in Nat /\ HandleModulus > 1
    /\ MaxSessions \in Nat
    /\ MaxCalls \in Nat
    /\ NoThread \notin Threads

VARIABLES
    sessions,           \* SessionRegistry::values_
    nextSession,        \* SessionRegistry::next_
    created,            \* the number of sessions created so far
    count,              \* count[s]: the use count of the shared_ptrs to s
    freed,              \* the sessions whose destructor has run
    registered,         \* the sessions in which the URI is registered
    owner,              \* owner[s]: the thread that holds the mutex of s
    thread,             \* thread[t]: where t is in its call
    results,            \* ResultRegistry::values_
    nextResult,         \* ResultRegistry::next_
    calls,              \* the number of calls begun so far
    outstanding         \* the answers callers hold: handle and answer

registryVars == <<sessions, nextSession, created>>
lifeVars == <<count, freed>>
resultVars == <<results, nextResult, outstanding>>
capiVars == <<registryVars, lifeVars, registered, owner, thread, resultVars, calls>>

\* "put" and "remove" return a status, the others a result handle.  "compile"
\* stands for the analyses and the statistics too, "parse" for the editor
\* snapshot; a call that resets the statistics or clears the caches behaves
\* like a put of what is registered, or a remove of what is not.
StatusOps == {"put", "remove"}
ResultOps == {"compile", "parse", "format"}

\* Where a thread can be: in no call; with a session whose request will be
\* rejected, or that it will work on; under the mutex; reading the sources
\* without it, after an exception or to format; with an answer to store.
Places == {"idle", "malformed", "holding", "inside", "failed", "reading", "answered"}

Idle == [at |-> "idle", op |-> "none", session |-> 0, call |-> 0]

Init ==
    /\ sessions = EmptyMap
    /\ nextSession = 1
    /\ created = 0
    /\ count = [s \in 1..MaxSessions |-> 0]
    /\ freed = {}
    /\ registered = {}
    /\ owner = [s \in 1..MaxSessions |-> NoThread]
    /\ thread = [t \in Threads |-> Idle]
    /\ results = EmptyMap
    /\ nextResult = 1
    /\ calls = 0
    /\ outstanding = {}

\* A shared_ptr to session s goes away; the last one frees the session.
Release(s) ==
    /\ count' = [count EXCEPT ![s] = @ - 1]
    /\ freed' = IF count[s] = 1 THEN freed \cup {s} ELSE freed

\* A handle that is in use, after 2^32 of them, is given to the new session,
\* and the registry's shared_ptr to the old one goes away.
Overwritten == {sessions[h] : h \in {nextSession} \cap DOMAIN sessions}

SessionCreate(t) ==
    /\ thread[t] = Idle
    /\ created < MaxSessions
    /\ created' = created + 1
    /\ sessions' = Put(sessions, nextSession, created')
    /\ nextSession' = (nextSession + 1) % SessionModulus
    /\ count' = [s \in DOMAIN count |-> IF s = created' THEN 1
                                        ELSE IF s \in Overwritten THEN count[s] - 1
                                        ELSE count[s]]
    /\ freed' = freed \cup {s \in Overwritten : count[s] = 1}
    /\ UNCHANGED <<registered, owner, thread, resultVars, calls>>

\* A bug of a registry that owns its sessions alone.
SessionDestroy_raw(t, h) ==
    /\ thread[t] = Idle
    /\ h \in DOMAIN sessions
    /\ sessions' = Drop(sessions, {h})
    /\ count' = [count EXCEPT ![sessions[h]] = 0]
    /\ freed' = freed \cup {sessions[h]}
    /\ UNCHANGED <<nextSession, created, registered, owner, thread, resultVars, calls>>

SessionDestroy(t, h) ==
    /\ thread[t] = Idle
    /\ h \in DOMAIN sessions
    /\ sessions' = Drop(sessions, {h})
    /\ Release(sessions[h])
    /\ UNCHANGED <<nextSession, created, registered, owner, thread, resultVars, calls>>

\* SessionRegistry::get for a handle that names a session: the call now
\* shares the session with the registry.  Its request may be malformed.
Begin(t, op, h) ==
    /\ thread[t] = Idle
    /\ calls < MaxCalls
    /\ h \in DOMAIN sessions
    /\ calls' = calls + 1
    /\ \E at \in {"holding", "malformed"} :
           thread' = [thread EXCEPT ![t] =
               [at |-> at, op |-> op, session |-> sessions[h], call |-> calls']]
    /\ count' = [count EXCEPT ![sessions[h]] = @ + 1]
    /\ UNCHANGED <<registryVars, freed, registered, owner, resultVars>>

\* For an unknown handle an error is the answer; a put or remove returns -1.
BeginInvalid(t, op) ==
    /\ thread[t] = Idle
    /\ calls < MaxCalls
    /\ op \in ResultOps
    /\ calls' = calls + 1
    /\ thread' = [thread EXCEPT ![t] =
           [at |-> "answered", op |-> op, session |-> 0, call |-> calls']]
    /\ UNCHANGED <<registryVars, lifeVars, registered, owner, resultVars>>

\* The call returns, and its shared_ptr goes away, if it had been given one.
Return(t) ==
    /\ thread' = [thread EXCEPT ![t] = Idle]
    /\ IF thread[t].session = 0 THEN UNCHANGED lifeVars ELSE Release(thread[t].session)

\* A request that is null or does not decode is answered with an error
\* before the session is touched; a put or remove returns its status.
RejectRequest(t) ==
    /\ thread[t].at = "malformed"
    /\ \/ /\ thread[t].op \in ResultOps
          /\ thread' = [thread EXCEPT ![t].at = "answered"]
          /\ UNCHANGED lifeVars
       \/ /\ thread[t].op \in StatusOps
          /\ Return(t)
    /\ UNCHANGED <<registryVars, registered, owner, resultVars, calls>>

\* std::lock_guard on the mutex of the session.
Enter(t) ==
    /\ thread[t].at = "holding"
    /\ thread[t].op # "format"
    /\ owner[thread[t].session] = NoThread
    /\ owner' = [owner EXCEPT ![thread[t].session] = t]
    /\ thread' = [thread EXCEPT ![t].at = "inside"]
    /\ UNCHANGED <<registryVars, lifeVars, registered, resultVars, calls>>

\* t leaves its session, unlocking the mutex, and goes on at the given place.
Leave(t, at) ==
    /\ owner' = [owner EXCEPT ![thread[t].session] = NoThread]
    /\ thread' = [thread EXCEPT ![t].at = at]

\* updateSource or removeSource; the status is returned without a result.
ChangeSource(t) ==
    /\ thread[t].at = "inside"
    /\ thread[t].op \in StatusOps
    /\ registered' = IF thread[t].op = "put" THEN registered \cup {thread[t].session}
                                             ELSE registered \ {thread[t].session}
    /\ owner' = [owner EXCEPT ![thread[t].session] = NoThread]
    /\ Return(t)
    /\ UNCHANGED <<registryVars, resultVars, calls>>

Compute(t) ==
    /\ thread[t].at = "inside"
    /\ thread[t].op \in {"compile", "parse"}
    /\ Leave(t, "answered")
    /\ UNCHANGED <<registryVars, lifeVars, registered, resultVars, calls>>

\* A bug of a session that is locked by hand instead of by a lock_guard.
Throw_locked(t) ==
    /\ thread[t].at = "inside"
    /\ thread[t].op \in {"compile", "parse"}
    /\ thread' = [thread EXCEPT ![t].at = IF thread[t].op = "parse" THEN "failed" ELSE "answered"]
    /\ UNCHANGED <<registryVars, lifeVars, registered, owner, resultVars, calls>>

\* The work under the mutex throws (a compilation std::logic_error, when a
\* URI has two contents; any of them std::bad_alloc): the lock is unwound
\* and the catch clauses turn the exception into an answer or a status.
Throw(t) ==
    /\ thread[t].at = "inside"
    /\ \/ thread[t].op = "parse" /\ Leave(t, "failed") /\ UNCHANGED lifeVars
       \/ thread[t].op = "compile" /\ Leave(t, "answered") /\ UNCHANGED lifeVars
       \/ /\ thread[t].op \in StatusOps
          /\ owner' = [owner EXCEPT ![thread[t].session] = NoThread]
          /\ Return(t)
    /\ UNCHANGED <<registryVars, registered, resultVars, calls>>

\* The catch clause of parse reads the version of the source, unlocked.
ReportFailure(t) ==
    /\ thread[t].at = "failed"
    /\ thread' = [thread EXCEPT ![t].at = "answered"]
    /\ UNCHANGED <<registryVars, lifeVars, registered, owner, resultVars, calls>>

\* ilic_format looks the source up in the session, unlocked; it goes on
\* with a pointer to the buffer or, without one, with an error.
FindSource(t) ==
    /\ thread[t].at = "holding"
    /\ thread[t].op = "format"
    /\ thread' = [thread EXCEPT ![t].at =
           IF thread[t].session \in registered THEN "reading" ELSE "answered"]
    /\ UNCHANGED <<registryVars, lifeVars, registered, owner, resultVars, calls>>

\* It formats the text behind the pointer.
FormatText(t) ==
    /\ thread[t].at = "reading"
    /\ thread' = [thread EXCEPT ![t].at = "answered"]
    /\ UNCHANGED <<registryVars, lifeVars, registered, owner, resultVars, calls>>

\* A bug of a result registry that does not advance its next handle.
StoreJson_sameHandle(t) ==
    /\ thread[t].at = "answered"
    /\ results' = Put(results, nextResult, thread[t].call)
    /\ outstanding' = outstanding \cup {[handle |-> nextResult, answer |-> thread[t].call]}
    /\ Return(t)
    /\ UNCHANGED <<registryVars, registered, owner, nextResult, calls>>

\* ResultRegistry::storeJson; the caller gets the handle.
StoreJson(t) ==
    /\ thread[t].at = "answered"
    /\ results' = Put(results, nextResult, thread[t].call)
    /\ nextResult' = (nextResult + 1) % HandleModulus
    /\ outstanding' = outstanding \cup {[handle |-> nextResult, answer |-> thread[t].call]}
    /\ Return(t)
    /\ UNCHANGED <<registryVars, registered, owner, calls>>

\* A caller destroys a result it holds.
ResultDestroy(t, held) ==
    /\ thread[t] = Idle
    /\ held \in outstanding
    /\ results' = Drop(results, {held.handle})
    /\ outstanding' = outstanding \ {held}
    /\ UNCHANGED <<registryVars, lifeVars, registered, owner, thread, nextResult, calls>>

\* The steps of a call once it has begun.
Proceed(t) ==
    \/ RejectRequest(t)
    \/ Enter(t)
    \/ ChangeSource(t)
    \/ Compute(t)
    \/ Throw(t)
    \/ ReportFailure(t)
    \/ FindSource(t)
    \/ FormatText(t)
    \/ StoreJson(t)

Next ==
    \E t \in Threads :
        \/ SessionCreate(t)
        \/ \E h \in DOMAIN sessions : SessionDestroy(t, h)
        \/ \E op \in StatusOps \cup ResultOps, h \in DOMAIN sessions : Begin(t, op, h)
        \/ \E op \in ResultOps : BeginInvalid(t, op)
        \/ Proceed(t)
        \/ \E held \in outstanding : ResultDestroy(t, held)

Spec == Init /\ [][Next]_capiVars

\* A thread in a call is scheduled again and again.  A session's mutex need
\* not be fair: finitely many calls cannot keep a waiting thread out.
FairSpec == Spec /\ \A t \in Threads : WF_capiVars(Proceed(t))

-----------------------------------------------------------------------------

TypeOK ==
    /\ DOMAIN sessions \subseteq 0..SessionModulus - 1
    /\ \A h \in DOMAIN sessions : sessions[h] \in 1..created
    /\ nextSession \in 0..SessionModulus - 1
    /\ created \in 0..MaxSessions
    /\ count \in [1..MaxSessions -> Int]
    /\ freed \subseteq 1..created
    /\ registered \subseteq 1..created
    /\ owner \in [1..MaxSessions -> Threads \cup {NoThread}]
    /\ thread \in [Threads -> [at : Places, op : StatusOps \cup ResultOps \cup {"none"},
                               session : 0..created, call : 0..calls]]
    /\ nextResult \in 0..HandleModulus - 1
    /\ calls \in 0..MaxCalls

\* No session is used after it has been freed: neither one that a handle names
\* nor one that a running call works on, though ilic_session_destroy may come
\* from another thread at any point of the call.  And none leaks: a session
\* that neither names any more has been freed.
SessionsOutliveCalls ==
    \A s \in 1..created :
        s \in freed <=> /\ \A h \in DOMAIN sessions : sessions[h] # s
                       /\ \A t \in Threads : thread[t].session # s

\* Thread t is at work on session s with its mutex, or without.
Inside(t, s) == thread[t].at = "inside" /\ thread[t].session = s
Unlocked(t, s) == thread[t].at \in {"failed", "reading"} /\ thread[t].session = s

\* The operations of one session are serialized, as the documents say: no
\* thread reads the sources of a session while another thread changes them.
\* The code does not keep this: ilic_format and the error paths of ilic_parse
\* and ilic_editor_snapshot read the sources without the session's mutex.
SessionCallsSerialized ==
    \A s \in 1..created : \A t, u \in Threads :
        ~(Inside(t, s) /\ thread[t].op \in StatusOps /\ Unlocked(u, s))

\* Every answer that a caller holds stays behind its handle until the caller
\* destroys it, whatever other threads store and destroy in the meantime.
ResultsStayValid ==
    \A held \in outstanding :
        held.handle \in DOMAIN results /\ results[held.handle] = held.answer

\* Every call returns.
CallsReturn == \A t \in Threads : thread[t] # Idle ~> thread[t] = Idle
=============================================================================
