-------------------------- MODULE CapiCallsProofs --------------------------
(***************************************************************************)
(* For any number of threads, sessions and calls: no session is used after *)
(* it has been freed and none leaks, and, until the 32-bit counter of the  *)
(* result handles is used up, every answer stays behind its handle.        *)
(***************************************************************************)
EXTENDS CapiCalls, FiniteSets, FiniteSetTheorems, TLAPS

\* A call that works on a session has one that was created, and the one
\* inside a session is its mutex's owner.
LockInv ==
    \A t \in Threads :
        /\ thread[t].at \in {"holding", "inside", "failed", "reading"}
               => thread[t].session \in 1..created
        /\ thread[t].at = "inside" => owner[thread[t].session] = t

\* The states of a thread.
ThreadStates ==
    [at : Places, op : StatusOps \cup ResultOps \cup {"none"},
     session : 0..created, call : 0..calls]

\* A thread that returns, or goes on at another place, keeps its type.
LEMMA ThreadMoves ==
  ASSUME TypeOK, NEW t \in Threads,
         NEW place \in Places
  PROVE  /\ [thread EXCEPT ![t].at = place] \in [Threads -> ThreadStates]
         /\ [thread EXCEPT ![t] = Idle] \in [Threads -> ThreadStates]
  <1>1. Idle \in ThreadStates
    BY CapiAssumption DEF Idle, Places, ThreadStates, TypeOK
  <1>2. thread \in [Threads -> ThreadStates]
    BY DEF TypeOK, ThreadStates
  <1>3. [thread[t] EXCEPT !.at = place] \in ThreadStates
    BY <1>2 DEF ThreadStates
  <1> QED
    BY <1>1, <1>2, <1>3

\* The sessions exist, so that their counts do.
LEMMA SessionsCounted == TypeOK => 1..created \subseteq 1..MaxSessions /\ created \in Nat
  BY CapiAssumption DEF TypeOK

\* The use counts and the freed sessions keep their types when a reference to
\* an existing session goes away, or none does.
LEMMA ReleaseType ==
  ASSUME TypeOK, NEW s \in 1..created, Release(s)
  PROVE  count' \in [1..MaxSessions -> Int] /\ freed' \subseteq 1..created
  <1>1. count \in [1..MaxSessions -> Int] /\ s \in 1..MaxSessions /\ freed \subseteq 1..created
    BY SessionsCounted DEF TypeOK
  <1>2. count[s] - 1 \in Int
    BY <1>1
  <1> QED
    BY <1>1, <1>2 DEF Release

LEMMA ReturnType ==
  ASSUME TypeOK, NEW t \in Threads, UNCHANGED lifeVars \/ Return(t)
  PROVE  count' \in [1..MaxSessions -> Int] /\ freed' \subseteq 1..created
  <1>1. CASE UNCHANGED lifeVars
    BY <1>1 DEF lifeVars, TypeOK
  <1>2. CASE Return(t)
    <2>1. CASE thread[t].session = 0
      BY <1>1, <1>2, <2>1 DEF Return
    <2>2. CASE thread[t].session # 0
      <3>1. thread[t].session \in 1..created
        BY <2>2, SessionsCounted DEF TypeOK
      <3>2. Release(thread[t].session)
        BY <1>2, <2>2 DEF Return
      <3> QED
        BY <3>1, <3>2, ReleaseType
    <2> QED
      BY <2>1, <2>2
  <1> QED
    BY <1>1, <1>2

LEMMA CreateType ==
  ASSUME TypeOK, NEW t \in Threads, SessionCreate(t)
  PROVE  count' \in [1..MaxSessions -> Int] /\ freed' \subseteq 1..created'
  <1>1. /\ count \in [1..MaxSessions -> Int] /\ freed \subseteq 1..created
        /\ \A h \in DOMAIN sessions : sessions[h] \in 1..created
        /\ created \in Nat /\ created' = created + 1
    BY SessionsCounted DEF TypeOK, SessionCreate
  <1>2. count' \in [1..MaxSessions -> Int]
    <2> DEFINE c(s) == IF s = created' THEN 1
                       ELSE IF s \in Overwritten THEN count[s] - 1 ELSE count[s]
    <2>1. \A s \in 1..MaxSessions : c(s) \in Int
      BY <1>1
    <2>2. count' = [s \in 1..MaxSessions |-> c(s)]
      BY <1>1 DEF SessionCreate
    <2> QED
      BY <2>1, <2>2
  <1>3. Overwritten \subseteq 1..created
    BY <1>1 DEF Overwritten
  <1>4. freed' = freed \cup {s \in Overwritten : count[s] = 1}
    BY DEF SessionCreate
  <1>5. 1..created \subseteq 1..created'
    BY <1>1
  <1>6. freed' \subseteq 1..created'
    BY <1>1, <1>3, <1>4, <1>5, Zenon
  <1> QED
    BY <1>2, <1>6

\* No call has begun, and no session exists.
LEMMA InitTypeOK == Init => TypeOK
  BY CapiAssumption DEF Init, TypeOK, Places, EmptyMap, Idle

\* Every step keeps the type invariant, given that calls name created
\* sessions.
LEMMA NextTypeOK == TypeOK /\ LockInv /\ [Next]_capiVars => TypeOK'
  <1> SUFFICES ASSUME TypeOK, LockInv, [Next]_capiVars PROVE TypeOK'
    OBVIOUS
  <1> USE CapiAssumption DEF registryVars, resultVars, lifeVars
  <1>1. ASSUME NEW t \in Threads, SessionCreate(t) PROVE TypeOK'
    BY <1>1, CreateType, SMTT(30) DEF SessionCreate, TypeOK, Put
  <1>2. ASSUME NEW t \in Threads, NEW h \in DOMAIN sessions, SessionDestroy(t, h)
        PROVE TypeOK'
    <2>1. sessions[h] \in 1..created /\ Release(sessions[h])
      BY <1>2 DEF SessionDestroy, TypeOK
    <2>2. count' \in [1..MaxSessions -> Int] /\ freed' \subseteq 1..created
      BY <2>1, ReleaseType
    <2> QED
      BY <1>2, <2>2 DEF SessionDestroy, TypeOK, Drop
  <1>3. ASSUME NEW t \in Threads, NEW op \in StatusOps \cup ResultOps,
               NEW h \in DOMAIN sessions, Begin(t, op, h)
        PROVE TypeOK'
    BY <1>3, SMTT(30) DEF Begin, TypeOK, Places, StatusOps, ResultOps
  <1>4. ASSUME NEW t \in Threads, NEW op \in ResultOps, BeginInvalid(t, op)
        PROVE TypeOK'
    BY <1>4 DEF BeginInvalid, TypeOK, Places, StatusOps, ResultOps
  <1>5. ASSUME NEW t \in Threads,
               NEW place \in {"inside", "failed", "reading", "answered"},
               \/ thread' = [thread EXCEPT ![t].at = place]
               \/ thread' = [thread EXCEPT ![t] = Idle],
               UNCHANGED <<created, calls>>
        PROVE thread' \in [Threads -> ThreadStates]'
    <2>1. place \in Places
      BY DEF Places
    <2>2. /\ [thread EXCEPT ![t].at = place] \in [Threads -> ThreadStates]
          /\ [thread EXCEPT ![t] = Idle] \in [Threads -> ThreadStates]
      BY <2>1, ThreadMoves
    <2>3. thread' \in [Threads -> ThreadStates]
      BY <1>5, <2>2
    <2>4. ThreadStates' = ThreadStates
      BY <1>5 DEF ThreadStates
    <2> QED
      BY <2>3, <2>4
  <1>6. ASSUME NEW t \in Threads, Proceed(t), thread' \in [Threads -> ThreadStates]'
        PROVE TypeOK'
    <2>1. UNCHANGED lifeVars \/ Return(t)
      BY <1>6 DEF Proceed, RejectRequest, Enter, ChangeSource, Compute, Throw, ReportFailure,
                  FindSource, FormatText, StoreJson
    <2>2. count' \in [1..MaxSessions -> Int] /\ freed' \subseteq 1..created
      BY <2>1, ReturnType
    <2>3. UNCHANGED <<registryVars, calls>>
      BY <1>6 DEF Proceed, RejectRequest, Enter, ChangeSource, Compute, Throw, ReportFailure,
                  FindSource, FormatText, StoreJson
    <2>4. owner' \in [1..MaxSessions -> Threads \cup {NoThread}]
      BY <1>6 DEF Proceed, RejectRequest, Enter, ChangeSource, Compute, Throw, ReportFailure,
                  FindSource, FormatText, StoreJson, Leave, TypeOK
    <2>5. registered' \subseteq 1..created
      <3>1. CASE ChangeSource(t)
        BY <3>1 DEF ChangeSource, LockInv, TypeOK
      <3>2. CASE ~ChangeSource(t)
        BY <1>6, <3>2 DEF Proceed, RejectRequest, Enter, Compute, Throw, ReportFailure,
                          FindSource, FormatText, StoreJson, TypeOK
      <3> QED
        BY <3>1, <3>2
    <2>6. nextResult' \in 0..HandleModulus - 1
      BY <1>6 DEF Proceed, RejectRequest, Enter, ChangeSource, Compute, Throw, ReportFailure,
                  FindSource, FormatText, StoreJson, TypeOK
    <2> QED
      BY <1>6, <2>2, <2>3, <2>4, <2>5, <2>6 DEF TypeOK, ThreadStates
  <1>7. ASSUME NEW t \in Threads, Proceed(t) PROVE thread' \in [Threads -> ThreadStates]'
    <2>1. UNCHANGED <<created, calls>>
      BY <1>7 DEF Proceed, RejectRequest, Enter, ChangeSource, Compute, Throw, ReportFailure,
                  FindSource, FormatText, StoreJson
    <2>2. \E place \in {"inside", "failed", "reading", "answered"} :
              \/ thread' = [thread EXCEPT ![t].at = place]
              \/ thread' = [thread EXCEPT ![t] = Idle]
      BY <1>7 DEF Proceed, RejectRequest, Enter, ChangeSource, Compute, Throw, ReportFailure,
                  FindSource, FormatText, StoreJson, Leave, Return
    <2> QED
      BY <2>1, <2>2, <1>5
  <1>8. ASSUME NEW t \in Threads, NEW held \in outstanding, ResultDestroy(t, held)
         PROVE TypeOK'
    BY <1>8 DEF ResultDestroy, TypeOK
  <1>9. CASE UNCHANGED capiVars
    BY <1>9 DEF capiVars, TypeOK
  <1> QED
    BY <1>1, <1>2, <1>3, <1>4, <1>6, <1>7, <1>8, <1>9 DEF Next

\* A step of t leaves what the other threads hold alone: nobody else is
\* inside the session that t enters or leaves.
LEMMA NextLockInv == TypeOK /\ LockInv /\ [Next]_capiVars => LockInv'
  <1> SUFFICES ASSUME TypeOK, LockInv, [Next]_capiVars PROVE LockInv'
    OBVIOUS
  <1> USE CapiAssumption DEF registryVars, resultVars, lifeVars
  <1>1. ASSUME NEW t \in Threads, SessionCreate(t) PROVE LockInv'
    BY <1>1 DEF SessionCreate, TypeOK, LockInv
  <1>2. ASSUME NEW t \in Threads, NEW h \in DOMAIN sessions, SessionDestroy(t, h)
        PROVE LockInv'
    BY <1>2 DEF SessionDestroy, LockInv
  <1>3. ASSUME NEW t \in Threads, NEW op \in StatusOps \cup ResultOps,
               NEW h \in DOMAIN sessions, Begin(t, op, h)
        PROVE LockInv'
    BY <1>3 DEF Begin, TypeOK, LockInv
  <1>4. ASSUME NEW t \in Threads, NEW op \in ResultOps, BeginInvalid(t, op)
        PROVE LockInv'
    BY <1>4 DEF BeginInvalid, TypeOK, LockInv
  <1>5. ASSUME NEW t \in Threads, RejectRequest(t) PROVE LockInv'
    <2>1. /\ UNCHANGED <<created, owner>>
          /\ \/ thread' = [thread EXCEPT ![t].at = "answered"]
             \/ thread' = [thread EXCEPT ![t] = Idle]
      BY <1>5 DEF RejectRequest, Return
    <2>2. \A u \in Threads : thread'[u] = thread[u] \/ thread'[u].at \in {"answered", "idle"}
      BY <2>1 DEF Idle, TypeOK
    <2> QED
      BY <2>1, <2>2 DEF LockInv
  <1>6. ASSUME NEW t \in Threads, Enter(t) PROVE LockInv'
    BY <1>6 DEF Enter, TypeOK, LockInv
  <1>7. ASSUME NEW t \in Threads, ChangeSource(t) PROVE LockInv'
    BY <1>7 DEF ChangeSource, Return, Idle, TypeOK, LockInv
  <1>8. ASSUME NEW t \in Threads, Compute(t) \/ Throw(t) PROVE LockInv'
    <2>1. /\ thread[t].at = "inside"
          /\ UNCHANGED created
          /\ owner' = [owner EXCEPT ![thread[t].session] = NoThread]
      BY <1>8 DEF Compute, Throw, Leave
    <2>2. \A u \in Threads \ {t} : thread'[u] = thread[u]
      BY <1>8 DEF Compute, Throw, Leave, Return, TypeOK
    <2>3. /\ thread'[t].at \in {"answered", "failed", "idle"}
          /\ thread'[t].at = "failed" => thread'[t].session = thread[t].session
      <3>1. CASE \E at \in {"answered", "failed"} : Leave(t, at)
        BY <3>1 DEF Leave, TypeOK
      <3>2. CASE Return(t)
        BY <3>2 DEF Return, Idle, TypeOK
      <3> QED
        BY <1>8, <3>1, <3>2 DEF Compute, Throw
    <2>4. ASSUME NEW u \in Threads, thread'[u].at = "inside"
          PROVE  owner'[thread'[u].session] = u
      <3>1. u # t /\ thread'[u] = thread[u]
        BY <2>2, <2>3, <2>4
      <3>2. thread[u].at = "inside" /\ owner[thread[u].session] = u
        BY <2>4, <3>1 DEF LockInv
      <3>3. thread[u].session # thread[t].session
        BY <2>1, <3>1, <3>2 DEF LockInv
      <3>4. thread[u].session \in 1..MaxSessions
        BY <3>2 DEF LockInv, TypeOK
      <3> QED
        BY <2>1, <3>1, <3>2, <3>3, <3>4 DEF TypeOK
    <2>5. ASSUME NEW u \in Threads,
                 thread'[u].at \in {"holding", "inside", "failed", "reading"}
          PROVE  thread'[u].session \in 1..created'
      BY <2>1, <2>2, <2>3, <2>5 DEF LockInv
    <2> QED
      BY <2>4, <2>5 DEF LockInv
  <1>9. ASSUME NEW t \in Threads, ReportFailure(t) \/ FindSource(t) \/ FormatText(t)
        PROVE LockInv'
    <2>1. CASE ReportFailure(t)
      BY <2>1 DEF ReportFailure, TypeOK, LockInv
    <2>2. CASE FindSource(t)
      BY <2>2 DEF FindSource, TypeOK, LockInv
    <2>3. CASE FormatText(t)
      BY <2>3 DEF FormatText, TypeOK, LockInv
    <2> QED
      BY <1>9, <2>1, <2>2, <2>3
  <1>10. ASSUME NEW t \in Threads, StoreJson(t) PROVE LockInv'
    BY <1>10 DEF StoreJson, Return, Idle, TypeOK, LockInv
  <1>11. ASSUME NEW t \in Threads, NEW held \in outstanding, ResultDestroy(t, held)
         PROVE LockInv'
    BY <1>11 DEF ResultDestroy, LockInv
  <1>12. CASE UNCHANGED capiVars
    BY <1>12 DEF capiVars, LockInv
  <1> QED
    BY <1>1, <1>2, <1>3, <1>4, <1>5, <1>6, <1>7, <1>8, <1>9, <1>10, <1>11, <1>12
       DEF Next, Proceed

\* The inductive invariant.
LEMMA LockInvariant == Spec => [](TypeOK /\ LockInv)
  <1>1. Init => TypeOK /\ LockInv
    BY InitTypeOK DEF Init, LockInv, Idle
  <1>2. TypeOK /\ LockInv /\ [Next]_capiVars => (TypeOK /\ LockInv)'
    BY NextTypeOK, NextLockInv
  <1> QED
    BY <1>1, <1>2, PTL DEF Spec

\* The variables of the registries, the sessions' mutexes and the threads
\* keep their types.
THEOREM CapiTypeCorrect == Spec => []TypeOK
  BY LockInvariant, PTL

-----------------------------------------------------------------------------
\* The life of a session.  Its use count is the number of handles that name it
\* and of calls that work on it, and it has been freed if that number is 0.

HandlesOf(s) == {h \in DOMAIN sessions : sessions[h] = s}
CallsOf(s) == {t \in Threads : thread[t].session = s}

Counted(s) ==
    /\ IsFiniteSet(HandlesOf(s)) /\ IsFiniteSet(CallsOf(s))
    /\ count[s] = Cardinality(HandlesOf(s)) + Cardinality(CallsOf(s))
    /\ s \in freed <=> count[s] = 0

CountInv == \A s \in 1..created : Counted(s)

\* A session whose handles, calls and count stay as they are.
LEMMA CountedKept ==
  ASSUME NEW s, Counted(s), HandlesOf(s)' = HandlesOf(s), CallsOf(s)' = CallsOf(s),
         count'[s] = count[s], s \in freed' <=> s \in freed
  PROVE  Counted(s)'
  BY DEF Counted

\* Of a set of references one more is there, or one less.
LEMMA OneMore ==
  ASSUME NEW S, IsFiniteSet(S), NEW x, x \notin S
  PROVE  /\ IsFiniteSet(S \cup {x}) /\ Cardinality(S) \in Nat
         /\ Cardinality(S \cup {x}) = Cardinality(S) + 1
  BY FS_AddElement, FS_CardinalityType

LEMMA OneLess ==
  ASSUME NEW S, IsFiniteSet(S), NEW x \in S
  PROVE  /\ IsFiniteSet(S \ {x}) /\ Cardinality(S) \in Nat \ {0}
         /\ Cardinality(S \ {x}) = Cardinality(S) - 1
  BY FS_RemoveElement, FS_CardinalityType, FS_EmptySet

\* One reference less to session s: a handle or a call.
LEMMA ReleaseCounts ==
  ASSUME TypeOK, CountInv, NEW s \in 1..created, Release(s), UNCHANGED created,
         \/ /\ \E h \in HandlesOf(s) : HandlesOf(s)' = HandlesOf(s) \ {h}
            /\ CallsOf(s)' = CallsOf(s)
         \/ /\ \E t \in CallsOf(s) : CallsOf(s)' = CallsOf(s) \ {t}
            /\ HandlesOf(s)' = HandlesOf(s),
         \A r \in 1..created : r # s => HandlesOf(r)' = HandlesOf(r) /\ CallsOf(r)' = CallsOf(r)
  PROVE  CountInv'
  <1>1. s \in 1..MaxSessions /\ count \in [1..MaxSessions -> Int] /\ 1..created \subseteq 1..MaxSessions
    BY SessionsCounted DEF TypeOK
  <1>2. /\ IsFiniteSet(HandlesOf(s)) /\ IsFiniteSet(CallsOf(s))
        /\ count[s] = Cardinality(HandlesOf(s)) + Cardinality(CallsOf(s))
        /\ s \in freed <=> count[s] = 0
    BY DEF CountInv, Counted
  <1>3. /\ count'[s] = count[s] - 1
        /\ freed' = IF count[s] = 1 THEN freed \cup {s} ELSE freed
        /\ \A r \in 1..created : r # s => count'[r] = count[r] /\ (r \in freed' <=> r \in freed)
    BY <1>1 DEF Release
  <1>4. /\ IsFiniteSet(HandlesOf(s)') /\ IsFiniteSet(CallsOf(s)')
        /\ count[s] - 1 = Cardinality(HandlesOf(s)') + Cardinality(CallsOf(s)')
        /\ count[s] # 0
    <2>1. Cardinality(HandlesOf(s)) \in Nat /\ Cardinality(CallsOf(s)) \in Nat
      BY <1>2, FS_CardinalityType
    <2>2. CASE \E h \in HandlesOf(s) : HandlesOf(s)' = HandlesOf(s) \ {h} /\ CallsOf(s)' = CallsOf(s)
      <3>1. PICK h \in HandlesOf(s) : HandlesOf(s)' = HandlesOf(s) \ {h} /\ CallsOf(s)' = CallsOf(s)
        BY <2>2
      <3>2. /\ IsFiniteSet(HandlesOf(s) \ {h}) /\ Cardinality(HandlesOf(s)) \in Nat \ {0}
            /\ Cardinality(HandlesOf(s) \ {h}) = Cardinality(HandlesOf(s)) - 1
        BY <1>2, <3>1, OneLess
      <3> QED
        BY <1>2, <2>1, <3>1, <3>2
    <2>3. CASE \E t \in CallsOf(s) : CallsOf(s)' = CallsOf(s) \ {t} /\ HandlesOf(s)' = HandlesOf(s)
      <3>1. PICK t \in CallsOf(s) : CallsOf(s)' = CallsOf(s) \ {t} /\ HandlesOf(s)' = HandlesOf(s)
        BY <2>3
      <3>2. /\ IsFiniteSet(CallsOf(s) \ {t}) /\ Cardinality(CallsOf(s)) \in Nat \ {0}
            /\ Cardinality(CallsOf(s) \ {t}) = Cardinality(CallsOf(s)) - 1
        BY <1>2, <3>1, OneLess
      <3> QED
        BY <1>2, <2>1, <3>1, <3>2
    <2> QED
      BY <2>2, <2>3
  <1>5. s \in freed' <=> count'[s] = 0
    BY <1>1, <1>2, <1>3, <1>4
  <1>6. Counted(s)'
    BY <1>3, <1>4, <1>5 DEF Counted
  <1>7. ASSUME NEW r \in 1..created, r # s PROVE Counted(r)'
    BY <1>3, <1>7, CountedKept DEF CountInv
  <1> QED
    BY <1>6, <1>7 DEF CountInv

\* A step that changes no reference.
LEMMA CountsKept ==
  ASSUME CountInv, UNCHANGED <<sessions, created, count, freed>>,
         \A t \in Threads : thread'[t].session = thread[t].session
  PROVE  CountInv'
  <1>1. ASSUME NEW s \in 1..created PROVE Counted(s)'
    <2>1. HandlesOf(s)' = HandlesOf(s) /\ CallsOf(s)' = CallsOf(s)
      BY DEF HandlesOf, CallsOf
    <2> QED
      BY <2>1, CountedKept DEF CountInv
  <1> QED
    BY <1>1 DEF CountInv

\* make_shared: the new session has one handle; an old one may have lost its
\* handle.
LEMMA CreateCounts ==
  ASSUME TypeOK, CountInv, NEW t \in Threads, SessionCreate(t)
  PROVE  CountInv'
  <1>0. PICK n : n = created + 1
    OBVIOUS
  <1>1. /\ created \in Nat /\ n = created + 1 /\ created' = n /\ n \in 1..MaxSessions
        /\ thread' = thread /\ sessions' = Put(sessions, nextSession, n)
        /\ DOMAIN count = 1..MaxSessions
        /\ \A s \in 1..MaxSessions : count'[s] = IF s = n THEN 1
                                                ELSE IF s \in Overwritten THEN count[s] - 1
                                                ELSE count[s]
        /\ freed' = freed \cup {s \in Overwritten : count[s] = 1}
    BY <1>0, CapiAssumption DEF SessionCreate, TypeOK
  <1>2. /\ \A h \in DOMAIN sessions : sessions[h] \in 1..created
        /\ \A u \in Threads : thread[u].session \in 0..created
        /\ freed \subseteq 1..created
    BY DEF TypeOK
  <1>3. \A h \in DOMAIN sessions' :
            sessions'[h] = IF h = nextSession THEN n ELSE sessions[h]
    BY <1>1 DEF Put
  <1>4. DOMAIN sessions' = DOMAIN sessions \cup {nextSession}
    BY <1>1 DEF Put
  <1>5. \A s \in 1..created : s # n /\ s \in 1..MaxSessions
    BY <1>1, SessionsCounted
  <1>6. ASSUME NEW s \in 1..created PROVE Counted(s)'
    <2>1. CallsOf(s)' = CallsOf(s) /\ s # n /\ s \in 1..MaxSessions
      BY <1>1, <1>5 DEF CallsOf
    <2>2. HandlesOf(s)' = HandlesOf(s) \ {nextSession}
      BY <1>3, <1>4, <2>1 DEF HandlesOf
    <2>3. s \in Overwritten <=> nextSession \in HandlesOf(s)
      BY DEF Overwritten, HandlesOf
    <2>4. CASE nextSession \notin HandlesOf(s)
      <3>1. HandlesOf(s)' = HandlesOf(s)
        BY <2>2, <2>4
      <3>2. count'[s] = count[s] /\ (s \in freed' <=> s \in freed)
        BY <1>1, <2>1, <2>3, <2>4
      <3> QED
        BY <2>1, <3>1, <3>2, CountedKept DEF CountInv
    <2>5. CASE nextSession \in HandlesOf(s)
      <3>1. /\ IsFiniteSet(HandlesOf(s)) /\ IsFiniteSet(CallsOf(s))
            /\ count[s] = Cardinality(HandlesOf(s)) + Cardinality(CallsOf(s))
            /\ s \in freed <=> count[s] = 0
        BY DEF CountInv, Counted
      <3>2. /\ IsFiniteSet(HandlesOf(s)') /\ Cardinality(HandlesOf(s)) \in Nat \ {0}
            /\ Cardinality(HandlesOf(s)') = Cardinality(HandlesOf(s)) - 1
        BY <2>2, <2>5, <3>1, OneLess
      <3>3. Cardinality(CallsOf(s)) \in Nat
        BY <3>1, FS_CardinalityType
      <3>4. count'[s] = count[s] - 1 /\ (s \in freed' <=> s \in freed \/ count[s] = 1)
        BY <1>1, <2>1, <2>3, <2>5
      <3>5. count'[s] = Cardinality(HandlesOf(s)') + Cardinality(CallsOf(s)')
        BY <2>1, <3>1, <3>2, <3>3, <3>4
      <3>6. s \in freed' <=> count'[s] = 0
        BY <3>1, <3>2, <3>3, <3>4
      <3> QED
        BY <2>1, <3>1, <3>2, <3>5, <3>6 DEF Counted
    <2> QED
      BY <2>4, <2>5
  <1>7. Counted(n)'
    <2>1. n \notin 1..created /\ n \notin 0..created
      BY <1>1
    <2>2. HandlesOf(n)' = {nextSession}
      BY <1>2, <1>3, <1>4, <2>1 DEF HandlesOf
    <2>3. CallsOf(n)' = {}
      BY <1>1, <1>2, <2>1 DEF CallsOf
    <2>4. Cardinality({nextSession}) = 1 /\ IsFiniteSet({nextSession})
      BY FS_Singleton
    <2>5. Cardinality({}) = 0 /\ IsFiniteSet({})
      BY FS_EmptySet
    <2>6. count'[n] = 1
      BY <1>1
    <2>7. n \notin freed'
      BY <1>1, <1>2, <2>1 DEF Overwritten
    <2>8. count'[n] = Cardinality(HandlesOf(n)') + Cardinality(CallsOf(n)')
      BY <2>2, <2>3, <2>4, <2>5, <2>6
    <2> QED
      BY <2>2, <2>3, <2>4, <2>5, <2>6, <2>7, <2>8 DEF Counted
  <1>8. \A s \in 1..created' : s \in 1..created \/ s = n
    BY <1>1
  <1> QED
    BY <1>6, <1>7, <1>8 DEF CountInv

\* SessionRegistry::get copies the shared_ptr.
LEMMA BeginCounts ==
  ASSUME TypeOK, CountInv, NEW t \in Threads, NEW op, NEW h \in DOMAIN sessions, Begin(t, op, h)
  PROVE  CountInv'
  <1>0. PICK s : s = sessions[h]
    OBVIOUS
  <1>1. /\ s \in 1..created /\ s \in 1..MaxSessions /\ created \in Nat
        /\ thread[t].session = 0 /\ UNCHANGED <<sessions, created, freed>>
        /\ count' = [count EXCEPT ![s] = @ + 1]
        /\ count \in [1..MaxSessions -> Int]
        /\ \A u \in Threads : thread'[u].session = IF u = t THEN s ELSE thread[u].session
    BY <1>0, SessionsCounted DEF Begin, Idle, TypeOK, registryVars
  <1>2. \A r \in 1..created : r \in 1..MaxSessions
    BY SessionsCounted
  <1>3. ASSUME NEW r \in 1..created, r # s PROVE Counted(r)'
    <2>1. HandlesOf(r)' = HandlesOf(r) /\ CallsOf(r)' = CallsOf(r)
      BY <1>1, <1>3 DEF HandlesOf, CallsOf
    <2>2. count'[r] = count[r]
      BY <1>1, <1>2, <1>3
    <2> QED
      BY <1>1, <2>1, <2>2, CountedKept DEF CountInv
  <1>4. Counted(s)'
    <2>1. /\ IsFiniteSet(HandlesOf(s)) /\ IsFiniteSet(CallsOf(s))
          /\ count[s] = Cardinality(HandlesOf(s)) + Cardinality(CallsOf(s))
          /\ s \in freed <=> count[s] = 0
      BY <1>1 DEF CountInv, Counted
    <2>2. HandlesOf(s)' = HandlesOf(s) /\ CallsOf(s)' = CallsOf(s) \cup {t} /\ t \notin CallsOf(s)
      BY <1>1 DEF HandlesOf, CallsOf
    <2>3. /\ IsFiniteSet(CallsOf(s)') /\ Cardinality(CallsOf(s)) \in Nat
          /\ Cardinality(CallsOf(s)') = Cardinality(CallsOf(s)) + 1
      BY <2>1, <2>2, OneMore
    <2>4. Cardinality(HandlesOf(s)) \in Nat /\ Cardinality(HandlesOf(s)) # 0
      <3>1. h \in HandlesOf(s)
        BY <1>0 DEF HandlesOf
      <3> QED
        BY <2>1, <3>1, FS_CardinalityType, FS_EmptySet
    <2>5. count'[s] = count[s] + 1
      BY <1>1
    <2>6. count'[s] = Cardinality(HandlesOf(s)') + Cardinality(CallsOf(s)') /\ count'[s] # 0 /\ count[s] # 0
      BY <2>1, <2>2, <2>3, <2>4, <2>5
    <2> QED
      BY <1>1, <2>1, <2>2, <2>3, <2>6 DEF Counted
  <1> QED
    BY <1>1, <1>3, <1>4 DEF CountInv

\* The shared_ptr of a call goes away when the call returns.
LEMMA ReturnCounts ==
  ASSUME TypeOK, CountInv, NEW t \in Threads, Return(t), UNCHANGED <<sessions, created>>
  PROVE  CountInv'
  <1>1. \A u \in Threads : thread'[u].session = IF u = t THEN 0 ELSE thread[u].session
    BY DEF Return, Idle, TypeOK
  <1>2. CASE thread[t].session = 0
    BY <1>1, <1>2, CountsKept DEF Return, lifeVars
  <1>3. CASE thread[t].session # 0
    <2>0. PICK s : s = thread[t].session
      OBVIOUS
    <2>1. s \in 1..created /\ created \in Nat /\ Release(s)
      BY <1>3, <2>0, SessionsCounted DEF Return, TypeOK
    <2>2. s # 0 /\ \A r \in 1..created : r # 0
      BY <2>1
    <2>3. \A r \in 1..created : HandlesOf(r)' = HandlesOf(r)
      BY DEF HandlesOf
    <2>4. t \in CallsOf(s) /\ CallsOf(s)' = CallsOf(s) \ {t}
      BY <1>1, <2>0, <2>2 DEF CallsOf
    <2>5. \A r \in 1..created : r # s => CallsOf(r)' = CallsOf(r)
      BY <1>1, <2>0, <2>2 DEF CallsOf
    <2> QED
      BY <2>1, <2>3, <2>4, <2>5, ReleaseCounts
  <1> QED
    BY <1>2, <1>3

\* The registry's shared_ptr goes away.
LEMMA DestroyCounts ==
  ASSUME TypeOK, CountInv, NEW t \in Threads, NEW h \in DOMAIN sessions, SessionDestroy(t, h)
  PROVE  CountInv'
  <1>0. PICK s : s = sessions[h]
    OBVIOUS
  <1>1. /\ s \in 1..created /\ Release(s) /\ UNCHANGED <<created, thread>>
        /\ sessions' = Drop(sessions, {h})
    BY <1>0 DEF SessionDestroy, TypeOK
  <1>2. h \in HandlesOf(s) /\ HandlesOf(s)' = HandlesOf(s) \ {h}
    BY <1>0, <1>1 DEF HandlesOf, Drop
  <1>3. \A r \in 1..created : r # s => HandlesOf(r)' = HandlesOf(r)
    BY <1>0, <1>1 DEF HandlesOf, Drop
  <1>4. \A r \in 1..created : CallsOf(r)' = CallsOf(r)
    BY <1>1 DEF CallsOf
  <1> QED
    BY <1>1, <1>2, <1>3, <1>4, ReleaseCounts

\* Every step keeps the counts.
LEMMA NextCounts == TypeOK /\ CountInv /\ [Next]_capiVars => CountInv'
  <1> SUFFICES ASSUME TypeOK, CountInv, [Next]_capiVars PROVE CountInv'
    OBVIOUS
  <1> USE DEF registryVars, lifeVars
  <1>1. ASSUME NEW t \in Threads, NEW op \in ResultOps, BeginInvalid(t, op) PROVE CountInv'
    <2>1. \A u \in Threads : thread'[u].session = thread[u].session
      BY <1>1 DEF BeginInvalid, Idle, TypeOK
    <2> QED
      BY <1>1, <2>1, CountsKept DEF BeginInvalid
  <1>2. ASSUME NEW t \in Threads,
               \/ ChangeSource(t)
               \/ StoreJson(t)
               \/ (RejectRequest(t) \/ Throw(t)) /\ Return(t)
        PROVE CountInv'
    BY <1>2, ReturnCounts DEF ChangeSource, StoreJson, RejectRequest, Throw
  <1>3. ASSUME NEW t \in Threads, UNCHANGED <<registryVars, lifeVars>>,
               NEW place, thread' = [thread EXCEPT ![t].at = place]
        PROVE CountInv'
    <2>1. \A u \in Threads : thread'[u].session = thread[u].session
      BY <1>3 DEF TypeOK
    <2> QED
      BY <1>3, <2>1, CountsKept
  <1>4. ASSUME NEW t \in Threads,
               \/ (RejectRequest(t) \/ Throw(t)) /\ ~Return(t)
               \/ Enter(t) \/ Compute(t)
               \/ ReportFailure(t) \/ FindSource(t) \/ FormatText(t)
        PROVE CountInv'
    BY <1>3, <1>4 DEF RejectRequest, Enter, Compute, Throw, Leave, ReportFailure,
                      FindSource, FormatText
  <1>5. ASSUME NEW t \in Threads, NEW held \in outstanding, ResultDestroy(t, held)
        PROVE CountInv'
    BY <1>5, CountsKept DEF ResultDestroy
  <1>6. CASE UNCHANGED capiVars
    BY <1>6, CountsKept DEF capiVars
  <1> QED
    BY <1>1, <1>2, <1>4, <1>5, <1>6, CreateCounts, DestroyCounts, BeginCounts DEF Next, Proceed

\* For any number of threads and sessions, and however calls, destructions and
\* handles that are given out twice interleave, a session is freed when the
\* last handle that names it and the last call that works on it are gone, and
\* not before.
THEOREM SessionsAlwaysOutliveCalls == Spec => []SessionsOutliveCalls
  <1>1. Init => CountInv
    BY DEF Init, CountInv
  <1>2. TypeOK /\ CountInv /\ [Next]_capiVars => CountInv'
    BY NextCounts
  <1>3. CountInv => SessionsOutliveCalls
    <2> SUFFICES ASSUME CountInv, NEW s \in 1..created
                 PROVE  s \in freed <=> /\ \A h \in DOMAIN sessions : sessions[h] # s
                                       /\ \A t \in Threads : thread[t].session # s
      BY DEF SessionsOutliveCalls
    <2>1. Counted(s)
      BY DEF CountInv
    <2>2. /\ Cardinality(HandlesOf(s)) \in Nat /\ Cardinality(CallsOf(s)) \in Nat
          /\ Cardinality(HandlesOf(s)) = 0 <=> HandlesOf(s) = {}
          /\ Cardinality(CallsOf(s)) = 0 <=> CallsOf(s) = {}
      BY <2>1, FS_CardinalityType, FS_EmptySet DEF Counted
    <2>3. s \in freed <=> HandlesOf(s) = {} /\ CallsOf(s) = {}
      BY <2>1, <2>2 DEF Counted
    <2> QED
      BY <2>3 DEF HandlesOf, CallsOf
  <1> QED
    BY <1>1, <1>2, <1>3, CapiTypeCorrect, PTL DEF Spec

-----------------------------------------------------------------------------
\* The results.  Handles repeat after HandleModulus of them; before that, the
\* calls that have stored an answer and the threads in a call are not more
\* than the calls begun.

Busy == {t \in Threads : thread[t] # Idle}

CallsCounted ==
    /\ IsFiniteSet(Busy)
    /\ nextResult \in Nat \ {0} /\ calls \in Nat
    /\ nextResult + Cardinality(Busy) <= calls + 1

HandlesApart ==
    /\ \A held \in outstanding : held.handle \in 1..nextResult - 1
    /\ \A a, b \in outstanding : a.handle = b.handle => a = b

ResultsInv == CallsCounted /\ HandlesApart /\ ResultsStayValid

\* How a step of thread t changes the set of busy threads.
LEMMA BusyStep ==
  ASSUME TypeOK, NEW t \in Threads, NEW state, thread' = [thread EXCEPT ![t] = state]
  PROVE  Busy' = IF state = Idle THEN Busy \ {t} ELSE Busy \cup {t}
  <1>1. thread'[t] = state /\ \A u \in Threads : u # t => thread'[u] = thread[u]
    BY DEF TypeOK
  <1> QED
    BY <1>1 DEF Busy

\* A call that goes on at another place is still under way.
LEMMA BusyMoves ==
  ASSUME TypeOK, NEW t \in Threads, thread[t].at # "idle", NEW place, place # "idle",
         thread' = [thread EXCEPT ![t].at = place]
  PROVE  Busy' = Busy
  <1>1. PICK state : state = [thread[t] EXCEPT !.at = place]
    OBVIOUS
  <1>2. state.at = place
    BY <1>1 DEF TypeOK
  <1>3. state # Idle /\ thread[t] # Idle
    BY <1>2 DEF Idle
  <1>4. thread' = [thread EXCEPT ![t] = state]
    BY <1>1
  <1>5. t \in Busy
    BY <1>3 DEF Busy
  <1>6. Busy' = Busy \cup {t}
    BY <1>3, <1>4, BusyStep
  <1> QED
    BY <1>5, <1>6

\* A step that stores no answer leaves the results alone.
LEMMA ResultsKept ==
  ASSUME ResultsInv, UNCHANGED <<results, nextResult, outstanding>>, CallsCounted'
  PROVE  ResultsInv'
  BY DEF ResultsInv, HandlesApart, ResultsStayValid

LEMMA CountKept ==
  ASSUME CallsCounted, UNCHANGED <<nextResult, calls>>, Busy' = Busy
  PROVE  CallsCounted'
  BY DEF CallsCounted

LEMMA CountBegun ==
  ASSUME CallsCounted, UNCHANGED nextResult, calls' = calls + 1,
         NEW t, t \notin Busy, Busy' = Busy \cup {t}
  PROVE  CallsCounted'
  <1>1. IsFiniteSet(Busy') /\ Cardinality(Busy') = Cardinality(Busy) + 1
    BY FS_AddElement DEF CallsCounted
  <1>2. Cardinality(Busy) \in Nat
    BY FS_CardinalityType DEF CallsCounted
  <1> QED
    BY <1>1, <1>2 DEF CallsCounted

\* A call of thread t ends, with or without a result.
LEMMA CountEnded ==
  ASSUME CallsCounted, UNCHANGED calls, NEW t, t \in Busy, Busy' = Busy \ {t},
         nextResult' \in {nextResult, nextResult + 1}
  PROVE  CallsCounted'
  <1>1. IsFiniteSet(Busy') /\ Cardinality(Busy') = Cardinality(Busy) - 1
    BY FS_RemoveElement DEF CallsCounted
  <1>2. Cardinality(Busy) \in Nat /\ Cardinality(Busy) # 0
    BY FS_CardinalityType, FS_EmptySet DEF CallsCounted
  <1>3. PICK n \in Nat : n = Cardinality(Busy) /\ n # 0
    BY <1>2
  <1> QED
    BY <1>1, <1>3 DEF CallsCounted

\* storeJson under a handle that no caller holds.
LEMMA StoreKeepsResults ==
  ASSUME TypeOK, ResultsInv, MaxCalls + 1 < HandleModulus,
         NEW t \in Threads, StoreJson(t)
  PROVE  ResultsInv'
  <1> USE CapiAssumption
  <1>1. t \in Busy
    BY DEF StoreJson, Busy, Idle
  <1>2. Busy' = Busy \ {t}
    BY BusyStep DEF StoreJson, Return
  <1>3. UNCHANGED calls /\ nextResult \in Nat \ {0}
    BY DEF StoreJson, ResultsInv, CallsCounted
  <1>4. CallsCounted /\ nextResult <= calls
    <2>1. Cardinality(Busy) \in Nat /\ Cardinality(Busy) # 0
      BY <1>1, FS_CardinalityType, FS_EmptySet DEF ResultsInv, CallsCounted
    <2> QED
      BY <2>1 DEF ResultsInv, CallsCounted
  <1>5. nextResult' = nextResult + 1
    <2>1. nextResult + 1 < HandleModulus
      BY <1>3, <1>4 DEF TypeOK
    <2> QED
      BY <1>3, <2>1 DEF StoreJson
  <1>6. CallsCounted'
    BY <1>1, <1>2, <1>3, <1>4, <1>5, CountEnded
  <1>7. PICK n \in Nat \ {0} : n = nextResult
    BY <1>3
  <1>8. PICK new : new = [handle |-> n, answer |-> thread[t].call]
    OBVIOUS
  <1>9. /\ new.handle = n /\ new.answer = thread[t].call
        /\ outstanding' = outstanding \cup {new} /\ nextResult' = n + 1
        /\ results' = Put(results, n, thread[t].call)
    BY <1>5, <1>7, <1>8 DEF StoreJson
  <1>10. \A held \in outstanding : held.handle \in 1..n - 1
    BY <1>7 DEF ResultsInv, HandlesApart
  <1>11. \A held \in outstanding : held.handle \in 1..n /\ held.handle # n
    BY <1>10
  <1>12. HandlesApart'
    <2>1. \A held \in outstanding' : held.handle \in 1..nextResult' - 1
      BY <1>9, <1>11
    <2>2. \A a, b \in outstanding' : a.handle = b.handle => a = b
      BY <1>9, <1>11 DEF ResultsInv, HandlesApart
    <2> QED
      BY <2>1, <2>2 DEF HandlesApart
  <1>13. ResultsStayValid'
    BY <1>9, <1>11 DEF ResultsInv, ResultsStayValid, Put
  <1> QED
    BY <1>6, <1>12, <1>13 DEF ResultsInv

LEMMA ResultsInvStep ==
  ASSUME MaxCalls + 1 < HandleModulus, TypeOK, ResultsInv, [Next]_capiVars
  PROVE  ResultsInv'
  <1> USE DEF registryVars, resultVars, lifeVars
  <1> CallsCounted
    BY DEF ResultsInv
  <1>1. ASSUME NEW t \in Threads,
               SessionCreate(t) \/ \E h \in DOMAIN sessions : SessionDestroy(t, h)
        PROVE  ResultsInv'
    <2>1. UNCHANGED <<thread, resultVars, calls>>
      BY <1>1 DEF SessionCreate, SessionDestroy
    <2>2. Busy' = Busy
      BY <2>1 DEF Busy
    <2> QED
      BY <2>1, <2>2, CountKept, ResultsKept
  <1>2. ASSUME NEW t \in Threads, thread[t] = Idle, NEW state, state.at # "idle",
               thread' = [thread EXCEPT ![t] = state], calls' = calls + 1, UNCHANGED resultVars
        PROVE  ResultsInv'
    <2>1. t \notin Busy /\ state # Idle
      BY <1>2 DEF Busy, Idle
    <2>2. Busy' = Busy \cup {t}
      BY <1>2, <2>1, BusyStep
    <2> QED
      BY <1>2, <2>1, <2>2, CountBegun, ResultsKept
  <1>3. ASSUME NEW t \in Threads, NEW op, NEW h, Begin(t, op, h) PROVE ResultsInv'
    <2>1. PICK at \in {"holding", "malformed"} :
              thread' = [thread EXCEPT ![t] =
                  [at |-> at, op |-> op, session |-> sessions[h], call |-> calls']]
      BY <1>3 DEF Begin
    <2>2. PICK state : state = [at |-> at, op |-> op, session |-> sessions[h], call |-> calls']
      OBVIOUS
    <2>3. state.at # "idle"
      BY <2>2
    <2> QED
      BY <1>2, <1>3, <2>1, <2>2, <2>3 DEF Begin
  <1>4. ASSUME NEW t \in Threads, NEW op, BeginInvalid(t, op) PROVE ResultsInv'
    <2>1. PICK state : state = [at |-> "answered", op |-> op, session |-> 0, call |-> calls']
      OBVIOUS
    <2>2. state.at # "idle"
      BY <2>1
    <2> QED
      BY <1>2, <1>4, <2>1, <2>2 DEF BeginInvalid
  <1>5. ASSUME NEW t \in Threads, thread[t].at # "idle", UNCHANGED <<resultVars, calls>>,
               \/ thread' = [thread EXCEPT ![t] = Idle]
               \/ \E place \in Places \ {"idle"} : thread' = [thread EXCEPT ![t].at = place]
        PROVE  ResultsInv'
    <2>1. t \in Busy
      BY <1>5 DEF Busy, Idle
    <2>2. CASE thread' = [thread EXCEPT ![t] = Idle]
      <3>1. Busy' = Busy \ {t}
        BY <2>2, BusyStep
      <3> QED
        BY <1>5, <2>1, <3>1, CountEnded, ResultsKept
    <2>3. CASE \E place \in Places \ {"idle"} : thread' = [thread EXCEPT ![t].at = place]
      <3>1. Busy' = Busy
        BY <1>5, <2>3, BusyMoves
      <3> QED
        BY <1>5, <3>1, CountKept, ResultsKept
    <2> QED
      BY <1>5, <2>2, <2>3
  <1>6. ASSUME NEW t \in Threads, Proceed(t) PROVE ResultsInv'
    <2>1. CASE StoreJson(t)
      BY <2>1, StoreKeepsResults
    <2>2. CASE RejectRequest(t) \/ ChangeSource(t) \/ Throw(t)
      <3>1. thread[t].at # "idle" /\ UNCHANGED <<resultVars, calls>>
        BY <2>2 DEF RejectRequest, ChangeSource, Throw
      <3>2. \/ thread' = [thread EXCEPT ![t] = Idle]
            \/ \E place \in Places \ {"idle"} : thread' = [thread EXCEPT ![t].at = place]
        BY <2>2 DEF RejectRequest, ChangeSource, Throw, Return, Leave, Places
      <3> QED
        BY <1>5, <3>1, <3>2
    <2>3. CASE Enter(t) \/ Compute(t) \/ ReportFailure(t) \/ FindSource(t) \/ FormatText(t)
      <3>1. thread[t].at # "idle" /\ UNCHANGED <<resultVars, calls>>
        BY <2>3 DEF Enter, Compute, ReportFailure, FindSource, FormatText
      <3>2. \E place \in Places \ {"idle"} : thread' = [thread EXCEPT ![t].at = place]
        BY <2>3 DEF Enter, Compute, Leave, ReportFailure, FindSource, FormatText, Places
      <3> QED
        BY <1>5, <3>1, <3>2
    <2> QED
      BY <1>6, <2>1, <2>2, <2>3 DEF Proceed
  <1>7. ASSUME NEW t \in Threads, NEW held \in outstanding, ResultDestroy(t, held)
        PROVE  ResultsInv'
    <2>1. /\ results' = Drop(results, {held.handle}) /\ outstanding' = outstanding \ {held}
          /\ UNCHANGED <<thread, nextResult, calls>>
      BY <1>7 DEF ResultDestroy
    <2>2. Busy' = Busy
      BY <2>1 DEF Busy
    <2>3. CallsCounted'
      BY <2>1, <2>2, CountKept
    <2>4. HandlesApart'
      BY <2>1 DEF ResultsInv, HandlesApart
    <2>5. ResultsStayValid'
      BY <2>1 DEF ResultsInv, HandlesApart, ResultsStayValid, Drop
    <2> QED
      BY <2>3, <2>4, <2>5 DEF ResultsInv
  <1>8. CASE UNCHANGED capiVars
    <2>1. UNCHANGED <<thread, resultVars, calls>>
      BY <1>8 DEF capiVars
    <2>2. Busy' = Busy
      BY <2>1 DEF Busy
    <2> QED
      BY <2>1, <2>2, CountKept, ResultsKept
  <1> QED
    BY <1>1, <1>3, <1>4, <1>6, <1>7, <1>8 DEF Next

\* ResultRegistry: as long as the calls do not use up the 32-bit handles, an
\* answer that a caller holds stays behind its handle until that caller
\* destroys it, whatever the other threads store and destroy.
THEOREM ResultsAlwaysValid ==
  ASSUME MaxCalls + 1 < HandleModulus
  PROVE  Spec => []ResultsStayValid
  <1>1. Init => ResultsInv
    <2> SUFFICES ASSUME Init PROVE ResultsInv
      OBVIOUS
    <2>1. Busy = {}
      BY DEF Init, Busy
    <2>2. CallsCounted
      BY <2>1, FS_EmptySet DEF Init, CallsCounted
    <2> QED
      BY <2>2 DEF Init, ResultsInv, HandlesApart, ResultsStayValid
  <1>2. TypeOK /\ ResultsInv /\ [Next]_capiVars => ResultsInv'
    BY ResultsInvStep
  <1>3. ResultsInv => ResultsStayValid
    BY DEF ResultsInv
  <1> QED
    BY <1>1, <1>2, <1>3, CapiTypeCorrect, PTL DEF Spec
=============================================================================
