------------------------ MODULE CompilerWorkerProofs ------------------------
(***************************************************************************)
(* Proofs about the worker of compiler-wasm, for any number of messages:   *)
(* every answer is the one of a worker that handles the messages one after *)
(* the other.                                                              *)
(*                                                                         *)
(* The inductive invariant WorkerInv says who has been answered            *)
(* (Answered), what the messages speak of (MessagesSensible), that no      *)
(* message of a session ever waits for a compiler (StartingSessionless),   *)
(* which sessions there are (SessionsLive), that two sessions never share  *)
(* a native one, whatever compilers made them (TargetsApart), and which    *)
(* source each of them has (SourcesLatest).                                *)
(***************************************************************************)
EXTENDS CompilerWorker, TLAPS

Methods == {"createSession", "disposeSession", "putSource", "removeSource", "read", "typo"}
Messages == [method : Methods, session : {0} \cup Ids, source : Sources \cup {"none"}]
Contents == Sources \cup {"empty", "destroyed"}
Replies == Contents \cup {"none", "session", "error", "ok", "absent"}

WorkerTypes ==
    /\ posted \in Seq(Messages) /\ Len(posted) <= MaxMessages
    /\ received \in 0..Len(posted)
    /\ starting \subseteq 1..received
    /\ compiler \in 0..received
    /\ DOMAIN sessions \subseteq Ids
    /\ native \in [Ids -> Seq(Contents)]
    /\ answers \in [Ids -> Replies]

\* A message is answered once its handler has run, and not before.
Answered == \A i \in Ids : answers[i] # "none" => i <= received /\ i \notin starting

\* Messages name sessions that were there when they were sent.
MessagesSensible ==
    /\ \A i \in 1..Len(posted) :
           /\ posted[i].method \in {"createSession", "typo"} <=> posted[i].session = 0
           /\ posted[i].session # 0 => answers[posted[i].session] = "session"
           /\ posted[i].method = "putSource" => posted[i].source \in Sources
    /\ \A s \in Ids : answers[s] = "session" => /\ posted[s].method = "createSession"
                                                /\ compiler # 0

StartingSessionless == \A i \in starting : posted[i].session = 0

DisposedBy(s, n) ==
    \E j \in 1..n : posted[j].session = s /\ posted[j].method = "disposeSession"

\* A session is there from its answer until a message disposes of it.
SessionsLive ==
    \A s \in Ids :
        s \in DOMAIN sessions <=> answers[s] = "session" /\ ~DisposedBy(s, received)

\* Every session has a native session of its own.
TargetsApart ==
    \A s \in DOMAIN sessions :
        /\ sessions[s].module \in Ids
        /\ sessions[s].handle \in 1..Len(native[sessions[s].module])
        /\ \A t \in DOMAIN sessions :
               t # s => \/ sessions[t].module # sessions[s].module
                        \/ sessions[t].handle # sessions[s].handle

\* Message j changes the source of session s.
Changes(j, s) ==
    /\ posted[j].session = s
    /\ \/ posted[j].method = "removeSource"
       \/ posted[j].method = "putSource" /\ posted[j].source \notin Rejected

ChangedTo(j) == IF posted[j].method = "removeSource" THEN "empty" ELSE posted[j].source

\* content is what the first n messages have made of the source of session s.
IsSource(content, s, n) ==
    \/ content = "empty" /\ \A j \in 1..n : ~Changes(j, s)
    \/ \E j \in 1..n : /\ Changes(j, s) /\ content = ChangedTo(j)
                       /\ \A k \in 1..n : Changes(k, s) => k <= j

SourcesLatest ==
    \A s \in DOMAIN sessions :
        IsSource(native[sessions[s].module][sessions[s].handle], s, received)

\* The messages determine a source at every point (which is what makes the
\* CHOOSE of LastChange choose).
SourcesDetermined ==
    \A s \in {0} \cup Ids, n \in 0..Len(posted) : \E v \in Contents : IsSource(v, s, n)

WorkerInv ==
    /\ WorkerTypes /\ Answered /\ MessagesSensible /\ StartingSessionless /\ SessionsLive
    /\ TargetsApart /\ SourcesLatest /\ SourcesDetermined /\ AnswersAreSequential

-----------------------------------------------------------------------------
\* The reference: what it says about a message depends on the messages up to
\* it, and its source is the one IsSource describes.

LEMMA SourceBeforeIs ==
    ASSUME NEW i \in Nat \ {0}, NEW v, IsSource(v, posted[i].session, i - 1)
    PROVE  SourceBefore(i) = v /\ LastChange(i) \in 0..i - 1
  <1> DEFINE s == posted[i].session
             C == {j \in 1..i - 1 : Changes(j, s)}
             last == CHOOSE j \in C \cup {0} : \A k \in C : k <= j
  <1>1. LastChange(i) = last
    BY DEF LastChange, Changes
  <1>2. \A j \in C : j \in Nat /\ j >= 1
    OBVIOUS
  <1>3. CASE v = "empty" /\ \A j \in 1..i - 1 : ~Changes(j, s)
    <2>1. C = {}
      BY <1>3
    <2>2. last = 0
      BY <2>1
    <2> QED
      BY <1>1, <1>3, <2>2 DEF SourceBefore
  <1>4. ASSUME NEW j \in 1..i - 1, Changes(j, s), v = ChangedTo(j),
               \A k \in 1..i - 1 : Changes(k, s) => k <= j
        PROVE  SourceBefore(i) = v /\ LastChange(i) \in 0..i - 1
    <2>1. j \in C /\ \A k \in C : k <= j
      BY <1>4
    <2>2. last \in C \cup {0} /\ \A k \in C : k <= last
      <3> HIDE DEF C
      <3> QED
        BY <2>1
    <2>3. last = j
      <3> HIDE DEF C, last
      <3>1. j <= last /\ last \in C
        BY <1>2, <2>1, <2>2
      <3> QED
        BY <1>2, <2>1, <3>1
    <2>4. j # 0
      BY <1>2, <2>1
    <2> QED
      BY <1>1, <1>4, <2>3, <2>4 DEF SourceBefore, ChangedTo
  <1> QED
    BY <1>3, <1>4 DEF IsSource

LEMMA ReferenceStable ==
    ASSUME NEW i \in Nat \ {0}, \A j \in 1..i : posted'[j] = posted[j],
           \E v : IsSource(v, posted[i].session, i - 1)
    PROVE  SequentialAnswer(i)' = SequentialAnswer(i)
  <1>1. posted'[i] = posted[i] /\ \A j \in 1..i - 1 : posted'[j] = posted[j]
    OBVIOUS
  <1>2. Disposed(i)' <=> Disposed(i)
    BY <1>1 DEF Disposed
  <1>3. LastChange(i)' = LastChange(i)
    <2> DEFINE C == {j \in 1..i - 1 :
                        /\ posted[j].session = posted[i].session
                        /\ \/ posted[j].method = "removeSource"
                           \/ posted[j].method = "putSource" /\ posted[j].source \notin Rejected}
               D == {j \in 1..i - 1 :
                        /\ posted'[j].session = posted'[i].session
                        /\ \/ posted'[j].method = "removeSource"
                           \/ posted'[j].method = "putSource" /\ posted'[j].source \notin Rejected}
    <2>1. C = D
      BY <1>1
    <2>2. LastChange(i) = CHOOSE j \in C \cup {0} : \A k \in C : k <= j
      BY DEF LastChange
    <2>3. LastChange(i)' = CHOOSE j \in D \cup {0} : \A k \in D : k <= j
      BY DEF LastChange
    <2> HIDE DEF C, D
    <2> QED
      BY <2>1, <2>2, <2>3
  <1>4. LastChange(i) \in 0..i - 1
    BY SourceBeforeIs
  <1>5. SourceBefore(i)' = SourceBefore(i)
    BY <1>1, <1>3, <1>4 DEF SourceBefore
  <1>6. PICK m, x : m = posted[i] /\ x = SourceBefore(i)
    OBVIOUS
  <1>7. m = posted'[i] /\ x = SourceBefore(i)'
    BY <1>1, <1>5, <1>6
  <1>8. CASE m.session = 0 \/ Disposed(i)
    BY <1>2, <1>6, <1>7, <1>8 DEF SequentialAnswer
  <1>9. CASE ~(m.session = 0 \/ Disposed(i))
    <2>1. PICK y : y = CASE m.method = "disposeSession" -> "ok"
                         [] m.method = "putSource" ->
                                IF m.source \in Rejected THEN "error" ELSE "ok"
                         [] m.method = "removeSource" ->
                                IF x = "empty" THEN "absent" ELSE "ok"
                         [] m.method = "read" -> x
      OBVIOUS
    <2>2. SequentialAnswer(i) = y
      BY <1>6, <1>9, <2>1 DEF SequentialAnswer
    <2>3. SequentialAnswer(i)' = y
      BY <1>2, <1>7, <1>9, <2>1 DEF SequentialAnswer
    <2> QED
      BY <2>2, <2>3
  <1> QED
    BY <1>8, <1>9

\* One more message, which does not change the source of s.
LEMMA SourceKept ==
    ASSUME NEW n \in Nat, NEW s, NEW v, IsSource(v, s, n), ~Changes(n + 1, s)
    PROVE  IsSource(v, s, n + 1)
  <1>1. 1..n + 1 = 1..n \cup {n + 1}
    OBVIOUS
  <1> QED
    BY <1>1 DEF IsSource

\* One more message, which does.
LEMMA SourceChanged ==
    ASSUME NEW n \in Nat, NEW s, Changes(n + 1, s)
    PROVE  IsSource(ChangedTo(n + 1), s, n + 1)
  <1>1. n + 1 \in 1..n + 1 /\ \A k \in 1..n + 1 : k <= n + 1
    OBVIOUS
  <1> QED
    BY <1>1 DEF IsSource

LEMMA DisposalKept ==
    ASSUME NEW n \in Nat, NEW s,
           posted[n + 1].session # s \/ posted[n + 1].method # "disposeSession"
    PROVE  DisposedBy(s, n + 1) <=> DisposedBy(s, n)
  <1>1. 1..n + 1 = 1..n \cup {n + 1}
    OBVIOUS
  <1> QED
    BY <1>1 DEF DisposedBy

-----------------------------------------------------------------------------
LEMMA WorkerInvInit == Init => WorkerInv
  <1> SUFFICES ASSUME Init PROVE WorkerInv
    OBVIOUS
  <1> USE WorkerAssumption DEF Init
  <1>1. posted = <<>> /\ Len(posted) = 0 /\ 1..Len(posted) = {} /\ 1..received = {}
    OBVIOUS
  <1>2. DOMAIN sessions = {}
    BY DEF EmptyMap
  <1>3. WorkerTypes
    BY <1>1, <1>2 DEF WorkerTypes, Replies, Messages, Contents
  <1>4. Answered /\ MessagesSensible /\ StartingSessionless
    BY <1>1 DEF Answered, MessagesSensible, StartingSessionless
  <1>5. SessionsLive /\ TargetsApart /\ SourcesLatest
    BY <1>2 DEF SessionsLive, TargetsApart, SourcesLatest
  <1>6. SourcesDetermined
    <2>1. \A n \in 0..Len(posted) : 1..n = {}
      BY <1>1
    <2> QED
      BY <2>1 DEF SourcesDetermined, IsSource, Contents
  <1>7. AnswersAreSequential
    BY <1>1 DEF AnswersAreSequential
  <1> QED
    BY <1>3, <1>4, <1>5, <1>6, <1>7 DEF WorkerInv

-----------------------------------------------------------------------------
\* Sending a message changes nothing that was said of the messages before it.

LEMMA HistoryStable ==
    ASSUME NEW n \in Nat, \A j \in 1..n : posted'[j] = posted[j], NEW s
    PROVE  /\ \A v : IsSource(v, s, n)' <=> IsSource(v, s, n)
           /\ DisposedBy(s, n)' <=> DisposedBy(s, n)
  <1>1. \A j \in 1..n : /\ Changes(j, s)' <=> Changes(j, s)
                        /\ ChangedTo(j)' = ChangedTo(j)
    BY DEF Changes, ChangedTo
  <1>2. \A v : IsSource(v, s, n)' <=> IsSource(v, s, n)
    BY <1>1 DEF IsSource
  <1>3. DisposedBy(s, n)' <=> DisposedBy(s, n)
    BY DEF DisposedBy
  <1> QED
    BY <1>2, <1>3

LEMMA PostInv == WorkerInv /\ Post => WorkerInv'
  <1> SUFFICES ASSUME WorkerInv, Post PROVE WorkerInv'
    OBVIOUS
  <1> USE WorkerAssumption
  <1>1. PICK m \in Messages :
            /\ posted' = Append(posted, m)
            /\ m.method \in {"createSession", "typo"} <=> m.session = 0
            /\ m.session # 0 => answers[m.session] = "session"
            /\ m.method = "putSource" => m.source \in Sources
    <2>1. PICK method \in Methods, session \in {0} \cup {s \in Ids : answers[s] = "session"},
               source \in Sources \cup {"none"} :
              /\ method \in {"createSession", "typo"} <=> session = 0
              /\ method = "putSource" => source \in Sources
              /\ posted' = Append(posted, [method |-> method, session |-> session, source |-> source])
      BY DEF Post, Methods
    <2> DEFINE m == [method |-> method, session |-> session, source |-> source]
    <2>2. m \in Messages
      BY DEF Messages
    <2>3. m.method = method /\ m.session = session /\ m.source = source
      OBVIOUS
    <2> HIDE DEF m
    <2> QED
      BY <2>1, <2>2, <2>3 DEF m
  <1>2. UNCHANGED <<received, starting, compiler, sessions, native, answers>>
        /\ Len(posted) < MaxMessages
    BY DEF Post
  <1>3. PICK n \in Nat : n = Len(posted)
    BY DEF WorkerInv, WorkerTypes
  <1>4. /\ posted' \in Seq(Messages) /\ Len(posted') = n + 1
        /\ posted'[n + 1] = m
        /\ \A j \in 1..n : posted'[j] = posted[j]
    BY <1>1, <1>3 DEF WorkerInv, WorkerTypes
  <1>5. received \in 0..n /\ n + 1 <= MaxMessages
    BY <1>2, <1>3 DEF WorkerInv, WorkerTypes
  <1>6. WorkerTypes'
    <2>1. received \in 0..n + 1
      BY <1>5
    <2> QED
      BY <1>2, <1>4, <1>5, <2>1 DEF WorkerInv, WorkerTypes
  <1>7. Answered'
    BY <1>2 DEF WorkerInv, Answered
  <1>8. \A i \in 1..received : i \in 1..n
    BY <1>5
  <1>9. MessagesSensible'
    <2>1. 1..n + 1 = 1..n \cup {n + 1}
      OBVIOUS
    <2>2. \A i \in 1..n :
             /\ posted[i].method \in {"createSession", "typo"} <=> posted[i].session = 0
             /\ posted[i].session # 0 => answers[posted[i].session] = "session"
             /\ posted[i].method = "putSource" => posted[i].source \in Sources
      BY <1>3 DEF WorkerInv, MessagesSensible
    <2>3. \A i \in 1..n + 1 :
             /\ posted'[i].method \in {"createSession", "typo"} <=> posted'[i].session = 0
             /\ posted'[i].session # 0 => answers'[posted'[i].session] = "session"
             /\ posted'[i].method = "putSource" => posted'[i].source \in Sources
      BY <1>1, <1>2, <1>4, <2>1, <2>2
    <2>4. \A s \in Ids : answers[s] = "session" => s \in 1..n
      BY <1>5 DEF WorkerInv, Answered, Ids
    <2>5. \A s \in Ids : answers'[s] = "session" =>
              posted'[s].method = "createSession" /\ compiler' # 0
      BY <1>2, <1>4, <2>4 DEF WorkerInv, MessagesSensible
    <2> QED
      BY <1>4, <2>3, <2>5 DEF MessagesSensible
  <1>10. StartingSessionless'
    BY <1>2, <1>4, <1>8 DEF WorkerInv, WorkerTypes, StartingSessionless
  <1>11. \A j \in 1..received : posted'[j] = posted[j]
    BY <1>4, <1>8
  <1>12. SessionsLive'
    <2>1. \A s \in Ids : DisposedBy(s, received)' <=> DisposedBy(s, received)
      BY <1>2, <1>11 DEF DisposedBy
    <2> QED
      BY <1>2, <2>1 DEF WorkerInv, SessionsLive
  <1>13. TargetsApart'
    BY <1>2 DEF WorkerInv, TargetsApart
  <1>14. SourcesLatest'
    <2>1. PICK r \in Nat : r = received
      BY <1>5
    <2> SUFFICES ASSUME NEW s \in DOMAIN sessions, NEW v,
                        v = native[sessions[s].module][sessions[s].handle]
                 PROVE  IsSource(v, s, r)'
      BY <1>2, <2>1 DEF SourcesLatest, IsSource
    <2>2. IsSource(v, s, r)
      BY <2>1 DEF WorkerInv, SourcesLatest
    <2> QED
      BY <1>11, <2>1, <2>2, HistoryStable
  <1>15. SourcesDetermined'
    <2> SUFFICES ASSUME NEW s \in {0} \cup Ids, NEW k \in 0..n + 1
                 PROVE  \E v \in Contents : IsSource(v, s, k)'
      BY <1>4 DEF SourcesDetermined
    <2>1. CASE k \in 0..n
      <3>1. \A j \in 1..k : posted'[j] = posted[j]
        BY <1>4, <2>1
      <3>2. \A v : IsSource(v, s, k)' <=> IsSource(v, s, k)
        BY <2>1, <3>1, HistoryStable
      <3>3. \E v \in Contents : IsSource(v, s, k)
        BY <1>3, <2>1 DEF WorkerInv, SourcesDetermined
      <3> QED
        BY <3>2, <3>3
    <2>2. CASE k = n + 1
      <3>1. 1..n + 1 = 1..n \cup {n + 1}
        OBVIOUS
      <3>2. PICK v \in Contents : IsSource(v, s, n)
        BY <1>3 DEF WorkerInv, SourcesDetermined
      <3>3. IsSource(v, s, n)'
        BY <1>4, <3>2, HistoryStable
      <3>4. CASE Changes(n + 1, s)'
        <4>1. PICK w : w = ChangedTo(n + 1)'
          OBVIOUS
        <4>2. w \in Contents
          <5>1. m.method = "putSource" \/ m.method = "removeSource"
            BY <1>4, <3>4 DEF Changes
          <5> QED
            BY <1>1, <1>4, <4>1, <5>1 DEF ChangedTo, Contents
        <4>3. n + 1 \in 1..n + 1 /\ \A i \in 1..n + 1 : i <= n + 1
          OBVIOUS
        <4>4. IsSource(w, s, n + 1)'
          BY <3>4, <4>1, <4>3 DEF IsSource
        <4> QED
          BY <2>2, <4>2, <4>4
      <3>5. CASE ~Changes(n + 1, s)'
        <4>1. IsSource(v, s, n + 1)'
          BY <3>1, <3>3, <3>5 DEF IsSource
        <4> QED
          BY <2>2, <4>1
      <3> QED
        BY <3>4, <3>5
    <2> QED
      BY <2>1, <2>2
  <1>16. AnswersAreSequential'
    <2> SUFFICES ASSUME NEW i \in 1..n + 1, answers'[i] # "none",
                        posted'[i].method # "createSession"
                 PROVE  answers'[i] = SequentialAnswer(i)'
      BY <1>4 DEF AnswersAreSequential
    <2>1. i \in Ids /\ i <= received
      BY <1>2, <1>5 DEF WorkerInv, Answered, Ids
    <2>2. i \in 1..n /\ i \in Nat \ {0} /\ i - 1 \in 0..n
      BY <1>5, <2>1
    <2>3. \A j \in 1..i : posted'[j] = posted[j]
      BY <1>4, <2>2
    <2>4. posted[i].session \in {0} \cup Ids
      <3>1. posted[i] \in Messages
        BY <1>3, <2>2 DEF WorkerInv, WorkerTypes
      <3> QED
        BY <3>1 DEF Messages
    <2>5. \E v : IsSource(v, posted[i].session, i - 1)
      BY <1>3, <2>2, <2>4 DEF WorkerInv, SourcesDetermined
    <2>6. SequentialAnswer(i)' = SequentialAnswer(i)
      BY <2>2, <2>3, <2>5, ReferenceStable
    <2> QED
      BY <1>2, <1>3, <2>2, <2>3, <2>6 DEF WorkerInv, AnswersAreSequential
  <1> QED
    BY <1>6, <1>7, <1>9, <1>10, <1>12, <1>13, <1>14, <1>15, <1>16 DEF WorkerInv

-----------------------------------------------------------------------------
\* A handler runs: at once for the next message, or for one that has awaited
\* the compiler.

Handles(i) ==
    /\ posted' = posted /\ i \in 1..Len(posted)
    /\ \/ /\ i = received + 1 /\ received' = received + 1
          /\ compiler # 0 /\ UNCHANGED <<starting, compiler>>
       \/ /\ i \in starting /\ starting' = starting \ {i}
          /\ compiler' \in {compiler, i} /\ UNCHANGED received

LEMMA HandledMessage ==
    ASSUME WorkerInv, NEW i, Handles(i)
    PROVE  /\ i \in Ids /\ i \in Nat \ {0} /\ answers[i] = "none"
           /\ posted[i] \in Messages /\ posted[i].session \in {0} \cup Ids
           /\ received \in Nat /\ received' \in Nat
           /\ \/ received' = received + 1 /\ i = received + 1
              \/ received' = received /\ i \in 1..received /\ posted[i].session = 0
  <1> USE WorkerAssumption
  <1>1. Len(posted) \in Nat /\ Len(posted) <= MaxMessages /\ received \in 0..Len(posted)
    BY DEF WorkerInv, WorkerTypes
  <1>2. i \in Ids /\ i \in Nat \ {0} /\ received \in Nat /\ received' \in Nat
    BY <1>1 DEF Handles, Ids
  <1>3. posted[i] \in Messages
    BY DEF Handles, WorkerInv, WorkerTypes
  <1>4. posted[i].session \in {0} \cup Ids
    BY <1>3 DEF Messages
  <1>5. ~(received + 1 <= received)
    BY <1>2
  <1>6. answers[i] = "none"
    BY <1>2, <1>5 DEF Handles, WorkerInv, Answered
  <1>7. i \in starting => i \in 1..received /\ posted[i].session = 0
    BY DEF WorkerInv, WorkerTypes, StartingSessionless
  <1> QED
    BY <1>2, <1>3, <1>4, <1>6, <1>7 DEF Handles

\* What the message does not touch is as before.
LEMMA UntouchedSource ==
    ASSUME WorkerInv, NEW i, Handles(i), NEW s, ~Changes(i, s), NEW v, IsSource(v, s, received)
    PROVE  IsSource(v, s, received')
  <1>1. CASE received' = received
    BY <1>1
  <1>2. CASE received' = received + 1 /\ i = received + 1
    <2>1. PICK n \in Nat : n = received
      BY HandledMessage
    <2>2. IsSource(v, s, n + 1)
      BY <1>2, <2>1, SourceKept
    <2> QED
      BY <1>2, <2>1, <2>2
  <1> QED
    BY <1>1, <1>2, HandledMessage

LEMMA UntouchedDisposal ==
    ASSUME WorkerInv, NEW i, Handles(i), NEW s,
           posted[i].session # s \/ posted[i].method # "disposeSession"
    PROVE  DisposedBy(s, received') <=> DisposedBy(s, received)
  <1>1. CASE received' = received
    BY <1>1
  <1>2. CASE received' = received + 1 /\ i = received + 1
    <2>1. PICK n \in Nat : n = received
      BY HandledMessage
    <2>2. DisposedBy(s, n + 1) <=> DisposedBy(s, n)
      BY <1>2, <2>1, DisposalKept
    <2> QED
      BY <1>2, <2>1, <2>2
  <1> QED
    BY <1>1, <1>2, HandledMessage

\* Of the new state, what holds whatever the answer is.
LEMMA HandlerFrame ==
    ASSUME WorkerInv, NEW i, Handles(i), NEW value \in Replies, Answer(i, value),
           value = "session" => posted[i].method = "createSession" /\ compiler' # 0,
           DOMAIN sessions' \subseteq Ids, native' \in [Ids -> Seq(Contents)]
    PROVE  /\ WorkerTypes' /\ Answered' /\ MessagesSensible' /\ StartingSessionless'
           /\ SourcesDetermined'
           /\ answers'[i] = value /\ \A j \in Ids : j # i => answers'[j] = answers[j]
  <1> USE WorkerAssumption
  <1>0. /\ posted' = posted /\ i \in Ids /\ answers[i] = "none" /\ i \in 1..Len(posted)
        /\ answers \in [Ids -> Replies]
    BY HandledMessage DEF Handles, WorkerInv, WorkerTypes
  <1>1. /\ answers'[i] = value /\ \A j \in Ids : j # i => answers'[j] = answers[j]
        /\ answers' \in [Ids -> Replies]
    BY <1>0 DEF Answer
  <1>2. /\ received' \in 0..Len(posted) /\ received \in 0..Len(posted) /\ i \in 1..received'
        /\ \A j \in 1..received : j \in 1..received'
    BY HandledMessage DEF Handles, WorkerInv, WorkerTypes
  <1>3. starting' \subseteq starting /\ starting \subseteq 1..received /\ i \notin starting'
    BY HandledMessage DEF Handles, WorkerInv, WorkerTypes
  <1>4. compiler' \in 0..received'
    BY <1>2, HandledMessage DEF Handles, WorkerInv, WorkerTypes
  <1>5. WorkerTypes'
    BY <1>0, <1>1, <1>2, <1>3, <1>4 DEF WorkerInv, WorkerTypes
  <1>6. Answered'
    <2> SUFFICES ASSUME NEW j \in Ids, answers'[j] # "none"
                 PROVE  j <= received' /\ j \notin starting'
      BY DEF Answered
    <2>1. CASE j = i
      BY <1>2, <1>3, <2>1
    <2>2. CASE j # i
      <3>1. j <= received /\ j \notin starting
        BY <1>1, <2>2 DEF WorkerInv, Answered
      <3>2. j \in 1..received'
        BY <1>2, <3>1, HandledMessage DEF Ids
      <3> QED
        BY <1>3, <3>1, <3>2, HandledMessage
    <2> QED
      BY <2>1, <2>2
  <1>7. MessagesSensible'
    <2>1. \A s \in Ids : answers[s] = "session" => s # i /\ answers'[s] = "session"
      BY <1>0, <1>1
    <2>2. compiler # 0 => compiler' # 0
      BY HandledMessage DEF Handles
    <2>3. \A s \in Ids : answers'[s] = "session" =>
              posted'[s].method = "createSession" /\ compiler' # 0
      BY <1>0, <1>1, <2>2 DEF WorkerInv, MessagesSensible
    <2>4. \A j \in 1..Len(posted) : posted[j].session # 0 => posted[j].session \in Ids
      <3> TAKE j \in 1..Len(posted)
      <3>1. posted[j] \in Messages
        BY DEF WorkerInv, WorkerTypes
      <3> QED
        BY <3>1 DEF Messages
    <2>5. \A j \in 1..Len(posted) :
             /\ posted[j].method \in {"createSession", "typo"} <=> posted[j].session = 0
             /\ posted[j].session # 0 => answers'[posted[j].session] = "session"
             /\ posted[j].method = "putSource" => posted[j].source \in Sources
      BY <2>1, <2>4 DEF WorkerInv, MessagesSensible
    <2> QED
      BY <1>0, <2>3, <2>5 DEF MessagesSensible
  <1>8. StartingSessionless'
    BY <1>0, <1>3 DEF WorkerInv, StartingSessionless
  <1>9. SourcesDetermined'
    <2> SUFFICES ASSUME NEW s \in {0} \cup Ids, NEW n \in 0..Len(posted)
                 PROVE  \E v \in Contents : IsSource(v, s, n)'
      BY <1>0 DEF SourcesDetermined
    <2>1. n \in Nat /\ \A j \in 1..n : posted'[j] = posted[j]
      BY <1>0
    <2> QED
      BY <2>1, HistoryStable DEF WorkerInv, SourcesDetermined
  <1> QED
    BY <1>1, <1>5, <1>6, <1>7, <1>8, <1>9

\* The answers stay right if the new one is.
LEMMA HandlerAnswers ==
    ASSUME WorkerInv, NEW i, Handles(i),
           \A j \in Ids : j # i => answers'[j] = answers[j],
           posted[i].method # "createSession" => answers'[i] = SequentialAnswer(i)
    PROVE  AnswersAreSequential'
  <1> SUFFICES ASSUME NEW j \in 1..Len(posted), answers'[j] # "none",
                      posted[j].method # "createSession"
               PROVE  answers'[j] = SequentialAnswer(j)'
    BY DEF AnswersAreSequential, Handles
  <1>1. SequentialAnswer(j)' = SequentialAnswer(j)
    <2>1. posted' = posted
      BY DEF Handles
    <2>2. LastChange(j)' = LastChange(j) /\ Disposed(j)' = Disposed(j)
      BY <2>1 DEF LastChange, Disposed
    <2>3. SourceBefore(j)' = SourceBefore(j)
      BY <2>1, <2>2 DEF SourceBefore
    <2> QED
      BY <2>1, <2>2, <2>3 DEF SequentialAnswer
  <1>2. j \in Ids
    BY WorkerAssumption DEF WorkerInv, WorkerTypes, Ids
  <1> QED
    BY <1>1, <1>2 DEF WorkerInv, AnswersAreSequential

\* A handler that changes no session.
LEMMA QuietHandler ==
    ASSUME WorkerInv, NEW i, Handles(i), NEW value \in Replies, Answer(i, value),
           value # "session", UNCHANGED <<sessions, native>>,
           posted[i].method = "disposeSession" => posted[i].session \notin DOMAIN sessions,
           \A s \in DOMAIN sessions : ~Changes(i, s),
           posted[i].method # "createSession" => value = SequentialAnswer(i)
    PROVE  WorkerInv'
  <1>0. posted' = posted /\ i \in Ids /\ answers[i] = "none" /\ DOMAIN sessions \subseteq Ids
    BY HandledMessage DEF Handles, WorkerInv, WorkerTypes
  <1>1. /\ WorkerTypes' /\ Answered' /\ MessagesSensible' /\ StartingSessionless'
        /\ SourcesDetermined'
        /\ answers'[i] = value /\ \A j \in Ids : j # i => answers'[j] = answers[j]
    BY HandlerFrame DEF WorkerInv, WorkerTypes
  <1>2. AnswersAreSequential'
    BY <1>1, HandlerAnswers
  <1>3. \A s \in Ids : answers'[s] = "session" <=> answers[s] = "session"
    BY <1>0, <1>1
  <1>4. SessionsLive'
    <2> SUFFICES ASSUME NEW s \in Ids
                 PROVE  s \in DOMAIN sessions <=> answers[s] = "session" /\ ~DisposedBy(s, received')
      BY <1>0, <1>3 DEF SessionsLive, DisposedBy
    <2>1. CASE posted[i].session # s \/ posted[i].method # "disposeSession"
      BY <2>1, UntouchedDisposal DEF WorkerInv, SessionsLive
    <2>2. CASE posted[i].session = s /\ posted[i].method = "disposeSession"
      <3>1. i \in 1..received'
        BY HandledMessage
      <3>2. DisposedBy(s, received')
        BY <2>2, <3>1 DEF DisposedBy
      <3> QED
        BY <2>2, <3>2
    <2> QED
      BY <2>1, <2>2
  <1>5. TargetsApart'
    BY DEF WorkerInv, TargetsApart
  <1>6. SourcesLatest'
    <2> SUFFICES ASSUME NEW s \in DOMAIN sessions, NEW v,
                        v = native[sessions[s].module][sessions[s].handle]
                 PROVE  IsSource(v, s, received')
      BY <1>0 DEF SourcesLatest, IsSource, Changes, ChangedTo
    <2>1. IsSource(v, s, received)
      BY DEF WorkerInv, SourcesLatest
    <2> QED
      BY <2>1, UntouchedSource
  <1> QED
    BY <1>1, <1>2, <1>4, <1>5, <1>6 DEF WorkerInv

\* A message to a session that is there: it is the next one, and the worker
\* knows what the reference knows.
LEMMA SessionMessage ==
    ASSUME WorkerInv, NEW i, Handles(i), posted[i].session \in DOMAIN sessions
    PROVE  /\ posted[i].session # 0 /\ i = received + 1 /\ received' = i
           /\ ~Disposed(i)
           /\ SourceBefore(i) = native[sessions[posted[i].session].module]
                                      [sessions[posted[i].session].handle]
  <1>1. posted[i].session # 0 /\ posted[i].session \in Ids
    BY DEF WorkerInv, WorkerTypes, Ids
  <1>2. i = received + 1 /\ received' = i /\ received = i - 1 /\ i \in Nat \ {0}
    BY <1>1, HandledMessage
  <1>3. ~DisposedBy(posted[i].session, i - 1)
    BY <1>1, <1>2 DEF WorkerInv, SessionsLive
  <1>4. ~Disposed(i)
    BY <1>3 DEF Disposed, DisposedBy
  <1>5. PICK v : v = native[sessions[posted[i].session].module][sessions[posted[i].session].handle]
    OBVIOUS
  <1>6. IsSource(v, posted[i].session, i - 1)
    BY <1>2, <1>5 DEF WorkerInv, SourcesLatest
  <1> QED
    BY <1>1, <1>2, <1>4, <1>5, <1>6, SourceBeforeIs

\* Writing to the native session of s leaves those of the others alone.
LEMMA ContentStep ==
    ASSUME WorkerInv, NEW s \in DOMAIN sessions, NEW c, NEW v \in Contents, SetContent(s, c, v)
    PROVE  /\ native' \in [Ids -> Seq(Contents)]
           /\ native'[sessions[s].module][sessions[s].handle] = v
           /\ \A m \in Ids : Len(native'[m]) = Len(native[m])
           /\ \A t \in DOMAIN sessions : t # s =>
                  native'[sessions[t].module][sessions[t].handle]
                      = native[sessions[t].module][sessions[t].handle]
  <1>1. PICK m, h : m \in Ids /\ m = sessions[s].module /\ h = sessions[s].handle
    BY DEF WorkerInv, TargetsApart
  <1>2. /\ native \in [Ids -> Seq(Contents)] /\ native[m] \in Seq(Contents)
        /\ h \in 1..Len(native[m])
    BY <1>1 DEF WorkerInv, WorkerTypes, TargetsApart
  <1>3. native' = [native EXCEPT ![m] = [native[m] EXCEPT ![h] = v]]
    BY <1>1 DEF SetContent, Target
  <1>4. PICK q : q = [native[m] EXCEPT ![h] = v]
    OBVIOUS
  <1>5. /\ q \in Seq(Contents) /\ Len(q) = Len(native[m]) /\ q[h] = v
        /\ \A k \in 1..Len(native[m]) : k # h => q[k] = native[m][k]
    BY <1>2, <1>4
  <1>6. /\ native' \in [Ids -> Seq(Contents)] /\ native'[m] = q
        /\ \A k \in Ids : k # m => native'[k] = native[k]
    BY <1>1, <1>2, <1>3, <1>4, <1>5
  <1>7. ASSUME NEW t \in DOMAIN sessions, t # s
        PROVE  native'[sessions[t].module][sessions[t].handle]
                   = native[sessions[t].module][sessions[t].handle]
    <2>1. /\ sessions[t].module \in Ids
          /\ sessions[t].handle \in 1..Len(native[sessions[t].module])
          /\ sessions[t].module # m \/ sessions[t].handle # h
      BY <1>1, <1>7 DEF WorkerInv, TargetsApart
    <2> QED
      BY <1>5, <1>6, <2>1
  <1> QED
    BY <1>1, <1>5, <1>6, <1>7

\* A handler that gives its session a new source.
LEMMA ChangingHandler ==
    ASSUME WorkerInv, NEW i, Handles(i), NEW c, NEW v \in Contents, NEW value \in Replies,
           posted[i].session \in DOMAIN sessions, SetContent(posted[i].session, c, v),
           Changes(i, posted[i].session), v = ChangedTo(i),
           Answer(i, value), value # "session", value = SequentialAnswer(i),
           UNCHANGED sessions
    PROVE  WorkerInv'
  <1> DEFINE s == posted[i].session
  <1>0. posted' = posted /\ i \in Ids /\ answers[i] = "none" /\ DOMAIN sessions \subseteq Ids
    BY HandledMessage DEF Handles, WorkerInv, WorkerTypes
  <1>1. /\ native' \in [Ids -> Seq(Contents)]
        /\ native'[sessions[s].module][sessions[s].handle] = v
        /\ \A m \in Ids : Len(native'[m]) = Len(native[m])
        /\ \A t \in DOMAIN sessions : t # s =>
               native'[sessions[t].module][sessions[t].handle]
                   = native[sessions[t].module][sessions[t].handle]
    BY ContentStep
  <1>2. /\ WorkerTypes' /\ Answered' /\ MessagesSensible' /\ StartingSessionless'
        /\ SourcesDetermined'
        /\ answers'[i] = value /\ \A j \in Ids : j # i => answers'[j] = answers[j]
    BY <1>0, <1>1, HandlerFrame
  <1>3. AnswersAreSequential'
    BY <1>2, HandlerAnswers
  <1>4. SessionsLive'
    <2> SUFFICES ASSUME NEW t \in Ids
                 PROVE  t \in DOMAIN sessions <=> answers[t] = "session" /\ ~DisposedBy(t, received')
      BY <1>0, <1>2 DEF SessionsLive, DisposedBy
    <2>1. posted[i].method # "disposeSession"
      BY DEF Changes
    <2> QED
      BY <2>1, UntouchedDisposal DEF WorkerInv, SessionsLive
  <1>5. TargetsApart'
    BY <1>1 DEF WorkerInv, TargetsApart
  <1>6. SourcesLatest'
    <2> SUFFICES ASSUME NEW t \in DOMAIN sessions, NEW w,
                        w = native'[sessions[t].module][sessions[t].handle]
                 PROVE  IsSource(w, t, received')
      BY <1>0 DEF SourcesLatest, IsSource, Changes, ChangedTo
    <2>1. CASE t = s
      <3>1. w = ChangedTo(i) /\ i = received + 1 /\ received' = i /\ received \in Nat
        BY <1>1, <2>1, SessionMessage, HandledMessage
      <3>2. IsSource(ChangedTo(received + 1), s, received + 1)
        BY <3>1, SourceChanged
      <3> QED
        BY <2>1, <3>1, <3>2
    <2>2. CASE t # s
      <3>1. IsSource(w, t, received)
        BY <1>1, <2>2 DEF WorkerInv, SourcesLatest
      <3>2. ~Changes(i, t)
        BY <2>2 DEF Changes
      <3> QED
        BY <3>1, <3>2, UntouchedSource
    <2> QED
      BY <2>1, <2>2
  <1> QED
    BY <1>2, <1>3, <1>4, <1>5, <1>6 DEF WorkerInv

LEMMA DisposeInv ==
    ASSUME WorkerInv, NEW i, Handles(i), NEW c, DisposeSession(i, c)
    PROVE  WorkerInv'
  <1> DEFINE s == posted[i].session
  <1>0. /\ posted' = posted /\ i \in Ids /\ answers[i] = "none" /\ DOMAIN sessions \subseteq Ids
        /\ s \in DOMAIN sessions /\ Answer(i, "ok") /\ posted[i].method = "disposeSession"
    BY HandledMessage DEF Handles, WorkerInv, WorkerTypes, DisposeSession
  <1>1. /\ DOMAIN sessions' = DOMAIN sessions \ {s}
        /\ \A t \in DOMAIN sessions' : sessions'[t] = sessions[t]
    BY DEF DisposeSession, Drop
  <1>2. /\ native' \in [Ids -> Seq(Contents)]
        /\ \A m \in Ids : Len(native'[m]) = Len(native[m])
        /\ \A t \in DOMAIN sessions : t # s =>
               native'[sessions[t].module][sessions[t].handle]
                   = native[sessions[t].module][sessions[t].handle]
    BY ContentStep DEF DisposeSession, Contents
  <1>3. "ok" = SequentialAnswer(i)
    BY <1>0, SessionMessage DEF SequentialAnswer
  <1>4. /\ WorkerTypes' /\ Answered' /\ MessagesSensible' /\ StartingSessionless'
        /\ SourcesDetermined'
        /\ answers'[i] = "ok" /\ \A j \in Ids : j # i => answers'[j] = answers[j]
    BY <1>0, <1>1, <1>2, HandlerFrame DEF Replies
  <1>5. AnswersAreSequential'
    BY <1>3, <1>4, HandlerAnswers
  <1>6. SessionsLive'
    <2> SUFFICES ASSUME NEW t \in Ids
                 PROVE  t \in DOMAIN sessions' <=> answers[t] = "session" /\ ~DisposedBy(t, received')
      BY <1>0, <1>4 DEF SessionsLive, DisposedBy
    <2>1. CASE t = s
      <3>1. i \in 1..received'
        BY HandledMessage
      <3> QED
        BY <1>0, <1>1, <2>1, <3>1 DEF DisposedBy
    <2>2. CASE t # s
      BY <1>1, <2>2, UntouchedDisposal DEF WorkerInv, SessionsLive
    <2> QED
      BY <2>1, <2>2
  <1>7. TargetsApart'
    BY <1>1, <1>2 DEF WorkerInv, TargetsApart
  <1>8. SourcesLatest'
    <2> SUFFICES ASSUME NEW t \in DOMAIN sessions', NEW w,
                        w = native'[sessions'[t].module][sessions'[t].handle]
                 PROVE  IsSource(w, t, received')
      BY <1>0 DEF SourcesLatest, IsSource, Changes, ChangedTo
    <2>1. IsSource(w, t, received)
      BY <1>1, <1>2 DEF WorkerInv, SourcesLatest
    <2>2. ~Changes(i, t)
      BY <1>0 DEF Changes
    <2> QED
      BY <2>1, <2>2, UntouchedSource
  <1> QED
    BY <1>4, <1>5, <1>6, <1>7, <1>8 DEF WorkerInv

LEMMA CreateInv ==
    ASSUME WorkerInv, NEW i, Handles(i), NEW c \in Ids, compiler' # 0, CreateSession(i, c)
    PROVE  WorkerInv'
  <1>0. /\ posted' = posted /\ i \in Ids /\ answers[i] = "none" /\ DOMAIN sessions \subseteq Ids
        /\ posted[i].method = "createSession" /\ posted[i].session = 0
        /\ native[c] \in Seq(Contents)
    BY HandledMessage DEF Handles, WorkerInv, WorkerTypes, MessagesSensible, CreateSession
  <1>1. CASE Answer(i, "error") /\ UNCHANGED <<sessions, native>>
    <2>1. \A s \in DOMAIN sessions : ~Changes(i, s)
      BY <1>0 DEF Changes
    <2> QED
      BY <1>0, <1>1, <2>1, QuietHandler DEF Replies
  <1>2. CASE /\ native' = [native EXCEPT ![c] = Append(@, "empty")]
             /\ sessions' = Put(sessions, i, [module |-> c, handle |-> Len(native[c]) + 1])
             /\ Answer(i, "session")
    <2>1. i \notin DOMAIN sessions
      BY <1>0 DEF WorkerInv, SessionsLive
    <2>2. PICK h \in Nat : h = Len(native[c]) + 1
      BY <1>0
    <2>3. /\ DOMAIN sessions' = DOMAIN sessions \cup {i}
          /\ sessions'[i].module = c /\ sessions'[i].handle = h
          /\ \A t \in DOMAIN sessions : sessions'[t] = sessions[t]
      BY <1>2, <2>1, <2>2 DEF Put
    <2>4. PICK q : q = Append(native[c], "empty")
      OBVIOUS
    <2>5. /\ q \in Seq(Contents) /\ Len(q) = h /\ q[h] = "empty" /\ h \in 1..h
          /\ \A k \in 1..Len(native[c]) : q[k] = native[c][k] /\ k \in 1..h /\ k # h
      BY <1>0, <2>2, <2>4 DEF Contents
    <2>6. /\ native' \in [Ids -> Seq(Contents)] /\ native'[c] = q
          /\ \A m \in Ids : m # c => native'[m] = native[m]
      BY <1>2, <2>4, <2>5 DEF WorkerInv, WorkerTypes
    <2>7. \A t \in DOMAIN sessions :
              /\ t # i /\ sessions[t].module \in Ids
              /\ sessions[t].handle \in 1..Len(native[sessions[t].module])
              /\ sessions[t].handle \in 1..Len(native'[sessions[t].module])
              /\ sessions[t].module = c => sessions[t].handle # h
              /\ native'[sessions[t].module][sessions[t].handle]
                     = native[sessions[t].module][sessions[t].handle]
      <3> TAKE t \in DOMAIN sessions
      <3>1. /\ sessions[t].module \in Ids
            /\ sessions[t].handle \in 1..Len(native[sessions[t].module])
        BY DEF WorkerInv, TargetsApart
      <3>2. CASE sessions[t].module = c
        BY <2>1, <2>5, <2>6, <3>1, <3>2
      <3>3. CASE sessions[t].module # c
        BY <2>1, <2>6, <3>1, <3>3
      <3> QED
        BY <3>2, <3>3
    <2>8. /\ WorkerTypes' /\ Answered' /\ MessagesSensible' /\ StartingSessionless'
          /\ SourcesDetermined'
          /\ answers'[i] = "session" /\ \A j \in Ids : j # i => answers'[j] = answers[j]
      BY <1>0, <1>2, <2>3, <2>6, HandlerFrame DEF Replies
    <2>9. AnswersAreSequential'
      BY <1>0, <2>8, HandlerAnswers
    <2>10. \A j \in 1..Len(posted) : posted[j].session # i
      BY <1>0 DEF WorkerInv, MessagesSensible, Ids
    <2>11. \A j \in 1..received' : j \in 1..Len(posted)
      BY <1>0, <2>8 DEF WorkerTypes
    <2>12. SessionsLive'
      <3> SUFFICES ASSUME NEW t \in Ids
                   PROVE  t \in DOMAIN sessions' <=> answers'[t] = "session" /\ ~DisposedBy(t, received')
        BY <1>0 DEF SessionsLive, DisposedBy
      <3>1. CASE t = i
        BY <2>3, <2>8, <2>10, <2>11, <3>1 DEF DisposedBy
      <3>2. CASE t # i
        BY <1>0, <2>3, <2>8, <3>2, UntouchedDisposal DEF WorkerInv, SessionsLive
      <3> QED
        BY <3>1, <3>2
    <2>13. TargetsApart'
      <3>1. ASSUME NEW t \in DOMAIN sessions'
            PROVE  /\ sessions'[t].module \in Ids
                   /\ sessions'[t].handle \in 1..Len(native'[sessions'[t].module])
        BY <2>3, <2>5, <2>6, <2>7
      <3>2. ASSUME NEW t \in DOMAIN sessions', NEW u \in DOMAIN sessions', u # t
            PROVE  \/ sessions'[u].module # sessions'[t].module
                   \/ sessions'[u].handle # sessions'[t].handle
        <4>1. CASE t = i
          BY <2>3, <2>7, <3>2, <4>1
        <4>2. CASE u = i
          BY <2>3, <2>7, <3>2, <4>2
        <4>3. CASE t # i /\ u # i
          BY <2>3, <3>2, <4>3 DEF WorkerInv, TargetsApart
        <4> QED
          BY <4>1, <4>2, <4>3
      <3> QED
        BY <3>1, <3>2 DEF TargetsApart
    <2>14. SourcesLatest'
      <3> SUFFICES ASSUME NEW t \in DOMAIN sessions', NEW w,
                          w = native'[sessions'[t].module][sessions'[t].handle]
                   PROVE  IsSource(w, t, received')
        BY <1>0 DEF SourcesLatest, IsSource, Changes, ChangedTo
      <3>1. CASE t = i
        <4>1. w = "empty"
          BY <2>3, <2>5, <2>6, <3>1
        <4>2. \A j \in 1..received' : ~Changes(j, i)
          BY <2>10, <2>11 DEF Changes
        <4> QED
          BY <3>1, <4>1, <4>2 DEF IsSource
      <3>2. CASE t # i
        <4>1. t \in DOMAIN sessions /\ IsSource(w, t, received)
          BY <2>3, <2>7, <3>2 DEF WorkerInv, SourcesLatest
        <4>2. ~Changes(i, t)
          BY <1>0 DEF Changes
        <4> QED
          BY <4>1, <4>2, UntouchedSource
      <3> QED
        BY <3>1, <3>2
    <2> QED
      BY <2>8, <2>9, <2>12, <2>13, <2>14 DEF WorkerInv
  <1> QED
    BY <1>1, <1>2 DEF CreateSession

\* The switch of onmessage.
LEMMA ExecuteInv ==
    ASSUME WorkerInv, NEW i, Handles(i), NEW c \in Ids, compiler' # 0, Execute(i, c)
    PROVE  WorkerInv'
  <1> DEFINE s == posted[i].session
  <1> USE WorkerAssumption
  <1>0. posted[i] \in Messages /\ i \in 1..Len(posted) /\ DOMAIN sessions \subseteq Ids
    BY HandledMessage DEF Handles, WorkerInv, WorkerTypes
  <1>1. CASE CreateSession(i, c)
    BY <1>1, CreateInv
  <1>2. CASE Refuse(i)
    <2>1. \A t \in DOMAIN sessions : ~Changes(i, t)
      BY <1>2 DEF Refuse, Changes
    <2>2. s = 0 \/ Disposed(i)
      <3>1. CASE posted[i].method = "typo"
        BY <1>0, <3>1 DEF WorkerInv, MessagesSensible
      <3>2. CASE s \notin DOMAIN sessions /\ s # 0
        <4>1. s \in Ids /\ answers[s] = "session"
          BY <1>0, <3>2, HandledMessage DEF WorkerInv, MessagesSensible
        <4>2. DisposedBy(s, received)
          BY <3>2, <4>1 DEF WorkerInv, SessionsLive
        <4>3. received = i - 1
          BY <3>2, HandledMessage
        <4> QED
          BY <4>2, <4>3 DEF DisposedBy, Disposed
      <3> QED
        BY <1>2, <3>1, <3>2 DEF Refuse
    <2>3. SequentialAnswer(i) = "error"
      BY <2>2, <1>2 DEF SequentialAnswer
    <2>4. posted[i].method = "disposeSession" => s \notin DOMAIN sessions
      BY <1>2 DEF Refuse
    <2> QED
      BY <1>2, <2>1, <2>3, <2>4, QuietHandler DEF Refuse, Replies
  <1>3. CASE DisposeSession(i, c)
    BY <1>3, DisposeInv
  <1>4. CASE PutSource(i, c) /\ posted[i].source \notin Rejected
    <2>1. /\ s \in DOMAIN sessions /\ posted[i].method = "putSource" /\ Answer(i, "ok")
          /\ SetContent(s, c, posted[i].source) /\ UNCHANGED sessions
      BY <1>4 DEF PutSource
    <2>2. SequentialAnswer(i) = "ok"
      BY <1>4, <2>1, SessionMessage DEF SequentialAnswer
    <2>3. posted[i].source \in Contents
      BY <1>0, <2>1 DEF WorkerInv, MessagesSensible, Messages, Contents
    <2>4. Changes(i, s) /\ ChangedTo(i) = posted[i].source
      BY <1>4, <2>1 DEF Changes, ChangedTo
    <2> QED
      BY <2>1, <2>2, <2>3, <2>4, ChangingHandler DEF Replies
  <1>5. CASE PutSource(i, c) /\ posted[i].source \in Rejected
    <2>1. /\ s \in DOMAIN sessions /\ posted[i].method = "putSource" /\ Answer(i, "error")
          /\ UNCHANGED <<sessions, native>>
      BY <1>5 DEF PutSource
    <2>2. SequentialAnswer(i) = "error"
      BY <1>5, <2>1, SessionMessage DEF SequentialAnswer
    <2>3. \A t \in DOMAIN sessions : ~Changes(i, t)
      BY <1>5, <2>1 DEF Changes
    <2> QED
      BY <2>1, <2>2, <2>3, QuietHandler DEF Replies
  <1>6. CASE RemoveSource(i, c)
    <2>1. PICK value \in {"absent", "ok"} :
              /\ Answer(i, value)
              /\ value = IF Content(s, c) = "empty" THEN "absent" ELSE "ok"
      BY <1>6 DEF RemoveSource
    <2>2. /\ s \in DOMAIN sessions /\ posted[i].method = "removeSource"
          /\ SetContent(s, c, "empty") /\ UNCHANGED sessions
      BY <1>6 DEF RemoveSource
    <2>3. Content(s, c) = SourceBefore(i)
      BY <2>2, SessionMessage DEF Content, Target
    <2>4. SequentialAnswer(i) = value
      BY <2>1, <2>2, <2>3, SessionMessage DEF SequentialAnswer
    <2>5. Changes(i, s) /\ ChangedTo(i) = "empty"
      BY <2>2 DEF Changes, ChangedTo
    <2> QED
      BY <2>1, <2>2, <2>4, <2>5, ChangingHandler DEF Replies, Contents
  <1>7. CASE Read(i, c)
    <2>1. /\ s \in DOMAIN sessions /\ posted[i].method = "read"
          /\ Answer(i, Content(s, c)) /\ UNCHANGED <<sessions, native>>
      BY <1>7 DEF Read
    <2>2. Content(s, c) = SourceBefore(i)
      BY <2>1, SessionMessage DEF Content, Target
    <2>3. SequentialAnswer(i) = Content(s, c)
      BY <2>1, <2>2, SessionMessage DEF SequentialAnswer
    <2>4. Content(s, c) \in Contents
      <3>1. PICK m \in Ids : m = sessions[s].module /\ sessions[s].handle \in 1..Len(native[m])
        BY <2>1 DEF WorkerInv, TargetsApart
      <3>2. native[m] \in Seq(Contents)
        BY DEF WorkerInv, WorkerTypes
      <3> QED
        BY <3>1, <3>2 DEF Content, Target
    <2>5. PICK value : value = Content(s, c)
      OBVIOUS
    <2>6. value \in Replies /\ value # "session"
      BY <2>4, <2>5 DEF Contents, Replies
    <2>7. \A t \in DOMAIN sessions : ~Changes(i, t)
      BY <2>1 DEF Changes
    <2> QED
      BY <2>1, <2>3, <2>5, <2>6, <2>7, QuietHandler
  <1> QED
    BY <1>1, <1>2, <1>3, <1>4, <1>5, <1>6, <1>7 DEF Execute, PutSource

\* A message arrives before the compiler: it names no session.
LEMMA AwaitInv ==
    ASSUME WorkerInv, received < Len(posted), compiler = 0,
           received' = received + 1, starting' = starting \cup {received + 1},
           UNCHANGED <<posted, compiler, sessions, native, answers>>
    PROVE  WorkerInv'
  <1> USE WorkerAssumption
  <1>1. PICK n \in Nat : n = received
    BY DEF WorkerInv, WorkerTypes
  <1>2. /\ n + 1 \in 1..Len(posted) /\ n + 1 \in 0..Len(posted) /\ n + 1 \in Ids
        /\ 1..n + 1 = 1..n \cup {n + 1} /\ 0 \in 0..n + 1
    BY <1>1 DEF WorkerInv, WorkerTypes, Ids
  <1>3. \A s \in Ids : answers[s] # "session"
    BY DEF WorkerInv, MessagesSensible
  <1>4. DOMAIN sessions = {}
    BY <1>3 DEF WorkerInv, WorkerTypes, SessionsLive
  <1>5. \A j \in 1..Len(posted) : posted[j].session = 0
    <2> TAKE j \in 1..Len(posted)
    <2>1. posted[j] \in Messages
      BY DEF WorkerInv, WorkerTypes
    <2>2. posted[j].session \in {0} \cup Ids
      BY <2>1 DEF Messages
    <2> QED
      BY <1>3, <2>2 DEF WorkerInv, MessagesSensible
  <1>6. WorkerTypes'
    BY <1>1, <1>2 DEF WorkerInv, WorkerTypes
  <1>7. Answered'
    <2> SUFFICES ASSUME NEW j \in Ids, answers[j] # "none"
                 PROVE  j <= n + 1 /\ j \notin starting \cup {n + 1}
      BY <1>1 DEF Answered
    <2>1. j <= n /\ j \notin starting
      BY <1>1 DEF WorkerInv, Answered
    <2> QED
      BY <2>1 DEF Ids
  <1>8. MessagesSensible' /\ StartingSessionless'
    BY <1>1, <1>2, <1>5 DEF WorkerInv, MessagesSensible, StartingSessionless
  <1>9. SessionsLive' /\ TargetsApart' /\ SourcesLatest'
    BY <1>3, <1>4 DEF SessionsLive, TargetsApart, SourcesLatest
  <1>10. SourcesDetermined'
    <2> SUFFICES ASSUME NEW s \in {0} \cup Ids, NEW k \in 0..Len(posted)
                 PROVE  \E v \in Contents : IsSource(v, s, k)'
      BY DEF SourcesDetermined
    <2>1. k \in Nat
      BY DEF WorkerInv, WorkerTypes
    <2> QED
      BY <2>1, HistoryStable DEF WorkerInv, SourcesDetermined
  <1>11. AnswersAreSequential'
    <2>1. \A j \in 1..Len(posted) : SequentialAnswer(j)' = SequentialAnswer(j)
      BY DEF SequentialAnswer, SourceBefore, LastChange, Disposed
    <2> QED
      BY <2>1 DEF WorkerInv, AnswersAreSequential
  <1> QED
    BY <1>6, <1>7, <1>8, <1>9, <1>10, <1>11 DEF WorkerInv

LEMMA WorkerInvStep == WorkerInv /\ [Next]_workerVars => WorkerInv'
  <1> SUFFICES ASSUME WorkerInv, [Next]_workerVars PROVE WorkerInv'
    OBVIOUS
  <1> USE WorkerAssumption
  <1>0. /\ Len(posted) \in Nat /\ Len(posted) <= MaxMessages /\ received \in 0..Len(posted)
        /\ compiler \in 0..received /\ starting \subseteq 1..received
    BY DEF WorkerInv, WorkerTypes
  <1>1. CASE Post
    BY <1>1, PostInv
  <1>2. CASE Receive /\ compiler = 0
    BY <1>2, AwaitInv DEF Receive
  <1>3. CASE Receive /\ compiler # 0
    <2>1. PICK i : i = received + 1
      OBVIOUS
    <2>2. i \in 1..Len(posted) /\ compiler \in Ids
      BY <1>0, <1>3, <2>1 DEF Receive, Ids
    <2>3. Handles(i) /\ Execute(i, compiler) /\ compiler' # 0
      BY <1>3, <2>1, <2>2 DEF Receive, Handles
    <2> QED
      BY <2>2, <2>3, ExecuteInv
  <1>4. ASSUME NEW i \in Ids, Started(i) PROVE WorkerInv'
    <2>1. i \in 1..Len(posted) /\ i # 0
      BY <1>0, <1>4 DEF Started
    <2>2. Handles(i) /\ Execute(i, i) /\ compiler' # 0
      BY <1>4, <2>1 DEF Started, Handles
    <2> QED
      BY <2>2, ExecuteInv
  <1>5. ASSUME NEW i \in Ids, StartFails(i) PROVE WorkerInv'
    <2>1. i \in 1..Len(posted)
      BY <1>0, <1>5 DEF StartFails
    <2>2. Handles(i) /\ i \in starting
      BY <1>5, <2>1 DEF StartFails, Handles
    <2>3. posted[i].session = 0
      BY <2>2 DEF WorkerInv, StartingSessionless
    <2>4. posted[i].method \in {"createSession", "typo"}
      BY <2>1, <2>3 DEF WorkerInv, MessagesSensible
    <2>5. SequentialAnswer(i) = "error"
      BY <2>3 DEF SequentialAnswer
    <2>6. \A t \in DOMAIN sessions : ~Changes(i, t)
      BY <2>4 DEF Changes
    <2> QED
      BY <1>5, <2>2, <2>4, <2>5, <2>6, QuietHandler DEF StartFails, Replies
  <1>6. CASE UNCHANGED workerVars
    <2>1. UNCHANGED <<posted, received, starting, compiler, sessions, native, answers>>
      BY <1>6 DEF workerVars
    <2>2. WorkerTypes' /\ Answered' /\ MessagesSensible' /\ StartingSessionless'
      BY <2>1 DEF WorkerInv, WorkerTypes, Answered, MessagesSensible, StartingSessionless
    <2>3. SessionsLive' /\ TargetsApart'
      BY <2>1 DEF WorkerInv, SessionsLive, DisposedBy, TargetsApart
    <2>4. SourcesLatest'
      BY <2>1 DEF WorkerInv, SourcesLatest, IsSource, Changes, ChangedTo
    <2>5. SourcesDetermined'
      BY <2>1, SMTT(30) DEF WorkerInv, SourcesDetermined, IsSource, Changes, ChangedTo
    <2>6. AnswersAreSequential'
      <3>1. \A j \in 1..Len(posted) : SequentialAnswer(j)' = SequentialAnswer(j)
        BY <2>1 DEF SequentialAnswer, SourceBefore, LastChange, Disposed
      <3> QED
        BY <2>1, <3>1 DEF WorkerInv, AnswersAreSequential
    <2> QED
      BY <2>2, <2>3, <2>4, <2>5, <2>6 DEF WorkerInv
  <1> QED
    BY <1>1, <1>2, <1>3, <1>4, <1>5, <1>6 DEF Next

LEMMA WorkerInvariant == Spec => []WorkerInv
  BY WorkerInvInit, WorkerInvStep, PTL DEF Spec

\* The bookkeeping of the worker stays well formed; in particular every
\* session speaks of a native session that exists in its own module.
THEOREM WorkerTypesCorrect == Spec => []TypeOK
  <1>1. WorkerInv => TypeOK
    <2> SUFFICES ASSUME WorkerInv PROVE TypeOK
      OBVIOUS
    <2>1. \A s \in DOMAIN sessions : s \in 1..received /\ posted[s].method = "createSession"
      <3> TAKE s \in DOMAIN sessions
      <3>1. s \in Ids /\ answers[s] = "session"
        BY DEF WorkerInv, WorkerTypes, SessionsLive
      <3>2. s <= received /\ posted[s].method = "createSession"
        BY <3>1 DEF WorkerInv, Answered, MessagesSensible
      <3> QED
        BY <3>1, <3>2, WorkerAssumption DEF WorkerInv, WorkerTypes, Ids
    <2>2. \A s \in DOMAIN sessions : sessions[s].handle \in DOMAIN native[sessions[s].module]
      <3> TAKE s \in DOMAIN sessions
      <3>1. PICK m \in Ids : m = sessions[s].module /\ sessions[s].handle \in 1..Len(native[m])
        BY DEF WorkerInv, TargetsApart
      <3>2. native[m] \in Seq(Contents)
        BY DEF WorkerInv, WorkerTypes
      <3> QED
        BY <3>1, <3>2
    <2> QED
      BY <2>1, <2>2 DEF WorkerInv, WorkerTypes, TypeOK
  <1> QED
    BY <1>1, WorkerInvariant, PTL

\* onmessage answers every message that is not a createSession as a worker
\* with one compiler would that handles them one after the other, however
\* many compilers the first messages create and in whatever order they come
\* up or fail to.
THEOREM WorkerAnswersSequential == Spec => []AnswersAreSequential
  <1>1. WorkerInv => AnswersAreSequential
    BY DEF WorkerInv
  <1> QED
    BY <1>1, WorkerInvariant, PTL
=============================================================================
