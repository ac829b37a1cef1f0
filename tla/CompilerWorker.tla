--------------------------- MODULE CompilerWorker ---------------------------
(***************************************************************************)
(* The worker of compiler-wasm: messages to onmessage, the compiler that   *)
(* the first of them create, the sessions by their ids, and their answers. *)
(*                                                                         *)
(* A handler runs to its end at once if the compiler exists; otherwise it  *)
(* awaits createCompiler, and every message that arrives meanwhile does    *)
(* the same.  Each of these handlers then sets compiler to its own.  A     *)
(* compiler is named by the message that created it, a session id by its   *)
(* createSession message (the UUIDs are unique).  Handles count from 1 in  *)
(* every WebAssembly module, so two compilers give the same ones.          *)
(*                                                                         *)
(* A native session is known by its one source.  The methods that do not   *)
(* change a session (compile, parse, editorSnapshot, analyze,              *)
(* compileAndAnalyze, format) are "read": they answer by that source.      *)
(***************************************************************************)
EXTENDS PartialMap, Naturals, Sequences

CONSTANTS
    Sources,        \* what putSource may bring
    Rejected,       \* the ones the native session refuses
    MaxMessages     \* bound on the messages that clients send

ASSUME WorkerAssumption ==
    /\ MaxMessages \in Nat
    /\ Rejected \subseteq Sources
    /\ {"none", "empty", "destroyed", "session"} \cap Sources = {}

VARIABLES
    posted,         \* the messages, in the order they were sent
    received,       \* how many of them onmessage has been called for
    starting,       \* the messages whose handlers await createCompiler
    compiler,       \* 0: undefined
    sessions,       \* sessions[id]: a CompilerSession: #module and #handle
    native,         \* native[c][h]: the source of session h in module c
    answers         \* answers[i]: what postMessage has sent, or "none"

workerVars == <<posted, received, starting, compiler, sessions, native, answers>>

Ids == 1..MaxMessages

Init ==
    /\ posted = <<>>
    /\ received = 0
    /\ starting = {}
    /\ compiler = 0
    /\ sessions = EmptyMap
    /\ native = [c \in Ids |-> <<>>]
    /\ answers = [i \in Ids |-> "none"]

-----------------------------------------------------------------------------
\* A client knows the id of a session once it has been told, and may still
\* use it when the session is disposed.
Post ==
    \E method \in {"createSession", "disposeSession", "putSource", "removeSource", "read", "typo"},
       session \in {0} \cup {s \in Ids : answers[s] = "session"},
       source \in Sources \cup {"none"} :
        /\ Len(posted) < MaxMessages
        /\ method \in {"createSession", "typo"} <=> session = 0
        /\ method = "putSource" <=> source # "none"
        /\ posted' = Append(posted, [method |-> method, session |-> session, source |-> source])
        /\ UNCHANGED <<received, starting, compiler, sessions, native, answers>>

Answer(i, value) == answers' = [answers EXCEPT ![i] = value]

\* A bug of a session that asks the compiler that is there now, where that
\* one has given out the same handle.
Target_current(s, c) ==
    <<IF sessions[s].handle \in DOMAIN native[c] THEN c ELSE sessions[s].module,
      sessions[s].handle>>

\* The native session that a CompilerSession speaks of.
Target(s, c) == <<sessions[s].module, sessions[s].handle>>

Content(s, c) == native[Target(s, c)[1]][Target(s, c)[2]]
SetContent(s, c, content) == native' = [native EXCEPT ![Target(s, c)[1]][Target(s, c)[2]] = content]

CreateSession(i, c) ==
    /\ posted[i].method = "createSession"
    /\ \/ /\ native' = [native EXCEPT ![c] = Append(@, "empty")]
          /\ sessions' = Put(sessions, i, [module |-> c, handle |-> Len(native[c]) + 1])
          /\ Answer(i, "session")
       \/ Answer(i, "error") /\ UNCHANGED <<sessions, native>>

\* session(id) throws, or the method is not one.
Refuse(i) ==
    /\ posted[i].method # "createSession"
    /\ posted[i].session \notin DOMAIN sessions \/ posted[i].method = "typo"
    /\ Answer(i, "error")
    /\ UNCHANGED <<sessions, native>>

DisposeSession(i, c) ==
    /\ posted[i].method = "disposeSession"
    /\ posted[i].session \in DOMAIN sessions
    /\ SetContent(posted[i].session, c, "destroyed")
    /\ sessions' = Drop(sessions, {posted[i].session})
    /\ Answer(i, "ok")

PutSource(i, c) ==
    /\ posted[i].method = "putSource"
    /\ posted[i].session \in DOMAIN sessions
    /\ \/ /\ posted[i].source \notin Rejected
          /\ SetContent(posted[i].session, c, posted[i].source)
          /\ Answer(i, "ok")
       \/ /\ posted[i].source \in Rejected
          /\ Answer(i, "error")
          /\ UNCHANGED native
    /\ UNCHANGED sessions

RemoveSource(i, c) ==
    /\ posted[i].method = "removeSource"
    /\ posted[i].session \in DOMAIN sessions
    /\ SetContent(posted[i].session, c, "empty")
    /\ Answer(i, IF Content(posted[i].session, c) = "empty" THEN "absent" ELSE "ok")
    /\ UNCHANGED sessions

Read(i, c) ==
    /\ posted[i].method = "read"
    /\ posted[i].session \in DOMAIN sessions
    /\ Answer(i, Content(posted[i].session, c))
    /\ UNCHANGED <<sessions, native>>

\* The switch of onmessage, for message i with compiler c.
Execute(i, c) ==
    \/ CreateSession(i, c)
    \/ Refuse(i)
    \/ DisposeSession(i, c)
    \/ PutSource(i, c)
    \/ RemoveSource(i, c)
    \/ Read(i, c)

\* onmessage is called for the next message.
Receive ==
    /\ received < Len(posted)
    /\ received' = received + 1
    /\ \/ /\ compiler = 0
          /\ starting' = starting \cup {received + 1}
          /\ UNCHANGED <<sessions, native, answers>>
       \/ /\ compiler # 0
          /\ Execute(received + 1, compiler)
          /\ UNCHANGED starting
    /\ UNCHANGED <<posted, compiler>>

\* createCompiler resolves for the handler of message i.
Started(i) ==
    /\ i \in starting
    /\ starting' = starting \ {i}
    /\ compiler' = i
    /\ Execute(i, i)
    /\ UNCHANGED <<posted, received>>

\* A bug of a handler that awaits the compiler before its try.
StartFails_outsideTry(i) ==
    /\ i \in starting
    /\ starting' = starting \ {i}
    /\ UNCHANGED <<posted, received, compiler, sessions, native, answers>>

\* It rejects: the message is answered, and the next one tries again.
StartFails(i) ==
    /\ i \in starting
    /\ starting' = starting \ {i}
    /\ Answer(i, "error")
    /\ UNCHANGED <<posted, received, compiler, sessions, native>>

Next ==
    \/ Post
    \/ Receive
    \/ \E i \in Ids : Started(i) \/ StartFails(i)

\* The event loop delivers messages, and loading and instantiating the
\* WebAssembly module settles.  Clients need not send anything.
Spec ==
    /\ Init
    /\ [][Next]_workerVars
    /\ WF_workerVars(Receive)
    /\ \A i \in Ids : WF_workerVars(Started(i) \/ StartFails(i))

-----------------------------------------------------------------------------
TypeOK ==
    /\ received \in 0..Len(posted)
    /\ starting \subseteq 1..received
    /\ compiler \in 0..received
    /\ DOMAIN sessions \subseteq {i \in 1..received : posted[i].method = "createSession"}
    /\ \A s \in DOMAIN sessions : sessions[s].handle \in DOMAIN native[sessions[s].module]

\* The last change that a session's messages before the i-th make to its
\* source, 0 for none.
LastChange(i) ==
    LET changes == {j \in 1..i - 1 :
                        /\ posted[j].session = posted[i].session
                        /\ \/ posted[j].method = "removeSource"
                           \/ posted[j].method = "putSource" /\ posted[j].source \notin Rejected}
    IN  CHOOSE j \in changes \cup {0} : \A k \in changes : k <= j

SourceBefore(i) ==
    IF LastChange(i) = 0 \/ posted[LastChange(i)].method = "removeSource" THEN "empty"
    ELSE posted[LastChange(i)].source

Disposed(i) ==
    \E j \in 1..i - 1 : posted[j].session = posted[i].session /\ posted[j].method = "disposeSession"

\* What a worker would answer that handled one message after the other, in
\* the order they were sent, with one compiler.
SequentialAnswer(i) ==
    IF posted[i].session = 0 \/ Disposed(i) THEN "error"
    ELSE CASE posted[i].method = "disposeSession" -> "ok"
           [] posted[i].method = "putSource"      ->
                  IF posted[i].source \in Rejected THEN "error" ELSE "ok"
           [] posted[i].method = "removeSource"   ->
                  IF SourceBefore(i) = "empty" THEN "absent" ELSE "ok"
           [] posted[i].method = "read"           -> SourceBefore(i)

\* However many compilers the first messages create, and in whatever order
\* they come up, a session has its own source, its messages take effect in
\* the order they were sent, and it is there until it is disposed.
AnswersAreSequential ==
    \A i \in 1..Len(posted) :
        answers[i] # "none" /\ posted[i].method # "createSession" =>
            answers[i] = SequentialAnswer(i)

\* Every message is answered in the end, also if the compiler cannot be
\* created (an answer stays, and clients send finitely many messages).
MessagesAnswered == []<>(\A i \in 1..Len(posted) : answers[i] # "none")
=============================================================================
