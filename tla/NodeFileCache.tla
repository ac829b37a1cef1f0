---------------------------- MODULE NodeFileCache ----------------------------
(***************************************************************************)
(* One entry of the file cache of the JavaScript tools (class NodeFileCache *)
(* in packages/tools/node.js).  The metadata file <hash>.json names the     *)
(* content file of its generation; entries of older versions have no name   *)
(* and keep their content in <hash> itself.                                 *)
(*                                                                         *)
(* Clients are concurrent operations on the entry, in one process or in    *)
(* several.  A step is what happens between two awaits: one file operation. *)
(* Temporary files carry unique names and are seen by their writer only, so *)
(* writing both of them is one step.  Operations start when their user      *)
(* sets op[c] (the Start operators) and report in op[c].                    *)
(***************************************************************************)
EXTENDS Naturals, FiniteSets

CONSTANTS
    Clients,
    Bodies,         \* contents
    MaxPuts,        \* bound on the generations ever written
    MaxAttempts,    \* 64 in the code: renames of the metadata file
    MaxTime,        \* bound on the clock
    MaxFaults,      \* bound on failures of the file system and crashes
    InitialBodies,  \* contents that an older version may have left
    Torn,           \* content that power loss has damaged
    None

ASSUME CacheAssumption ==
    /\ MaxPuts \in Nat /\ MaxAttempts \in Nat \ {0} /\ MaxTime \in Nat
    /\ MaxFaults \in Nat
    /\ InitialBodies \subseteq Bodies
    /\ Torn \notin Bodies /\ None \notin Bodies /\ Torn # None

VARIABLES
    clock,
    json,           \* the metadata file: [file, body, storedAt], or None
    data,           \* data[f]: content of file f, Torn, or None (no such file)
    puts,           \* generations used
    op,             \* op[c]: the cache operation of client c
    removals,       \* removals[c]: files that an operation of c is removing
    faults,         \* failures so far
    stored,         \* history: the entries that were ever published
    gap             \* history: gap[c], some moment of the get of c was not Complete

cacheVars == <<clock, json, data, puts, op, removals, faults, stored, gap>>

\* The content file of older versions, and the generations.
Legacy == 0
Generations == 1..MaxPuts
ContentFiles == {Legacy} \cup Generations
MetadataFile == MaxPuts + 1

\* The metadata holds size and MD5 of the content; here the body itself.
Entries == [body : Bodies, storedAt : 0..MaxTime]
ASSUME EntriesAssumption == None \notin Entries
EntryOf(parsed) == [body |-> parsed.body, storedAt |-> parsed.storedAt]

NoOp == [pc |-> "none", parsed |-> None, entry |-> None, file |-> Legacy,
         attempt |-> 0, ok |-> TRUE]

\* There is an entry that a get that runs alone would answer with, and no
\* delete or clear is removing files.
Complete ==
    /\ json # None /\ data[json.file] = json.body
    /\ \A c \in Clients : removals[c] = {}

CacheInit ==
    /\ clock = 0
    /\ puts = 0
    /\ \/ json = None /\ data = [f \in ContentFiles |-> None]
       \/ \E b \in InitialBodies :
              /\ json = [file |-> Legacy, body |-> b, storedAt |-> 0]
              /\ data = [f \in ContentFiles |-> IF f = Legacy THEN b ELSE None]
    /\ op = [c \in Clients |-> NoOp]
    /\ removals = [c \in Clients |-> {}]
    /\ faults = 0
    /\ stored = IF json = None THEN {} ELSE {EntryOf(json)}
    /\ gap = [c \in Clients |-> FALSE]

-----------------------------------------------------------------------------
\* What an operation is when it starts; putEntry chooses its generation.

StartGet == [NoOp EXCEPT !.pc = "metadata"]
StartDelete == [NoOp EXCEPT !.pc = "lookup"]
StartPut(body, now) ==
    [NoOp EXCEPT !.pc = "write", !.entry = [body |-> body, storedAt |-> now]]

Returned(o) == o.pc \in {"got", "put", "deleted"}

\* The end of an operation.
Got(parsed, entry) == [NoOp EXCEPT !.pc = "got", !.parsed = parsed, !.entry = entry]
PutDone(ok) == [NoOp EXCEPT !.pc = "put", !.ok = ok]
Deleted(ok) == [NoOp EXCEPT !.pc = "deleted", !.ok = ok]

Sets(c, o) == op' = [op EXCEPT ![c] = o]

Works == UNCHANGED faults
Fails == faults < MaxFaults /\ faults' = faults + 1

-----------------------------------------------------------------------------
\* get: the metadata, then the content it names.

GetMetadata(c) ==
    /\ op[c].pc = "metadata"
    /\ Sets(c, IF json = None THEN Got(None, None)
               ELSE [op[c] EXCEPT !.pc = "content", !.parsed = json])
    /\ UNCHANGED <<clock, json, data, puts, removals, faults, stored>>

\* A bug of a get that does not compare size and MD5.
GetContent_unchecked(c) ==
    /\ op[c].pc = "content"
    /\ Sets(c, IF data[op[c].parsed.file] = None THEN Got(op[c].parsed, None)
               ELSE Got(op[c].parsed, [body |-> data[op[c].parsed.file],
                                        storedAt |-> op[c].parsed.storedAt]))
    /\ UNCHANGED <<clock, json, data, puts, removals, faults, stored>>

GetContent(c) ==
    /\ op[c].pc = "content"
    /\ Sets(c, IF data[op[c].parsed.file] = op[c].parsed.body
               THEN Got(op[c].parsed, EntryOf(op[c].parsed))
               ELSE Got(op[c].parsed, None))
    /\ UNCHANGED <<clock, json, data, puts, removals, faults, stored>>

\* catch: a read that fails for another reason is a miss for the caller, who
\* cannot tell it from one (ok is history).
GetFails(c) ==
    /\ op[c].pc \in {"metadata", "content"}
    /\ Fails
    /\ Sets(c, [Got(None, None) EXCEPT !.ok = FALSE])
    /\ UNCHANGED <<clock, json, data, puts, removals, stored>>

\* putEntry.  Both temporary files are written under a new generation.
PutTemporaries(c) ==
    /\ op[c].pc = "write"
    /\ \/ /\ Works
          /\ puts < MaxPuts
          /\ puts' = puts + 1
          /\ Sets(c, [op[c] EXCEPT !.pc = "content name", !.file = puts + 1])
       \/ /\ Fails \/ (puts = MaxPuts /\ Works)
          /\ Sets(c, PutDone(FALSE))
          /\ UNCHANGED puts
    /\ UNCHANGED <<clock, json, data, removals, stored>>

PutContent(c) ==
    /\ op[c].pc = "content name"
    /\ \/ /\ Works
          /\ data' = [data EXCEPT ![op[c].file] = op[c].entry.body]
          /\ Sets(c, [op[c] EXCEPT !.pc = "publish"])
       \/ /\ Fails
          /\ Sets(c, PutDone(FALSE))
          /\ UNCHANGED data
    /\ UNCHANGED <<clock, json, puts, removals, stored>>

\* A bug of a publication that removes the generation it replaces.
PutMetadata_removesReplaced(c) ==
    /\ op[c].pc = "publish"
    /\ json' = [file |-> op[c].file, body |-> op[c].entry.body,
                storedAt |-> op[c].entry.storedAt]
    /\ stored' = stored \cup {op[c].entry}
    /\ data' = IF json # None THEN [data EXCEPT ![json.file] = None] ELSE data
    /\ Sets(c, [op[c] EXCEPT !.pc = "clean"])
    /\ UNCHANGED <<clock, puts, removals, faults>>

\* publishMetadata: one rename.  It may be refused because the target is in
\* use (EEXIST, EPERM, EACCES), or fail for another reason.  MaxFaults counts
\* the failures of one publication once.
PutMetadata(c) ==
    /\ op[c].pc = "publish"
    /\ \/ /\ Works
          /\ json' = [file |-> op[c].file, body |-> op[c].entry.body,
                      storedAt |-> op[c].entry.storedAt]
          /\ stored' = stored \cup {op[c].entry}
          /\ Sets(c, [op[c] EXCEPT !.pc = "clean"])
       \/ /\ Fails \/ (op[c].attempt > 0 /\ Works)
          /\ \/ Sets(c, [op[c] EXCEPT !.pc = "unblock"])
             \/ Sets(c, [op[c] EXCEPT !.pc = "undo"])
          /\ UNCHANGED <<json, stored>>
    /\ UNCHANGED <<clock, data, puts, removals>>

\* The target is removed, whoever has published it, and the rename repeated.
PutUnblock(c) ==
    /\ op[c].pc = "unblock"
    /\ \/ /\ json' = None
          /\ Sets(c, IF op[c].attempt + 1 < MaxAttempts
                     THEN [op[c] EXCEPT !.pc = "publish", !.attempt = @ + 1]
                     ELSE [op[c] EXCEPT !.pc = "undo"])
       \/ /\ Sets(c, [op[c] EXCEPT !.pc = "undo"])
          /\ UNCHANGED json
    /\ UNCHANGED <<clock, data, puts, removals, faults, stored>>

\* finally: the content of a generation that was not published is removed.
PutUndo(c) ==
    /\ op[c].pc = "undo"
    /\ data' = [data EXCEPT ![op[c].file] = None]
    /\ Sets(c, PutDone(FALSE))
    /\ UNCHANGED <<clock, json, puts, removals, faults, stored>>

\* The content file of an older version is not needed any more.
PutClean(c) ==
    /\ op[c].pc = "clean"
    /\ \/ /\ Works
          /\ data' = [data EXCEPT ![Legacy] = None]
          /\ Sets(c, PutDone(TRUE))
       \/ /\ Fails
          /\ Sets(c, PutDone(FALSE))
          /\ UNCHANGED data
    /\ UNCHANGED <<clock, json, puts, removals, stored>>

\* delete: the metadata is read for the name of the generation, then all
\* files are removed at once, in any order.
DeleteLookup(c) ==
    /\ op[c].pc = "lookup"
    /\ removals' = [removals EXCEPT ![c] =
           @ \cup {Legacy, MetadataFile} \cup
           IF json # None /\ json.file # Legacy THEN {json.file} ELSE {}]
    /\ Sets(c, [op[c] EXCEPT !.pc = "removing"])
    /\ UNCHANGED <<clock, json, data, puts, faults, stored>>

\* clear: the directory is removed file by file.
ClearLookup(c) ==
    /\ op[c].pc = "list"
    /\ removals' = [removals EXCEPT ![c] =
           @ \cup {f \in ContentFiles : data[f] # None}
             \cup IF json # None THEN {MetadataFile} ELSE {}]
    /\ Sets(c, [op[c] EXCEPT !.pc = "removing"])
    /\ UNCHANGED <<clock, json, data, puts, faults, stored>>

\* One removal is carried out, also after its operation has returned.
Remove(c) ==
    /\ \E f \in removals[c] :
           /\ removals' = [removals EXCEPT ![c] = @ \ {f}]
           /\ json' = IF f = MetadataFile THEN None ELSE json
           /\ data' = IF f = MetadataFile THEN data ELSE [data EXCEPT ![f] = None]
    /\ UNCHANGED <<clock, puts, op, faults, stored>>

\* The operation returns when all removals are done, or with the first
\* that fails; it does not wait for the others then.
RemovalsDone(c) ==
    /\ op[c].pc = "removing"
    /\ \/ /\ Works
          /\ removals[c] = {}
          /\ Sets(c, Deleted(TRUE))
          /\ UNCHANGED removals
       \/ \E f \in removals[c] :
              /\ Fails
              /\ removals' = [removals EXCEPT ![c] = @ \ {f}]
              /\ Sets(c, Deleted(FALSE))
    /\ UNCHANGED <<clock, json, data, puts, stored>>

\* The process of c ends: its operation stays as far as it has come.
CacheCrash(c) ==
    /\ Fails
    /\ Sets(c, NoOp)
    /\ removals' = [removals EXCEPT ![c] = {}]
    /\ UNCHANGED <<clock, json, data, puts, stored>>

\* Power loss ends all processes, and damages a content file that had been
\* renamed but not been written out.
CachePowerLoss ==
    /\ Fails
    /\ \E f \in Generations :
           data[f] \in Bodies /\ data' = [data EXCEPT ![f] = Torn]
    /\ op' = [c \in Clients |-> NoOp]
    /\ removals' = [c \in Clients |-> {}]
    /\ UNCHANGED <<clock, json, puts, stored>>

CacheTick ==
    /\ clock < MaxTime
    /\ clock' = clock + 1
    /\ UNCHANGED <<json, data, puts, op, removals, faults, stored>>

\* In every step.
RecordGap ==
    gap' = [c \in Clients |->
        /\ op'[c].pc \in {"metadata", "content", "got"}
        /\ gap[c] \/ ~Complete \/ ~Complete']

-----------------------------------------------------------------------------
CacheTypeOK ==
    /\ clock \in 0..MaxTime
    /\ json \in [file : ContentFiles, body : Bodies, storedAt : 0..MaxTime] \cup {None}
    /\ data \in [ContentFiles -> Bodies \cup {Torn, None}]
    /\ puts \in 0..MaxPuts
    /\ \A c \in Clients :
           /\ removals[c] \subseteq ContentFiles \cup {MetadataFile}
           /\ op[c].entry \in Entries \cup {None}
    /\ stored \subseteq Entries

\* A get answers only with a content and a time that were stored together,
\* whatever is replaced, removed or damaged between its two reads.
AnswersWereStored ==
    \A c \in Clients :
        op[c].pc = "got" /\ op[c].entry # None => op[c].entry \in stored

\* While a complete entry is there all the time, and one replaces another, a
\* get whose reads work finds one of them.  (Not so for an entry of an older
\* version, whose one content file the next put removes.)
ReplacementIsSeamless ==
    \A c \in Clients :
        op[c].pc = "got" /\ op[c].entry = None /\ op[c].ok
            => gap[c] \/ op[c].parsed.file = Legacy
=============================================================================
