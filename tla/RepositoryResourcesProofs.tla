---------------------- MODULE RepositoryResourcesProofs ----------------------
(***************************************************************************)
(* Proofs about the file cache of the JavaScript tools and the loads over  *)
(* it, for any number of clients, puts, failures and crashes.              *)
(*                                                                         *)
(* The inductive invariant ResourcesInv has five parts: the types; that    *)
(* every entry in circulation was published (EntriesPublished); that no    *)
(* put in progress owns a file that the metadata or a reader names         *)
(* (FilesOwned); that a reader still finds the content it was promised     *)
(* unless a gap was recorded for it (ReadersSeamless); and what a load     *)
(* knows at each of its places (LoadsVerified).                            *)
(***************************************************************************)
EXTENDS RepositoryResources, TLAPS

OpPcs == {"none", "metadata", "content", "got", "write", "content name", "publish",
          "unblock", "undo", "clean", "put", "lookup", "list", "removing", "deleted"}
LoadPcs == {"idle", "cache", "discard", "transport", "store", "clearing", "done"}

\* A put that has a generation which it has not published yet.
Owning == {"content name", "publish", "unblock", "undo"}
Getting == {"metadata", "content", "got"}

Parsed == [file : ContentFiles, body : Bodies, storedAt : 0..MaxTime]
Ops == [pc : OpPcs, parsed : Parsed \cup {None}, entry : Entries \cup {None},
        file : ContentFiles, attempt : Nat, ok : BOOLEAN]
Loads == [pc : LoadPcs, request : Requests \cup {None}, entry : Entries \cup {None},
          mismatch : BOOLEAN, body : Bodies \cup {None}, success : BOOLEAN,
          fromCache : BOOLEAN, stale : BOOLEAN, fault : BOOLEAN]

-----------------------------------------------------------------------------
\* The types of the variables, and what an operation has at each place.
CacheTypes ==
    /\ clock \in 0..MaxTime
    /\ json \in Parsed \cup {None}
    /\ data \in [ContentFiles -> Bodies \cup {Torn, None}]
    /\ puts \in 0..MaxPuts
    /\ op \in [Clients -> Ops]
    /\ removals \in [Clients -> SUBSET (ContentFiles \cup {MetadataFile})]
    /\ faults \in Nat
    /\ stored \subseteq Entries
    /\ gap \in [Clients -> BOOLEAN]
    /\ load \in [Clients -> Loads]

OpsEquipped ==
    \A c \in Clients :
        /\ op[c].pc = "content" => op[c].parsed \in Parsed
        /\ op[c].pc \in Owning \cup {"write"} => op[c].entry \in Entries
        /\ op[c].pc \in Owning => op[c].file \in 1..puts

\* What a get has read, and what it answers with, was published.
EntriesPublished ==
    /\ json # None => EntryOf(json) \in stored
    /\ \A c \in Clients :
           /\ op[c].pc = "content" => EntryOf(op[c].parsed) \in stored
           /\ op[c].pc = "got" /\ op[c].entry # None => op[c].entry \in stored

\* A generation belongs to its put alone until the metadata names it.
FilesOwned ==
    /\ json # None => json.file <= puts
    /\ \A c \in Clients : op[c].pc = "content" => op[c].parsed.file <= puts
    /\ \A c \in Clients :
           op[c].pc \in Owning =>
               /\ json # None => json.file # op[c].file
               /\ \A d \in Clients :
                      /\ op[d].pc = "content" => op[d].parsed.file # op[c].file
                      /\ op[d].pc \in Owning /\ d # c => op[d].file # op[c].file

\* Without a gap the content that a reader goes for is there.
ReadersSeamless ==
    \A c \in Clients :
        /\ op[c].pc = "content" /\ ~gap[c]
               => \/ op[c].parsed.file = Legacy
                  \/ data[op[c].parsed.file] = op[c].parsed.body
        /\ op[c].pc = "got" /\ op[c].entry = None /\ op[c].ok /\ ~gap[c]
               => op[c].parsed.file = Legacy

\* What a load has found out at each of its places.
LoadsVerified ==
    \A c \in Clients :
        /\ load[c].pc \in {"cache", "discard", "transport", "store", "done"}
               => load[c].request \in Requests
        /\ load[c].pc \in {"transport", "store"} => ~load[c].request.offline
        /\ load[c].pc = "store" => /\ load[c].body \in Bodies
                                   /\ Matches(load[c].request, load[c].body)

ResourcesInv ==
    /\ CacheTypes /\ OpsEquipped /\ EntriesPublished /\ FilesOwned /\ ReadersSeamless
    /\ LoadsVerified /\ UnmarkedAnswersVerified /\ CacheNeverFailsLoads

-----------------------------------------------------------------------------
\* An operation is again one, and a load is a load, after every change that
\* the steps make to them.

LEMMA OpChanges ==
    /\ NoOp \in Ops /\ StartGet \in Ops /\ StartDelete \in Ops
    /\ [NoOp EXCEPT !.pc = "list"] \in Ops
    /\ \A b \in Bodies, t \in 0..MaxTime : StartPut(b, t) \in Ops
    /\ \A p \in Parsed \cup {None}, e \in Entries \cup {None} : Got(p, e) \in Ops
    /\ [Got(None, None) EXCEPT !.ok = FALSE] \in Ops
    /\ \A ok \in BOOLEAN : PutDone(ok) \in Ops /\ Deleted(ok) \in Ops
    /\ \A o \in Ops, p \in OpPcs : [o EXCEPT !.pc = p] \in Ops
    /\ \A o \in Ops, p \in Parsed : [o EXCEPT !.pc = "content", !.parsed = p] \in Ops
    /\ \A o \in Ops, f \in ContentFiles :
           [o EXCEPT !.pc = "content name", !.file = f] \in Ops
    /\ \A o \in Ops : [o EXCEPT !.pc = "publish", !.attempt = @ + 1] \in Ops
  <1>1. NoOp \in Ops
    BY DEF NoOp, Ops, OpPcs, ContentFiles, Legacy
  <1>2. StartGet \in Ops /\ StartDelete \in Ops /\ [NoOp EXCEPT !.pc = "list"] \in Ops
    BY DEF NoOp, Ops, OpPcs, ContentFiles, Legacy, StartGet, StartDelete
  <1>3. \A b \in Bodies, t \in 0..MaxTime : StartPut(b, t) \in Ops
    BY DEF NoOp, Ops, OpPcs, ContentFiles, Legacy, StartPut, Entries
  <1>4. /\ \A p \in Parsed \cup {None}, e \in Entries \cup {None} : Got(p, e) \in Ops
        /\ [Got(None, None) EXCEPT !.ok = FALSE] \in Ops
    BY DEF NoOp, Ops, OpPcs, ContentFiles, Legacy, Got
  <1>5. \A ok \in BOOLEAN : PutDone(ok) \in Ops /\ Deleted(ok) \in Ops
    BY DEF NoOp, Ops, OpPcs, ContentFiles, Legacy, PutDone, Deleted
  <1>6. \A o \in Ops, p \in OpPcs : [o EXCEPT !.pc = p] \in Ops
    BY DEF Ops
  <1>7. \A o \in Ops, p \in Parsed : [o EXCEPT !.pc = "content", !.parsed = p] \in Ops
    BY DEF Ops, OpPcs
  <1>8. \A o \in Ops, f \in ContentFiles :
            [o EXCEPT !.pc = "content name", !.file = f] \in Ops
    BY DEF Ops, OpPcs
  <1>9. \A o \in Ops : [o EXCEPT !.pc = "publish", !.attempt = @ + 1] \in Ops
    <2> TAKE o \in Ops
    <2>1. o.attempt + 1 \in Nat
      BY DEF Ops
    <2>2. \A n \in Nat : [o EXCEPT !.pc = "publish", !.attempt = n] \in Ops
      BY DEF Ops, OpPcs
    <2> QED
      BY <2>1, <2>2
  <1> QED
    BY <1>1, <1>2, <1>3, <1>4, <1>5, <1>6, <1>7, <1>8, <1>9

LEMMA LoadChanges ==
    /\ NoLoad \in Loads
    /\ [NoLoad EXCEPT !.pc = "clearing"] \in Loads
    /\ \A r \in Requests : [NoLoad EXCEPT !.pc = "cache", !.request = r] \in Loads
    /\ \A l \in Loads : Failed(l) \in Loads
    /\ \A l \in Loads : Failed([l EXCEPT !.fault = TRUE]) \in Loads
    /\ \A l \in Loads, b \in Bodies \cup {None}, f, s \in BOOLEAN : Answer(l, b, f, s) \in Loads
    /\ \A l \in Loads, e \in Entries :
           [l EXCEPT !.pc = "discard", !.entry = e, !.mismatch = TRUE] \in Loads
    /\ \A l \in Loads, e \in Entries \cup {None} :
           [l EXCEPT !.pc = "transport", !.entry = e] \in Loads
    /\ \A l \in Loads : [l EXCEPT !.pc = "transport"] \in Loads
    /\ \A l \in Loads : [l EXCEPT !.fault = TRUE] \in Loads
    /\ \A l \in Loads, b \in Bodies : [l EXCEPT !.pc = "store", !.body = b] \in Loads
  <1>1. NoLoad \in Loads /\ [NoLoad EXCEPT !.pc = "clearing"] \in Loads
    BY DEF NoLoad, Loads, LoadPcs
  <1>2. \A r \in Requests : [NoLoad EXCEPT !.pc = "cache", !.request = r] \in Loads
    BY DEF NoLoad, Loads, LoadPcs
  <1>3. \A l \in Loads : Failed(l) \in Loads
    BY DEF NoLoad, Loads, LoadPcs, Failed
  <1>4. \A l \in Loads : [l EXCEPT !.fault = TRUE] \in Loads
    BY DEF Loads
  <1>5. \A l \in Loads, b \in Bodies \cup {None}, f, s \in BOOLEAN : Answer(l, b, f, s) \in Loads
    BY ZenonT(60) DEF NoLoad, Loads, LoadPcs, Answer
  <1>6. \A l \in Loads, e \in Entries :
           [l EXCEPT !.pc = "discard", !.entry = e, !.mismatch = TRUE] \in Loads
    BY DEF Loads, LoadPcs
  <1>7. \A l \in Loads, e \in Entries \cup {None} :
           [l EXCEPT !.pc = "transport", !.entry = e] \in Loads
    BY DEF Loads, LoadPcs
  <1>8. \A l \in Loads : [l EXCEPT !.pc = "transport"] \in Loads
    BY DEF Loads, LoadPcs
  <1>9. \A l \in Loads, b \in Bodies : [l EXCEPT !.pc = "store", !.body = b] \in Loads
    BY DEF Loads, LoadPcs
  <1> QED
    BY <1>1, <1>2, <1>3, <1>4, <1>5, <1>6, <1>7, <1>8, <1>9

-----------------------------------------------------------------------------
\* Types are preserved, step by step.

LEMMA GapType == ASSUME RecordGap PROVE gap' \in [Clients -> BOOLEAN]
  BY DEF RecordGap

\* A step changes at most the operation and the load of its client.
LEMMA ClientStep ==
    ASSUME CacheTypes, NEW c \in Clients, NEW o \in Ops, Sets(c, o)
    PROVE  /\ op' \in [Clients -> Ops]
           /\ op'[c] = o
           /\ \A d \in Clients : d # c => op'[d] = op[d]
  BY DEF CacheTypes, Sets

LEMMA LoadStep ==
    ASSUME CacheTypes, NEW c \in Clients, NEW l \in Loads, Goes(c, l)
    PROVE  /\ load' \in [Clients -> Loads]
           /\ load'[c] = l
           /\ \A d \in Clients : d # c => load'[d] = load[d]
  BY DEF CacheTypes, Goes

LEMMA FaultsType == ASSUME CacheTypes, Works \/ Fails PROVE faults' \in Nat
  BY DEF CacheTypes, Works, Fails

LEMMA CacheStepTypes ==
    ASSUME CacheTypes, OpsEquipped, InCache, NEW c \in Clients,
           \/ GetMetadata(c) \/ GetContent(c) \/ GetFails(c)
           \/ PutTemporaries(c) \/ PutContent(c)
           \/ PutMetadata(c) \/ PutUnblock(c) \/ PutUndo(c) \/ PutClean(c)
           \/ DeleteLookup(c) \/ ClearLookup(c) \/ Remove(c) \/ RemovalsDone(c)
    PROVE  CacheTypes'
  <1> gap' \in [Clients -> BOOLEAN] /\ load' = load
    BY GapType DEF InCache
  <1> op[c] \in Ops /\ op[c].pc \in OpPcs
    BY DEF CacheTypes, Ops
  <1> USE CacheAssumption
  <1>1. CASE GetMetadata(c)
    <2>1. (IF json = None THEN Got(None, None)
           ELSE [op[c] EXCEPT !.pc = "content", !.parsed = json]) \in Ops
      BY OpChanges DEF CacheTypes
    <2> QED
      BY <1>1, <2>1, ClientStep DEF GetMetadata, CacheTypes
  <1>2. CASE GetContent(c)
    <2>1. EntryOf(op[c].parsed) \in Entries
      BY <1>2 DEF GetContent, OpsEquipped, Parsed, Entries, EntryOf
    <2>2. op[c].parsed \in Parsed
      BY <1>2 DEF GetContent, OpsEquipped
    <2>3. (IF data[op[c].parsed.file] = op[c].parsed.body
           THEN Got(op[c].parsed, EntryOf(op[c].parsed))
           ELSE Got(op[c].parsed, None)) \in Ops
      BY <2>1, <2>2, OpChanges
    <2> QED
      BY <1>2, <2>3, ClientStep DEF GetContent, CacheTypes
  <1>3. CASE PutTemporaries(c)
    <2>1. PutDone(FALSE) \in Ops
      BY OpChanges
    <2>2. puts < MaxPuts => /\ puts + 1 \in 0..MaxPuts
                            /\ [op[c] EXCEPT !.pc = "content name", !.file = puts + 1] \in Ops
      <3>1. puts < MaxPuts => puts + 1 \in 0..MaxPuts /\ puts + 1 \in ContentFiles
        BY DEF CacheTypes, ContentFiles, Generations
      <3> QED
        BY <3>1, OpChanges
    <2>3. op' \in [Clients -> Ops] /\ puts' \in 0..MaxPuts
      BY <1>3, <2>1, <2>2, ClientStep DEF PutTemporaries, CacheTypes
    <2>9. faults' \in Nat
      BY <1>3, FaultsType DEF PutTemporaries
    <2> QED
      BY <1>3, <2>3, <2>9 DEF PutTemporaries, CacheTypes
  <1>4. CASE PutContent(c)
    <2>1. PutDone(FALSE) \in Ops /\ [op[c] EXCEPT !.pc = "publish"] \in Ops
      BY OpChanges DEF OpPcs
    <2>2. op' \in [Clients -> Ops]
      BY <1>4, <2>1, ClientStep DEF PutContent
    <2>3. op[c].entry.body \in Bodies
      BY <1>4 DEF PutContent, OpsEquipped, Owning, Entries
    <2>9. faults' \in Nat
      BY <1>4, FaultsType DEF PutContent
    <2> QED
      BY <1>4, <2>2, <2>3, <2>9 DEF PutContent, CacheTypes
  <1>5. CASE PutMetadata(c)
    <2>1. op[c].entry \in Entries /\ op[c].file \in ContentFiles
      BY <1>5 DEF PutMetadata, OpsEquipped, Owning, CacheTypes, Ops
    <2>2. [file |-> op[c].file, body |-> op[c].entry.body,
           storedAt |-> op[c].entry.storedAt] \in Parsed
      BY <2>1 DEF Parsed, Entries
    <2>3. \A p \in {"clean", "unblock", "undo"} : [op[c] EXCEPT !.pc = p] \in Ops
      BY OpChanges DEF OpPcs
    <2>4. op' \in [Clients -> Ops]
      BY <1>5, <2>3, ClientStep DEF PutMetadata
    <2>9. faults' \in Nat
      BY <1>5, FaultsType DEF PutMetadata
    <2> QED
      BY <1>5, <2>1, <2>2, <2>4, <2>9 DEF PutMetadata, CacheTypes
  <1>6. CASE PutUnblock(c)
    <2>1. [op[c] EXCEPT !.pc = "undo"] \in Ops
          /\ [op[c] EXCEPT !.pc = "publish", !.attempt = @ + 1] \in Ops
      BY OpChanges DEF OpPcs
    <2>2. op' \in [Clients -> Ops]
      BY <1>6, <2>1, ClientStep DEF PutUnblock
    <2> QED
      BY <1>6, <2>2 DEF PutUnblock, CacheTypes
  <1>7. CASE PutUndo(c)
    <2>1. op' \in [Clients -> Ops]
      BY <1>7, OpChanges, ClientStep DEF PutUndo
    <2> QED
      BY <1>7, <2>1 DEF PutUndo, CacheTypes
  <1>8. CASE PutClean(c)
    <2>1. op' \in [Clients -> Ops]
      BY <1>8, OpChanges, ClientStep DEF PutClean
    <2>9. faults' \in Nat
      BY <1>8, FaultsType DEF PutClean
    <2> QED
      BY <1>8, <2>1, <2>9 DEF PutClean, CacheTypes
  <1>9. CASE DeleteLookup(c)
    <2>1. [op[c] EXCEPT !.pc = "removing"] \in Ops
      BY OpChanges DEF OpPcs
    <2>2. op' \in [Clients -> Ops]
      BY <1>9, <2>1, ClientStep DEF DeleteLookup
    <2>3. {Legacy, MetadataFile} \cup (IF json # None /\ json.file # Legacy
                                      THEN {json.file} ELSE {})
              \subseteq ContentFiles \cup {MetadataFile}
      BY DEF CacheTypes, Parsed, ContentFiles
    <2>4. removals' \in [Clients -> SUBSET (ContentFiles \cup {MetadataFile})]
      BY <1>9, <2>3 DEF DeleteLookup, CacheTypes
    <2> QED
      BY <1>9, <2>2, <2>4 DEF DeleteLookup, CacheTypes
  <1>10. CASE ClearLookup(c)
    <2>1. [op[c] EXCEPT !.pc = "removing"] \in Ops
      BY OpChanges DEF OpPcs
    <2>2. op' \in [Clients -> Ops]
      BY <1>10, <2>1, ClientStep DEF ClearLookup
    <2>3. removals' \in [Clients -> SUBSET (ContentFiles \cup {MetadataFile})]
      BY <1>10 DEF ClearLookup, CacheTypes
    <2> QED
      BY <1>10, <2>2, <2>3 DEF ClearLookup, CacheTypes
  <1>11. CASE Remove(c)
    BY <1>11 DEF Remove, CacheTypes
  <1>12. CASE RemovalsDone(c)
    <2>1. op' \in [Clients -> Ops]
      BY <1>12, OpChanges, ClientStep DEF RemovalsDone
    <2>9. faults' \in Nat
      BY <1>12, FaultsType DEF RemovalsDone
    <2> QED
      BY <1>12, <2>1, <2>9 DEF RemovalsDone, CacheTypes
  <1>13. CASE GetFails(c)
    <2>1. op' \in [Clients -> Ops]
      BY <1>13, OpChanges, ClientStep DEF GetFails
    <2>9. faults' \in Nat
      BY <1>13, FaultsType DEF GetFails
    <2> QED
      BY <1>13, <2>1, <2>9 DEF GetFails, CacheTypes
  <1> QED
    BY <1>1, <1>2, <1>3, <1>4, <1>5, <1>6, <1>7, <1>8, <1>9, <1>10, <1>11, <1>12, <1>13

LEMMA LoadStepTypes ==
    ASSUME CacheTypes, OpsEquipped, LoadsVerified, RecordGap, NEW c \in Clients,
           \/ Begin(c) \/ Clear(c) \/ Cleared(c) \/ Classify(c) \/ Discarded(c)
           \/ TransportFails(c) \/ TransportAnswers(c) \/ Stored(c) \/ Crash(c)
    PROVE  CacheTypes'
  <1> gap' \in [Clients -> BOOLEAN]
    BY GapType
  <1> op[c] \in Ops /\ op[c].entry \in Entries \cup {None} /\ load[c] \in Loads
    BY DEF CacheTypes, Ops
  <1> USE CacheAssumption
  <1>1. CASE Begin(c)
    <2>1. op' \in [Clients -> Ops] /\ load' \in [Clients -> Loads]
      BY <1>1, OpChanges, LoadChanges, ClientStep, LoadStep DEF Begin
    <2> QED
      BY <1>1, <2>1 DEF Begin, CacheTypes
  <1>2. CASE Clear(c)
    <2>1. op' \in [Clients -> Ops] /\ load' \in [Clients -> Loads]
      BY <1>2, OpChanges, LoadChanges, ClientStep, LoadStep DEF Clear
    <2> QED
      BY <1>2, <2>1 DEF Clear, CacheTypes
  <1>3. CASE Cleared(c)
    <2>1. op' \in [Clients -> Ops] /\ load' \in [Clients -> Loads]
      BY <1>3, OpChanges, LoadChanges, ClientStep, LoadStep DEF Cleared
    <2> QED
      BY <1>3, <2>1 DEF Cleared, CacheTypes
  <1>4. CASE Classify(c)
    <2>1. op' \in [Clients -> Ops]
      BY <1>4, OpChanges, ClientStep DEF Classify
    <2>2. PICK fresh \in BOOLEAN :
              fresh = (op[c].entry # None /\ Fresh(op[c].entry, clock, load[c].request.ttl))
      OBVIOUS
    <2>3. op[c].entry # None => op[c].entry.body \in Bodies
      BY DEF Entries
    <2>4. op[c].entry # None => Answer(load[c], op[c].entry.body, TRUE, ~fresh) \in Loads
      BY <2>3, LoadChanges
    <2>5. load' \in [Clients -> Loads]
      BY <1>4, <2>2, <2>4, LoadChanges, LoadStep DEF Classify
    <2> QED
      BY <1>4, <2>1, <2>5 DEF Classify, CacheTypes
  <1>5. CASE Discarded(c)
    <2>1. op' \in [Clients -> Ops] /\ load' \in [Clients -> Loads]
      BY <1>5, OpChanges, LoadChanges, ClientStep, LoadStep DEF Discarded
    <2> QED
      BY <1>5, <2>1 DEF Discarded, CacheTypes
  <1>6. CASE TransportFails(c)
    <2> DEFINE l == [load[c] EXCEPT !.fault = TRUE]
    <2>1. l \in Loads
      BY LoadChanges
    <2>2. l.entry # None => l.entry.body \in Bodies
      BY <2>1 DEF Loads, Entries
    <2> HIDE DEF l
    <2>3. Failed(l) \in Loads /\ (l.entry # None => Answer(l, l.entry.body, TRUE, TRUE) \in Loads)
      BY <2>1, <2>2, LoadChanges
    <2>4. load' \in [Clients -> Loads]
      BY <1>6, <2>3, LoadStep DEF TransportFails, l
    <2> QED
      BY <1>6, <2>4 DEF TransportFails, CacheTypes
  <1>7. CASE TransportAnswers(c)
    <2>1. op' \in [Clients -> Ops]
      BY <1>7, OpChanges, ClientStep DEF TransportAnswers, CacheTypes
    <2>2. load' \in [Clients -> Loads]
      BY <1>7, LoadChanges, LoadStep DEF TransportAnswers
    <2> QED
      BY <1>7, <2>1, <2>2 DEF TransportAnswers, CacheTypes
  <1>8. CASE Stored(c)
    <2>1. load[c].body \in Bodies
      BY <1>8 DEF Stored, LoadsVerified
    <2>2. Answer(load[c], load[c].body, FALSE, FALSE) \in Loads
      BY <2>1, LoadChanges
    <2>3. op' \in [Clients -> Ops] /\ load' \in [Clients -> Loads]
      BY <1>8, <2>2, OpChanges, ClientStep, LoadStep DEF Stored
    <2> QED
      BY <1>8, <2>3 DEF Stored, CacheTypes
  <1>9. CASE Crash(c)
    <2>1. op' \in [Clients -> Ops] /\ load' \in [Clients -> Loads]
      BY <1>9, OpChanges, LoadChanges, ClientStep, LoadStep DEF Crash, CacheCrash
    <2>2. faults' \in Nat
      BY <1>9, FaultsType DEF Crash, CacheCrash
    <2> QED
      BY <1>9, <2>1, <2>2 DEF Crash, CacheCrash, CacheTypes
  <1> QED
    BY <1>1, <1>2, <1>3, <1>4, <1>5, <1>6, <1>7, <1>8, <1>9

LEMMA TickTypes == ASSUME CacheTypes, Tick, RecordGap PROVE CacheTypes'
  <1>1. clock' \in 0..MaxTime
    BY CacheAssumption DEF Tick, CacheTick, CacheTypes
  <1> QED
    BY <1>1, GapType DEF Tick, CacheTick, CacheTypes

LEMMA PowerLossTypes == ASSUME CacheTypes, PowerLoss, RecordGap PROVE CacheTypes'
  <1>1. op' \in [Clients -> Ops] /\ load' \in [Clients -> Loads] /\ faults' \in Nat
    BY OpChanges, LoadChanges, FaultsType DEF PowerLoss, CachePowerLoss
  <1> QED
    BY <1>1, GapType DEF PowerLoss, CachePowerLoss, CacheTypes

-----------------------------------------------------------------------------
\* The file cache: what was published, who owns which file, and what a reader
\* finds.

CacheInv == OpsEquipped /\ EntriesPublished /\ FilesOwned /\ ReadersSeamless

\* A get for which no gap is recorded saw a complete entry before and after
\* the step.
LEMMA NoGap ==
    ASSUME RecordGap, NEW c \in Clients, op'[c].pc \in Getting, ~gap'[c]
    PROVE  ~gap[c] /\ Complete /\ Complete'
  BY DEF RecordGap, Getting

\* A step that changes no file and leaves no get or unpublished generation
\* behind.
LEMMA QuietStep ==
    ASSUME CacheTypes, CacheInv, RecordGap, NEW c \in Clients, NEW o \in Ops, Sets(c, o),
           o.pc \notin Owning \cup {"content", "got"},
           o.pc = "write" => o.entry \in Entries,
           UNCHANGED <<json, data, puts, stored>>
    PROVE  CacheInv'
  <1>1. op'[c] = o /\ \A d \in Clients : d # c => op'[d] = op[d]
    BY ClientStep
  <1>2. OpsEquipped'
    BY <1>1 DEF CacheInv, OpsEquipped, Owning
  <1>3. EntriesPublished'
    BY <1>1 DEF CacheInv, EntriesPublished
  <1>4. FilesOwned'
    BY <1>1 DEF CacheInv, FilesOwned
  <1>5. ReadersSeamless'
    <2> SUFFICES ASSUME NEW d \in Clients, op'[d].pc \in {"content", "got"}, ~gap'[d]
                 PROVE  ReadersSeamless!(d)'
      BY DEF ReadersSeamless
    <2>1. d # c /\ op'[d] = op[d] /\ ~gap[d]
      BY <1>1, NoGap DEF Getting
    <2> QED
      BY <2>1 DEF CacheInv, ReadersSeamless
  <1> QED
    BY <1>2, <1>3, <1>4, <1>5 DEF CacheInv

\* A step that changes neither operations nor files.
LEMMA IdleStep ==
    ASSUME CacheTypes, CacheInv, RecordGap, UNCHANGED <<op, json, data, puts, stored>>
    PROVE  CacheInv'
  <1>1. OpsEquipped' /\ EntriesPublished' /\ FilesOwned'
    BY DEF CacheInv, OpsEquipped, EntriesPublished, FilesOwned
  <1>2. ReadersSeamless'
    <2> SUFFICES ASSUME NEW d \in Clients, op'[d].pc \in {"content", "got"}, ~gap'[d]
                 PROVE  ReadersSeamless!(d)'
      BY DEF ReadersSeamless
    <2>1. ~gap[d]
      BY NoGap DEF Getting
    <2> QED
      BY <2>1 DEF CacheInv, ReadersSeamless
  <1> QED
    BY <1>1, <1>2 DEF CacheInv

\* Files stay owned when no put acquires one and every name that appears was
\* in the metadata before.
LEMMA OwnedStep ==
    ASSUME FilesOwned, UNCHANGED <<json, puts>>,
           \A d \in Clients : op'[d].pc \in Owning =>
               op[d].pc \in Owning /\ op'[d].file = op[d].file,
           \A d \in Clients : op'[d].pc = "content" =>
               \/ op[d].pc = "content" /\ op'[d].parsed = op[d].parsed
               \/ json # None /\ op'[d].parsed = json
    PROVE  FilesOwned'
  <1>1. \A d \in Clients : op'[d].pc = "content" => op'[d].parsed.file <= puts
    BY DEF FilesOwned
  <1>2. ASSUME NEW a \in Clients, op'[a].pc \in Owning, NEW d \in Clients
        PROVE  /\ json # None => json.file # op'[a].file
               /\ op'[d].pc = "content" => op'[d].parsed.file # op'[a].file
               /\ op'[d].pc \in Owning /\ d # a => op'[d].file # op'[a].file
    <2>1. op[a].pc \in Owning /\ op'[a].file = op[a].file
      BY <1>2
    <2> HIDE DEF Owning
    <2> QED
      BY <1>2, <2>1 DEF FilesOwned
  <1> QED
    BY <1>1, <1>2 DEF FilesOwned

LEMMA GetMetadataInv ==
    ASSUME CacheTypes, CacheInv, RecordGap, NEW c \in Clients, GetMetadata(c)
    PROVE  CacheInv'
  <1> USE CacheAssumption
  <1> op[c] \in Ops
    BY DEF CacheTypes
  <1>1. CASE json = None
    <2>1. Sets(c, Got(None, None)) /\ UNCHANGED <<json, data, puts, stored>>
      BY <1>1 DEF GetMetadata
    <2>2. op'[c] = Got(None, None) /\ \A d \in Clients : d # c => op'[d] = op[d]
      BY <2>1, OpChanges, ClientStep
    <2>3. op'[c].pc = "got" /\ op'[c].entry = None
      BY <2>2 DEF Got, NoOp
    <2>4. OpsEquipped' /\ EntriesPublished'
      BY <2>1, <2>2, <2>3 DEF CacheInv, OpsEquipped, EntriesPublished, Owning
    <2>5. FilesOwned'
      BY <2>1, <2>2, <2>3, OwnedStep DEF CacheInv, Owning
    <2>6. ReadersSeamless'
      <3> SUFFICES ASSUME NEW d \in Clients, op'[d].pc \in {"content", "got"}, ~gap'[d]
                   PROVE  ReadersSeamless!(d)'
        BY DEF ReadersSeamless
      <3>1. ~gap[d] /\ Complete
        BY NoGap DEF Getting
      <3>2. FALSE
        BY <1>1, <3>1 DEF Complete
      <3> QED
        BY <3>2
    <2> QED
      BY <2>4, <2>6, <2>5 DEF CacheInv
  <1>2. CASE json # None
    <2>1. Sets(c, [op[c] EXCEPT !.pc = "content", !.parsed = json])
          /\ UNCHANGED <<json, data, puts, stored>>
      BY <1>2 DEF GetMetadata
    <2>2. json \in Parsed
      BY <1>2 DEF CacheTypes
    <2>3. op'[c] = [op[c] EXCEPT !.pc = "content", !.parsed = json]
          /\ \A d \in Clients : d # c => op'[d] = op[d]
      BY <2>1, <2>2, OpChanges, ClientStep
    <2>4. op'[c].pc = "content" /\ op'[c].parsed = json
      BY <2>3 DEF Ops
    <2>5. OpsEquipped'
      BY <2>1, <2>2, <2>3, <2>4 DEF CacheInv, OpsEquipped, Owning
    <2>6. EntriesPublished'
      BY <1>2, <2>1, <2>3, <2>4 DEF CacheInv, EntriesPublished
    <2>7. FilesOwned'
      BY <1>2, <2>1, <2>3, <2>4, OwnedStep DEF CacheInv, Owning
    <2>8. ReadersSeamless'
      <3> SUFFICES ASSUME NEW d \in Clients, op'[d].pc \in {"content", "got"}, ~gap'[d]
                   PROVE  ReadersSeamless!(d)'
        BY DEF ReadersSeamless
      <3>1. ~gap[d] /\ Complete
        BY NoGap DEF Getting
      <3>2. CASE d = c
        BY <2>1, <2>4, <3>1, <3>2 DEF Complete
      <3>3. CASE d # c
        BY <2>1, <2>3, <3>1, <3>3 DEF CacheInv, ReadersSeamless
      <3> QED
        BY <3>2, <3>3
    <2> QED
      BY <2>5, <2>6, <2>7, <2>8 DEF CacheInv
  <1> QED
    BY <1>1, <1>2

LEMMA GetContentInv ==
    ASSUME CacheTypes, CacheInv, RecordGap, NEW c \in Clients, GetContent(c)
    PROVE  CacheInv'
  <1> USE CacheAssumption
  <1>1. PICK e \in Entries \cup {None} :
            /\ Sets(c, Got(op[c].parsed, e))
            /\ e # None => e \in stored
            /\ e = None => data[op[c].parsed.file] # op[c].parsed.body
    <2>1. op[c].parsed \in Parsed /\ EntryOf(op[c].parsed) \in stored
      BY DEF GetContent, CacheInv, OpsEquipped, EntriesPublished
    <2>2. EntryOf(op[c].parsed) \in Entries /\ EntryOf(op[c].parsed) # None
      BY <2>1, EntriesAssumption DEF Parsed, Entries, EntryOf
    <2>3. CASE data[op[c].parsed.file] = op[c].parsed.body
      BY <2>1, <2>2, <2>3 DEF GetContent
    <2>4. CASE data[op[c].parsed.file] # op[c].parsed.body
      BY <2>4 DEF GetContent
    <2> QED
      BY <2>3, <2>4
  <1>2. UNCHANGED <<json, data, puts, stored>> /\ op[c].pc = "content" /\ op[c].parsed \in Parsed
    BY DEF GetContent, CacheInv, OpsEquipped
  <1>3. op'[c] = Got(op[c].parsed, e) /\ \A d \in Clients : d # c => op'[d] = op[d]
    BY <1>1, <1>2, OpChanges, ClientStep
  <1>4. op'[c].pc = "got" /\ op'[c].entry = e /\ op'[c].parsed = op[c].parsed
    BY <1>3 DEF Got, NoOp
  <1>5. OpsEquipped' /\ EntriesPublished'
    BY <1>1, <1>2, <1>3, <1>4 DEF CacheInv, OpsEquipped, EntriesPublished, Owning
  <1>6. FilesOwned'
    BY <1>2, <1>3, <1>4, OwnedStep DEF CacheInv, Owning
  <1>7. ReadersSeamless'
    <2> SUFFICES ASSUME NEW d \in Clients, op'[d].pc \in {"content", "got"}, ~gap'[d]
                 PROVE  ReadersSeamless!(d)'
      BY DEF ReadersSeamless
    <2>1. ~gap[d]
      BY NoGap DEF Getting
    <2>2. CASE d = c
      BY <1>1, <1>2, <1>4, <2>1, <2>2 DEF CacheInv, ReadersSeamless
    <2>3. CASE d # c
      BY <1>2, <1>3, <2>1, <2>3 DEF CacheInv, ReadersSeamless
    <2> QED
      BY <2>2, <2>3
  <1> QED
    BY <1>5, <1>7, <1>6 DEF CacheInv

LEMMA GetFailsInv ==
    ASSUME CacheTypes, CacheInv, RecordGap, NEW c \in Clients, GetFails(c)
    PROVE  CacheInv'
  <1>1. PICK o \in Ops : Sets(c, o) /\ o.pc = "got" /\ o.entry = None /\ ~o.ok
    BY OpChanges DEF GetFails, Got, NoOp
  <1>2. UNCHANGED <<json, data, puts, stored>>
    BY DEF GetFails
  <1>3. op'[c] = o /\ \A d \in Clients : d # c => op'[d] = op[d]
    BY <1>1, ClientStep
  <1>4. OpsEquipped' /\ EntriesPublished'
    BY <1>1, <1>2, <1>3 DEF CacheInv, OpsEquipped, EntriesPublished, Owning
  <1>5. FilesOwned'
    BY <1>1, <1>2, <1>3, OwnedStep DEF CacheInv, Owning
  <1>6. ReadersSeamless'
    <2> SUFFICES ASSUME NEW d \in Clients, op'[d].pc \in {"content", "got"}, ~gap'[d]
                 PROVE  ReadersSeamless!(d)'
      BY DEF ReadersSeamless
    <2>1. ~gap[d]
      BY NoGap DEF Getting
    <2>2. CASE d = c
      BY <1>1, <1>3, <2>2
    <2>3. CASE d # c
      BY <1>2, <1>3, <2>1, <2>3 DEF CacheInv, ReadersSeamless
    <2> QED
      BY <2>2, <2>3
  <1> QED
    BY <1>4, <1>5, <1>6 DEF CacheInv

\* Readers are served as before when the generations they go for are left alone.
LEMMA ReadersStep ==
    ASSUME ReadersSeamless, RecordGap,
           \A d \in Clients : op'[d].pc \in {"content", "got"} => op'[d] = op[d],
           \A d \in Clients :
               op[d].pc = "content" /\ ~gap'[d] /\ op[d].parsed.file # Legacy
                   => data'[op[d].parsed.file] = data[op[d].parsed.file]
    PROVE  ReadersSeamless'
  <1> SUFFICES ASSUME NEW d \in Clients, op'[d].pc \in {"content", "got"}, ~gap'[d]
               PROVE  ReadersSeamless!(d)'
    BY DEF ReadersSeamless
  <1>1. op'[d] = op[d] /\ ~gap[d]
    BY NoGap DEF Getting
  <1> QED
    BY <1>1 DEF ReadersSeamless

LEMMA PutTemporariesInv ==
    ASSUME CacheTypes, CacheInv, RecordGap, NEW c \in Clients, PutTemporaries(c)
    PROVE  CacheInv'
  <1> USE CacheAssumption
  <1> op[c] \in Ops
    BY DEF CacheTypes
  <1>1. CASE Sets(c, PutDone(FALSE)) /\ UNCHANGED puts
    <2>1. PutDone(FALSE).pc = "put"
      BY DEF PutDone, NoOp
    <2> QED
      BY <1>1, <2>1, OpChanges, QuietStep DEF PutTemporaries, Owning
  <1>2. CASE /\ puts < MaxPuts /\ puts' = puts + 1
             /\ Sets(c, [op[c] EXCEPT !.pc = "content name", !.file = puts + 1])
    <2> UNCHANGED <<json, data, stored>> /\ op[c].pc = "write"
      BY DEF PutTemporaries
    <2>1. puts \in Nat /\ puts' = puts + 1 /\ puts + 1 \in ContentFiles
      BY <1>2 DEF CacheTypes, ContentFiles, Generations
    <2>2. op'[c] = [op[c] EXCEPT !.pc = "content name", !.file = puts + 1]
          /\ \A d \in Clients : d # c => op'[d] = op[d]
      BY <1>2, <2>1, OpChanges, ClientStep
    <2>3. op'[c].pc = "content name" /\ op'[c].file = puts + 1 /\ op'[c].entry = op[c].entry
      BY <2>2 DEF Ops
    <2>4. /\ \A k \in 1..puts : k \in 1..puts' /\ k # puts'
          /\ \A k \in Nat : k <= puts => k <= puts' /\ k # puts'
          /\ puts' \in 1..puts' /\ op'[c].file = puts'
      <3>1. \A k \in 1..puts : k \in 1..puts' /\ k # puts'
        BY <2>1
      <3>2. \A k \in Nat : k <= puts => k <= puts' /\ k # puts'
        BY <2>1
      <3>3. puts' \in 1..puts'
        BY <2>1
      <3> QED
        BY <2>1, <2>3, <3>1, <3>2, <3>3
    <2>5. OpsEquipped'
      BY <2>2, <2>3, <2>4 DEF CacheInv, OpsEquipped, Owning
    <2>6. EntriesPublished'
      BY <2>2, <2>3 DEF CacheInv, EntriesPublished
    <2>7. FilesOwned'
      <3>1. json # None => json.file \in Nat /\ json.file <= puts
        BY DEF CacheInv, FilesOwned, CacheTypes, Parsed, ContentFiles, Legacy, Generations
      <3>2. \A d \in Clients : op[d].pc = "content" =>
                op[d].parsed.file \in Nat /\ op[d].parsed.file <= puts
        BY DEF CacheInv, OpsEquipped, FilesOwned, Parsed, ContentFiles, Legacy, Generations
      <3>3. \A d \in Clients : op[d].pc \in Owning => op[d].file \in 1..puts
        BY DEF CacheInv, OpsEquipped
      <3>4. /\ json' # None => json'.file <= puts'
            /\ \A d \in Clients : op'[d].pc = "content" => op'[d].parsed.file <= puts'
        BY <2>2, <2>3, <2>4, <3>1, <3>2
      <3>5. ASSUME NEW a \in Clients, op'[a].pc \in Owning, NEW d \in Clients
            PROVE  /\ json' # None => json'.file # op'[a].file
                   /\ op'[d].pc = "content" => op'[d].parsed.file # op'[a].file
                   /\ op'[d].pc \in Owning /\ d # a => op'[d].file # op'[a].file
        <4>1. CASE a = c
          BY <2>2, <2>3, <2>4, <3>1, <3>2, <3>3, <4>1
        <4>2. CASE a # c
          <5>1. op'[a] = op[a] /\ op[a].file \in 1..puts /\ op[a].pc \in Owning
            BY <2>2, <3>3, <3>5, <4>2
          <5>2. json' # None => json'.file # op'[a].file
            BY <5>1 DEF CacheInv, FilesOwned
          <5>3. CASE d = c
            BY <2>3, <2>4, <5>1, <5>2, <5>3
          <5>4. CASE d # c
            BY <2>2, <5>1, <5>2, <5>4 DEF CacheInv, FilesOwned
          <5> QED
            BY <5>3, <5>4
        <4> QED
          BY <4>1, <4>2
      <3> QED
        BY <3>4, <3>5 DEF FilesOwned
    <2>8. ReadersSeamless'
      BY <2>2, <2>3, ReadersStep DEF CacheInv
    <2> QED
      BY <2>5, <2>6, <2>7, <2>8 DEF CacheInv
  <1> QED
    BY <1>1, <1>2 DEF PutTemporaries

\* A put at its place owns its file: it is no reader's, and not the legacy one.
LEMMA OwnFile ==
    ASSUME CacheTypes, CacheInv, NEW c \in Clients, op[c].pc \in Owning
    PROVE  /\ op[c].file \in ContentFiles /\ op[c].file # Legacy
           /\ \A d \in Clients : op[d].pc = "content" => op[d].parsed.file # op[c].file
  <1>1. op[c].file \in 1..puts
    BY DEF CacheInv, OpsEquipped
  <1> QED
    BY <1>1 DEF CacheTypes, Ops, Legacy, CacheInv, FilesOwned

\* A put of c goes on with its generation, and no file but that one changes.
LEMMA PutGoesOn ==
    ASSUME CacheTypes, CacheInv, RecordGap, NEW c \in Clients, NEW o \in Ops, Sets(c, o),
           op[c].pc \in Owning, o.pc \in Owning \cup {"put"},
           o.pc \in Owning => o.file = op[c].file /\ o.entry = op[c].entry,
           UNCHANGED <<puts, stored>>, json' \in {json, None},
           \A f \in ContentFiles : f # op[c].file => data'[f] = data[f]
    PROVE  CacheInv'
  <1>1. op'[c] = o /\ \A d \in Clients : d # c => op'[d] = op[d]
    BY ClientStep
  <1>2. OpsEquipped'
    BY <1>1 DEF CacheInv, OpsEquipped, Owning
  <1>3. EntriesPublished'
    BY <1>1 DEF CacheInv, EntriesPublished, Owning
  <1>4. FilesOwned'
    <2>1. \A d \in Clients : op'[d].pc = "content" => op'[d] = op[d]
      BY <1>1 DEF Owning
    <2>2. \A d \in Clients : op'[d].pc \in Owning => op[d].pc \in Owning /\ op'[d].file = op[d].file
      BY <1>1 DEF Owning
    <2>3. /\ json' # None => json'.file <= puts'
          /\ \A d \in Clients : op'[d].pc = "content" => op'[d].parsed.file <= puts'
      BY <2>1 DEF CacheInv, FilesOwned
    <2>4. ASSUME NEW a \in Clients, op'[a].pc \in Owning, NEW d \in Clients
          PROVE  /\ json' # None => json'.file # op'[a].file
                 /\ op'[d].pc = "content" => op'[d].parsed.file # op'[a].file
                 /\ op'[d].pc \in Owning /\ d # a => op'[d].file # op'[a].file
      <3>1. op[a].pc \in Owning /\ op'[a].file = op[a].file
        BY <2>2, <2>4
      <3> QED
        BY <2>1, <2>2, <3>1 DEF CacheInv, FilesOwned
    <2> QED
      BY <2>3, <2>4 DEF FilesOwned
  <1>5. ReadersSeamless'
    <2>1. \A d \in Clients : op'[d].pc \in {"content", "got"} => op'[d] = op[d]
      BY <1>1 DEF Owning
    <2>2. \A d \in Clients : op[d].pc = "content" => /\ op[d].parsed.file \in ContentFiles
                                                    /\ op[d].parsed.file # op[c].file
      BY OwnFile DEF CacheInv, OpsEquipped, Parsed
    <2> QED
      BY <2>1, <2>2, ReadersStep DEF CacheInv
  <1> QED
    BY <1>2, <1>3, <1>4, <1>5 DEF CacheInv

LEMMA PutContentInv ==
    ASSUME CacheTypes, CacheInv, RecordGap, NEW c \in Clients, PutContent(c)
    PROVE  CacheInv'
  <1> op[c] \in Ops /\ op[c].pc \in Owning /\ op[c].file \in ContentFiles
    BY DEF CacheTypes, PutContent, Owning, Ops
  <1> UNCHANGED <<json, puts, stored>>
    BY DEF PutContent
  <1>1. CASE Sets(c, PutDone(FALSE)) /\ UNCHANGED data
    <2>1. PutDone(FALSE).pc = "put"
      BY DEF PutDone, NoOp
    <2> QED
      BY <1>1, <2>1, OpChanges, PutGoesOn DEF Owning
  <1>2. CASE /\ data' = [data EXCEPT ![op[c].file] = op[c].entry.body]
             /\ Sets(c, [op[c] EXCEPT !.pc = "publish"])
    <2>1. PICK o \in Ops : o = [op[c] EXCEPT !.pc = "publish"]
      BY OpChanges DEF OpPcs
    <2>2. o.pc = "publish" /\ o.file = op[c].file /\ o.entry = op[c].entry
      BY <2>1 DEF Ops
    <2>3. \A f \in ContentFiles : f # op[c].file => data'[f] = data[f]
      BY <1>2 DEF CacheTypes
    <2> QED
      BY <1>2, <2>1, <2>2, <2>3, PutGoesOn DEF Owning
  <1> QED
    BY <1>1, <1>2 DEF PutContent

LEMMA PutUnblockInv ==
    ASSUME CacheTypes, CacheInv, RecordGap, NEW c \in Clients, PutUnblock(c)
    PROVE  CacheInv'
  <1> op[c] \in Ops /\ op[c].pc \in Owning
    BY DEF CacheTypes, PutUnblock, Owning
  <1> UNCHANGED <<data, puts, stored>> /\ json' \in {json, None}
    BY DEF PutUnblock
  <1>1. PICK o \in Ops : /\ Sets(c, o)
                         /\ \/ o = [op[c] EXCEPT !.pc = "undo"]
                            \/ o = [op[c] EXCEPT !.pc = "publish", !.attempt = @ + 1]
    BY OpChanges DEF PutUnblock, OpPcs
  <1>2. o.pc \in {"undo", "publish"} /\ o.file = op[c].file /\ o.entry = op[c].entry
    BY <1>1 DEF Ops
  <1> QED
    BY <1>1, <1>2, PutGoesOn DEF Owning

LEMMA PutUndoInv ==
    ASSUME CacheTypes, CacheInv, RecordGap, NEW c \in Clients, PutUndo(c)
    PROVE  CacheInv'
  <1> op[c].pc \in Owning /\ op[c].file \in ContentFiles
    BY DEF CacheTypes, PutUndo, Owning, Ops
  <1> UNCHANGED <<json, puts, stored>>
    BY DEF PutUndo
  <1>1. \A f \in ContentFiles : f # op[c].file => data'[f] = data[f]
    BY DEF PutUndo, CacheTypes
  <1>2. PutDone(FALSE).pc = "put"
    BY DEF PutDone, NoOp
  <1> QED
    BY <1>1, <1>2, OpChanges, PutGoesOn DEF PutUndo, Owning

LEMMA PutMetadataInv ==
    ASSUME CacheTypes, CacheInv, RecordGap, NEW c \in Clients, PutMetadata(c)
    PROVE  CacheInv'
  <1> op[c] \in Ops /\ op[c].pc \in Owning /\ op[c].entry \in Entries
    BY DEF CacheTypes, CacheInv, OpsEquipped, PutMetadata, Owning
  <1> UNCHANGED <<data, puts>>
    BY DEF PutMetadata
  <1>1. CASE /\ UNCHANGED <<json, stored>>
             /\ \/ Sets(c, [op[c] EXCEPT !.pc = "unblock"])
                \/ Sets(c, [op[c] EXCEPT !.pc = "undo"])
    <2>1. PICK o \in Ops : /\ Sets(c, o)
                           /\ \/ o = [op[c] EXCEPT !.pc = "unblock"]
                              \/ o = [op[c] EXCEPT !.pc = "undo"]
      BY <1>1, OpChanges DEF OpPcs
    <2>2. o.pc \in {"undo", "unblock"} /\ o.file = op[c].file /\ o.entry = op[c].entry
      BY <2>1 DEF Ops
    <2> QED
      BY <1>1, <2>1, <2>2, PutGoesOn DEF Owning
  <1>2. CASE /\ json' = [file |-> op[c].file, body |-> op[c].entry.body,
                         storedAt |-> op[c].entry.storedAt]
             /\ stored' = stored \cup {op[c].entry}
             /\ Sets(c, [op[c] EXCEPT !.pc = "clean"])
    <2>1. op'[c] = [op[c] EXCEPT !.pc = "clean"] /\ \A d \in Clients : d # c => op'[d] = op[d]
      BY <1>2, OpChanges, ClientStep DEF OpPcs
    <2>2. op'[c].pc = "clean"
      BY <2>1 DEF Ops
    <2>3. OpsEquipped'
      BY <2>1, <2>2 DEF CacheInv, OpsEquipped, Owning
    <2>4. EntriesPublished'
      <3>1. EntryOf(json') = op[c].entry
        BY <1>2 DEF EntryOf, Entries
      <3> QED
        BY <1>2, <2>1, <2>2, <3>1 DEF CacheInv, EntriesPublished, EntryOf
    <2>5. FilesOwned'
      <3>1. json'.file = op[c].file /\ op[c].file \in 1..puts
        BY <1>2 DEF CacheInv, OpsEquipped
      <3>2. \A d \in Clients : op'[d].pc \in Owning \cup {"content"} => d # c /\ op'[d] = op[d]
        BY <2>1, <2>2 DEF Owning
      <3>3. puts \in Nat
        BY CacheAssumption DEF CacheTypes
      <3>4. /\ json'.file <= puts'
            /\ \A d \in Clients : op'[d].pc = "content" => op'[d].parsed.file <= puts'
        BY <3>1, <3>2, <3>3 DEF CacheInv, FilesOwned
      <3>5. ASSUME NEW a \in Clients, op'[a].pc \in Owning, NEW d \in Clients
            PROVE  /\ json'.file # op'[a].file
                   /\ op'[d].pc = "content" => op'[d].parsed.file # op'[a].file
                   /\ op'[d].pc \in Owning /\ d # a => op'[d].file # op'[a].file
        <4>1. a # c /\ op'[a] = op[a]
          BY <3>2, <3>5
        <4> QED
          BY <3>1, <3>2, <3>5, <4>1 DEF CacheInv, FilesOwned
      <3> QED
        BY <3>4, <3>5 DEF FilesOwned
    <2>6. ReadersSeamless'
      BY <2>1, <2>2, ReadersStep DEF CacheInv
    <2> QED
      BY <2>3, <2>4, <2>5, <2>6 DEF CacheInv
  <1> QED
    BY <1>1, <1>2 DEF PutMetadata

LEMMA PutCleanInv ==
    ASSUME CacheTypes, CacheInv, RecordGap, NEW c \in Clients, PutClean(c)
    PROVE  CacheInv'
  <1>1. PICK ok \in BOOLEAN : Sets(c, PutDone(ok))
    BY DEF PutClean
  <1>2. op'[c] = PutDone(ok) /\ \A d \in Clients : d # c => op'[d] = op[d]
    BY <1>1, OpChanges, ClientStep
  <1>3. op'[c].pc = "put"
    BY <1>2 DEF PutDone, NoOp
  <1> UNCHANGED <<json, puts, stored>>
    BY DEF PutClean
  <1>4. OpsEquipped' /\ EntriesPublished'
    BY <1>2, <1>3 DEF CacheInv, OpsEquipped, EntriesPublished, Owning
  <1>5. FilesOwned'
    BY <1>2, <1>3, OwnedStep DEF CacheInv, Owning
  <1>6. \A f \in ContentFiles : f # Legacy => data'[f] = data[f]
    BY DEF PutClean, CacheTypes
  <1>7. ReadersSeamless'
    <2>1. \A d \in Clients : op[d].pc = "content" => op[d].parsed.file \in ContentFiles
      BY DEF CacheInv, OpsEquipped, Parsed
    <2> QED
      BY <1>2, <1>3, <1>6, <2>1, ReadersStep DEF CacheInv
  <1> QED
    BY <1>4, <1>5, <1>7 DEF CacheInv

\* What is removed is missed by no reader without a gap.
LEMMA RemoveInv ==
    ASSUME CacheTypes, CacheInv, RecordGap, NEW c \in Clients, Remove(c)
    PROVE  CacheInv'
  <1> UNCHANGED <<op, puts, stored>> /\ json' \in {json, None} /\ removals[c] # {}
    BY DEF Remove
  <1>1. ~Complete
    BY DEF Complete
  <1>2. OpsEquipped' /\ EntriesPublished'
    BY DEF CacheInv, OpsEquipped, EntriesPublished
  <1>3. FilesOwned'
    BY DEF CacheInv, FilesOwned
  <1>4. ReadersSeamless'
    <2> SUFFICES ASSUME NEW d \in Clients, op'[d].pc \in {"content", "got"}, ~gap'[d]
                 PROVE  FALSE
      BY DEF ReadersSeamless
    <2> QED
      BY <1>1, NoGap DEF Getting
  <1> QED
    BY <1>2, <1>3, <1>4 DEF CacheInv

LEMMA PowerLossInv ==
    ASSUME CacheTypes, CacheInv, RecordGap, PowerLoss
    PROVE  CacheInv'
  <1>1. \A d \in Clients : op'[d].pc = "none"
    BY DEF PowerLoss, CachePowerLoss, NoOp
  <1> UNCHANGED <<json, puts, stored>>
    BY DEF PowerLoss, CachePowerLoss
  <1> QED
    BY <1>1 DEF CacheInv, OpsEquipped, EntriesPublished, FilesOwned, ReadersSeamless, Owning

LEMMA CacheStepInv ==
    ASSUME CacheTypes, CacheInv, InCache, NEW c \in Clients,
           \/ GetMetadata(c) \/ GetContent(c) \/ GetFails(c)
           \/ PutTemporaries(c) \/ PutContent(c)
           \/ PutMetadata(c) \/ PutUnblock(c) \/ PutUndo(c) \/ PutClean(c)
           \/ DeleteLookup(c) \/ ClearLookup(c) \/ Remove(c) \/ RemovalsDone(c)
    PROVE  CacheInv'
  <1> RecordGap /\ op[c] \in Ops
    BY DEF InCache, CacheTypes
  <1>1. CASE DeleteLookup(c) \/ ClearLookup(c)
    <2>1. PICK o \in Ops : Sets(c, o) /\ o = [op[c] EXCEPT !.pc = "removing"]
      BY <1>1, OpChanges DEF DeleteLookup, ClearLookup, OpPcs
    <2>2. o.pc = "removing"
      BY <2>1 DEF Ops
    <2> QED
      BY <1>1, <2>1, <2>2, QuietStep DEF DeleteLookup, ClearLookup, Owning
  <1>2. CASE RemovalsDone(c)
    <2>1. PICK ok \in BOOLEAN : Sets(c, Deleted(ok))
      BY <1>2 DEF RemovalsDone
    <2>2. Deleted(ok) \in Ops /\ Deleted(ok).pc = "deleted"
      BY OpChanges DEF Deleted, NoOp
    <2> QED
      BY <1>2, <2>1, <2>2, QuietStep DEF RemovalsDone, Owning
  <1> QED
    BY <1>1, <1>2, GetMetadataInv, GetContentInv, GetFailsInv, PutTemporariesInv, PutContentInv,
       PutMetadataInv, PutUnblockInv, PutUndoInv, PutCleanInv, RemoveInv

LEMMA LoadStepInv ==
    ASSUME CacheTypes, CacheInv, RecordGap, NEW c \in Clients,
           \/ Begin(c) \/ Clear(c) \/ Cleared(c) \/ Classify(c) \/ Discarded(c)
           \/ TransportFails(c) \/ TransportAnswers(c) \/ Stored(c) \/ Crash(c)
    PROVE  CacheInv'
  <1> UNCHANGED <<json, data, puts, stored>>
    BY DEF Begin, Clear, Cleared, Classify, Discarded, TransportFails, TransportAnswers,
           Stored, Crash, CacheCrash
  <1>1. CASE UNCHANGED op
    BY <1>1, IdleStep
  <1>2. CASE \E o \in {NoOp, StartGet, StartDelete, [NoOp EXCEPT !.pc = "list"]} : Sets(c, o)
    <2>1. PICK o \in {NoOp, StartGet, StartDelete, [NoOp EXCEPT !.pc = "list"]} : Sets(c, o)
      BY <1>2
    <2>2. o \in Ops
      BY OpChanges
    <2>3. /\ NoOp.pc = "none" /\ StartGet.pc = "metadata" /\ StartDelete.pc = "lookup"
          /\ [NoOp EXCEPT !.pc = "list"].pc = "list"
      BY DEF NoOp, StartGet, StartDelete
    <2>4. o.pc \in {"none", "metadata", "lookup", "list"}
      BY <2>1, <2>3
    <2> QED
      BY <2>1, <2>2, <2>4, QuietStep DEF Owning
  <1>3. CASE \E b \in Bodies : Sets(c, StartPut(b, clock))
    <2>1. PICK b \in Bodies : Sets(c, StartPut(b, clock))
      BY <1>3
    <2>2. StartPut(b, clock) \in Ops
      BY OpChanges DEF CacheTypes
    <2>3. StartPut(b, clock).pc = "write" /\ StartPut(b, clock).entry \in Entries
      BY DEF StartPut, NoOp, CacheTypes, Entries
    <2> QED
      BY <2>1, <2>2, <2>3, QuietStep DEF Owning
  <1> QED
    BY <1>1, <1>2, <1>3
       DEF Begin, Clear, Cleared, Classify, Discarded, TransportFails, TransportAnswers,
           Stored, Crash, CacheCrash

-----------------------------------------------------------------------------
\* The loads.  All that is said about them is about one load at a time.

VerifiedLoad(l) ==
    /\ l.pc \in {"cache", "discard", "transport", "store", "done"} => l.request \in Requests
    /\ l.pc \in {"transport", "store"} => ~l.request.offline
    /\ l.pc = "store" => l.body \in Bodies /\ Matches(l.request, l.body)
    /\ l.pc = "done" /\ l.success /\ (l.stale => l.request.offline \/ l.mismatch)
           => Matches(l.request, l.body)
    /\ l.pc = "done" /\ ~l.success /\ ~l.request.offline => l.fault

LEMMA LoadsOneByOne ==
    LoadsVerified /\ UnmarkedAnswersVerified /\ CacheNeverFailsLoads
        <=> \A c \in Clients : VerifiedLoad(load[c])
  BY DEF LoadsVerified, UnmarkedAnswersVerified, CacheNeverFailsLoads, VerifiedLoad

LEMMA VerifiedStep ==
    ASSUME CacheTypes, NEW c \in Clients, NEW l \in Loads, Goes(c, l), VerifiedLoad(l),
           \A d \in Clients : VerifiedLoad(load[d])
    PROVE  \A d \in Clients : VerifiedLoad(load'[d])
  BY LoadStep

LEMMA FailedLoad ==
    ASSUME NEW l \in Loads, l.request \in Requests, l.request.offline \/ l.fault
    PROVE  Failed(l) \in Loads /\ VerifiedLoad(Failed(l))
  BY LoadChanges DEF Failed, NoLoad, VerifiedLoad

LEMMA AnsweredLoad ==
    ASSUME NEW l \in Loads, l.request \in Requests, NEW b \in Bodies,
           NEW f \in BOOLEAN, NEW s \in BOOLEAN,
           Matches(l.request, b) \/ (s /\ ~l.mismatch /\ ~l.request.offline)
    PROVE  Answer(l, b, f, s) \in Loads /\ VerifiedLoad(Answer(l, b, f, s))
  BY LoadChanges DEF Answer, NoLoad, VerifiedLoad

LEMMA LoadsStepVerified ==
    ASSUME CacheTypes, \A d \in Clients : VerifiedLoad(load[d]), NEW c \in Clients,
           \/ Begin(c) \/ Clear(c) \/ Cleared(c) \/ Classify(c) \/ Discarded(c)
           \/ TransportFails(c) \/ TransportAnswers(c) \/ Stored(c) \/ Crash(c)
    PROVE  \A d \in Clients : VerifiedLoad(load'[d])
  <1> load[c] \in Loads /\ VerifiedLoad(load[c]) /\ op[c].entry \in Entries \cup {None}
    BY DEF CacheTypes, Ops
  <1>1. CASE Begin(c)
    <2>1. PICK r \in Requests : Goes(c, [NoLoad EXCEPT !.pc = "cache", !.request = r])
      BY <1>1 DEF Begin
    <2>2. [NoLoad EXCEPT !.pc = "cache", !.request = r] \in Loads
          /\ VerifiedLoad([NoLoad EXCEPT !.pc = "cache", !.request = r])
      BY LoadChanges DEF NoLoad, VerifiedLoad
    <2> QED
      BY <2>1, <2>2, VerifiedStep
  <1>2. CASE Clear(c) \/ Cleared(c) \/ Crash(c)
    <2>1. PICK l \in {NoLoad, [NoLoad EXCEPT !.pc = "clearing"]} : Goes(c, l)
      BY <1>2 DEF Clear, Cleared, Crash
    <2>2. l \in Loads
      BY LoadChanges
    <2>3. l.pc \in {"idle", "clearing"}
      BY <2>1 DEF NoLoad
    <2>4. VerifiedLoad(l)
      BY <2>3 DEF VerifiedLoad
    <2> QED
      BY <2>1, <2>2, <2>4, VerifiedStep
  <1>3. CASE Classify(c)
    <2>1. load[c].pc = "cache" /\ load[c].request \in Requests
      BY <1>3 DEF Classify, VerifiedLoad
    <2>2. load[c].request.offline \in BOOLEAN
      BY <2>1, ResourcesAssumption
    <2> DEFINE e == op[c].entry
    <2>3. PICK fresh \in BOOLEAN : fresh = (e # None /\ Fresh(e, clock, load[c].request.ttl))
      OBVIOUS
    <2>4. PICK stale \in BOOLEAN : stale = ~fresh
      OBVIOUS
    <2>5. CASE /\ e # None /\ Matches(load[c].request, e.body)
               /\ Goes(c, Answer(load[c], e.body, TRUE, ~fresh))
      <3>1. e.body \in Bodies
        BY <2>5 DEF Entries
      <3> QED
        BY <2>1, <2>4, <2>5, <3>1, AnsweredLoad, VerifiedStep
    <2>6. CASE e # None /\ Goes(c, [load[c] EXCEPT !.pc = "discard", !.entry = e, !.mismatch = TRUE])
      <3>1. PICK l \in Loads : l = [load[c] EXCEPT !.pc = "discard", !.entry = e, !.mismatch = TRUE]
        BY <2>6, LoadChanges
      <3>2. l.pc = "discard" /\ l.request = load[c].request
        BY <3>1 DEF Loads
      <3>3. VerifiedLoad(l)
        BY <2>1, <3>2 DEF VerifiedLoad
      <3> QED
        BY <2>6, <3>1, <3>3, VerifiedStep
    <2>7. CASE Goes(c, IF load[c].request.offline THEN Failed(load[c])
                       ELSE [load[c] EXCEPT !.pc = "transport", !.entry = e])
      <3>1. CASE load[c].request.offline
        BY <2>1, <2>7, <3>1, FailedLoad, VerifiedStep
      <3>2. CASE ~load[c].request.offline
        <4>1. PICK l \in Loads : l = [load[c] EXCEPT !.pc = "transport", !.entry = e]
          BY LoadChanges
        <4>2. l.pc = "transport" /\ l.request = load[c].request
          BY <4>1 DEF Loads
        <4>3. VerifiedLoad(l)
          BY <2>1, <3>2, <4>2 DEF VerifiedLoad
        <4> QED
          BY <2>7, <3>2, <4>1, <4>3, VerifiedStep
      <3> QED
        BY <2>2, <3>1, <3>2
    <2> QED
      BY <1>3, <2>3, <2>5, <2>6, <2>7 DEF Classify
  <1>4. CASE Discarded(c)
    <2>1. load[c].pc = "discard" /\ load[c].request \in Requests
      BY <1>4 DEF Discarded, VerifiedLoad
    <2>2. load[c].request.offline \in BOOLEAN
      BY <2>1, ResourcesAssumption
    <2>3. CASE load[c].request.offline
      BY <1>4, <2>1, <2>3, FailedLoad, VerifiedStep DEF Discarded
    <2>4. CASE ~load[c].request.offline
      <3>1. PICK l \in Loads : l = [load[c] EXCEPT !.pc = "transport"]
        BY LoadChanges
      <3>2. l.pc = "transport" /\ l.request = load[c].request
        BY <3>1 DEF Loads
      <3>3. VerifiedLoad(l)
        BY <2>1, <2>4, <3>2 DEF VerifiedLoad
      <3> QED
        BY <1>4, <2>4, <3>1, <3>3, VerifiedStep DEF Discarded
    <2> QED
      BY <2>2, <2>3, <2>4
  <1>5. CASE TransportFails(c)
    <2>1. /\ load[c].pc = "transport" /\ load[c].request \in Requests
          /\ ~load[c].request.offline
      BY <1>5 DEF TransportFails, VerifiedLoad
    <2>2. PICK l \in Loads : l = [load[c] EXCEPT !.fault = TRUE]
      BY LoadChanges
    <2>3. l.fault /\ l.request = load[c].request
      BY <2>2 DEF Loads
    <2>4. CASE Goes(c, Failed(l))
      BY <2>1, <2>3, <2>4, FailedLoad, VerifiedStep
    <2>5. CASE ~l.mismatch /\ l.entry # None /\ Goes(c, Answer(l, l.entry.body, TRUE, TRUE))
      <3>1. l.entry.body \in Bodies
        BY <2>5 DEF Loads, Entries
      <3> QED
        BY <2>1, <2>3, <2>5, <3>1, AnsweredLoad, VerifiedStep
    <2> QED
      BY <1>5, <2>2, <2>4, <2>5 DEF TransportFails
  <1>6. CASE TransportAnswers(c)
    <2>1. /\ load[c].pc = "transport" /\ load[c].request \in Requests
          /\ ~load[c].request.offline
      BY <1>6 DEF TransportAnswers, VerifiedLoad
    <2>2. CASE Goes(c, Failed([load[c] EXCEPT !.fault = TRUE]))
      <3>1. PICK l \in Loads : l = [load[c] EXCEPT !.fault = TRUE]
        BY LoadChanges
      <3>2. l.fault /\ l.request = load[c].request
        BY <3>1 DEF Loads
      <3> QED
        BY <2>1, <2>2, <3>1, <3>2, FailedLoad, VerifiedStep
    <2>3. ASSUME NEW b \in Bodies, Matches(load[c].request, b),
                 Goes(c, [load[c] EXCEPT !.pc = "store", !.body = b])
          PROVE  \A d \in Clients : VerifiedLoad(load'[d])
      <3>1. PICK l \in Loads : l = [load[c] EXCEPT !.pc = "store", !.body = b]
        BY LoadChanges
      <3>2. l.pc = "store" /\ l.request = load[c].request /\ l.body = b
        BY <3>1 DEF Loads
      <3>3. VerifiedLoad(l)
        BY <2>1, <2>3, <3>2 DEF VerifiedLoad
      <3> QED
        BY <2>3, <3>1, <3>3, VerifiedStep
    <2> QED
      BY <1>6, <2>2, <2>3 DEF TransportAnswers
  <1>7. CASE Stored(c)
    <2>1. /\ load[c].request \in Requests /\ load[c].body \in Bodies
          /\ Matches(load[c].request, load[c].body)
      BY <1>7 DEF Stored, VerifiedLoad
    <2> QED
      BY <1>7, <2>1, AnsweredLoad, VerifiedStep DEF Stored
  <1> QED
    BY <1>1, <1>2, <1>3, <1>4, <1>5, <1>6, <1>7

-----------------------------------------------------------------------------
LEMMA ResourcesInvInit == Init => ResourcesInv
  <1> SUFFICES ASSUME Init PROVE ResourcesInv
    OBVIOUS
  <1> USE CacheAssumption DEF Init, CacheInit
  <1>1. \A c \in Clients : op[c].pc = "none" /\ load[c].pc = "idle"
    BY DEF NoOp, NoLoad
  <1>2. /\ json \in Parsed \cup {None}
        /\ json # None => json.file = 0 /\ EntryOf(json) \in Entries
    BY DEF Parsed, ContentFiles, Legacy, EntryOf, Entries
  <1>3. CacheTypes
    <2>1. data \in [ContentFiles -> Bodies \cup {Torn, None}]
      OBVIOUS
    <2>2. op \in [Clients -> Ops] /\ load \in [Clients -> Loads]
      BY OpChanges, LoadChanges
    <2>3. clock \in 0..MaxTime /\ puts \in 0..MaxPuts /\ faults \in Nat
      OBVIOUS
    <2>4. stored \subseteq Entries
      BY <1>2
    <2>5. /\ removals \in [Clients -> SUBSET (ContentFiles \cup {MetadataFile})]
          /\ gap \in [Clients -> BOOLEAN]
      OBVIOUS
    <2> QED
      BY <1>2, <2>1, <2>2, <2>3, <2>4, <2>5 DEF CacheTypes
  <1>4. OpsEquipped /\ EntriesPublished /\ FilesOwned /\ ReadersSeamless
    <2>1. OpsEquipped /\ ReadersSeamless
      BY <1>1 DEF OpsEquipped, ReadersSeamless, Owning
    <2>2. EntriesPublished
      BY <1>1 DEF EntriesPublished
    <2>3. FilesOwned
      <3>1. json # None => json.file <= puts
        BY <1>2
      <3> QED
        BY <1>1, <3>1 DEF FilesOwned, Owning
    <2> QED
      BY <2>1, <2>2, <2>3
  <1>5. LoadsVerified /\ UnmarkedAnswersVerified /\ CacheNeverFailsLoads
    BY <1>1 DEF LoadsVerified, UnmarkedAnswersVerified, CacheNeverFailsLoads
  <1> QED
    BY <1>3, <1>4, <1>5 DEF ResourcesInv

LEMMA ResourcesInvStep == ResourcesInv /\ [Next]_resourcesVars => ResourcesInv'
  <1> SUFFICES ASSUME ResourcesInv, [Next]_resourcesVars PROVE ResourcesInv'
    OBVIOUS
  <1> CacheTypes /\ OpsEquipped /\ LoadsVerified /\ CacheInv
    BY DEF ResourcesInv, CacheInv
  <1>v. \A c \in Clients : VerifiedLoad(load[c])
    BY LoadsOneByOne DEF ResourcesInv
  <1>q. ASSUME CacheTypes', CacheInv', \A c \in Clients : VerifiedLoad(load'[c])
        PROVE  ResourcesInv'
    <2>1. (\A c \in Clients : VerifiedLoad(load[c]))'
      BY <1>q DEF VerifiedLoad, Matches
    <2>2. (LoadsVerified /\ UnmarkedAnswersVerified /\ CacheNeverFailsLoads)'
      BY <2>1, LoadsOneByOne, PTL
    <2> QED
      BY <1>q, <2>2 DEF ResourcesInv, CacheInv
  <1>1. ASSUME NEW c \in Clients, RecordGap,
               \/ Begin(c) \/ Clear(c) \/ Cleared(c) \/ Classify(c) \/ Discarded(c)
               \/ TransportFails(c) \/ TransportAnswers(c) \/ Stored(c) \/ Crash(c)
        PROVE  ResourcesInv'
    BY <1>1, <1>q, <1>v, LoadStepTypes, LoadStepInv, LoadsStepVerified
  <1>2. ASSUME NEW c \in Clients, InCache,
               \/ GetMetadata(c) \/ GetContent(c) \/ GetFails(c)
               \/ PutTemporaries(c) \/ PutContent(c)
               \/ PutMetadata(c) \/ PutUnblock(c) \/ PutUndo(c) \/ PutClean(c)
               \/ DeleteLookup(c) \/ ClearLookup(c) \/ Remove(c) \/ RemovalsDone(c)
        PROVE  ResourcesInv'
    <2>1. load' = load
      BY <1>2 DEF InCache
    <2> QED
      BY <1>2, <1>q, <1>v, <2>1, CacheStepTypes, CacheStepInv
  <1>3. CASE Tick /\ RecordGap
    <2>1. UNCHANGED <<op, json, data, puts, stored, load>>
      BY <1>3 DEF Tick, CacheTick
    <2> QED
      BY <1>3, <1>q, <1>v, <2>1, TickTypes, IdleStep
  <1>4. CASE PowerLoss /\ RecordGap
    <2>1. \A c \in Clients : load'[c].pc = "idle"
      BY <1>4 DEF PowerLoss, NoLoad
    <2>2. \A c \in Clients : VerifiedLoad(load'[c])
      BY <2>1 DEF VerifiedLoad
    <2> QED
      BY <1>4, <1>q, <2>2, PowerLossTypes, PowerLossInv
  <1>5. CASE UNCHANGED resourcesVars
    BY <1>5 DEF resourcesVars, cacheVars, ResourcesInv, CacheTypes, OpsEquipped,
                EntriesPublished, FilesOwned, ReadersSeamless, LoadsVerified,
                UnmarkedAnswersVerified, CacheNeverFailsLoads
  <1> QED
    BY <1>1, <1>2, <1>3, <1>4, <1>5 DEF Next

LEMMA ResourcesInvariant == Spec => []ResourcesInv
  BY ResourcesInvInit, ResourcesInvStep, PTL DEF Spec

\* The variables keep their types: a cache operation that crosses others,
\* fails or crashes leaves metadata, files and loads well formed.
THEOREM TypesCorrect == Spec => []TypeOK
  <1>1. ResourcesInv => TypeOK
    BY DEF ResourcesInv, CacheTypes, TypeOK, CacheTypeOK, Ops, Loads, LoadPcs, Parsed
  <1> QED
    BY <1>1, ResourcesInvariant, PTL

\* NodeFileCache.get answers only with a content and a time that were
\* published together, for any number of processes, puts, deletes, clears,
\* failures, crashes and losses of power.
THEOREM CacheAnswersWereStored == Spec => []AnswersWereStored
  <1>1. ResourcesInv => AnswersWereStored
    BY DEF ResourcesInv, EntriesPublished, AnswersWereStored
  <1> QED
    BY <1>1, ResourcesInvariant, PTL

\* Replacing an entry never makes it disappear: a get during which a complete
\* entry was always there finds one, unless what it read was of an older
\* version.  It rests on FilesOwned: the generation that a put writes or
\* removes is never one that the metadata or a reader names.
THEOREM CacheReplacementIsSeamless == Spec => []ReplacementIsSeamless
  <1>1. ResourcesInv => ReplacementIsSeamless
    BY DEF ResourcesInv, CacheTypes, ReadersSeamless, ReplacementIsSeamless
  <1> QED
    BY <1>1, ResourcesInvariant, PTL

\* What RepositoryResourceCoordinator.load answers without marking it stale has
\* the checksum asked for, and an entry that a load has found wrong does not
\* come back as its stale answer.
THEOREM UnmarkedAnswersAlwaysVerified == Spec => []UnmarkedAnswersVerified
  <1>1. ResourcesInv => UnmarkedAnswersVerified
    BY DEF ResourcesInv
  <1> QED
    BY <1>1, ResourcesInvariant, PTL

\* A load that may use the network fails only if the transport does, whatever
\* the cache holds and however it fails.
THEOREM LoadsSurviveTheCache == Spec => []CacheNeverFailsLoads
  <1>1. ResourcesInv => CacheNeverFailsLoads
    BY DEF ResourcesInv
  <1> QED
    BY <1>1, ResourcesInvariant, PTL
=============================================================================
