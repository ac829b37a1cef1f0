--------------------------- MODULE IliFileCatalog ---------------------------
(***************************************************************************)
(* The catalog of input files of one compilation run                       *)
(* (source/util/IliFile.cpp) over the sources visible to that run          *)
(* (source/core/CompilationSourceStore.cpp), as operations on a catalog    *)
(* value.                                                                  *)
(*                                                                         *)
(* A workspace is what a run can read: the session's sources, the files on *)
(* disk, and for each model the paths <directory>/<model>.ili in the order *)
(* of the model directories.  URIs are distinct up to letter case.         *)
(***************************************************************************)
EXTENDS Naturals, Sequences, SequencesExt, FiniteSetsExt, PartialMap

CONSTANTS
    UriOrder,   \* all URIs in the order std::map sorts them
    Header,     \* Header[text] = [iliVersion, models, requiredModels, usable]
    Nowhere     \* the null IliFile

\* A catalog: ownedFiles_ in load order, files_ (the inputs of the run) and
\* the map models_.
EmptyCatalog == [owned |-> << >>, files |-> << >>, models |-> EmptyMap]

Sorted(uris) == SelectSeq(UriOrder, LAMBDA u : u \in uris)

\* CompilationSourceStore::get, session sources shadowing files; load reads a
\* file from disk when neither knows the URI.
Readable(ws, uri) == uri \in DOMAIN ws.session \cup DOMAIN ws.disk

TextAt(ws, uri) == IF uri \in DOMAIN ws.session THEN ws.session[uri] ELSE ws.disk[uri]

HeaderAt(ws, uri) == Header[TextAt(ws, uri)]

\* CompilationSourceStore::uris: session sources, then the files remembered.
VisibleUris(ws, catalog) ==
    Sorted(DOMAIN ws.session) \o Sorted(ToSet(catalog.owned) \ DOMAIN ws.session)

Knows(catalog, uri) == uri \in ToSet(catalog.owned)

\* IliFileCatalog::load, for one URI after another (all different): what is
\* readable and not known yet is read.  The file loaded last owns each model
\* it declares.
LoadAll(ws, catalog, uris) ==
    LET new == SelectSeq(uris, LAMBDA u : ~Knows(catalog, u) /\ Readable(ws, u))
        Declaring(m) == {i \in DOMAIN new : m \in ToSet(HeaderAt(ws, new[i]).models)}
        declared == UNION {ToSet(HeaderAt(ws, u).models) : u \in ToSet(new)}
    IN  [catalog EXCEPT
            !.owned  = @ \o new,
            !.models = [m \in DOMAIN @ \cup declared |->
                           IF m \in declared THEN new[Max(Declaring(m))] ELSE @[m]]]

Load(ws, catalog, uri) == LoadAll(ws, catalog, <<uri>>)

\* IliFileCatalog::add.
AddFile(catalog, uri) ==
    IF uri \in ToSet(catalog.files) THEN catalog
    ELSE [catalog EXCEPT !.files = Append(@, uri)]

LoadByFile(ws, catalog, uri) ==
    LET loaded == Load(ws, catalog, uri)
    IN  IF Knows(loaded, uri) THEN AddFile(loaded, uri) ELSE loaded

\* The file has the version of the run and declares the models wanted of it.
Declares(ws, uri, wanted, iliVersion) ==
    /\ HeaderAt(ws, uri).iliVersion = iliVersion
    /\ wanted \subseteq ToSet(HeaderAt(ws, uri).models)

\* Load the URIs in turn until one declares what is wanted; a search is a
\* catalog and the URI found.
LoadUntil(ws, catalog, uris, wanted, iliVersion) ==
    LET hits == {i \in DOMAIN uris : Declares(ws, uris[i], wanted, iliVersion)}
    IN  IF hits = {} THEN [catalog |-> LoadAll(ws, catalog, uris), found |-> Nowhere]
        ELSE [catalog |-> LoadAll(ws, catalog, SubSeq(uris, 1, Min(hits))),
              found   |-> uris[Min(hits)]]

\* The scan of all visible sources (lines 198-208 of IliFile.cpp).
ScanSources(ws, catalog, model, iliVersion) ==
    LoadUntil(ws, catalog, VisibleUris(ws, catalog), {model}, iliVersion)

\* The search of the model directories: the first existing file of the right
\* version is taken for the model, whatever it declares.
SearchDirectories(ws, catalog, model, iliVersion) ==
    IF ~ws.autoSearch THEN [catalog |-> catalog, found |-> Nowhere]
    ELSE LoadUntil(ws, catalog,
                   SelectSeq(ws.paths[model], LAMBDA u : u \in DOMAIN ws.disk),
                   {}, iliVersion)

\* The directories are searched if the scan has found nothing.
AfterScan(ws, model, iliVersion, scanned) ==
    IF scanned.found # Nowhere THEN scanned
    ELSE SearchDirectories(ws, scanned.catalog, model, iliVersion)

\* A file that has been found becomes an input of the run.
Included(search) ==
    IF search.found = Nowhere THEN search
    ELSE [search EXCEPT !.catalog = AddFile(@, search.found)]

\* IliFileCatalog::loadByModel, for a model other than INTERLIS.
LoadByModel(ws, catalog, model, iliVersion) ==
    IF /\ model \in DOMAIN catalog.models
       /\ HeaderAt(ws, catalog.models[model]).iliVersion = iliVersion
    THEN Included([catalog |-> catalog, found |-> catalog.models[model]])
    ELSE Included(AfterScan(ws, model, iliVersion,
                            ScanSources(ws, catalog, model, iliVersion)))
=============================================================================
