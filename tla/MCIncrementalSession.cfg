SPECIFICATION SessionSpec
CONSTANTS
    Uris = {"a", "b", "c", ""}
    InvalidUris = {""}
    Texts <- MCTexts
    Digest <- MCDigest
    Header <- MCHeader
    Versions = {0}
    MaxRevision = 4
    MaxGeneration = 5
    Documents <- MCTrio
    Requests <- MCTrioRequests
    Builtin = "INTERLIS"
    BuiltinText = "INTERLIS_text"
    Compile <- MCCompile
    ArtifactSize <- MCArtifactSize
    MaxParsedEntries = 2
    MaxParsedBytes = 3
    RetainOversizedEntry = FALSE
    MaxRootEntries = 2
    MaxRootBytes = 5
INVARIANTS
    StampsUnique CachesBounded ArtifactsCurrent IndexesMirrorSources
    HitsServeCurrentBytes
PROPERTIES RevisionPinsBytes AddingNeverStales
