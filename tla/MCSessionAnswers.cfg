SPECIFICATION SessionSpec
CONSTANTS
    Uris = {"a", "b", "c"}
    InvalidUris = {}
    Texts <- MCTexts
    Digest <- MCDigest
    Header <- MCHeader
    Versions = {1, 2}
    MaxRevision = 3
    MaxGeneration = 4
    Documents <- MCAnswerDocuments
    Requests <- MCRequests
    Builtin = "INTERLIS"
    BuiltinText = "INTERLIS_text"
    Compile <- MCCompile
    ArtifactSize <- MCArtifactSize
    MaxParsedEntries = 0
    MaxParsedBytes = 0
    RetainOversizedEntry = FALSE
    MaxRootEntries = 2
    MaxRootBytes = 6
INVARIANT WarmEqualsColdAsPromised
PROPERTY ImplementsContract
