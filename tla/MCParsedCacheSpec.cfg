SPECIFICATION LruSpec
CONSTANTS
    Lookups <- MCLookups
    ArtifactSize <- MCArtifactSize
    MaxParsedEntries = 3
    MaxParsedBytes = 4
    RetainOversizedEntry = FALSE
INVARIANT ParsedBounded
PROPERTIES EvictsOldestFirst EvictsOnlyForSpace
