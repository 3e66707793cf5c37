SPECIFICATION Spec
CONSTANTS
    Ids = {a, b}
    Releases <- MCReleases
    Manifests <- MCManifests
    MaxVersion = 4
    MaxStarts = 3
INVARIANTS
    VersionTellsSchema
PROPERTIES
    StampIsTrue
    EntryIsAtomic
    ServerComesUp
CHECK_DEADLOCK FALSE
