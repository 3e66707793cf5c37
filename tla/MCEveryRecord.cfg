SPECIFICATION Spec
CONSTANTS
    Ids = {a, b}
    Releases <- WholeReleases
    Manifests <- CompleteManifests
    MaxVersion = 3
    MaxStarts = 2
INVARIANT EveryRecordIsMigrated
CHECK_DEADLOCK FALSE
