CONSTANTS
    Lengths = {0, 1, 3, 4, 6, 7}
    InputLens = {0, 2}
    Manifests <- MCManifests
    Size <- MCSize
    Overhead = 3
    MaxFaults = 1
SPECIFICATION FairSpec
INVARIANTS
    AcceptedIsWhole
    ChunksFit
PROPERTY DueOutcome
CHECK_DEADLOCK FALSE
