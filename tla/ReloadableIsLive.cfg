SPECIFICATION MCSpec
CONSTANTS
    StoreTables <- ProcessTables
    StoreQueueSize = 2
    MaxLearned = 2
    NoBatch = NoBatch
    Tasks = {looping, blocking}
    Blocking = {blocking}
    Files <- MCFiles
    Contents <- MCContents
    NotRunning = NotRunning
INVARIANT ReloadableIsLive
