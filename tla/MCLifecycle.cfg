\* Every order of start, failures and shutdown.
SPECIFICATION FairSpec
CONSTANTS
    h1 = h1
    h2 = h2
    Handler <- Handlers
    ShutdownTimeout = 3
    ObsTimeout = 2
    ObsGrace = 1
INVARIANTS
    TypeOK
    ServesConnected
    CleanExitMeansBound
    ObsInTime
    ExitsInTime
PROPERTIES
    DrainedBeforeClosed
    ExitsAfterSignal
