SPECIFICATION Spec
CONSTANTS
    h1 = h1
    h2 = h2
    Handler <- Handlers
    ShutdownTimeout = 3
    ObsTimeout = 2
    ObsGrace = 1
INVARIANT ObsFailureReachesCaller
SYMMETRY Symmetry
