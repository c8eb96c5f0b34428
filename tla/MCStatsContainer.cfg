\* One container's ring buffer, two requests, every failure and restarts.
SPECIFICATION Spec
CONSTANTS
    host = host
    web = web
    q1 = q1
    q2 = q2
    r1 = r1
    r2 = r2
    None = None
    Key = {web}
    HostKey = {}
    Request = {q1, q2}
    Refresh = {r1, r2}
    MaxSamples = 2
    HostTTL = 1
    ContainerTTL = 2
    Timeout = 1
    RefreshInterval = 1
    Budget = 2
    SampleCap = 3
INVARIANTS
    TypeOK
    SingleFlight
    NoLostUpdate
    BufferOrdered
    WaiterIsReleased
PROPERTIES
    ErrSettled
    TimeoutOnlyAfterExpiry
    PromiseKept
SYMMETRY Symmetry
