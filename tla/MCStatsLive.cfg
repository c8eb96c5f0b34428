\* The host's key.  Every request is answered, though Docker may never answer a
\* collection; every collection ends if calls respect their context.
SPECIFICATION FairRequests
CONSTANTS
    host = host
    web = web
    q1 = q1
    q2 = q2
    r1 = r1
    r2 = r2
    None = None
    Key = {host}
    HostKey = {host}
    Request = {q1}
    Refresh = {r1, r2}
    MaxSamples = 1
    HostTTL = 1
    ContainerTTL = 2
    Timeout = 1
    RefreshInterval = 1
    Budget = 2
    SampleCap = 2
PROPERTIES
    EveryRequestAnswered
    EveryCollectionEnds
