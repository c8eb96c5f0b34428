\* The real spans in ticks of 5 s.  ErrTimeout without a wait: the host's key
\* expires before the second measurement is written, and the next request
\* joins a refresh that is closed already.
SPECIFICATION Spec
CONSTANTS
    host = host
    web = web
    q1 = q1
    q2 = q2
    r1 = r1
    r2 = r2
    None = None
    Key = {host}
    HostKey = {host}
    Request = {q1, q2}
    Refresh = {r1, r2}
    MaxSamples = 2
    HostTTL = 2
    ContainerTTL = 12
    Timeout = 6
    RefreshInterval = 1
    Budget = 13
    SampleCap = 2
PROPERTIES
    TimeoutTakesTime
