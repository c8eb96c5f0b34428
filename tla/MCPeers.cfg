\* Two addresses that change hands between a container and nobody, two
\* connections.
SPECIFICATION FairSpec
CONSTANTS
    i1 = i1
    i2 = i2
    c1 = c1
    c2 = c2
    w1 = w1
    w2 = w2
    IP <- IPs
    Container <- OneContainer
    Writer <- Writers
    Nobody = Nobody
    Unlisted = Unlisted
    None = None
    TTL = 2
    Timeout = 1
    Patience = 0
INVARIANT TypeOK
PROPERTIES
    RecentAttribution
    OneListingPerTTL
    EveryLineWritten
