CHECK_DEADLOCK FALSE
CONSTANTS
    MaxMoves = 3
    None = None
    Text <- MCText

SPECIFICATION FairSpec

INVARIANTS
    TypeOK
    ServedPairMatches
    SameCertificate
    ReportIsExact

PROPERTIES
    RepairConverges
