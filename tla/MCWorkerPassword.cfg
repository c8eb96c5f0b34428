\* Two changes side by side; the hash is the prefix and two bytes.
SPECIFICATION Spec
CONSTANTS
    Request = {1, 2}
    Nobody = 0
    Hash <- MCHash
INVARIANTS
    AppliedStaysLoaded
    AppliedHasTheHash
    StreamIsKept
