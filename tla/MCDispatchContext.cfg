SPECIFICATION FairSpec
CONSTANTS
    c1 = c1
    c2 = c2
    id = id
    name = name
    h1 = h1
    Container = {c1, c2}
    Target = {name}
    Match <- Matches
    Client = {h1}
    Subscriber = Subscriber
    None = None
    Kind = {"stop", "exec"}
    MaxMessages = 2
PROPERTY
    RunEndsWithContext
CHECK_DEADLOCK FALSE
