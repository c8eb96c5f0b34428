CONSTANTS
    c1 = c1
    c2 = c2
    alice = alice
    bob = bob
    anyone = anyone
    Alice = Alice
    Bob = Bob
    Bobs = Bobs
    d1 = d1
    d2 = d2
    d3 = d3
    Call = {c1, c2}
    Script = {c1, c2}
    User = {alice, bob}
    Folder = {"INBOX", "Shared stuff"}
    OddFolder = {"Shared stuff"}
    Identifier = {Alice, Bob, Bobs, anyone}
    Cut <- MCCut
    Unnamed = Unnamed
    UserIs <- MCUserIs
    Available = {"read", "post"}
    Unknown = {"fly"}
    MaxOthers = 1
    Mailbox = {"a/b/x", "a/b/x_index", "abx"}
    Plain = {"abx"}
    Sane <- MCSane
    IndexName <- MCIndexName
    Suffixed <- MCSuffixed
    Base <- MCBase
    Directory = {d1, d2, d3}
    Nowhere = Nowhere
    MaxSecond = 1
    Caller = {c1, c2}
    Nobody = Nobody
    MaxVersion = 2

SPECIFICATION Spec

INVARIANTS
    TypeOK
    AnswerWasInForce
    AnswerIsHis
    NothingConcealed
    SuccessVacates
    AsideBySecond
    UpgradeIsLoaded

SYMMETRY Symmetry
CHECK_DEADLOCK FALSE
