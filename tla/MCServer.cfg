CHECK_DEADLOCK FALSE
CONSTANTS
    Created = {a, b}
    LegacyTickets = {l, m}
    NoNumber = NoNumber
    NoTicket = NoTicket
    MaxNumber = 5
    Users = {u1, u2}
    Tokens = {n1, n2, n3}
    Requests = {p, q}
    NoToken = NoToken
    NoUser = NoUser
    Uploads = {r, s, t}
    Browsers = {c, d}
    NoPhoto = NoPhoto
    MaxClock = 7
    region = region
    client = client
    contact = contact
    title = title
    other = other
    NoTitle = NoTitle
    Titles = {title, other}
    Ids <- Owned
    Kind <- OwnedKind
    Versions <- OwnedVersions
    SinceMode = "now"
    MaxSeq = 4
SPECIFICATION MCSpec
INVARIANTS
    SequenceAhead
    CreatedDiffer
    OneLiveToken
    RotationIsALine
    SettledShowsStored
    ReferencesResolve
PROPERTIES
    NothingForDisabled
