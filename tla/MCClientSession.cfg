CONSTANTS
    Users = {u1}
    Tokens = {n1, n2}
    Requests = {p, q}
    Tabs = {a}
    Fetches = {f, g}
    NoToken = NoToken
    NoUser = NoUser
    NoTicket = NoTicket
SPECIFICATION FairSpec
INVARIANTS
    StoredTokenIsNewest
PROPERTIES
    PresentedOnce
    FetchesEnd
    PagesGetReady
