CONSTANTS
    Users = {u, v}
    Tickets = {t}
    Ids = {a, b}
    Requests = {p, q}
    NoUser = NoUser
    NoTicket = NoTicket
    NoId = NoId
    Absent = Absent
    Free = Free
SPECIFICATION FairSpec
INVARIANTS
    RowsHaveObjects
    NothingLeftBehind
    DeletedIsGone
PROPERTIES
    RetryCompletes
