CONSTANTS
    coord = coord
    dept = dept
    None = None
    TicketIds = {legacy, own}
    LegacyIds = {legacy}
    Users = {coord}
    Departments = {dept}
    Role <- MCRole
    Department <- MCDepartment
    MaxVersion = 2
    MaxDocs = 2
    EditorStatuses = {"inWork"}
    SyncStatuses = {"finished"}
SPECIFICATION Spec
INVARIANTS
    ReferencedTicketSurvives
    LatestTicketExists
    AppWritesKept
PROPERTY
    ImplementsRegister
CHECK_DEADLOCK FALSE
