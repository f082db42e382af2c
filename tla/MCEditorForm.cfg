CHECK_DEADLOCK FALSE
SPECIFICATION Spec
CONSTANTS
    r1 = r1
    r2 = r2
    NoRecord = NoRecord
    Nothing = Nothing
    Records = {r1, r2}
    First = r1
    Pages = {"contacts", "clients", "classificators", "devices", "agreements", "tickets"}
    Tracked = {"name", "latitude", "longitude", "morePoints", "registrationCertificate", "properties", "isUsed", "actualClient", "finishedAt", "client", "contactPerson"}
    MaxEdits = 2
    MaxMoves = 2
    MaxWrites = 2
    MaxFails = 1
INVARIANTS ForeignFormOnlyUnloaded LabelsNameTheForm OwnSavesShown
PROPERTIES UntouchedFieldsKept
