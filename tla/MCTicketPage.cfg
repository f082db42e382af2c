CHECK_DEADLOCK FALSE
SPECIFICATION Spec
CONSTANTS
    t1 = t1
    t2 = t2
    Me = Me
    Other = Other
    NoUser = NoUser
    Nothing = Nothing
    Tickets = {t1, t2}
    Turns = {1}
    MaxPhotos = 2
    MaxTurmoil = 2
    MaxActs = 1
    MaxSubmits = 2
INVARIANTS SettledPageIsTrue StoredOnce AssignsWhatWasFilledIn
PROPERTIES ClosedWithItsPhotos SubmissionEnds
