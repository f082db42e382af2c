CHECK_DEADLOCK FALSE
SPECIFICATION ArchiveSpec
CONSTANTS
    Nothing = Nothing
    Archive <- ThreeTickets
    PageSize = 1
    MaxReads = 2
    MaxSteps = 3
    MaxTurmoil = 2
INVARIANTS ListMatchesFilters SelectedIsOffered
PROPERTIES FilterBeginsAtFirst
