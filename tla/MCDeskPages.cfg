CHECK_DEADLOCK FALSE
SPECIFICATION Spec
CONSTANTS
    member = member
    device = device
    client = client
    Nothing = Nothing
    Members = {member}
    Devices = {device}
    Clients = {client}
    MaxTurmoil = 2
    MaxActs = 2
INVARIANTS SettledPagesAreTrue PostedOnce
PROPERTIES DashboardCatchesUp
