CONSTANTS
    region = region
    client = client
    contact = contact
    manufacturer = manufacturer
    classificator = classificator
    device = device
    status = status
    department = department
    external = external
    ticket = ticket
    attachment = attachment
    agreement = agreement
    test = test
    seeded = seeded
    self = self
    service = service
    home = home
    People = {1}
    Others = {test, seeded, self}
    Things = {t}
    Departments = {department, service, home}
    NoDepartment = NoDepartment
    NoAccount = NoAccount
    Nobody = Nobody
    NoRow = NoRow
    Null = Null
    HolderOf <- MCHolderOf
    Base <- MCBase
    Bases <- MCBases
    DepartmentOf <- MCDepartmentOf
    Docs <- MCDocs
    Kind <- MCKind
    Ref <- MCRef
    Removable = {client}
    Selections <- MCSelections
    KeepGoing = {FALSE}
    TestAccounts = {test}
    ServiceAccounts = {seeded}
    SeedName <- MCSeedName
    TestDepartment = home
    ServiceDepartments = {service}
    HomeOf <- MCHomeOf
    Retired = Nobody
    RetiredName = "markin.sergey_vbb"
SPECIFICATION Spec
PROPERTY
    ExemptKeepStatus
