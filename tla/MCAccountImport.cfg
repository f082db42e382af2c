CONSTANTS
    People = {1, 2}
    Others = {}
    Things = {t}
    Departments = {}
    NoDepartment = NoDepartment
    NoAccount = NoAccount
    Nobody = Nobody
    HolderOf <- MCHolderOf
    Bases <- MCBases
    Base <- MCBase
    DepartmentOf <- MCDepartmentOf
SPECIFICATION AccountSpec
PROPERTIES
    AuthorsKept
