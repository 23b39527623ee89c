\* One browser: the popup of a table, the form of a user or of a group's permissions, or the
\* screen of the groups.
SPECIFICATION ClientSpec
CONSTANTS
    u1 = u1   x1 = x1   x2 = x2   c1 = c1   c2 = c2   ci = ci   no = no
    a = a   b = b   c = c   none = none   blank = blank   d1 = d1   d2 = d2
    t1 = t1   k1 = k1   k2 = k2   v1 = v1   v2 = v2   g1 = g1   g2 = g2   f1 = f1   n1 = n1   n2 = n2
    Users = {u1}
    Columns = {x1, x2}
    ColumnClasses = {c1, c2}
    Masks = {"none", "hash"}
    DefaultMask = "none"
    Internal = ci
    Empty = no
    Stages = {"business"}
    Hints <- MCHints
    Rights <- MCRights
    FirstTables <- MCFirstTables
    MaxWrites = 2
    MaxOpens = 1
    MaxEdits = 1
    MaxTroubles = 1
    UserIds = {a, b}
    Forms = {f1}
    EmptyUser = none
    Nothing = none
    Domains = {d1, d2}
    Classes = {c1, c2}
    Catalog <- MCCatalog
    Allowed <- MCAllowed
    PermissionTables = {t1}
    Needs <- MCNeeds
    Kods = {k1, k2}
    BoolKods = {k2}
    Values = {v1, v2}
    Dimension = {v1}
    UserGroups = {g1, g2}
    GroupData <- MCGroupData
    Editable = {g1}
    MayAttrs = {"mask"}
    DomainOrder <- MCDomains
    TableOrder <- MCTables
    GroupOrder <- MCGroups
    KodOrder <- MCKods
    FirstUsers <- MCFirstUsers
    MaxUserEdits = 2
    MaxUserWrites = 1
    MaxUserFaults = 1
    MaxUserSteps = 3
    People = {a, b, c}
    Me = a
    GroupIds = {g1, g2}
    Names = {n1, n2}
    Blank = blank
    NoOne = none
    FirstGroups <- MCFirstGroups
    Others <- MCOthers
    MaxGroupEdits = 2
    MaxCalls = 1
    MaxGroupWrites = 2
    MaxGroupFaults = 1
    MaxGroupSteps = 3
INVARIANTS CurrentSavePasses ScreensSettle VerificationTold OnlyPicks NamedChangeSaved 
PROPERTY InternalUntouched
CHECK_DEADLOCK FALSE
