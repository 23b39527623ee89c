\* Every input of the pure modules, over two or three of everything.
SPECIFICATION Spec
CONSTANTS
    d1 = d1   d2 = d2   dx = dx   di = di   ci = ci   c1 = c1   c2 = c2   cx = cx   t1 = t1   t2 = t2
    k1 = k1   k2 = k2   k3 = k3   g1 = g1   g2 = g2   gx = gx   a1 = a1   a2 = a2
    x1 = x1   x2 = x2   p1 = p1
    Domains = {d1, d2}
    Classes = {c1, c2}
    Kods = {k1, k2, k3}
    BoolKods = {k3}
    AndKods = {k1}
    Tables = {t1, t2}
    GroupIds = {g1, g2}
    PermissionTables = {t1}
    FilterValues = {0, 1}
    Cols = {x1, x2}
    TableDomain <- MCTableDomain
    ColClass <- MCColClass
    Internal = {x2}
    SapTables = {t2}
    Missing = Missing
    KnownDomains = {d1, d2}
    KnownClasses = {c1, c2}
    KnownTables <- MCKnownTables
    GroupsStore <- MCGroupsStore
    Roles <- MCRoles
    PageSize = 2
    Nothing = Nothing
    Unset = Unset
    PlainMask = "none"
    StageNames <- MCStages
    InternalClass = ci
    InternalDomain = di
    Indications = {"mask", "deceased"}
    Root = Root
    Null = Null
    MaxDocs = 3
    MaxRows = 2
    MaxChanges = 2
    Sizes = {1, 2, 3}
INVARIANTS UsersViewed UsersListed ChangesTold ScreensTrue PagesExported
