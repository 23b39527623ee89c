\* Requests on tables and on domains, interleaved, with a failing call or a crash.
SPECIFICATION MCSpec
CONSTANTS
    r1 = r1   r2 = r2   r3 = r3   n1 = n1   i1 = i1   i2 = i2
    a = a   b = b   x = x   y = y   tx = tx   ty = ty   tz = tz
    d1 = d1   d2 = d2   boss = boss   clerk = clerk
    Domains = {d1, d2}
    Classes = {x, y}
    Titles = {tx, ty}
    NoDomain = NoDomain
    NoTitle = NoTitle
    Reqs = {r1, r2, r3}
    Jobs <- MCJobs
    FirstDomains <- MCFirstDomains
    MaxFaults = 1
    Names = {n1}
    Ids = {i1, i2}
    Columns = {a, b}
    Internal = Internal
    None = None
    NoColumn = NoColumn
    NoTable = NoTable
    Actors = {boss, clerk}
    System = System
    Admins = {boss}
    MayClassify <- MCMayClassify
    Assigners <- MCAssigners
    MayUpdate <- MCMayUpdate
    MayWrite = {clerk}
    FirstTables <- MCFirstTables
INVARIANTS LinksMirror TasksMatch ClassesOfDomain TablesSound
PROPERTIES OnlyAdded OnlyPermittedEdits
SYMMETRY Slots
CHECK_DEADLOCK FALSE
