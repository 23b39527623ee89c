SPECIFICATION SyncSpec
CONSTANTS
    r1 = r1
    r2 = r2
    u1 = u1
    u2 = u2
    a1 = a1
    a2 = a2
    amlach = amlach
    class = class
    admin = admin
    NoDoc = NoDoc
    Users <- MCOneUser
    Actors = {a2}
    RoleGrants = {amlach}
    Assigners = {class}
    Attributes = {admin}
    Admin = admin
    DomainOf <- MCDomainOf
    Relation <- MCRelation
    MayManage <- MCMayManage
    Reqs = {r1, r2}
    JobKinds = {"create", "edit", "delete", "sync"}
    Bodies = {{amlach}, {amlach, class}}
    Jobs <- MCJobs
    ChunkSize = 1
    FaultKinds = {"refused", "lost", "crash"}
    MaxFaults = 1
INVARIANT TypeOK
PROPERTIES OnlyPermitted SyncRestores
VIEW View
SYMMETRY Slots
