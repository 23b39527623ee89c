SPECIFICATION ApartSpec
CONSTANTS
    r1 = r1
    r2 = r2
    u1 = u1
    u2 = u2
    a1 = a1
    a2 = a2
    amlach = amlach
    class = class
    admin = admin
    NoDoc = NoDoc
    Users <- MCUsers
    Actors = {a1, a2}
    RoleGrants = {amlach}
    Assigners = {class}
    Attributes = {admin}
    Admin = admin
    DomainOf <- MCDomainOf
    Relation <- MCRelation
    MayManage <- MCMayManage
    Reqs = {r1, r2}
    JobKinds = {"create", "edit", "delete", "sync"}
    Bodies = {{amlach}, {amlach, class}, {admin}, {amlach, class, admin}}
    Jobs <- MCJobs
    ChunkSize = 3
    FaultKinds = {"refused"}
    MaxFaults = 1
INVARIANTS GrantsMirrored NoHiddenGrants
PROPERTY AdminsGuarded
VIEW View
SYMMETRY Slots
