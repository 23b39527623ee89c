\* One request: a clone onto a user that exists.
SPECIFICATION Spec
CONSTANTS
    r1 = r1   r2 = r2   r3 = r3   u1 = u1   u2 = u2
    boss = boss   clerk = clerk   robot = robot
    d1 = d1   d2 = d2   c1 = c1   t1 = t1   v1 = v1   v2 = v2
    p1 = p1   g1 = g1   k1 = k1   k2 = k2   s1 = s1
    Users = {u1, u2}
    Actors = {boss, clerk, robot}
    Admins = {boss}
    ApiActors = {robot}
    Nobody = Nobody
    Domains = {d1, d2}
    Classes = {c1}
    Tables = {t1}
    Contents = {v1, v2}
    Values = {p1}
    Groups = {g1}
    Catalogs = {k1, k2}
    Schemas = {s1}
    MayManage <- MCMayManage
    MayAssign <- MCMayAssign
    MayMask <- MCMayMask
    MayPop = {boss}
    MayEnrol <- MCMayEnrol
    GroupGrants <- MCGrants
    GroupRank <- MCRank
    Columns <- MCColumns
    NoDoc = NoDoc   Absent = Absent   Keep = Keep
    First <- MCFirst
    Reqs = {r1}
    Jobs <- MCJobs
    FaultKinds = {"refused"}
    MaxFaults = 1
INVARIANT ConflictAnswered
