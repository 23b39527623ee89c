\* One request at a time, or three that contend for a group, and one call refused.
SPECIFICATION MCSerialSpec
CONSTANTS
    a = a   b = b   g1 = g1   g2 = g2   m1 = m1   m2 = m2
    n1 = n1   n2 = n2   d0 = d0   d1 = d1
    Groups = {g1, g2}
    Actors = {a, b}
    Admins = {a}
    Members = {m1, m2}
    Names = {n1, n2}
    Data = {d0, d1}
    NoDoc = NoDoc   Vacant = Vacant   Retired = Retired
    Reqs = {1, 2, 3}
    Jobs <- MCJobs
    FaultKinds = {"refused"}
    MaxFaults = 1
    MaxInFlight = 3
INVARIANTS StoresAgree AllOrNothing LiveGroupOwned
