\* A reader, two changes and two processes; two faults of any kind.
SPECIFICATION Spec
CONSTANTS
    r1 = r1
    w1 = w1
    w2 = w2
    p1 = p1
    p2 = p2
    NoEntry = NoEntry
    Readers <- MCReaders
    Writers <- MCWriters
    Processes <- MCProcesses
    Kind <- MCKind
    EmptyStates <- MCEmptyStates
    FaultKinds = {"refused", "lost", "resent", "crash"}
    MaxFaults = 2
INVARIANTS
    TypeOK
    StaleExplained
    ReadsOwnWrites
PROPERTIES
    EventuallyFresh
