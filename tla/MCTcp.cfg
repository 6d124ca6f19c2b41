SPECIFICATION Spec
CONSTANTS
    t1 = t1
    t2 = t2
    s1 = s1
    s2 = s2
    h1 = h1
    h2 = h2
    h3 = h3
    Threads <- MCThreads
    Sockets <- MCSockets
    Handles <- MCHandles
    Ports = {1}
    LISTEN_QUEUE_SIZE = 3
    None = None
SYMMETRY MCSymmetry
CONSTRAINT OneStale
INVARIANTS
    HandlesOwned
    ListenerHasEntry
    BusyUntilStored
PROPERTIES
    AcceptComesNearer
CHECK_DEADLOCK FALSE
