SPECIFICATION Spec
CONSTANTS
    Streams = {s1, s2}
    Capacity = 100
INVARIANTS
    LiveClientsKept
