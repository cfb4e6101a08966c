SPECIFICATION Spec
CONSTANTS
    t1 = t1  alice = alice  bob = bob  k1 = k1  k2 = k2  k3 = k3  h1 = h1  h2 = h2
    Tasks = {t1}
    Operators = {alice, bob}
    Keys = {k1, k2, k3}
    Handlers = {h1, h2}
    Requests <- MCRequests
    Dispatches <- MCDispatches
    Workers = {"w1", "w2"}
    BatchSize = 1
    MaxEvents = 2
    MaxFaults = 1
    NoOperator = NoOperator  NoRow = NoRow  NoResult = NoResult  NoRequest = NoRequest
INVARIANTS TypeOK OneEventPerKey QueueMatchesEvents MarkedIsPublished
PROPERTIES  EveryEventPublished
