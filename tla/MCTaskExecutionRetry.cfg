SPECIFICATION Spec
CONSTANTS
    t1 = t1  t2 = t2  alice = alice  bob = bob  c1 = c1  c2 = c2  c3 = c3  c4 = c4
    locA = locA  locB = locB  locC = locC  h1 = h1  h2 = h2
    Tasks = {t1, t2}
    Operators = {alice, bob}
    Commands = {c1, c2, c3, c4}
    ScanTypes = {"SOURCE", "LOT"}
    Values = {locA, locB, locC}
    Handlers = {h1, h2}
    Requests <- MCRequests
    Dispatches <- MCDispatches
    MaxFacts = 3
    NoCommand = NoCommand  NoOperator = NoOperator  NoValue = NoValue
    NoRequest = NoRequest  NoRow = NoRow
SYMMETRY Symmetry
INVARIANT OneEffectPerCommand
