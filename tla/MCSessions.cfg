SPECIFICATION Spec
CONSTANTS
    alice = alice  d1 = d1  d2 = d2
    Operators = {alice}
    Devices = {d1, d2}
    Access <- MCAccess
    Handlers = {h1, h2}
    SessionIds = {s1, s2}
    TokenIds = {r1, r2, r3}
    FailureLimit = 2
    NoOperator = NoOperator  NoDevice = NoDevice  NoSession = NoSession  NoToken = NoToken
SYMMETRY Interchangeable
INVARIANTS TypeOK  RotationIsAChain 
PROPERTIES EndedSessionsStayEnded
