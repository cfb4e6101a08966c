------------------------- MODULE StockMovementProofs -------------------------
(***************************************************************************)
(* Proofs about StockMovement, for every set of tasks, places, items,      *)
(* keys, handlers and commands.                                            *)
(***************************************************************************)
EXTENDS StockMovement, FiniteSetTheorems, TLAPS

-----------------------------------------------------------------------------
(* Units                                                                   *)

\* A row that is new adds its quantity.
LEMMA QuantityOfNewRow ==
    ASSUME NEW S, NEW m, IsFiniteSet(Units(S)), m \notin S, m.quantity \in Nat
    PROVE  /\ IsFiniteSet(Units(S \union {m}))
           /\ Quantity(S \union {m}) = Quantity(S) + m.quantity
<1> DEFINE New == {m} \X (1 .. m.quantity)
<1>1. Units(S \union {m}) = Units(S) \union New
  BY DEF Units
<1>2. Units(S) \intersect New = {}
  BY DEF Units
<1>3. IsFiniteSet(New) /\ Cardinality(New) = m.quantity
  <2>1. IsFiniteSet({m}) /\ Cardinality({m}) = 1
    BY FS_Singleton
  <2>2. IsFiniteSet(1 .. m.quantity) /\ Cardinality(1 .. m.quantity) = m.quantity
    BY FS_Interval
  <2>3. IsFiniteSet(New) /\ Cardinality(New) = 1 * m.quantity
    BY <2>1, <2>2, FS_Product
  <2> QED
    BY <2>3
<1>4. Cardinality({}) = 0
  BY FS_EmptySet
<1>5. Cardinality(Units(S)) \in Nat
  BY FS_CardinalityType
<1>6. /\ IsFiniteSet(Units(S) \union New)
      /\ Cardinality(Units(S) \union New) =
             Cardinality(Units(S)) + Cardinality(New) - Cardinality(Units(S) \intersect New)
  <2> HIDE DEF New
  <2> QED
    BY <1>3, FS_Union
<1> HIDE DEF New
<1> QED
  BY <1>1, <1>2, <1>3, <1>4, <1>5, <1>6 DEF Quantity

\* Some of the rows have finitely many of the units.
LEMMA UnitsOfSome ==
    ASSUME NEW S, IsFiniteSet(Units(S)), NEW T \in SUBSET S
    PROVE  IsFiniteSet(Units(T)) /\ Quantity(T) \in Nat
<1>1. Units(T) \subseteq Units(S)
  BY DEF Units
<1>2. IsFiniteSet(Units(T))
  BY <1>1, FS_Subset
<1> QED
  BY <1>2, FS_CardinalityType DEF Quantity

-----------------------------------------------------------------------------
(* Rows of tasks                                                           *)

\* What each transition makes of a row: a row of the same completed quantity,
\* with the next version unless it is the same row.
LEMMA TransitionsTyped ==
    ASSUME NEW row \in Row, NEW x, x.operator \in Operators
    PROVE  \A new \in {Claimed(row, x), Started(row), SourceScanned(row), DestinationScanned(row),
                       ItemScanned(row), LotScanned(row), Closed(row)} :
               /\ new \in Row
               /\ new.completed = row.completed
               /\ new = row \/ new.version = row.version + 1
<1>1. row.version \in Nat /\ row.version + 1 \in Nat \ {0} /\ row.status \in Statuses
  BY DEF Row
<1>2. ASSUME NEW s \in Statuses
      PROVE  /\ Advanced(row, s) \in Row
             /\ Advanced(row, s).completed = row.completed
             /\ Advanced(row, s).version = row.version + 1
  BY <1>1 DEF Advanced, Row
<1>3. /\ "ASSIGNED" \in Statuses /\ "IN_PROGRESS" \in Statuses /\ "COMPLETED" \in Statuses
  BY DEF Statuses
<1>4. ASSUME NEW a \in Row, NEW o \in Operators
      PROVE  LET b == [a EXCEPT !.operator = o]
             IN  b \in Row /\ b.completed = a.completed /\ b.version = a.version
  BY DEF Row
<1>5. ASSUME NEW a \in Row
      PROVE  LET b == [a EXCEPT !.sourceValidated = TRUE]
             IN  b \in Row /\ b.completed = a.completed /\ b.version = a.version
  BY DEF Row
<1>6. ASSUME NEW a \in Row
      PROVE  LET b == [a EXCEPT !.destinationValidated = TRUE]
             IN  b \in Row /\ b.completed = a.completed /\ b.version = a.version
  BY DEF Row
<1>7. ASSUME NEW a \in Row
      PROVE  LET b == [a EXCEPT !.itemValidated = TRUE]
             IN  b \in Row /\ b.completed = a.completed /\ b.version = a.version
  BY DEF Row
<1>8. /\ Claimed(row, x) \in Row /\ Claimed(row, x).completed = row.completed
      /\ Claimed(row, x) = row \/ Claimed(row, x).version = row.version + 1
  BY <1>2, <1>3, <1>4 DEF Claimed
<1>9. /\ Started(row) \in Row /\ Started(row).completed = row.completed
      /\ Started(row) = row \/ Started(row).version = row.version + 1
  BY <1>2, <1>3 DEF Started
<1>10. \A new \in {SourceScanned(row), DestinationScanned(row), ItemScanned(row)} :
           new \in Row /\ new.completed = row.completed /\ new.version = row.version + 1
  <2> DEFINE a == Advanced(row, row.status)
  <2>1. a \in Row /\ a.completed = row.completed /\ a.version = row.version + 1
    BY <1>1, <1>2
  <2>2. /\ SourceScanned(row) = [a EXCEPT !.sourceValidated = TRUE]
        /\ DestinationScanned(row) = [a EXCEPT !.destinationValidated = TRUE]
        /\ ItemScanned(row) = [a EXCEPT !.itemValidated = TRUE]
    BY DEF SourceScanned, DestinationScanned, ItemScanned
  <2> HIDE DEF a
  <2>3. LET b == SourceScanned(row)
        IN  b \in Row /\ b.completed = row.completed /\ b.version = row.version + 1
    BY <1>5, <2>1, <2>2
  <2>4. LET b == DestinationScanned(row)
        IN  b \in Row /\ b.completed = row.completed /\ b.version = row.version + 1
    BY <1>6, <2>1, <2>2
  <2>5. LET b == ItemScanned(row)
        IN  b \in Row /\ b.completed = row.completed /\ b.version = row.version + 1
    BY <1>7, <2>1, <2>2
  <2> QED
    BY <2>3, <2>4, <2>5
<1>11. \A new \in {LotScanned(row), Closed(row)} :
           new \in Row /\ new.completed = row.completed /\ new.version = row.version + 1
  BY <1>2, <1>3 DEF LotScanned, Closed
<1> QED
  BY <1>8, <1>9, <1>10, <1>11

\* What a move makes of a row.
LEMMA MovedTyped ==
    ASSUME NEW row \in Row, NEW order, NEW x, x.quantity \in Nat
    PROVE  LET new == Moved(order, row, x)
           IN  /\ new \in Row
               /\ new.completed = row.completed + x.quantity
               /\ new.version = row.version + 1
<1>1. row.version \in Nat /\ row.version + 1 \in Nat \ {0}
      /\ row.completed + x.quantity \in Nat
  BY DEF Row
<1>2. PICK s \in Statuses : Moved(order, row, x) =
          [Advanced(row, s) EXCEPT !.completed = row.completed + x.quantity]
  BY DEF Moved, Statuses
<1>3. Advanced(row, s) \in Row /\ Advanced(row, s).version = row.version + 1
  BY <1>1 DEF Advanced, Row
<1> QED
  BY <1>1, <1>2, <1>3 DEF Row

-----------------------------------------------------------------------------
(* Types                                                                   *)

LedgerType == [task : Tasks \union {NoTask}, key : Keys, version : Nat, route : Route,
               quantity : Nat \ {0}]
HandlerType == [req : RequestType \union {NoRequest}, held : 0 .. 5]

\* What a request of each kind brings.
Asked(r) ==
    /\ r.kind = "TRANSFER" => r.task = NoTask /\ r.route \in Route
    /\ r.kind # "TRANSFER" => r.task \in Tasks
    /\ r.kind = "CONFIRM" => r.quantity \in Nat \ {0}

\* How many locks a transaction takes.
LocksOf(kind) == CASE kind = "TRANSFER" -> 3
                   [] kind = "CONFIRM" -> 6
                   [] kind = "BEGIN" -> 1
                   [] OTHER -> 2

TypedTables ==
    /\ tasks \in [Tasks -> Row]
    /\ stock \in [Places \X Items -> Int]
    /\ used \in [Locations -> Int]
    /\ ledger \subseteq LedgerType
    /\ IsFiniteSet(Units(ledger))
    /\ results \in [{"movement", "inventory"} ->
                       [Keys -> ResultType \union RequestType \union {NoResult}]]
    /\ \A k \in Keys : results["movement"][k] \in ResultType \union {NoResult}

TypedHandlers ==
    /\ handler \in [Handlers -> HandlerType]
    /\ \A h \in Handlers : Busy(h) => /\ Asked(Req(h))
                                      /\ handler[h].held < LocksOf(Req(h).kind)
                                      /\ Req(h).kind # "BEGIN" => handler[h].held >= 1

Typed == TypedTables /\ TypedHandlers

\* Commands of devices, as requests.
LEMMA SentTyped ==
    ASSUME Typed, NEW c \in Commands, NEW r \in Sent(c)
    PROVE  /\ r \in RequestType
           /\ Sensible(r) => Asked(r)
           /\ r.kind # "TRANSFER" => r.task \in Tasks
           /\ r.kind # "BEGIN"
<1>1. c \in CommandType
  BY MovementAssumption
<1> DEFINE Plain == /\ c.workflow \in Workflows \union {"TRANSFER"}
                    /\ c.operator \in Operators
                    /\ c.quantity \in Int
                    /\ c.match \in BOOLEAN /\ c.foreign \in BOOLEAN
                    /\ c.route \in Route \union {NoRoute}
<1>2. /\ Plain
      /\ c.kind \in Kinds \ {"BEGIN"}
      /\ c.kind = "TRANSFER" => c.task = NoTask /\ c.route \in Route
      /\ c.kind # "TRANSFER" => c.task \in Tasks
  <2>1. ASSUME NEW w \in Workflows, NEW kinds \in SUBSET (Kinds \ {"BEGIN", "TRANSFER"}),
               c \in CommandFor(w, kinds)
        PROVE  Plain /\ c.kind \in Kinds \ {"BEGIN", "TRANSFER"} /\ c.task \in Tasks
    <3>1. /\ c.workflow = w /\ c.operator \in Operators /\ c.quantity \in Int
          /\ c.match \in BOOLEAN /\ c.foreign \in BOOLEAN /\ c.route = NoRoute
          /\ c.kind \in kinds /\ c.task \in Tasks
      BY <2>1 DEF CommandFor
    <3> QED
      BY <3>1
  <2>2. CASE c \in TransferCommand
    <3>1. /\ c.workflow = "TRANSFER" /\ c.operator \in Operators /\ c.quantity \in Int
          /\ c.match = TRUE /\ c.foreign = FALSE /\ c.route \in Route
          /\ c.kind = "TRANSFER" /\ c.task = NoTask
      BY <2>2 DEF TransferCommand
    <3>2. "TRANSFER" \in Kinds
      BY DEF Kinds
    <3> QED
      BY <3>1, <3>2
  <2>3. /\ {PutawayKinds, PickingKinds, ReplenishmentKinds} \subseteq
             SUBSET (Kinds \ {"BEGIN", "TRANSFER"})
        /\ {"PUTAWAY", "PICKING", "REPLENISHMENT"} \subseteq Workflows
    BY DEF Kinds, PutawayKinds, PickingKinds, ReplenishmentKinds, Workflows
  <2> HIDE DEF Plain
  <2> QED
    BY <1>1, <2>1, <2>2, <2>3 DEF CommandType
<1>k. PICK k \in Keys :
        \E b : /\ r = Request(c, k, b)
               /\ c.kind = "TRANSFER" => b = 0
               /\ c.kind # "TRANSFER" => b = tasks[c.task].version
  BY DEF Sent
<1>3. PICK b : /\ r = Request(c, k, b)
               /\ c.kind = "TRANSFER" => b = 0
               /\ c.kind # "TRANSFER" => b = tasks[c.task].version
  BY <1>k
<1>4. b \in Nat
  <2>1. c.kind # "TRANSFER" => tasks[c.task] \in Row
    BY <1>2 DEF Typed, TypedTables
  <2> HIDE DEF Plain
  <2> QED
    BY <1>3, <2>1 DEF Row
<1>5. r \in RequestType
  BY <1>2, <1>3, <1>4 DEF Request, RequestType
<1>6. r.kind = c.kind /\ r.task = c.task /\ r.route = c.route /\ r.quantity = c.quantity
  BY <1>3 DEF Request
<1> QED
  BY <1>2, <1>5, <1>6 DEF Asked, Sensible

-----------------------------------------------------------------------------
(* Steps of a handler                                                      *)

\* The locks of each kind of transaction, by number.
LEMMA PlanOf ==
    ASSUME NEW r
    PROVE  /\ r.kind # "BEGIN" => Plan(r)[1] = KeyLock(r.key)
           /\ r.kind = "BEGIN" => Plan(r)[1] = TaskLock(r.task)
           /\ r.kind \notin {"BEGIN", "TRANSFER"} => Plan(r)[2] = TaskLock(r.task)
           /\ r.kind = "CONFIRM" =>
                  LET m == RouteOf(r) IN /\ Plan(r)[3] = StockLock(m.source, m.item)
                                         /\ Plan(r)[4] = PlaceLock(m.destination)
                                         /\ Plan(r)[5] = StockLock(m.destination, m.item)
                                         /\ Plan(r)[6] = PlaceLock(m.source)
           /\ r.kind = "TRANSFER" =>
                  LET m == RouteOf(r) IN /\ Plan(r)[2] = StockLock(m.source, m.item)
                                         /\ Plan(r)[3] = StockLock(m.destination, m.item)
<1> DEFINE m == RouteOf(r)
<1>1. CASE r.kind = "CONFIRM"
  <2>1. Plan(r) = <<KeyLock(r.key), TaskLock(r.task)>> \o
                  <<StockLock(m.source, m.item), PlaceLock(m.destination),
                    StockLock(m.destination, m.item), PlaceLock(m.source)>>
    BY <1>1 DEF Plan, MoveLocks
  <2>2. ASSUME NEW a, NEW b, NEW c, NEW d, NEW e, NEW f
        PROVE  LET s == <<a, b>> \o <<c, d, e, f>>
               IN  s[1] = a /\ s[2] = b /\ s[3] = c /\ s[4] = d /\ s[5] = e /\ s[6] = f
    OBVIOUS
  <2>3. /\ Plan(r)[1] = KeyLock(r.key) /\ Plan(r)[2] = TaskLock(r.task)
        /\ Plan(r)[3] = StockLock(m.source, m.item) /\ Plan(r)[4] = PlaceLock(m.destination)
        /\ Plan(r)[5] = StockLock(m.destination, m.item) /\ Plan(r)[6] = PlaceLock(m.source)
    BY <2>1, <2>2
  <2> QED
    BY <1>1, <2>3
<1>2. CASE r.kind = "TRANSFER"
  BY <1>2 DEF Plan, RouteOf
<1>3. CASE r.kind \notin {"CONFIRM", "TRANSFER"}
  BY <1>3 DEF Plan
<1> QED
  BY <1>1, <1>2, <1>3

\* The state of one handler changes, to new.
Moves(h, new) == handler' = [handler EXCEPT ![h] = new]

Quiet == UNCHANGED <<tasks, stock, used, ledger, results>>

\* How a handler may move: it ends its transaction, takes its next lock,
\* begins the second transaction of a start, or begins a transaction.
Ends(h) == Moves(h, Idle)
Goes(h) == /\ Busy(h) /\ Free(h, Wanted(h)) /\ Passes(h) /\ Quiet
             /\ Moves(h, [req |-> Req(h), held |-> handler[h].held + 1])
             /\ handler[h].held + 1 < LocksOf(Req(h).kind)
Continues(h) == \E r \in RequestType : /\ Asked(r) /\ r.kind = "BEGIN"
                                       /\ Moves(h, [req |-> r, held |-> 0])
Begins(h) == \E r \in RequestType : /\ Asked(r) /\ r.kind # "BEGIN" /\ Quiet
                                    /\ Free(h, KeyLock(r.key)) /\ NotFound(r)
                                    /\ Moves(h, [req |-> r, held |-> 1])

\* The second transaction of a start.
LEMMA BeginTyped ==
    ASSUME NEW r \in RequestType, r.task \in Tasks, NEW row \in Row
    PROVE  BeginOf(r, row) \in RequestType /\ Asked(BeginOf(r, row)) /\ BeginOf(r, row).kind = "BEGIN"
<1>1. "BEGIN" \in Kinds /\ row.version \in Nat
  BY DEF Kinds, Row
<1> QED
  BY <1>1 DEF BeginOf, RequestType, Asked

\* The steps that begin a transaction.
LEMMA BeginMoves ==
    ASSUME Typed, NEW h \in Handlers, Begin(h)
    PROVE  Quiet /\ (Begins(h) \/ Continues(h))
<1>0. PICK c \in Commands : \E x \in Sent(c) : Lookup(h, x) \/ ReplayStart(h, x)
  BY DEF Begin
<1>1. PICK r \in Sent(c) : Lookup(h, r) \/ ReplayStart(h, r)
  BY <1>0
<1>2. /\ r \in RequestType
      /\ Sensible(r) => Asked(r)
      /\ r.kind # "TRANSFER" => r.task \in Tasks
      /\ r.kind # "BEGIN"
  BY SentTyped
<1>3. CASE Lookup(h, r)
  BY <1>2, <1>3 DEF Lookup, Begins, Moves, Quiet, stockVars
<1>4. CASE ReplayStart(h, r)
  <2>1. r.kind = "START" /\ results["movement"][r.key] # NoResult
    BY <1>4 DEF ReplayStart, NotFound, Table
  <2>2. r.key \in Keys
    BY <1>2 DEF RequestType
  <2>3. results["movement"][r.key] \in ResultType
    BY <2>1, <2>2 DEF Typed, TypedTables
  <2>4. results["movement"][r.key].row \in Row /\ r.task \in Tasks
    BY <1>2, <2>1, <2>3 DEF ResultType
  <2>5. handler' = [handler EXCEPT ![h] =
                       [req |-> BeginOf(r, results["movement"][r.key].row), held |-> 0]]
    BY <1>4 DEF ReplayStart
  <2>6. Continues(h)
    BY <1>2, <2>4, <2>5, BeginTyped DEF Continues, Moves
  <2> QED
    BY <1>4, <2>6 DEF ReplayStart, Quiet, stockVars
<1> QED
  BY <1>1, <1>3, <1>4

\* The steps that take a lock and go on.
LEMMA LockMoves ==
    ASSUME Typed, NEW h \in Handlers,
           \/ LockTask(h) \/ CheckStock(h) \/ CheckPlace(h) \/ LockDestination(h)
           \/ ValidateLocations(h)
    PROVE  Goes(h)
<1>1. handler \in [Handlers -> HandlerType]
  BY DEF Typed, TypedHandlers
<1>2. Locked(h) /\ Busy(h) /\ Free(h, Wanted(h)) /\ Passes(h)
  BY DEF LockTask, CheckStock, CheckPlace, LockDestination, ValidateLocations, Takes
<1>3. handler[h].held + 1 < LocksOf(Req(h).kind)
  BY DEF LockTask, CheckStock, CheckPlace, LockDestination, ValidateLocations, Takes, LocksOf
<1>4. Moves(h, [req |-> Req(h), held |-> handler[h].held + 1])
  <2>1. handler' = [handler EXCEPT ![h] = [handler[h] EXCEPT !.held = handler[h].held + 1]]
    BY <1>2 DEF Locked
  <2>2. [handler[h] EXCEPT !.held = handler[h].held + 1]
          = [req |-> handler[h].req, held |-> handler[h].held + 1]
    BY <1>1 DEF HandlerType
  <2> QED
    BY <2>1, <2>2, Zenon DEF Moves, Req
<1> QED
  BY <1>2, <1>3, <1>4 DEF Goes, Locked, Quiet, stockVars

\* What a command without stock writes: a row of the task it is about, which
\* it has locked, and the result of its key.
ResultOf(r, row) == [workflow |-> r.workflow, operator |-> r.operator, task |-> r.task, row |-> row]
Writes(h, row) ==
    /\ tasks' = [tasks EXCEPT ![Req(h).task] = row]
    /\ \/ results' = results
       \/ /\ Req(h).kind # "BEGIN"
          /\ results' = [results EXCEPT !["movement"][Req(h).key] = ResultOf(Req(h), row)]
TaskWrite(h) ==
    /\ Busy(h)
    /\ Req(h).kind \notin {"CONFIRM", "TRANSFER"}
    /\ Free(h, TaskLock(Req(h).task))
    /\ UNCHANGED <<stock, used, ledger>>
    /\ \E row \in Row : /\ Writes(h, row)
                        /\ row.completed = RowOf(h).completed
                        /\ row = RowOf(h) \/ row.version = RowOf(h).version + 1

\* A request under way and the row it is about.
LEMMA ReqTyped ==
    ASSUME Typed, NEW h \in Handlers, Busy(h)
    PROVE  /\ Req(h) \in RequestType /\ Asked(Req(h))
           /\ Req(h).key \in Keys /\ Req(h).operator \in Operators
           /\ Req(h).kind # "TRANSFER" => Req(h).task \in Tasks /\ RowOf(h) \in Row
           /\ RouteOf(Req(h)) \in Route
<1>1. Req(h) \in RequestType /\ Asked(Req(h))
  BY DEF Typed, TypedHandlers, HandlerType, Busy, Req
<1>2. Req(h).key \in Keys /\ Req(h).operator \in Operators
  BY <1>1 DEF RequestType
<1>3. Req(h).kind # "TRANSFER" => Req(h).task \in Tasks /\ RowOf(h) \in Row
  BY <1>1 DEF Asked, RowOf, Typed, TypedTables
<1>4. RouteOf(Req(h)) \in Route
  BY <1>1, MovementAssumption DEF Asked, RouteOf
<1> QED
  BY <1>1, <1>2, <1>3, <1>4

LEMMA TaskStepWrites ==
    ASSUME Typed, NEW h \in Handlers, TaskStep(h)
    PROVE  TaskWrite(h) /\ (Ends(h) \/ Continues(h))
<1> DEFINE r == Req(h)
           row == RowOf(h)
           Rows == {Claimed(row, r), Started(row), SourceScanned(row), DestinationScanned(row),
                    ItemScanned(row), LotScanned(row), Closed(row)}
<1>1. /\ Busy(h) /\ r.kind \notin {"CONFIRM", "TRANSFER"}
      /\ Free(h, Wanted(h))
      /\ handler[h].held = (IF r.kind = "BEGIN" THEN 0 ELSE 1)
  BY DEF TaskStep, Claim, StartClaim, Start, ValidateSource, ValidateDestination, ValidateItem,
         ValidateLot, ConfirmGroup, Complete, Takes
<1>2. r \in RequestType /\ r.operator \in Operators /\ r.task \in Tasks /\ row \in Row
  BY <1>1, ReqTyped
<1>3. Wanted(h) = TaskLock(r.task)
  BY <1>1, PlanOf DEF Wanted
<1>4. \E new \in Rows :
        /\ \/ Commit(h, new) /\ r.kind # "BEGIN"
           \/ Save(r, new) /\ UNCHANGED <<stockVars, results>>
        /\ Ends(h) \/ (Moves(h, [req |-> BeginOf(r, new), held |-> 0]))
  <2>1. CASE Start(h)
    BY <2>1 DEF Start, Release, Ends, Moves
  <2>2. CASE StartClaim(h)
    BY <2>2 DEF StartClaim, Takes, Moves
  <2>3. CASE Claim(h) \/ ValidateSource(h) \/ ValidateDestination(h) \/ ValidateItem(h)
             \/ ValidateLot(h) \/ ConfirmGroup(h) \/ Complete(h)
    BY <2>3 DEF Claim, ValidateSource, ValidateDestination, ValidateItem, ValidateLot, ConfirmGroup,
                Complete, Takes, Release, Ends, Moves
  <2> QED
    BY <2>1, <2>2, <2>3 DEF TaskStep
<1>5. PICK new \in Rows :
        /\ \/ Commit(h, new) /\ r.kind # "BEGIN"
           \/ Save(r, new) /\ UNCHANGED <<stockVars, results>>
        /\ Ends(h) \/ (Moves(h, [req |-> BeginOf(r, new), held |-> 0]))
  BY <1>4
<1>6. new \in Row /\ new.completed = row.completed /\ (new = row \/ new.version = row.version + 1)
  BY <1>2, <1>5, TransitionsTyped
<1>7. Writes(h, new) /\ UNCHANGED <<stock, used, ledger>>
  BY <1>5 DEF Commit, Save, Store, Writes, stockVars, ResultOf
<1>8. Ends(h) \/ Continues(h)
  BY <1>2, <1>5, <1>6, BeginTyped DEF Continues
<1> QED
  BY <1>1, <1>3, <1>6, <1>7, <1>8 DEF TaskWrite

\* Every step of a handler is of one of five sorts.
LEMMA StepSorts ==
    ASSUME Typed, NEW h \in Handlers, Begin(h) \/ Proceed(h) \/ Victim(h) \/ Abort(h)
    PROVE  \/ Begins(h) \/ Goes(h)
           \/ Quiet /\ (Ends(h) \/ Continues(h))
           \/ TaskWrite(h) /\ (Ends(h) \/ Continues(h))
           \/ ApplyMove(h) /\ Ends(h)
           \/ Transfer(h) /\ Ends(h)
<1>1. CASE Begin(h)
  BY <1>1, BeginMoves
<1>2. CASE TaskStep(h)
  BY <1>2, TaskStepWrites
<1>3. CASE ApplyMove(h) \/ Transfer(h)
  BY <1>3 DEF ApplyMove, Transfer, Release, Ends, Moves
<1>4. CASE \/ LockTask(h) \/ CheckStock(h) \/ CheckPlace(h) \/ LockDestination(h)
           \/ ValidateLocations(h)
  BY <1>4, LockMoves
<1>5. CASE Refuse(h) \/ Victim(h) \/ Abort(h)
  BY <1>5 DEF Refuse, Victim, Abort, Release, Ends, Moves, Quiet, stockVars
<1> QED
  BY <1>1, <1>2, <1>3, <1>4, <1>5 DEF Proceed, StockStep

-----------------------------------------------------------------------------
(* Locks exclude                                                           *)

Exclusive == \A g, h \in Handlers : g # h => Held(g) \intersect Held(h) = {}

\* The other handlers stay as they are.
LEMMA OthersStay ==
    ASSUME Typed, NEW h \in Handlers, NEW new, Moves(h, new)
    PROVE  /\ handler'[h] = new
           /\ \A g \in Handlers \ {h} : /\ handler'[g] = handler[g]
                                        /\ Held(g)' = Held(g)
                                        /\ Req(g)' = Req(g) /\ Busy(g)' = Busy(g)
<1>1. handler \in [Handlers -> HandlerType] /\ handler' = [handler EXCEPT ![h] = new]
  BY DEF Typed, TypedHandlers, Moves
<1>2. handler'[h] = new /\ \A g \in Handlers \ {h} : handler'[g] = handler[g]
  BY <1>1
<1>3. ASSUME NEW g \in Handlers \ {h}
      PROVE  Req(g)' = Req(g) /\ Busy(g)' = Busy(g) /\ Held(g)' = Held(g)
  <2>1. Req(g)' = Req(g)
    BY <1>2 DEF Req
  <2>2. Busy(g)' = Busy(g)
    BY <2>1 DEF Busy
  <2>3. Held(g)' = Held(g)
    BY <1>2, <2>1, <2>2 DEF Held, Plan, RouteOf, MoveLocks, KeyLock, TaskLock, StockLock, PlaceLock
  <2> QED
    BY <2>1, <2>2, <2>3
<1> QED
  BY <1>2, <1>3

\* A handler that ends its transaction, or begins the second one of a start,
\* holds no lock.
LEMMA EndsHeld ==
    ASSUME Typed, NEW h \in Handlers, Ends(h)
    PROVE  Held(h)' = {} /\ ~Busy(h)' /\ handler'[h] = Idle
<1>1. handler'[h] = Idle
  BY OthersStay DEF Ends
<1> QED
  BY <1>1 DEF Idle, Held, Busy, Req

LEMMA ContinuesHeld ==
    ASSUME Typed, NEW h \in Handlers, Continues(h)
    PROVE  /\ Held(h)' = {} /\ Req(h)' \in RequestType /\ Asked(Req(h)')
           /\ Req(h)'.kind = "BEGIN" /\ handler'[h] = [req |-> Req(h)', held |-> 0]
<1>1. PICK r \in RequestType : Asked(r) /\ r.kind = "BEGIN" /\ Moves(h, [req |-> r, held |-> 0])
  BY DEF Continues
<1>2. handler'[h] = [req |-> r, held |-> 0]
  BY <1>1, OthersStay
<1>3. Req(h)' = r /\ handler'[h].held = 0
  BY <1>2 DEF Req
<1>4. Held(h)' = {}
  BY <1>3 DEF Held
<1> QED
  BY <1>1, <1>2, <1>3, <1>4

\* A handler that goes on holds one lock more.
LEMMA GoesHeld ==
    ASSUME Typed, NEW h \in Handlers, Goes(h)
    PROVE  /\ Held(h)' = Held(h) \union {Wanted(h)}
           /\ Req(h)' = Req(h) /\ Busy(h)'
           /\ handler'[h] = [req |-> Req(h), held |-> handler[h].held + 1]
<1>1. handler'[h] = [req |-> Req(h), held |-> handler[h].held + 1] /\ Busy(h)
  BY OthersStay DEF Goes
<1>2. handler[h].held \in Nat
  BY DEF Typed, TypedHandlers, HandlerType
<1>3. Req(h)' = Req(h) /\ Busy(h)' /\ handler'[h].held = handler[h].held + 1
  BY <1>1 DEF Req, Busy
<1>4. 1 .. (handler[h].held + 1) = (1 .. handler[h].held) \union {handler[h].held + 1}
  BY <1>2
<1>5. Plan(Req(h))' = Plan(Req(h))
  BY <1>3 DEF Plan, RouteOf, MoveLocks, KeyLock, TaskLock, StockLock, PlaceLock
<1>6. Held(h)' = {Plan(Req(h))[n] : n \in 1 .. (handler[h].held + 1)}
  BY <1>3, <1>5 DEF Held
<1>7. Held(h) = {Plan(Req(h))[n] : n \in 1 .. handler[h].held}
  BY <1>1 DEF Held
<1> QED
  BY <1>1, <1>3, <1>4, <1>6, <1>7 DEF Wanted

\* A handler that begins holds the lock of its key.
LEMMA BeginsHeld ==
    ASSUME Typed, NEW h \in Handlers, Begins(h)
    PROVE  /\ Held(h)' = {KeyLock(Req(h)'.key)}
           /\ Req(h)' \in RequestType /\ Asked(Req(h)') /\ Req(h)'.kind # "BEGIN"
           /\ Free(h, KeyLock(Req(h)'.key)) /\ NotFound(Req(h)')
           /\ handler'[h] = [req |-> Req(h)', held |-> 1]
<1>1. PICK r \in RequestType : /\ Asked(r) /\ r.kind # "BEGIN"
                               /\ Free(h, KeyLock(r.key)) /\ NotFound(r)
                               /\ Moves(h, [req |-> r, held |-> 1])
  BY DEF Begins
<1>2. handler'[h] = [req |-> r, held |-> 1]
  BY <1>1, OthersStay
<1>3. Req(h)' = r /\ handler'[h].held = 1
  BY <1>2 DEF Req
<1>4. Busy(h)'
  BY <1>1, <1>3, MovementAssumption DEF Busy
<1>5. Held(h)' = {KeyLock(r.key)}
  <2>1. Held(h)' = {Plan(r)[n] : n \in 1 .. 1}
    BY <1>3, <1>4 DEF Held, Plan, RouteOf, MoveLocks, KeyLock, TaskLock, StockLock, PlaceLock
  <2>2. Plan(r)[1] = KeyLock(r.key)
    BY <1>1, PlanOf
  <2> QED
    BY <2>1, <2>2
<1> QED
  BY <1>1, <1>2, <1>3, <1>5

\* No step lets two handlers hold one lock.
LEMMA ExclusiveStep ==
    ASSUME Typed, Exclusive, NEW h \in Handlers, Begin(h) \/ Proceed(h) \/ Victim(h) \/ Abort(h)
    PROVE  Exclusive'
<1>1. \A g \in Handlers \ {h} : Held(g)' = Held(g)
  BY StepSorts, OthersStay DEF Begins, Goes, Ends, Continues
<1>2. \A g \in Handlers \ {h} : Held(g) \intersect Held(h)' = {}
  <2>1. CASE Ends(h) \/ Continues(h)
    BY <2>1, EndsHeld, ContinuesHeld
  <2>2. CASE Goes(h)
    <3>1. Held(h)' = Held(h) \union {Wanted(h)}
      BY <2>2, GoesHeld
    <3>2. \A g \in Handlers \ {h} : Wanted(h) \notin Held(g)
      BY <2>2 DEF Goes, Free
    <3> QED
      BY <3>1, <3>2 DEF Exclusive
  <2>3. CASE Begins(h)
    BY <2>3, BeginsHeld DEF Free
  <2> QED
    BY <2>1, <2>2, <2>3, StepSorts
<1> QED
  BY <1>1, <1>2 DEF Exclusive

-----------------------------------------------------------------------------
(* Types are kept                                                          *)

LEMMA HandlersTyped ==
    ASSUME Typed, NEW h \in Handlers, Begin(h) \/ Proceed(h) \/ Victim(h) \/ Abort(h)
    PROVE  TypedHandlers'
<1>1. PICK new : Moves(h, new)
  BY StepSorts DEF Begins, Goes, Ends, Continues
<1>2. /\ handler'[h] = new
      /\ \A g \in Handlers \ {h} : handler'[g] = handler[g]
  BY <1>1, OthersStay
<1>3. /\ new \in HandlerType
      /\ new.req # NoRequest => /\ Asked(new.req)
                                /\ new.held < LocksOf(new.req.kind)
                                /\ new.req.kind # "BEGIN" => new.held >= 1
  <2>1. CASE Ends(h)
    <3>1. new = Idle
      BY <1>2, <2>1, EndsHeld
    <3> QED
      BY <3>1 DEF Idle, HandlerType
  <2>2. CASE Continues(h)
    <3>1. PICK r \in RequestType : Asked(r) /\ r.kind = "BEGIN" /\ new = [req |-> r, held |-> 0]
      BY <1>2, <2>2, ContinuesHeld
    <3> QED
      BY <3>1 DEF HandlerType, LocksOf
  <2>3. CASE Goes(h)
    <3>1. new = [req |-> Req(h), held |-> handler[h].held + 1] /\ Busy(h)
          /\ handler[h].held + 1 < LocksOf(Req(h).kind)
      BY <1>2, <2>3, GoesHeld DEF Goes
    <3>2. Req(h) \in RequestType /\ Asked(Req(h))
      BY <3>1, ReqTyped
    <3>3. handler[h].held + 1 \in 0 .. 5 /\ handler[h].held + 1 >= 1
      BY <3>1 DEF LocksOf, Typed, TypedHandlers, HandlerType
    <3> QED
      BY <3>1, <3>2, <3>3 DEF HandlerType
  <2>4. CASE Begins(h)
    <3>1. PICK r \in RequestType : Asked(r) /\ r.kind # "BEGIN" /\ new = [req |-> r, held |-> 1]
      BY <1>2, <2>4, BeginsHeld
    <3> QED
      BY <3>1 DEF HandlerType, LocksOf
  <2> QED
    BY <2>1, <2>2, <2>3, <2>4, StepSorts
<1>4. handler' \in [Handlers -> HandlerType]
  BY <1>1, <1>3 DEF Typed, TypedHandlers, Moves
<1>5. ASSUME NEW g \in Handlers, Busy(g)'
      PROVE  /\ Asked(Req(g)')
             /\ handler'[g].held < LocksOf(Req(g)'.kind)
             /\ Req(g)'.kind # "BEGIN" => handler'[g].held >= 1
  <2>1. CASE g = h
    BY <1>2, <1>3, <1>5, <2>1 DEF Busy, Req
  <2>2. CASE g # h
    <3>1. handler'[g] = handler[g] /\ Req(g)' = Req(g) /\ Busy(g)
      BY <1>2, <1>5, <2>2 DEF Busy, Req
    <3> QED
      BY <3>1 DEF Typed, TypedHandlers
  <2> QED
    BY <2>1, <2>2
<1> QED
  BY <1>4, <1>5 DEF TypedHandlers, Asked, LocksOf

\* The row of inventory_movement that a move or a transfer writes.
LEMMA LedgerRowTyped ==
    ASSUME Typed, NEW h \in Handlers, Busy(h), Req(h).quantity > 0, NEW v \in Nat
    PROVE  LET row == LedgerRow(Req(h), v)
           IN  /\ row \in LedgerType /\ row.quantity = Req(h).quantity
               /\ row.route = RouteOf(Req(h)) /\ row.key = Req(h).key /\ row.task = Req(h).task
               /\ IsFiniteSet(Units(ledger \union {row}))
<1> DEFINE row == LedgerRow(Req(h), v)
<1>1. Req(h) \in RequestType /\ RouteOf(Req(h)) \in Route
  BY ReqTyped
<1>2. /\ Req(h).quantity \in Nat \ {0} /\ Req(h).task \in Tasks \union {NoTask}
      /\ Req(h).key \in Keys
  BY <1>1 DEF RequestType
<1>3. row \in LedgerType
  BY <1>1, <1>2 DEF LedgerRow, LedgerType
<1>4. /\ row.quantity = Req(h).quantity
      /\ row.route = RouteOf(Req(h)) /\ row.key = Req(h).key /\ row.task = Req(h).task
  BY DEF LedgerRow
<1>5. IsFiniteSet(Units(ledger)) /\ row.quantity \in Nat
  BY <1>2, <1>4 DEF Typed, TypedTables
<1> HIDE DEF row
<1>6. CASE row \in ledger
  <2>1. ledger \union {row} = ledger
    BY <1>6
  <2> QED
    BY <1>3, <1>4, <1>5, <2>1 DEF row
<1>7. CASE row \notin ledger
  <2>1. IsFiniteSet(Units(ledger \union {row}))
    BY <1>5, <1>7, QuantityOfNewRow
  <2> QED
    BY <1>3, <1>4, <2>1 DEF row
<1> QED
  BY <1>6, <1>7

\* What a move changes, of what it has asked for.
LEMMA MoveWrites ==
    ASSUME Typed, NEW h \in Handlers, ApplyMove(h)
    PROVE  LET r == Req(h)
               row == Moved(Order[r.task], RowOf(h), r) IN
           /\ Busy(h) /\ r.kind = "CONFIRM" /\ handler[h].held = 5
           /\ r.quantity \in Nat \ {0} /\ r.task \in Tasks /\ r.task # NoTask /\ r.key \in Keys
           /\ RouteOf(r) \in Route
           /\ Free(h, PlaceLock(RouteOf(r).source)) /\ FitsSource(h)
           /\ row \in Row /\ row.completed = RowOf(h).completed + r.quantity
           /\ row.version = RowOf(h).version + 1
           /\ Writes(h, row)
           /\ results' = [results EXCEPT !["movement"][r.key] = ResultOf(r, row)]
           /\ stock' = MovedStock(RouteOf(r), r.quantity)
           /\ used' = MovedUsed(RouteOf(r), r.quantity)
           /\ ledger' = ledger \union {LedgerRow(r, row.version)}
<1> DEFINE r == Req(h)
           row == Moved(Order[r.task], RowOf(h), r)
<1>1. Busy(h) /\ r.kind = "CONFIRM" /\ handler[h].held = 5 /\ Free(h, Wanted(h)) /\ Passes(h)
  BY DEF ApplyMove, Takes
<1>2. /\ r.quantity \in Nat \ {0} /\ r.task \in Tasks /\ r.key \in Keys /\ RowOf(h) \in Row
      /\ RouteOf(r) \in Route
  BY <1>1, ReqTyped DEF Asked
<1>3. Wanted(h) = PlaceLock(RouteOf(r).source)
  BY <1>1, PlanOf DEF Wanted
<1>4. FitsSource(h)
  BY <1>1 DEF Passes
<1>5. row \in Row /\ row.completed = RowOf(h).completed + r.quantity
      /\ row.version = RowOf(h).version + 1
  BY <1>2, MovedTyped
<1>6. /\ tasks' = [tasks EXCEPT ![r.task] = row]
      /\ results' = [results EXCEPT !["movement"][r.key] = ResultOf(r, row)]
      /\ stock' = MovedStock(RouteOf(r), r.quantity)
      /\ used' = MovedUsed(RouteOf(r), r.quantity)
      /\ ledger' = ledger \union {LedgerRow(r, row.version)}
  BY DEF ApplyMove, Save, Store, ResultOf
<1>7. r.task # NoTask
  BY <1>2, MovementAssumption
<1> QED
  BY <1>1, <1>2, <1>3, <1>4, <1>5, <1>6, <1>7 DEF Writes

\* What a transfer changes.
LEMMA TransferWrites ==
    ASSUME Typed, NEW h \in Handlers, Transfer(h)
    PROVE  LET r == Req(h) IN
           /\ Busy(h) /\ r.kind = "TRANSFER" /\ handler[h].held = 2
           /\ r.quantity \in Nat \ {0} /\ r.task = NoTask /\ r.key \in Keys /\ r \in RequestType
           /\ RouteOf(r) \in Route
           /\ Free(h, StockLock(RouteOf(r).destination, RouteOf(r).item))
           /\ UNCHANGED <<tasks, used>>
           /\ results' = [results EXCEPT !["inventory"][r.key] = r]
           /\ stock' = MovedStock(RouteOf(r), r.quantity)
           /\ ledger' = ledger \union {LedgerRow(r, 1)}
<1> DEFINE r == Req(h)
<1>1. Busy(h) /\ r.kind = "TRANSFER" /\ handler[h].held = 2 /\ Free(h, Wanted(h)) /\ Passes(h)
  BY DEF Transfer, Takes
<1>2. r \in RequestType /\ Asked(r) /\ r.key \in Keys /\ RouteOf(r) \in Route
  BY <1>1, ReqTyped
<1>3. Wanted(h) = StockLock(RouteOf(r).destination, RouteOf(r).item)
  BY <1>1, PlanOf DEF Wanted
<1>4. r.quantity > 0 /\ r.quantity \in Int
  BY <1>1, <1>2 DEF Passes, RequestType
<1>5. RouteOf(r) = r.route /\ r.task = NoTask
  BY <1>1, <1>2 DEF RouteOf, Asked
<1>6. /\ UNCHANGED <<tasks, used>>
      /\ results' = [results EXCEPT !["inventory"][r.key] = r]
      /\ stock' = MovedStock(r.route, r.quantity)
      /\ ledger' = ledger \union {LedgerRow(r, 1)}
  BY DEF Transfer
<1> QED
  BY <1>1, <1>2, <1>3, <1>4, <1>5, <1>6

\* What a quantity on its way does to the balances.
LEMMA StockMoved ==
    ASSUME stock \in [Places \X Items -> Int], NEW m \in Route, NEW q \in Nat
    PROVE  /\ MovedStock(m, q) \in [Places \X Items -> Int]
           /\ \A p \in Places, i \in Items :
                  MovedStock(m, q)[<<p, i>>] =
                      stock[<<p, i>>] - (IF p = m.source /\ i = m.item THEN q ELSE 0)
                                  + (IF p = m.destination /\ i = m.item THEN q ELSE 0)
<1>1. m.source \in Places /\ m.destination \in Places /\ m.item \in Items
  BY DEF Route
<1> DEFINE a == <<m.source, m.item>>
           b == <<m.destination, m.item>>
           out == [stock EXCEPT ![a] = stock[a] - q]
<1>2. a \in Places \X Items /\ b \in Places \X Items
  BY <1>1
<1>3. MovedStock(m, q) = [out EXCEPT ![b] = out[b] + q]
  BY DEF MovedStock
<1>4. out \in [Places \X Items -> Int]
  <2> HIDE DEF a, b
  <2> QED
    BY <1>2
<1>5. MovedStock(m, q) \in [Places \X Items -> Int]
  <2> HIDE DEF a, b, out
  <2> QED
    BY <1>2, <1>3, <1>4
<1>6. ASSUME NEW p \in Places, NEW i \in Items
      PROVE  MovedStock(m, q)[<<p, i>>] =
                 stock[<<p, i>>] - (IF p = m.source /\ i = m.item THEN q ELSE 0)
                             + (IF p = m.destination /\ i = m.item THEN q ELSE 0)
  <2> DEFINE x == <<p, i>>
  <2>1. x \in Places \X Items
    OBVIOUS
  <2>2. (x = a <=> p = m.source /\ i = m.item) /\ (x = b <=> p = m.destination /\ i = m.item)
    OBVIOUS
  <2>3. MovedStock(m, q)[x] = stock[x] - (IF x = a THEN q ELSE 0) + (IF x = b THEN q ELSE 0)
    <3> HIDE DEF a, b, x
    <3> QED
      BY <1>2, <1>3, <1>4, <2>1
  <2> QED
    BY <2>2, <2>3
<1> QED
  BY <1>5, <1>6

LEMMA TablesTyped ==
    ASSUME Typed, NEW h \in Handlers, Begin(h) \/ Proceed(h) \/ Victim(h) \/ Abort(h)
    PROVE  TypedTables'
<1> DEFINE r == Req(h)
<1>1. CASE Quiet
  BY <1>1 DEF Quiet, Typed, TypedTables
<1>2. ASSUME NEW row \in Row, Writes(h, row), Busy(h), r.kind # "TRANSFER"
      PROVE  /\ tasks' \in [Tasks -> Row]
             /\ results' \in [{"movement", "inventory"} ->
                                [Keys -> ResultType \union RequestType \union {NoResult}]]
             /\ \A k \in Keys : results'["movement"][k] \in ResultType \union {NoResult}
  <2>1. r \in RequestType /\ r.key \in Keys /\ r.task \in Tasks
    BY <1>2, ReqTyped
  <2>2. ResultOf(r, row) \in ResultType
    BY <2>1 DEF RequestType, ResultType, ResultOf
  <2>3. tasks' \in [Tasks -> Row]
    BY <1>2, <2>1 DEF Writes, Typed, TypedTables
  <2>4. CASE results' = results
    BY <2>3, <2>4 DEF Typed, TypedTables
  <2>5. CASE results' = [results EXCEPT !["movement"][r.key] = ResultOf(r, row)]
    <3> DEFINE new == [results["movement"] EXCEPT ![r.key] = ResultOf(r, row)]
    <3>1. results["movement"] \in [Keys -> ResultType \union RequestType \union {NoResult}]
      BY DEF Typed, TypedTables
    <3>2. results' = [results EXCEPT !["movement"] = new]
      BY <2>5
    <3>3. /\ new \in [Keys -> ResultType \union RequestType \union {NoResult}]
          /\ \A k \in Keys : new[k] \in ResultType \union {NoResult}
      BY <2>1, <2>2, <3>1 DEF Typed, TypedTables
    <3> HIDE DEF new
    <3> QED
      BY <2>3, <3>2, <3>3 DEF Typed, TypedTables
  <2> QED
    BY <1>2, <2>4, <2>5 DEF Writes
<1>3. CASE TaskWrite(h)
  <2>1. PICK row \in Row : Writes(h, row)
    BY <1>3 DEF TaskWrite
  <2>2. Busy(h) /\ r.kind # "TRANSFER" /\ UNCHANGED <<stock, used, ledger>>
    BY <1>3 DEF TaskWrite
  <2>3. /\ tasks' \in [Tasks -> Row]
        /\ results' \in [{"movement", "inventory"} ->
                            [Keys -> ResultType \union RequestType \union {NoResult}]]
        /\ \A k \in Keys : results'["movement"][k] \in ResultType \union {NoResult}
    BY <1>2, <2>1, <2>2
  <2> QED
    BY <2>2, <2>3 DEF Typed, TypedTables
<1>4. CASE ApplyMove(h)
  <2> DEFINE row == Moved(Order[r.task], RowOf(h), r)
  <2>1. /\ Busy(h) /\ r.kind = "CONFIRM" /\ r.quantity \in Nat \ {0} /\ RouteOf(r) \in Route
        /\ row \in Row /\ Writes(h, row)
        /\ stock' = MovedStock(RouteOf(r), r.quantity)
        /\ used' = MovedUsed(RouteOf(r), r.quantity)
        /\ ledger' = ledger \union {LedgerRow(r, row.version)}
    BY <1>4, MoveWrites
  <2>2. row.version \in Nat /\ r.quantity > 0
    BY <2>1 DEF Row
  <2>3. stock' \in [Places \X Items -> Int]
    BY <2>1, StockMoved DEF Typed, TypedTables
  <2>4. used' \in [Locations -> Int]
    BY <2>1 DEF MovedUsed, Typed, TypedTables
  <2>5. ledger' \subseteq LedgerType /\ IsFiniteSet(Units(ledger'))
    <3> HIDE DEF row
    <3> QED
      BY <2>1, <2>2, LedgerRowTyped DEF Typed, TypedTables
  <2>6. Units(ledger)' = Units(ledger')
    BY DEF Units
  <2> HIDE DEF row
  <2> QED
    BY <1>2, <2>1, <2>3, <2>4, <2>5, <2>6 DEF TypedTables
<1>5. CASE Transfer(h)
  <2>1. /\ Busy(h) /\ r.quantity \in Nat \ {0} /\ RouteOf(r) \in Route /\ r.key \in Keys
        /\ r \in RequestType
        /\ UNCHANGED <<tasks, used>>
        /\ results' = [results EXCEPT !["inventory"][r.key] = r]
        /\ stock' = MovedStock(RouteOf(r), r.quantity)
        /\ ledger' = ledger \union {LedgerRow(r, 1)}
    BY <1>5, TransferWrites
  <2>2. stock' \in [Places \X Items -> Int]
    BY <2>1, StockMoved DEF Typed, TypedTables
  <2>3. ledger' \subseteq LedgerType /\ IsFiniteSet(Units(ledger'))
    <3>1. r.quantity > 0
      BY <2>1
    <3> QED
      BY <2>1, <3>1, LedgerRowTyped DEF Typed, TypedTables
  <2>4. Units(ledger)' = Units(ledger')
    BY DEF Units
  <2>5. /\ results' \in [{"movement", "inventory"} ->
                            [Keys -> ResultType \union RequestType \union {NoResult}]]
        /\ results'["movement"] = results["movement"]
    BY <2>1 DEF Typed, TypedTables
  <2> QED
    BY <2>1, <2>2, <2>3, <2>4, <2>5 DEF Typed, TypedTables
<1> QED
  BY <1>1, <1>3, <1>4, <1>5, StepSorts DEF Begins, Goes

-----------------------------------------------------------------------------
(* What a lock protects                                                    *)

\* The locks of different things differ.
LEMMA LocksDiffer ==
    /\ \A a, b : TaskLock(a) = TaskLock(b) => a = b
    /\ \A a, b : PlaceLock(a) = PlaceLock(b) => a = b
    /\ \A a, b : KeyLock(a) = KeyLock(b) => a = b
    /\ \A a, b, c, d : StockLock(a, b) = StockLock(c, d) => a = c /\ b = d
  BY DEF TaskLock, PlaceLock, KeyLock, StockLock

\* The locks that a handler has taken so far.
LEMMA HeldSoFar ==
    ASSUME Typed, NEW h \in Handlers, Busy(h)
    PROVE  LET r == Req(h)
               m == RouteOf(r)
               held == handler[h].held IN
           /\ r.kind # "BEGIN" => KeyLock(r.key) \in Held(h)
           /\ r.kind = "CONFIRM" /\ held >= 2 => TaskLock(r.task) \in Held(h)
           /\ r.kind = "CONFIRM" /\ held >= 3 => StockLock(m.source, m.item) \in Held(h)
           /\ r.kind = "CONFIRM" /\ held >= 4 => PlaceLock(m.destination) \in Held(h)
           /\ r.kind = "CONFIRM" /\ held >= 5 => StockLock(m.destination, m.item) \in Held(h)
           /\ r.kind = "TRANSFER" /\ held >= 2 => StockLock(m.source, m.item) \in Held(h)
<1>1. handler[h].held \in Nat /\ (Req(h).kind # "BEGIN" => handler[h].held >= 1)
  BY DEF Typed, TypedHandlers, HandlerType
<1>2. \A n \in Nat \ {0} : n <= handler[h].held => Plan(Req(h))[n] \in Held(h)
  BY <1>1 DEF Held
<1>3. /\ 1 <= handler[h].held => Plan(Req(h))[1] \in Held(h)
      /\ 2 <= handler[h].held => Plan(Req(h))[2] \in Held(h)
      /\ 3 <= handler[h].held => Plan(Req(h))[3] \in Held(h)
      /\ 4 <= handler[h].held => Plan(Req(h))[4] \in Held(h)
      /\ 5 <= handler[h].held => Plan(Req(h))[5] \in Held(h)
  BY <1>2
<1> QED
  BY <1>1, <1>3, PlanOf

\* What one handler has locked, no other one changes.
LEMMA LockedKept ==
    ASSUME Typed, Exclusive, NEW h \in Handlers,
           Begin(h) \/ Proceed(h) \/ Victim(h) \/ Abort(h), NEW g \in Handlers \ {h}
    PROVE  /\ \A t \in Tasks : TaskLock(t) \in Held(g) => tasks'[t] = tasks[t]
           /\ \A p \in Places, i \in Items : StockLock(p, i) \in Held(g) => stock'[<<p, i>>] = stock[<<p, i>>]
           /\ \A l \in Locations : PlaceLock(l) \in Held(g) => used'[l] = used[l]
           /\ \A k \in Keys : KeyLock(k) \in Held(g) =>
                  \A s \in {"movement", "inventory"} : results'[s][k] = results[s][k]
<1> DEFINE r == Req(h)
           m == RouteOf(r)
<1>1. CASE Quiet
  BY <1>1 DEF Quiet
<1>2. ASSUME Busy(h), r.kind # "BEGIN"
      PROVE  KeyLock(r.key) \notin Held(g)
  BY <1>2, HeldSoFar DEF Exclusive
<1>3. ASSUME NEW row, Writes(h, row), Busy(h), TaskLock(r.task) \notin Held(g)
      PROVE  /\ \A t \in Tasks : TaskLock(t) \in Held(g) => tasks'[t] = tasks[t]
             /\ \A k \in Keys : KeyLock(k) \in Held(g) =>
                    \A s \in {"movement", "inventory"} : results'[s][k] = results[s][k]
  <2>1. \A t \in Tasks : t # r.task => tasks'[t] = tasks[t]
    BY <1>3 DEF Writes, Typed, TypedTables
  <2>2. CASE results' = results
    BY <1>3, <2>1, <2>2
  <2>3. CASE r.kind # "BEGIN" /\ results' = [results EXCEPT !["movement"][r.key] = ResultOf(r, row)]
    <3>1. \A k \in Keys : k # r.key =>
             \A s \in {"movement", "inventory"} : results'[s][k] = results[s][k]
      BY <2>3 DEF Typed, TypedTables
    <3> QED
      BY <1>2, <1>3, <2>1, <2>3, <3>1
  <2> QED
    BY <1>3, <2>2, <2>3 DEF Writes
<1>4. CASE TaskWrite(h)
  <2>1. /\ Busy(h) /\ TaskLock(r.task) \notin Held(g) /\ UNCHANGED <<stock, used, ledger>>
    BY <1>4 DEF TaskWrite, Free
  <2>2. PICK row \in Row : Writes(h, row)
    BY <1>4 DEF TaskWrite
  <2> QED
    BY <1>3, <2>1, <2>2
<1>5. ASSUME m \in Route, r.quantity \in Nat, stock' = MovedStock(m, r.quantity),
             StockLock(m.source, m.item) \notin Held(g),
             StockLock(m.destination, m.item) \notin Held(g)
      PROVE  \A p \in Places, i \in Items : StockLock(p, i) \in Held(g) => stock'[<<p, i>>] = stock[<<p, i>>]
  <2> SUFFICES ASSUME NEW p \in Places, NEW i \in Items, StockLock(p, i) \in Held(g)
               PROVE  stock'[<<p, i>>] = stock[<<p, i>>]
    OBVIOUS
  <2>1. ~(p = m.source /\ i = m.item) /\ ~(p = m.destination /\ i = m.item)
    BY <1>5
  <2>2. stock'[<<p, i>>] = stock[<<p, i>>] - 0 + 0 /\ stock[<<p, i>>] \in Int
    BY <1>5, <2>1, StockMoved DEF Typed, TypedTables
  <2> QED
    BY <2>2
<1>6. CASE ApplyMove(h)
  <2> DEFINE row == Moved(Order[r.task], RowOf(h), r)
  <2>1. /\ Busy(h) /\ r.kind = "CONFIRM" /\ handler[h].held = 5
        /\ r.quantity \in Nat \ {0} /\ m \in Route
        /\ Free(h, PlaceLock(m.source))
        /\ Writes(h, row)
        /\ stock' = MovedStock(m, r.quantity)
        /\ used' = MovedUsed(m, r.quantity)
    BY <1>6, MoveWrites
  <2>2. /\ TaskLock(r.task) \notin Held(g)
        /\ StockLock(m.source, m.item) \notin Held(g)
        /\ StockLock(m.destination, m.item) \notin Held(g)
        /\ PlaceLock(m.destination) \notin Held(g)
    BY <2>1, HeldSoFar DEF Exclusive
  <2>3. PlaceLock(m.source) \notin Held(g)
    BY <2>1 DEF Free
  <2>4. \A l \in Locations : l # m.source /\ l # m.destination => used'[l] = used[l]
    BY <2>1 DEF MovedUsed, Typed, TypedTables
  <2>5. \A l \in Locations : PlaceLock(l) \in Held(g) => used'[l] = used[l]
    BY <2>2, <2>3, <2>4
  <2> HIDE DEF row, m
  <2> QED
    BY <1>3, <1>5, <2>1, <2>2, <2>5
<1>7. CASE Transfer(h)
  <2>1. /\ Busy(h) /\ r.kind = "TRANSFER" /\ handler[h].held = 2
        /\ r.quantity \in Nat \ {0} /\ m \in Route
        /\ Free(h, StockLock(m.destination, m.item))
        /\ UNCHANGED <<tasks, used>>
        /\ results' = [results EXCEPT !["inventory"][r.key] = r]
        /\ stock' = MovedStock(m, r.quantity)
    BY <1>7, TransferWrites
  <2>2. StockLock(m.source, m.item) \notin Held(g)
    BY <2>1, HeldSoFar DEF Exclusive
  <2>3. StockLock(m.destination, m.item) \notin Held(g)
    BY <2>1 DEF Free
  <2>4. \A k \in Keys : k # r.key =>
            \A s \in {"movement", "inventory"} : results'[s][k] = results[s][k]
    BY <2>1 DEF Typed, TypedTables
  <2>5. KeyLock(r.key) \notin Held(g)
    BY <1>2, <2>1
  <2> HIDE DEF m
  <2> QED
    BY <1>5, <2>1, <2>2, <2>3, <2>4, <2>5
<1> QED
  BY <1>1, <1>4, <1>6, <1>7, StepSorts DEF Begins, Goes

\* What a transaction has checked stays true until it ends.
Checked ==
    \A h \in Handlers : Busy(h) =>
        /\ Req(h).kind = "CONFIRM" /\ handler[h].held >= 2 => FitsTask(h)
        /\ Req(h).kind = "CONFIRM" /\ handler[h].held >= 3 => FitsStock(h)
        /\ Req(h).kind = "CONFIRM" /\ handler[h].held >= 4 => FitsPlace(h)
        /\ Req(h).kind = "TRANSFER" /\ handler[h].held >= 2 => FitsTransfer(h)

\* The checks that come with each lock.
LEMMA GoesChecked ==
    ASSUME Typed, Checked, NEW h \in Handlers, Goes(h)
    PROVE  /\ Req(h).kind = "CONFIRM" => FitsTask(h)
           /\ Req(h).kind = "CONFIRM" /\ handler[h].held >= 2 => FitsStock(h)
           /\ Req(h).kind = "CONFIRM" /\ handler[h].held >= 3 => FitsPlace(h)
           /\ Req(h).kind = "TRANSFER" => FitsTransfer(h)
<1>1. Busy(h) /\ Passes(h) /\ handler[h].held + 1 < LocksOf(Req(h).kind)
  BY DEF Goes
<1>2. handler[h].held \in Nat /\ (Req(h).kind # "BEGIN" => handler[h].held >= 1)
  BY <1>1 DEF Typed, TypedHandlers, HandlerType
<1>3. CASE Req(h).kind = "CONFIRM"
  <2>1. handler[h].held = 1 => FitsTask(h)
    BY <1>1, <1>3 DEF Passes
  <2>2. handler[h].held = 2 => FitsStock(h)
    BY <1>1, <1>3 DEF Passes
  <2>3. handler[h].held = 3 => FitsPlace(h)
    BY <1>1, <1>3 DEF Passes
  <2> QED
    BY <1>1, <1>2, <1>3, <2>1, <2>2, <2>3 DEF Checked
<1>4. CASE Req(h).kind = "TRANSFER"
  <2>1. handler[h].held = 1
    BY <1>1, <1>2, <1>4 DEF LocksOf
  <2> QED
    BY <1>1, <1>4, <2>1 DEF Passes
<1> QED
  BY <1>3, <1>4

LEMMA CheckedStep ==
    ASSUME Typed, Exclusive, Checked, NEW h \in Handlers,
           Begin(h) \/ Proceed(h) \/ Victim(h) \/ Abort(h)
    PROVE  Checked'
<1>1. PICK new : Moves(h, new)
  BY StepSorts DEF Begins, Goes, Ends, Continues
<1>2. ASSUME NEW g \in Handlers, Busy(g)'
      PROVE  /\ Req(g)'.kind = "CONFIRM" /\ handler'[g].held >= 2 => FitsTask(g)'
             /\ Req(g)'.kind = "CONFIRM" /\ handler'[g].held >= 3 => FitsStock(g)'
             /\ Req(g)'.kind = "CONFIRM" /\ handler'[g].held >= 4 => FitsPlace(g)'
             /\ Req(g)'.kind = "TRANSFER" /\ handler'[g].held >= 2 => FitsTransfer(g)'
  <2>1. CASE g # h
    <3>1. handler'[g] = handler[g] /\ Req(g)' = Req(g) /\ Busy(g)
      BY <1>1, <1>2, <2>1, OthersStay
    <3> DEFINE r == Req(g)
               m == RouteOf(r)
    <3>2. m \in Route /\ RouteOf(Req(g))' = m
      BY <3>1, ReqTyped DEF RouteOf
    <3>3. m.source \in Places /\ m.item \in Items
      BY <3>2 DEF Route
    <3>4. CASE r.kind = "CONFIRM"
      <4>1. r.task \in Tasks
        BY <3>1, <3>4, ReqTyped
      <4>2. handler[g].held >= 2 => FitsTask(g)'
        <5>1. handler[g].held >= 2 => tasks'[r.task] = tasks[r.task] /\ FitsTask(g)
          BY <2>1, <3>1, <3>4, <4>1, HeldSoFar, LockedKept DEF Checked
        <5> QED
          BY <3>1, <5>1 DEF FitsTask, RowOf, InScope, CanMove, guard, Remaining
      <4>3. handler[g].held >= 3 => FitsStock(g)'
        <5>1. handler[g].held >= 3 =>
                  stock'[<<m.source, m.item>>] = stock[<<m.source, m.item>>] /\ FitsStock(g)
          BY <2>1, <3>1, <3>3, <3>4, HeldSoFar, LockedKept DEF Checked
        <5> QED
          BY <3>1, <3>2, <5>1 DEF FitsStock
      <4>4. handler[g].held >= 4 => FitsPlace(g)'
        <5>1. handler[g].held >= 4 => FitsPlace(g) /\ PlaceLock(m.destination) \in Held(g)
          BY <3>1, <3>4, HeldSoFar DEF Checked
        <5>2. handler[g].held >= 4 => used'[m.destination] = used[m.destination]
          BY <2>1, <5>1, LockedKept DEF FitsPlace
        <5> QED
          BY <3>1, <3>2, <5>1, <5>2 DEF FitsPlace
      <4> QED
        BY <3>1, <3>4, <4>2, <4>3, <4>4
    <3>5. CASE r.kind = "TRANSFER"
      <4>1. handler[g].held >= 2 =>
                stock'[<<m.source, m.item>>] = stock[<<m.source, m.item>>] /\ FitsTransfer(g)
        BY <2>1, <3>1, <3>3, <3>5, HeldSoFar, LockedKept DEF Checked
      <4>2. handler[g].held >= 2 => FitsTransfer(g)'
        BY <3>1, <3>2, <4>1 DEF FitsTransfer, FitsStock
      <4> QED
        BY <3>1, <3>5, <4>2
    <3> QED
      BY <3>1, <3>4, <3>5
  <2>2. CASE g = h /\ Goes(h)
    <3>1. /\ Req(h)' = Req(h) /\ handler'[h].held = handler[h].held + 1
          /\ UNCHANGED <<tasks, stock, used>>
      BY <2>2, GoesHeld DEF Goes, Quiet
    <3>2. handler[h].held \in Nat
      BY DEF Typed, TypedHandlers, HandlerType
    <3>3. /\ FitsTask(h) => FitsTask(h)'
          /\ FitsStock(h) => FitsStock(h)'
          /\ FitsPlace(h) => FitsPlace(h)'
          /\ FitsTransfer(h) => FitsTransfer(h)'
      BY <3>1 DEF FitsTask, RowOf, InScope, CanMove, guard, Remaining, FitsStock, FitsPlace,
                  FitsTransfer, RouteOf
    <3> QED
      BY <2>2, <3>1, <3>2, <3>3, GoesChecked
  <2>3. CASE g = h /\ (Begins(h) \/ Continues(h))
    <3>1. \/ handler'[h] = [req |-> Req(h)', held |-> 1]
          \/ handler'[h] = [req |-> Req(h)', held |-> 0]
      BY <2>3, BeginsHeld, ContinuesHeld
    <3>2. handler'[h].held = 0 \/ handler'[h].held = 1
      BY <3>1
    <3> QED
      BY <2>3, <3>2
  <2>4. CASE g = h /\ Ends(h)
    BY <1>2, <2>4, EndsHeld
  <2> QED
    BY <2>1, <2>2, <2>3, <2>4, StepSorts
<1> QED
  BY <1>2 DEF Checked

-----------------------------------------------------------------------------
(* One move per key                                                        *)

\* The table that keeps the result of the command a movement belongs to.
BookOf(m) == IF m.task = NoTask THEN "inventory" ELSE "movement"

\* A transaction under way has found no result for its key, and whoever has
\* moved stock has left one; so no two movements are of the same command.
KeysUsed ==
    /\ \A h \in Handlers : Busy(h) /\ Req(h).kind # "BEGIN" => NotFound(Req(h))
    /\ \A m \in ledger : results[BookOf(m)][m.key] # NoResult
    /\ \A m, n \in ledger : m.key = n.key /\ BookOf(m) = BookOf(n) => m = n

\* A step that moves stock, as one movement that is new.
Books(row) ==
    /\ ledger' = ledger \union {row}
    /\ row \in LedgerType /\ row \notin ledger
    /\ \A n \in ledger : ~(n.key = row.key /\ BookOf(n) = BookOf(row))
    /\ results'[BookOf(row)][row.key] # NoResult
    /\ stock' = MovedStock(row.route, row.quantity)
    /\ stock[<<row.route.source, row.route.item>>] >= row.quantity

LEMMA MoveBooks ==
    ASSUME Typed, Checked, KeysUsed, NEW h \in Handlers, ApplyMove(h)
    PROVE  \E row : /\ Books(row) /\ row.task = Req(h).task /\ row.quantity = Req(h).quantity
                    /\ row.route = RouteOf(Req(h))
<1> DEFINE r == Req(h)
           new == Moved(Order[r.task], RowOf(h), r)
           row == LedgerRow(r, new.version)
<1>1. /\ Busy(h) /\ r.kind = "CONFIRM" /\ handler[h].held = 5
      /\ r.quantity \in Nat \ {0} /\ r.task \in Tasks /\ r.task # NoTask /\ r.key \in Keys
      /\ new \in Row
      /\ results' = [results EXCEPT !["movement"][r.key] = ResultOf(r, new)]
      /\ stock' = MovedStock(RouteOf(r), r.quantity)
      /\ ledger' = ledger \union {row}
  BY MoveWrites
<1>2. new.version \in Nat /\ r.quantity > 0 /\ r \in RequestType
  BY <1>1, ReqTyped DEF Row
<1> HIDE DEF new
<1>3. /\ row \in LedgerType /\ row.quantity = r.quantity /\ row.route = RouteOf(r)
      /\ row.key = r.key /\ row.task = r.task
  BY <1>1, <1>2, LedgerRowTyped
<1>4. BookOf(row) = "movement"
  BY <1>1, <1>3 DEF BookOf
<1> HIDE DEF row
<1>5. results["movement"][r.key] = NoResult
  BY <1>1 DEF KeysUsed, NotFound, Table
<1>6. \A n \in ledger : ~(n.key = row.key /\ BookOf(n) = BookOf(row))
  BY <1>3, <1>4, <1>5 DEF KeysUsed
<1>7. row \notin ledger
  BY <1>6
<1>8. results'["movement"][r.key] = ResultOf(r, new)
  BY <1>1 DEF Typed, TypedTables
<1>9. ResultOf(r, new) \in ResultType
  BY <1>1, <1>2 DEF ResultOf, ResultType, RequestType
<1>10. results'[BookOf(row)][row.key] # NoResult
  BY <1>3, <1>4, <1>8, <1>9, MovementAssumption
<1>11. stock[<<RouteOf(r).source, RouteOf(r).item>>] >= r.quantity
  BY <1>1 DEF Checked, FitsStock
<1>12. Books(row)
  BY <1>1, <1>3, <1>6, <1>7, <1>10, <1>11 DEF Books
<1> QED
  BY <1>3, <1>12

LEMMA TransferBooks ==
    ASSUME Typed, Checked, KeysUsed, NEW h \in Handlers, Transfer(h)
    PROVE  \E row : Books(row) /\ row.task = NoTask
<1> DEFINE r == Req(h)
           row == LedgerRow(r, 1)
<1>1. /\ Busy(h) /\ r.kind = "TRANSFER" /\ handler[h].held = 2
      /\ r.quantity \in Nat \ {0} /\ r.task = NoTask /\ r.key \in Keys /\ r \in RequestType
      /\ results' = [results EXCEPT !["inventory"][r.key] = r]
      /\ stock' = MovedStock(RouteOf(r), r.quantity)
      /\ ledger' = ledger \union {row}
  BY TransferWrites
<1>2. r.quantity > 0 /\ 1 \in Nat
  BY <1>1
<1>3. /\ row \in LedgerType /\ row.quantity = r.quantity /\ row.route = RouteOf(r)
      /\ row.key = r.key /\ row.task = NoTask
  BY <1>1, <1>2, LedgerRowTyped
<1>4. BookOf(row) = "inventory"
  BY <1>3 DEF BookOf
<1> HIDE DEF row
<1>5. results["inventory"][r.key] = NoResult
  BY <1>1 DEF KeysUsed, NotFound, Table
<1>6. \A n \in ledger : ~(n.key = row.key /\ BookOf(n) = BookOf(row))
  BY <1>3, <1>4, <1>5 DEF KeysUsed
<1>7. row \notin ledger
  BY <1>6
<1>8. results'["inventory"][r.key] = r
  BY <1>1 DEF Typed, TypedTables
<1>9. results'[BookOf(row)][row.key] # NoResult
  BY <1>1, <1>3, <1>4, <1>8, MovementAssumption
<1>10. stock[<<RouteOf(r).source, RouteOf(r).item>>] >= r.quantity
  BY <1>1 DEF Checked, FitsTransfer, FitsStock
<1>11. Books(row)
  BY <1>1, <1>3, <1>6, <1>7, <1>9, <1>10 DEF Books
<1> QED
  BY <1>3, <1>11

\* A step writes no movement or one that is new.
LEMMA StepBooks ==
    ASSUME Typed, Checked, KeysUsed, NEW h \in Handlers,
           Begin(h) \/ Proceed(h) \/ Victim(h) \/ Abort(h)
    PROVE  UNCHANGED <<stock, ledger>> \/ \E row : Books(row)
<1>1. CASE Quiet \/ TaskWrite(h)
  BY <1>1 DEF Quiet, TaskWrite
<1> QED
  BY <1>1, MoveBooks, TransferBooks, StepSorts DEF Begins, Goes

\* A stored result is never lost.
LEMMA ResultsStay ==
    ASSUME Typed, NEW h \in Handlers, Begin(h) \/ Proceed(h) \/ Victim(h) \/ Abort(h)
    PROVE  \A s \in {"movement", "inventory"}, k \in Keys :
               results[s][k] # NoResult => results'[s][k] # NoResult
<1> DEFINE r == Req(h)
<1>1. CASE Quiet
  BY <1>1 DEF Quiet
<1>2. ASSUME NEW row \in Row, Writes(h, row), Busy(h), r.kind # "TRANSFER"
      PROVE  \A s \in {"movement", "inventory"}, k \in Keys :
                 results[s][k] # NoResult => results'[s][k] # NoResult
  <2>1. r \in RequestType /\ r.key \in Keys /\ r.task \in Tasks
    BY <1>2, ReqTyped
  <2>2. ResultOf(r, row) \in ResultType
    BY <2>1 DEF RequestType, ResultType, ResultOf
  <2>3. ResultOf(r, row) # NoResult
    BY <2>2, MovementAssumption
  <2> QED
    BY <1>2, <2>1, <2>3 DEF Writes, Typed, TypedTables
<1>3. CASE TaskWrite(h)
  <2>1. PICK row \in Row : Writes(h, row)
    BY <1>3 DEF TaskWrite
  <2> QED
    BY <1>2, <1>3, <2>1 DEF TaskWrite
<1>4. CASE ApplyMove(h)
  <2>1. \E row \in Row : Writes(h, row)
    BY <1>4, MoveWrites
  <2>2. Busy(h) /\ r.kind = "CONFIRM"
    BY <1>4, MoveWrites
  <2> QED
    BY <1>2, <2>1, <2>2
<1>5. CASE Transfer(h)
  <2>1. /\ r.key \in Keys /\ r \in RequestType
        /\ results' = [results EXCEPT !["inventory"][r.key] = r]
    BY <1>5, TransferWrites
  <2>2. r # NoResult
    BY <2>1, MovementAssumption
  <2> QED
    BY <2>1, <2>2 DEF Typed, TypedTables
<1> QED
  BY <1>1, <1>3, <1>4, <1>5, StepSorts DEF Begins, Goes

LEMMA KeysUsedStep ==
    ASSUME Typed, Exclusive, Checked, KeysUsed, NEW h \in Handlers,
           Begin(h) \/ Proceed(h) \/ Victim(h) \/ Abort(h)
    PROVE  KeysUsed'
<1>1. PICK new : Moves(h, new)
  BY StepSorts DEF Begins, Goes, Ends, Continues
<1>2. ASSUME NEW g \in Handlers, Busy(g)', Req(g)'.kind # "BEGIN"
      PROVE  NotFound(Req(g))'
  <2>1. CASE g # h
    <3>1. handler'[g] = handler[g] /\ Req(g)' = Req(g) /\ Busy(g)
      BY <1>1, <1>2, <2>1, OthersStay
    <3>2. KeyLock(Req(g).key) \in Held(g) /\ Req(g).key \in Keys
      BY <1>2, <3>1, HeldSoFar, ReqTyped
    <3>3. \A s \in {"movement", "inventory"} : results'[s][Req(g).key] = results[s][Req(g).key]
      BY <2>1, <3>2, LockedKept
    <3>4. NotFound(Req(g))
      BY <1>2, <3>1 DEF KeysUsed
    <3> QED
      BY <3>1, <3>3, <3>4 DEF NotFound, Table
  <2>2. CASE g = h /\ Goes(h)
    <3>1. Req(h)' = Req(h) /\ results' = results /\ Busy(h)
      BY <2>2, GoesHeld DEF Goes, Quiet
    <3> QED
      BY <1>2, <2>2, <3>1 DEF KeysUsed, NotFound, Table
  <2>3. CASE g = h /\ Begins(h)
    <3>1. NotFound(Req(h)') /\ results' = results
      BY <2>3, BeginsHeld DEF Begins, Quiet
    <3> QED
      BY <2>3, <3>1 DEF NotFound, Table
  <2>4. CASE g = h /\ (Ends(h) \/ Continues(h))
    BY <1>2, <2>4, EndsHeld, ContinuesHeld
  <2> QED
    BY <2>1, <2>2, <2>3, <2>4, StepSorts
<1>3. \A m \in ledger : m.key \in Keys /\ BookOf(m) \in {"movement", "inventory"}
  BY DEF Typed, TypedTables, LedgerType, BookOf
<1>4. \A m \in ledger : results'[BookOf(m)][m.key] # NoResult
  BY <1>3, ResultsStay DEF KeysUsed
<1>5. CASE UNCHANGED <<stock, ledger>>
  BY <1>2, <1>4, <1>5 DEF KeysUsed, BookOf
<1>6. ASSUME NEW row, Books(row) PROVE KeysUsed'
  <2>1. \A m \in ledger' : m = row \/ m \in ledger
    BY <1>6 DEF Books
  <2>2. \A m \in ledger' : results'[BookOf(m)][m.key] # NoResult
    BY <1>4, <1>6, <2>1 DEF Books
  <2>3. \A m, n \in ledger' : m.key = n.key /\ BookOf(m) = BookOf(n) => m = n
    BY <1>6, <2>1 DEF Books, KeysUsed
  <2> QED
    BY <1>2, <2>2, <2>3 DEF KeysUsed, BookOf
<1> QED
  BY <1>5, <1>6, StepBooks

-----------------------------------------------------------------------------
(* Balances and quantities                                                 *)

\* A new movement adds its quantity to a selection of the movements if it is
\* selected.
LEMMA QuantityOfSelection ==
    ASSUME NEW S, IsFiniteSet(Units(S)), NEW m, m \notin S, m.quantity \in Nat,
           NEW T \in SUBSET S, NEW U, NEW selected \in BOOLEAN,
           U = IF selected THEN T \union {m} ELSE T
    PROVE  Quantity(U) = Quantity(T) + (IF selected THEN m.quantity ELSE 0) /\ Quantity(T) \in Nat
<1>1. IsFiniteSet(Units(T)) /\ Quantity(T) \in Nat
  BY UnitsOfSome
<1>2. Quantity(T \union {m}) = Quantity(T) + m.quantity
  BY <1>1, QuantityOfNewRow
<1> QED
  BY <1>1, <1>2

LEMMA LedgerStep ==
    ASSUME Typed, Checked, KeysUsed, LedgerExplainsStock, NEW h \in Handlers,
           Begin(h) \/ Proceed(h) \/ Victim(h) \/ Abort(h)
    PROVE  LedgerExplainsStock'
<1>1. CASE UNCHANGED <<stock, ledger>>
  BY <1>1 DEF LedgerExplainsStock, Quantity, Units
<1>2. ASSUME NEW row, Books(row) PROVE LedgerExplainsStock'
  <2>1. /\ ledger' = ledger \union {row} /\ row \notin ledger
        /\ row.route \in Route /\ row.quantity \in Nat
        /\ stock' = MovedStock(row.route, row.quantity)
        /\ stock[<<row.route.source, row.route.item>>] >= row.quantity
    BY <1>2 DEF Books, LedgerType
  <2>2. IsFiniteSet(Units(ledger)) /\ stock \in [Places \X Items -> Int]
    BY DEF Typed, TypedTables
  <2> SUFFICES ASSUME NEW p \in Places, NEW i \in Items
               PROVE  /\ stock'[<<p, i>>] >= 0
                      /\ stock'[<<p, i>>] + Quantity({m \in ledger' : m.route.source = p /\ m.route.item = i})
                           = FirstStock[<<p, i>>]
                             + Quantity({m \in ledger' : m.route.destination = p /\ m.route.item = i})
    BY DEF LedgerExplainsStock, Quantity, Units
  <2> DEFINE Out(S) == {m \in S : m.route.source = p /\ m.route.item = i}
             In(S) == {m \in S : m.route.destination = p /\ m.route.item = i}
             leaves == p = row.route.source /\ i = row.route.item
             arrives == p = row.route.destination /\ i = row.route.item
  <2>3. stock'[<<p, i>>] = stock[<<p, i>>] - (IF leaves THEN row.quantity ELSE 0)
                                           + (IF arrives THEN row.quantity ELSE 0)
    BY <2>1, <2>2, StockMoved
  <2>4. Quantity(Out(ledger')) = Quantity(Out(ledger)) + (IF leaves THEN row.quantity ELSE 0)
        /\ Quantity(Out(ledger)) \in Nat
    <3>1. Out(ledger') = IF leaves THEN Out(ledger) \union {row} ELSE Out(ledger)
      BY <2>1
    <3>2. Out(ledger) \in SUBSET ledger /\ leaves \in BOOLEAN
      OBVIOUS
    <3> HIDE DEF Out, leaves
    <3> QED
      BY <2>1, <2>2, <3>1, <3>2, QuantityOfSelection
  <2>5. Quantity(In(ledger')) = Quantity(In(ledger)) + (IF arrives THEN row.quantity ELSE 0)
        /\ Quantity(In(ledger)) \in Nat
    <3>1. In(ledger') = IF arrives THEN In(ledger) \union {row} ELSE In(ledger)
      BY <2>1
    <3>2. In(ledger) \in SUBSET ledger /\ arrives \in BOOLEAN
      OBVIOUS
    <3> HIDE DEF In, arrives
    <3> QED
      BY <2>1, <2>2, <3>1, <3>2, QuantityOfSelection
  <2>6. /\ stock[<<p, i>>] >= 0
        /\ stock[<<p, i>>] + Quantity(Out(ledger)) = FirstStock[<<p, i>>] + Quantity(In(ledger))
    BY DEF LedgerExplainsStock
  <2>7. stock[<<p, i>>] \in Int /\ FirstStock[<<p, i>>] \in Nat
    BY <2>2, MovementAssumption
  <2>8. leaves => stock[<<p, i>>] >= row.quantity
    BY <2>1
  <2> HIDE DEF Out, In, leaves, arrives
  <2>9. stock'[<<p, i>>] >= 0
    BY <2>1, <2>3, <2>6, <2>7, <2>8
  <2>10. stock'[<<p, i>>] + Quantity(Out(ledger')) = FirstStock[<<p, i>>] + Quantity(In(ledger'))
    BY <2>1, <2>3, <2>4, <2>5, <2>6, <2>7
  <2> QED
    BY <2>9, <2>10 DEF Out, In
<1> QED
  BY <1>1, <1>2, StepBooks

LEMMA CompletedStep ==
    ASSUME Typed, Checked, KeysUsed, CompletedIsMoved, NEW h \in Handlers,
           Begin(h) \/ Proceed(h) \/ Victim(h) \/ Abort(h)
    PROVE  CompletedIsMoved'
<1> DEFINE r == Req(h)
<1>1. CASE Quiet
  BY <1>1 DEF Quiet, CompletedIsMoved, Quantity, Units
<1>2. CASE TaskWrite(h)
  <2>1. /\ ledger' = ledger
        /\ \A t \in Tasks : tasks'[t].completed = tasks[t].completed
    BY <1>2 DEF TaskWrite, Writes, RowOf, Typed, TypedTables
  <2> QED
    BY <2>1 DEF CompletedIsMoved, Quantity, Units
<1>3. ASSUME NEW row, Books(row), NEW t \in Tasks
      PROVE  /\ Quantity({m \in ledger' : m.task = t}) =
                    Quantity({m \in ledger : m.task = t}) + (IF row.task = t THEN row.quantity ELSE 0)
             /\ Quantity({m \in ledger : m.task = t}) \in Nat
             /\ row.quantity \in Nat
  <2> DEFINE For(S) == {m \in S : m.task = t}
             mine == row.task = t
  <2>1. ledger' = ledger \union {row} /\ row \notin ledger /\ row.quantity \in Nat
    BY <1>3 DEF Books, LedgerType
  <2>2. For(ledger') = IF mine THEN For(ledger) \union {row} ELSE For(ledger)
    BY <2>1
  <2>3. For(ledger) \in SUBSET ledger /\ mine \in BOOLEAN /\ IsFiniteSet(Units(ledger))
    BY DEF Typed, TypedTables
  <2>4. /\ Quantity(For(ledger')) = Quantity(For(ledger)) + (IF mine THEN row.quantity ELSE 0)
        /\ Quantity(For(ledger)) \in Nat
    <3> HIDE DEF For, mine
    <3> QED
      BY <2>1, <2>2, <2>3, QuantityOfSelection
  <2> QED
    BY <2>1, <2>4
<1>4. CASE Transfer(h)
  <2>1. PICK row : Books(row) /\ row.task = NoTask
    BY <1>4, TransferBooks
  <2>2. tasks' = tasks
    BY <1>4, TransferWrites
  <2>3. \A t \in Tasks : t # NoTask
    BY MovementAssumption
  <2>4. \A t \in Tasks : Quantity({m \in ledger' : m.task = t}) = Quantity({m \in ledger : m.task = t})
    BY <1>3, <2>1, <2>3
  <2> QED
    BY <2>2, <2>4 DEF CompletedIsMoved, Quantity, Units
<1>5. CASE ApplyMove(h)
  <2> DEFINE new == Moved(Order[r.task], RowOf(h), r)
  <2>1. PICK row : Books(row) /\ row.task = r.task /\ row.quantity = r.quantity
    BY <1>5, MoveBooks
  <2>2. /\ Busy(h) /\ r.kind = "CONFIRM" /\ handler[h].held = 5 /\ r.task \in Tasks
        /\ new.completed = RowOf(h).completed + r.quantity
        /\ Writes(h, new)
    BY <1>5, MoveWrites
  <2> HIDE DEF new
  <2>3. /\ tasks'[r.task] = new
        /\ \A t \in Tasks \ {r.task} : tasks'[t] = tasks[t]
    BY <2>2 DEF Writes, Typed, TypedTables
  <2>4. r.quantity <= Order[r.task].required - tasks[r.task].completed
    <3>1. CanMove(Order[r.task], RowOf(h), r)
      BY <2>2 DEF Checked, FitsTask
    <3>2. Order[r.task].required \in Nat /\ tasks[r.task].completed \in Nat
      BY <2>2, MovementAssumption DEF Typed, TypedTables, Row
    <3> QED
      BY <3>1, <3>2 DEF CanMove, Remaining, RowOf
  <2> SUFFICES ASSUME NEW t \in Tasks
               PROVE  /\ tasks'[t].completed
                           = FirstRow[t].completed + Quantity({m \in ledger' : m.task = t})
                      /\ tasks'[t].completed <= Order[t].required
    BY DEF CompletedIsMoved, Quantity, Units
  <2>5. /\ tasks[t].completed \in Nat /\ FirstRow[t].completed \in Nat /\ Order[t].required \in Nat
        /\ tasks[t].completed = FirstRow[t].completed + Quantity({m \in ledger : m.task = t})
        /\ tasks[t].completed <= Order[t].required
    BY MovementAssumption DEF CompletedIsMoved, Typed, TypedTables, Row
  <2>6. /\ Quantity({m \in ledger' : m.task = t}) =
               Quantity({m \in ledger : m.task = t}) + (IF r.task = t THEN r.quantity ELSE 0)
        /\ Quantity({m \in ledger : m.task = t}) \in Nat
        /\ r.quantity \in Nat
    BY <1>3, <2>1
  <2>7. tasks'[t].completed = tasks[t].completed + (IF r.task = t THEN r.quantity ELSE 0)
    BY <2>2, <2>3, <2>5 DEF RowOf
  <2> QED
    BY <2>4, <2>5, <2>6, <2>7
<1> QED
  BY <1>1, <1>2, <1>4, <1>5, StepSorts DEF Begins, Goes

-----------------------------------------------------------------------------
(* Capacity and versions                                                   *)

LEMMA CapacityStep ==
    ASSUME Typed, Checked, CapacityRespected, NEW h \in Handlers,
           Begin(h) \/ Proceed(h) \/ Victim(h) \/ Abort(h)
    PROVE  CapacityRespected'
<1> DEFINE r == Req(h)
           m == RouteOf(r)
<1>1. CASE used' = used
  BY <1>1 DEF CapacityRespected
<1>2. CASE ApplyMove(h)
  <2>1. /\ Busy(h) /\ r.kind = "CONFIRM" /\ handler[h].held = 5
        /\ r.quantity \in Nat \ {0} /\ used' = MovedUsed(m, r.quantity)
    BY <1>2, MoveWrites
  <2>2. Capacity[m.destination] - used[m.destination] >= r.quantity
    BY <2>1 DEF Checked, FitsPlace
  <2>3. \A l \in Locations : Capacity[l] \in Nat /\ used[l] \in Int /\ used[l] <= Capacity[l]
    BY MovementAssumption DEF CapacityRespected, Typed, TypedTables
  <2>4. \A l \in Locations : used'[l] = used[l] + (IF l = m.destination THEN r.quantity ELSE 0)
                                               - (IF l = m.source THEN r.quantity ELSE 0)
    BY <2>1 DEF MovedUsed
  <2> QED
    BY <2>1, <2>2, <2>3, <2>4 DEF CapacityRespected
<1>3. CASE ~ApplyMove(h)
  <2>1. used' = used
    BY <1>3, StepSorts, TransferWrites DEF Begins, Goes, Quiet, TaskWrite
  <2> QED
    BY <1>1, <2>1
<1> QED
  BY <1>2, <1>3

\* A stored row is no newer than the task's, and of the same version only if
\* it is the same row.
VersionsStored ==
    \A k \in Keys :
        LET found == results["movement"][k] IN
        found # NoResult =>
            /\ found.row.version <= tasks[found.task].version
            /\ found.row.version = tasks[found.task].version => found.row = tasks[found.task]

LEMMA VersionsStep ==
    ASSUME Typed, VersionsStored, NEW h \in Handlers,
           Begin(h) \/ Proceed(h) \/ Victim(h) \/ Abort(h)
    PROVE  VersionsStored'
<1> DEFINE r == Req(h)
<1>1. CASE Quiet
  BY <1>1 DEF Quiet, VersionsStored
<1>2. ASSUME NEW row \in Row, Writes(h, row), Busy(h), r.kind # "TRANSFER",
             row = RowOf(h) \/ row.version = RowOf(h).version + 1
      PROVE  VersionsStored'
  <2>1. r.key \in Keys /\ r.task \in Tasks
    BY <1>2, ReqTyped
  <2>2. /\ tasks'[r.task] = row
        /\ \A t \in Tasks \ {r.task} : tasks'[t] = tasks[t]
    BY <1>2, <2>1 DEF Writes, Typed, TypedTables
  <2>3. tasks[r.task].version \in Nat /\ row.version \in Nat
    BY <2>1 DEF Typed, TypedTables, Row
  <2> SUFFICES ASSUME NEW k \in Keys, results'["movement"][k] # NoResult
               PROVE  LET found == results'["movement"][k] IN
                      /\ found.row.version <= tasks'[found.task].version
                      /\ found.row.version = tasks'[found.task].version
                             => found.row = tasks'[found.task]
    BY DEF VersionsStored
  <2>4. CASE results'["movement"][k] = results["movement"][k]
    <3> DEFINE found == results["movement"][k]
    <3>1. found \in ResultType
      BY <2>4 DEF Typed, TypedTables
    <3>2. found.task \in Tasks /\ found.row \in Row /\ found.row.version \in Nat
      BY <3>1 DEF ResultType, Row
    <3>3. /\ found.row.version <= tasks[found.task].version
          /\ found.row.version = tasks[found.task].version => found.row = tasks[found.task]
      BY <2>4 DEF VersionsStored
    <3>4. CASE found.task # r.task
      BY <2>2, <2>4, <3>2, <3>3, <3>4
    <3>5. CASE found.task = r.task /\ row = tasks[r.task]
      BY <2>2, <2>4, <3>3, <3>5
    <3>6. CASE found.task = r.task /\ row.version = tasks[r.task].version + 1
      <4>1. found.row.version < row.version /\ tasks'[found.task] = row
        BY <2>2, <2>3, <3>2, <3>3, <3>6
      <4> QED
        BY <2>3, <2>4, <3>2, <4>1
    <3> QED
      BY <1>2, <3>4, <3>5, <3>6 DEF RowOf
  <2>5. CASE results'["movement"][k] = ResultOf(r, row)
    <3>1. results'["movement"][k].task = r.task /\ results'["movement"][k].row = row
      BY <2>5 DEF ResultOf
    <3> QED
      BY <2>2, <2>3, <3>1
  <2>6. results'["movement"][k] = results["movement"][k] \/ results'["movement"][k] = ResultOf(r, row)
    BY <1>2, <2>1 DEF Writes, Typed, TypedTables
  <2> QED
    BY <2>4, <2>5, <2>6
<1>3. CASE TaskWrite(h)
  <2>1. PICK row \in Row : Writes(h, row) /\ (row = RowOf(h) \/ row.version = RowOf(h).version + 1)
    BY <1>3 DEF TaskWrite
  <2> QED
    BY <1>2, <1>3, <2>1 DEF TaskWrite
<1>4. CASE ApplyMove(h)
  <2>1. /\ Busy(h) /\ r.kind = "CONFIRM"
        /\ \E row \in Row : Writes(h, row) /\ row.version = RowOf(h).version + 1
    BY <1>4, MoveWrites
  <2> QED
    BY <1>2, <2>1
<1>5. CASE Transfer(h)
  <2>1. tasks' = tasks /\ results'["movement"] = results["movement"]
    BY <1>5, TransferWrites DEF Typed, TypedTables
  <2> QED
    BY <2>1 DEF VersionsStored
<1> QED
  BY <1>1, <1>3, <1>4, <1>5, StepSorts DEF Begins, Goes

-----------------------------------------------------------------------------
(* Assembly                                                                *)

IInv == /\ Typed /\ Exclusive /\ Checked /\ KeysUsed /\ VersionsStored
        /\ LedgerExplainsStock /\ CompletedIsMoved /\ CapacityRespected

LEMMA InvariantInit == Init => IInv
<1> SUFFICES ASSUME Init PROVE IInv
  OBVIOUS
<1>1. /\ tasks = FirstRow /\ stock = FirstStock /\ used = FirstUsed /\ ledger = {}
      /\ results = [s \in {"movement", "inventory"} |-> [k \in Keys |-> NoResult]]
      /\ handler = [h \in Handlers |-> Idle]
  BY DEF Init
<1>2. \A h \in Handlers : ~Busy(h) /\ Held(h) = {}
  BY <1>1 DEF Idle, Busy, Req, Held
<1>3. Units({}) = {} /\ IsFiniteSet({}) /\ Quantity({}) = 0
  BY FS_EmptySet DEF Units, Quantity
<1>4. TypedTables
  <2>1. /\ results \in [{"movement", "inventory"} ->
                       [Keys -> ResultType \union RequestType \union {NoResult}]]
        /\ \A k \in Keys : results["movement"][k] \in ResultType \union {NoResult}
    BY <1>1
  <2>2. stock \in [Places \X Items -> Int] /\ used \in [Locations -> Int] /\ tasks \in [Tasks -> Row]
    BY <1>1, MovementAssumption
  <2>3. ledger \subseteq LedgerType /\ IsFiniteSet(Units(ledger))
    BY <1>1, <1>3
  <2> QED
    BY <2>1, <2>2, <2>3 DEF TypedTables
<1>5. TypedHandlers
  <2>1. Idle \in HandlerType
    BY DEF Idle, HandlerType
  <2> QED
    BY <1>1, <1>2, <2>1 DEF TypedHandlers
<1>6. Exclusive /\ Checked
  BY <1>2 DEF Exclusive, Checked
<1>7. KeysUsed
  BY <1>1, <1>2 DEF KeysUsed
<1>8. VersionsStored
  BY <1>1 DEF VersionsStored
<1>9. LedgerExplainsStock
  <2> SUFFICES ASSUME NEW p \in Places, NEW i \in Items
               PROVE  /\ stock[<<p, i>>] >= 0
                      /\ stock[<<p, i>>] + Quantity({m \in ledger : m.route.source = p /\ m.route.item = i})
                           = FirstStock[<<p, i>>]
                             + Quantity({m \in ledger : m.route.destination = p /\ m.route.item = i})
    BY DEF LedgerExplainsStock
  <2>1. /\ {m \in ledger : m.route.source = p /\ m.route.item = i} = {}
        /\ {m \in ledger : m.route.destination = p /\ m.route.item = i} = {}
    BY <1>1
  <2>2. stock[<<p, i>>] = FirstStock[<<p, i>>] /\ FirstStock[<<p, i>>] \in Nat
    BY <1>1, MovementAssumption
  <2>3. /\ Quantity({m \in ledger : m.route.source = p /\ m.route.item = i}) = 0
        /\ Quantity({m \in ledger : m.route.destination = p /\ m.route.item = i}) = 0
    BY <1>3, <2>1, Zenon
  <2> QED
    BY <2>2, <2>3
<1>10. CompletedIsMoved
  <2> SUFFICES ASSUME NEW t \in Tasks
               PROVE  /\ tasks[t].completed
                           = FirstRow[t].completed + Quantity({m \in ledger : m.task = t})
                      /\ tasks[t].completed <= Order[t].required
    BY DEF CompletedIsMoved
  <2>1. {m \in ledger : m.task = t} = {}
    BY <1>1
  <2>2. tasks[t] = FirstRow[t] /\ FirstRow[t].completed \in Nat
    BY <1>1, MovementAssumption DEF Row
  <2>3. Quantity({m \in ledger : m.task = t}) = 0
    BY <1>3, <2>1, Zenon
  <2> QED
    BY <2>2, <2>3, FirstRowsAssumption
<1>11. CapacityRespected
  BY <1>1, FirstRowsAssumption DEF CapacityRespected
<1> QED
  BY <1>4, <1>5, <1>6, <1>7, <1>8, <1>9, <1>10, <1>11 DEF IInv, Typed

LEMMA InvariantStep == IInv /\ [Next]_vars => IInv'
<1> SUFFICES ASSUME IInv, [Next]_vars PROVE IInv'
  OBVIOUS
<1>1. CASE UNCHANGED vars
  <2>1. UNCHANGED <<tasks, stock, used, ledger, results, handler>>
    BY <1>1 DEF vars
  <2>2. \A h \in Handlers : /\ Req(h)' = Req(h) /\ (Busy(h)' <=> Busy(h)) /\ Held(h)' = Held(h)
                            /\ RouteOf(Req(h))' = RouteOf(Req(h))
    BY <2>1 DEF Req, Busy, Held, Plan, RouteOf, MoveLocks, KeyLock, TaskLock, StockLock, PlaceLock
  <2>3. Typed' /\ Exclusive'
    BY <2>1, <2>2 DEF IInv, Typed, TypedTables, TypedHandlers, Asked, LocksOf, Exclusive, Units
  <2>4. Checked'
    BY <2>1, <2>2 DEF IInv, Checked, FitsTask, RowOf, InScope, CanMove, guard, Remaining, FitsStock,
                      FitsPlace, FitsTransfer
  <2>5. KeysUsed' /\ VersionsStored'
    BY <2>1, <2>2 DEF IInv, KeysUsed, BookOf, NotFound, Table, VersionsStored
  <2>6. LedgerExplainsStock' /\ CompletedIsMoved' /\ CapacityRespected'
    BY <2>1 DEF IInv, LedgerExplainsStock, CompletedIsMoved, CapacityRespected, Quantity, Units
  <2> QED
    BY <2>3, <2>4, <2>5, <2>6 DEF IInv
<1>2. ASSUME NEW h \in Handlers, Begin(h) \/ Proceed(h) \/ Victim(h) \/ Abort(h)
      PROVE  IInv'
  <2>1. /\ Typed /\ Exclusive /\ Checked /\ KeysUsed /\ VersionsStored
        /\ LedgerExplainsStock /\ CompletedIsMoved /\ CapacityRespected
    BY DEF IInv
  <2>2. Typed'
    BY <1>2, <2>1, HandlersTyped, TablesTyped DEF Typed
  <2>3. Exclusive' /\ Checked' /\ KeysUsed'
    BY <1>2, <2>1, ExclusiveStep, CheckedStep, KeysUsedStep
  <2>4. VersionsStored' /\ LedgerExplainsStock' /\ CompletedIsMoved' /\ CapacityRespected'
    BY <1>2, <2>1, VersionsStep, LedgerStep, CompletedStep, CapacityStep
  <2> QED
    BY <2>2, <2>3, <2>4 DEF IInv
<1> QED
  BY <1>1, <1>2 DEF Next

\* No balance is ever negative and the movements recorded account for every
\* balance, whatever moves and transfers meet, fail or are sent again.
THEOREM StockIsConserved == Spec => []LedgerExplainsStock
<1>1. IInv => LedgerExplainsStock
  BY DEF IInv
<1> QED
  BY <1>1, InvariantInit, InvariantStep, PTL DEF Spec

\* A task has completed what was moved for it, and no more than it requires.
THEOREM CompletionIsBacked == Spec => []CompletedIsMoved
<1>1. IInv => CompletedIsMoved
  BY DEF IInv
<1> QED
  BY <1>1, InvariantInit, InvariantStep, PTL DEF Spec

\* One key moves stock at most once as a task's command and once as a
\* transfer.
THEOREM KeyMovesOnce == Spec => []OneMovePerKey
<1>1. ASSUME NEW S, \A a, b \in S : a = b PROVE Cardinality(S) <= 1
  <2>1. CASE S = {}
    BY <2>1, FS_EmptySet
  <2>2. CASE S # {}
    <3>1. PICK a : a \in S
      BY <2>2
    <3>2. S = {a}
      BY <1>1, <3>1
    <3>3. Cardinality(S) = 1
      BY <3>2, FS_Singleton
    <3> QED
      BY <3>3
  <2> QED
    BY <2>1, <2>2
<1>2. IInv => OneMovePerKey
  <2> SUFFICES ASSUME IInv, NEW k \in Keys
               PROVE  /\ Cardinality({m \in ledger : m.key = k /\ m.task = NoTask}) <= 1
                      /\ Cardinality({m \in ledger : m.key = k /\ m.task # NoTask}) <= 1
    BY DEF OneMovePerKey
  <2>1. /\ \A a, b \in {m \in ledger : m.key = k /\ m.task = NoTask} : a = b
        /\ \A a, b \in {m \in ledger : m.key = k /\ m.task # NoTask} : a = b
    BY DEF IInv, KeysUsed, BookOf
  <2> QED
    BY <1>1, <2>1
<1> QED
  BY <1>2, InvariantInit, InvariantStep, PTL DEF Spec

\* The version stored with a result names the row: a start that is sent again
\* and finds the version unchanged finds the row unchanged.
THEOREM VersionsNameRows == Spec => []VersionNamesRow
<1>1. IInv => VersionNamesRow
  BY DEF IInv, VersionsStored, VersionNamesRow
<1> QED
  BY <1>1, InvariantInit, InvariantStep, PTL DEF Spec

\* Tasks never fill a location beyond its capacity.
THEOREM CapacityIsRespected == Spec => []CapacityRespected
<1>1. IInv => CapacityRespected
  BY DEF IInv
<1> QED
  BY <1>1, InvariantInit, InvariantStep, PTL DEF Spec
=============================================================================
