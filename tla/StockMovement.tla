---------------------------- MODULE StockMovement ---------------------------
(***************************************************************************)
(* Putaway, picking and replenishment in the local composition, and the    *)
(* free transfer of stock (internal/execution/movement,                    *)
(* internal/inventory): commands of several devices that work on the same  *)
(* tasks, balances and locations, each in a transaction of PostgreSQL.     *)
(*                                                                         *)
(* A transaction takes its locks one at a time, in the order of its        *)
(* statements, and keeps them to its end: the advisory lock of the         *)
(* idempotency key, then the rows it selects FOR UPDATE or updates.  One   *)
(* step of the model is one lock with the checks that follow it; the step  *)
(* that takes the last lock also commits.  Since every row written is      *)
(* locked before it is read, writes can wait for the commit.  PostgreSQL   *)
(* ends one transaction of a cycle of waiting ones.                        *)
(*                                                                         *)
(* An absent row of inventory_location_balance is a balance of 0.  Events, *)
(* audit records and the publication after the commit are left out (module *)
(* TaskQueue has them).                                                    *)
(***************************************************************************)
EXTENDS MovementTask, Integers, Sequences, FiniteSets

CONSTANTS Tasks,
          Order,        \* Order[t]: workflow, source, destination, item, required
          FirstRow,     \* FirstRow[t]: the row of the task when the behaviour begins
          Items,
          Places,       \* where stock can lie
          Locations,    \* places with a row in warehouse_location
          Capacity,     \* Capacity[l]
          Compatible,   \* Compatible[l]: the only item l takes, or AnyItem
          FirstUsed,    \* used_capacity at the beginning
          FirstStock,   \* balances at the beginning
          Keys,         \* idempotency keys, 1..n
          Handlers,     \* request goroutines of all gateway replicas
          Commands,     \* what devices ask for
          AnyItem, NoTask, NoRoute, NoResult, NoRequest

Route == [source : Places, destination : Places, item : Items]

-----------------------------------------------------------------------------
(* The commands the gateway offers for each workflow                       *)

PutawayKinds == {"CLAIM", "START", "SOURCE", "ITEM", "LOT", "DESTINATION", "CONFIRM", "GROUP"}
PickingKinds == {"CLAIM", "START", "SOURCE", "ITEM", "LOT", "DESTINATION", "CONFIRM", "COMPLETE"}
ReplenishmentKinds == {"SOURCE", "DESTINATION", "ITEM", "CONFIRM"}

\* match: the scanned value is the task's; foreign: the actor's warehouse is
\* not the task's.
CommandFor(w, kinds) ==
    [kind : kinds, workflow : {w}, task : Tasks, operator : Operators, quantity : Nat,
     match : BOOLEAN, foreign : BOOLEAN, route : {NoRoute}]
TransferCommand ==
    [kind : {"TRANSFER"}, workflow : {"TRANSFER"}, task : {NoTask}, operator : Operators,
     quantity : Int, match : {TRUE}, foreign : {FALSE}, route : Route]
CommandType == CommandFor("PUTAWAY", PutawayKinds) \union CommandFor("PICKING", PickingKinds)
               \union CommandFor("REPLENISHMENT", ReplenishmentKinds) \union TransferCommand

\* What a handler serves: a command under a key, with the version the device saw.
Request(c, k, b) ==
    [kind |-> c.kind, workflow |-> c.workflow, task |-> c.task, operator |-> c.operator,
     quantity |-> c.quantity, match |-> c.match, foreign |-> c.foreign, route |-> c.route,
     key |-> k, base |-> b]
Kinds == PutawayKinds \union PickingKinds \union ReplenishmentKinds \union {"TRANSFER", "BEGIN"}
RequestType ==
    [kind : Kinds, workflow : Workflows \union {"TRANSFER"}, task : Tasks \union {NoTask},
     operator : Operators, quantity : Int, match : BOOLEAN, foreign : BOOLEAN,
     route : Route \union {NoRoute}, key : Keys, base : Nat]

\* A row of movement_command_status.
ResultType ==
    [workflow : Workflows \union {"TRANSFER"}, operator : Operators, task : Tasks, row : Row]

ASSUME MovementAssumption ==
    /\ Keys = 1..Cardinality(Keys)
    /\ Commands \subseteq CommandType
    /\ Order \in [Tasks -> [workflow : Workflows, required : Nat \ {0}, route : Route]]
    /\ FirstRow \in [Tasks -> Row]
    /\ Locations \subseteq Places
    /\ Capacity \in [Locations -> Nat] /\ FirstUsed \in [Locations -> Nat]
    /\ Compatible \in [Locations -> Items \union {AnyItem}]
    /\ FirstStock \in [Places \X Items -> Nat]
    /\ NoOperator \notin Operators /\ AnyItem \notin Items /\ NoTask \notin Tasks
    /\ NoRequest \notin RequestType
    /\ NoResult \notin RequestType /\ NoResult \notin ResultType

\* The rows the behaviour begins with: a task has not completed more than it
\* requires and a location holds no more than it can (both columns are 0 when
\* the row is inserted).
ASSUME FirstRowsAssumption ==
    /\ \A t \in Tasks : FirstRow[t].completed <= Order[t].required
    /\ \A l \in Locations : FirstUsed[l] <= Capacity[l]

VARIABLES tasks,      \* tasks[t]: row of movement_task
          stock,      \* stock[<<p, i>>]: quantity of inventory_location_balance
          used,       \* used[l]: used_capacity of warehouse_location
          ledger,     \* rows of inventory_movement
          results,    \* results[table][k]: movement_ and inventory_command_status
          handler     \* handler[h]: the command h serves and how many locks it holds

vars == <<tasks, stock, used, ledger, results, handler>>

\* What a command writes.
stockVars == <<stock, used, ledger>>

Idle == [req |-> NoRequest, held |-> 0]

Init == /\ tasks = FirstRow
        /\ stock = FirstStock
        /\ used = FirstUsed
        /\ ledger = {}
        /\ results = [s \in {"movement", "inventory"} |-> [k \in Keys |-> NoResult]]
        /\ handler = [h \in Handlers |-> Idle]

-----------------------------------------------------------------------------
(* Locks                                                                   *)

KeyLock(k) == <<"key", k>>
TaskLock(t) == <<"task", t>>
StockLock(p, i) == <<"stock", p, i>>
PlaceLock(p) == <<"place", p>>

\* Where a command takes stock from and puts it.
RouteOf(r) == IF r.kind = "TRANSFER" THEN r.route ELSE Order[r.task].route

\* Mutant: CheckMove reads the location without FOR UPDATE.
MoveLocksPlain(m) == <<StockLock(m.source, m.item), <<"unlocked", m.source>>,
                       StockLock(m.destination, m.item), PlaceLock(m.source)>>

\* CheckMove: balance at the source, location at the destination; ApplyMove:
\* balance at the destination, location at the source.
MoveLocks(m) == <<StockLock(m.source, m.item), PlaceLock(m.destination),
                  StockLock(m.destination, m.item), PlaceLock(m.source)>>

\* The locks of a command's transaction, in their order.  The second
\* transaction of a start has a fresh key, which nobody else asks for.
Plan(r) ==
    CASE r.kind = "TRANSFER" ->
            <<KeyLock(r.key), StockLock(r.route.source, r.route.item),
              StockLock(r.route.destination, r.route.item)>>
      [] r.kind = "CONFIRM" -> <<KeyLock(r.key), TaskLock(r.task)>> \o MoveLocks(RouteOf(r))
      [] r.kind = "BEGIN" -> <<TaskLock(r.task)>>
      [] OTHER -> <<KeyLock(r.key), TaskLock(r.task)>>

Req(h) == handler[h].req
Busy(h) == Req(h) # NoRequest

Held(h) == IF Busy(h) THEN {Plan(Req(h))[n] : n \in 1..handler[h].held} ELSE {}
Wanted(h) == Plan(Req(h))[handler[h].held + 1]
Free(h, lock) == \A g \in Handlers \ {h} : lock \notin Held(g)

Locked(h) == /\ handler' = [handler EXCEPT ![h].held = @ + 1]
             /\ UNCHANGED <<tasks, stockVars, results>>
Release(h) == handler' = [handler EXCEPT ![h] = Idle]

-----------------------------------------------------------------------------
(* The checks after each lock                                              *)

RowOf(h) == tasks[Req(h).task]

\* The route's workflow and the actor's warehouse are the task's.
InScope(r) == Order[r.task].workflow = r.workflow /\ ~r.foreign

FitsTask(h) == InScope(Req(h)) /\ CanMove(Order[Req(h).task], RowOf(h), Req(h))

\* CheckMove, first statement; also the first check of a transfer.
FitsStock(h) == stock[<<RouteOf(Req(h)).source, RouteOf(Req(h)).item>>] >= Req(h).quantity

\* CheckMove, second statement: there is such a location, it takes the item and
\* has room.
FitsPlace(h) ==
    LET m == RouteOf(Req(h)) IN
    /\ m.destination \in Locations
    /\ Compatible[m.destination] \in {AnyItem, m.item}
    /\ Capacity[m.destination] - used[m.destination] >= Req(h).quantity

\* ApplyMove: used_capacity must not become negative (CHECK of the table).
FitsSource(h) ==
    LET m == RouteOf(Req(h)) IN m.source \in Locations => used[m.source] >= Req(h).quantity

\* ValidateLocations.
FitsTransfer(h) ==
    LET m == RouteOf(Req(h)) IN
    /\ m.source # m.destination
    /\ FitsStock(h)
    /\ m.destination \in Locations

\* Mutant: the quantity is not taken from the source.
MovedStockCopied(m, q) == [stock EXCEPT ![<<m.destination, m.item>>] = @ + q]

\* What remains of stock and capacity when q goes from one place to another.
MovedStock(m, q) ==
    [[stock EXCEPT ![<<m.source, m.item>>] = @ - q] EXCEPT ![<<m.destination, m.item>>] = @ + q]
MovedUsed(m, q) == [l \in Locations |-> used[l] + (IF l = m.destination THEN q ELSE 0)
                                                - (IF l = m.source THEN q ELSE 0)]

\* The check that follows the next lock of h.
Passes(h) ==
    LET r == Req(h) IN
    CASE r.kind = "TRANSFER" -> IF handler[h].held = 1 THEN FitsTransfer(h) ELSE r.quantity > 0
      [] r.kind = "CONFIRM" ->
            CASE handler[h].held = 1 -> FitsTask(h)
              [] handler[h].held = 2 -> FitsStock(h)
              [] handler[h].held = 3 -> FitsPlace(h)
              [] handler[h].held = 4 -> TRUE
              [] OTHER -> FitsSource(h)
      [] OTHER ->
            /\ InScope(r)
            /\ CASE r.kind \in {"CLAIM", "START"} -> CanClaim(RowOf(h), r)
                 [] r.kind = "BEGIN" -> CanStart(RowOf(h), r)
                 [] r.kind = "SOURCE" -> CanValidateSource(RowOf(h), r)
                 [] r.kind = "DESTINATION" -> CanValidateDestination(RowOf(h), r)
                 [] r.kind = "ITEM" -> CanValidateItem(Order[r.task], RowOf(h), r)
                 [] r.kind = "LOT" -> CanValidateLot(RowOf(h), r)
                 [] r.kind = "GROUP" -> CanConfirmGroup(RowOf(h))
                 [] OTHER -> CanComplete(Order[r.task], RowOf(h), r)

\* h is about to take the n-th lock of a command of this kind, can have it and
\* passes the check.
Takes(h, n, kind) ==
    /\ Busy(h)
    /\ Req(h).kind = kind
    /\ handler[h].held = n - 1
    /\ Free(h, Wanted(h))
    /\ Passes(h)

-----------------------------------------------------------------------------
(* The beginning of a transaction: Find                                    *)

Table(r) == IF r.kind = "TRANSFER" THEN "inventory" ELSE "movement"

NotFound(r) == results[Table(r)][r.key] = NoResult

\* A key that was not used yet is named by the next number.
Usable(k) == \A j \in Keys : j < k =>
                \/ \E s \in DOMAIN results : results[s][j] # NoResult
                \/ \E h \in Handlers : Busy(h) /\ Req(h).key = j

\* A device sends a command, under a key, with the current version (an
\* older one is never current again: it is refused, or not looked at).  The
\* handler asks for a positive quantity, but not the one of transfers.
Sent(c) ==
    {Request(c, k, b) : k \in {j \in Keys : Usable(j)},
                        b \in IF c.kind = "TRANSFER" THEN {0} ELSE {tasks[c.task].version}}
Sensible(c) == c.kind = "CONFIRM" => c.quantity > 0

\* The key is new: the transaction goes on.  (A result that is found is sent
\* again, or refused as another command's, and nothing changes.)
Lookup(h, r) ==
    /\ ~Busy(h)
    /\ Sensible(r)
    /\ Free(h, KeyLock(r.key))
    /\ NotFound(r)
    /\ handler' = [handler EXCEPT ![h] = [req |-> r, held |-> 1]]
    /\ UNCHANGED <<tasks, stockVars, results>>

\* The second transaction of a start: of a fresh key, with the version the
\* claim left.
BeginOf(r, row) == [r EXCEPT !.kind = "BEGIN", !.base = row.version]

\* A start is sent again after its claim was committed: the stored claim stands
\* for the new one, and the start goes on from there.
ReplayStart(h, r) ==
    /\ ~Busy(h)
    /\ r.kind = "START"
    /\ Free(h, KeyLock(r.key))
    /\ ~NotFound(r)
    /\ LET found == results["movement"][r.key] IN
        /\ found.workflow = r.workflow
        /\ found.operator = r.operator
        /\ found.task = r.task
        /\ ~r.foreign
        /\ found.row.status # "IN_PROGRESS"
        /\ handler' = [handler EXCEPT ![h] = [req |-> BeginOf(r, found.row), held |-> 0]]
    /\ UNCHANGED <<tasks, stockVars, results>>

-----------------------------------------------------------------------------
(* mutate: the commands that move no stock                                 *)

\* Mutant: the result of a move is not stored.
StoreUnlessMoved(r, row) ==
    IF r.kind = "CONFIRM" THEN UNCHANGED results
    ELSE results' = [results EXCEPT !["movement"][r.key] =
            [workflow |-> r.workflow, operator |-> r.operator, task |-> r.task, row |-> row]]

\* SaveCommand; the key is still unused, as its lock is held since Find.
Store(r, row) ==
    results' = [results EXCEPT !["movement"][r.key] =
        [workflow |-> r.workflow, operator |-> r.operator, task |-> r.task, row |-> row]]

Save(r, row) == tasks' = [tasks EXCEPT ![r.task] = row]

\* GetForUpdate, the transition, Save and SaveCommand, in one go.
Commit(h, row) ==
    /\ Save(Req(h), row)
    /\ Store(Req(h), row)
    /\ UNCHANGED stockVars

Claim(h) ==
    /\ Takes(h, 2, "CLAIM")
    /\ Commit(h, Claimed(RowOf(h), Req(h)))
    /\ Release(h)

\* Start, first transaction: the claim, under the device's key.
StartClaim(h) ==
    /\ Takes(h, 2, "START")
    /\ LET claimed == Claimed(RowOf(h), Req(h)) IN
        /\ Commit(h, claimed)
        /\ handler' = [handler EXCEPT ![h] = [req |-> BeginOf(Req(h), claimed), held |-> 0]]

\* Start, second transaction, under a fresh key.
Start(h) ==
    /\ Takes(h, 1, "BEGIN")
    /\ Save(Req(h), Started(RowOf(h)))
    /\ Release(h)
    /\ UNCHANGED <<stockVars, results>>

\* ValidateSource and ValidateLPN of putaway, ValidateLocation of picking.
ValidateSource(h) ==
    /\ Takes(h, 2, "SOURCE")
    /\ Commit(h, SourceScanned(RowOf(h)))
    /\ Release(h)

ValidateDestination(h) ==
    /\ Takes(h, 2, "DESTINATION")
    /\ Commit(h, DestinationScanned(RowOf(h)))
    /\ Release(h)

\* ResolveBarcode of picking is the same.
ValidateItem(h) ==
    /\ Takes(h, 2, "ITEM")
    /\ Commit(h, ItemScanned(RowOf(h)))
    /\ Release(h)

ValidateLot(h) ==
    /\ Takes(h, 2, "LOT")
    /\ Commit(h, LotScanned(RowOf(h)))
    /\ Release(h)

ConfirmGroup(h) ==
    /\ Takes(h, 2, "GROUP")
    /\ Commit(h, Closed(RowOf(h)))
    /\ Release(h)

Complete(h) ==
    /\ Takes(h, 2, "COMPLETE")
    /\ Commit(h, Closed(RowOf(h)))
    /\ Release(h)

-----------------------------------------------------------------------------
(* mutate: Confirm, which moves stock                                      *)

LockTask(h) == Takes(h, 2, "CONFIRM") /\ Locked(h)
CheckStock(h) == Takes(h, 3, "CONFIRM") /\ Locked(h)
CheckPlace(h) == Takes(h, 4, "CONFIRM") /\ Locked(h)
LockDestination(h) == Takes(h, 5, "CONFIRM") /\ Locked(h)

\* A row of inventory_movement.  A transfer's task is its command, version 1.
LedgerRow(r, version) ==
    [task |-> r.task, key |-> r.key, version |-> version, route |-> RouteOf(r), quantity |-> r.quantity]

ApplyMove(h) ==
    /\ Takes(h, 6, "CONFIRM")
    /\ LET r == Req(h)
           m == RouteOf(r)
           row == Moved(Order[r.task], RowOf(h), r) IN
        /\ Save(r, row)
        /\ stock' = MovedStock(m, r.quantity)
        /\ used' = MovedUsed(m, r.quantity)
        /\ ledger' = ledger \union {LedgerRow(r, row.version)}
        /\ Store(r, row)
    /\ Release(h)

-----------------------------------------------------------------------------
(* Transfer                                                                *)

ValidateLocations(h) == Takes(h, 2, "TRANSFER") /\ Locked(h)

\* The quantity of inventory_movement must be positive (CHECK of the table).
\* used_capacity stays as it is.
Transfer(h) ==
    /\ Takes(h, 3, "TRANSFER")
    /\ LET r == Req(h) IN
        /\ stock' = MovedStock(r.route, r.quantity)
        /\ ledger' = ledger \union {LedgerRow(r, 1)}
        /\ results' = [results EXCEPT !["inventory"][r.key] = r]
    /\ Release(h)
    /\ UNCHANGED <<tasks, used>>

-----------------------------------------------------------------------------
(* The other ends of a transaction                                         *)

\* Mutant: the transaction is left open after an error.
RefuseWithoutRollback(h) ==
    /\ Busy(h)
    /\ Free(h, Wanted(h))
    /\ ~Passes(h)
    /\ UNCHANGED vars

\* An error of the domain or of a constraint: rolled back, and told the device.
Refuse(h) ==
    /\ Busy(h)
    /\ Free(h, Wanted(h))
    /\ ~Passes(h)
    /\ Release(h)
    /\ UNCHANGED <<tasks, stockVars, results>>

WaitsFor(h, g) == Busy(h) /\ g # h /\ Wanted(h) \in Held(g)

\* PostgreSQL finds h in a cycle of waiting transactions and ends it.
Victim(h) ==
    /\ \E D \in SUBSET Handlers :
        /\ h \in D
        /\ \A g \in D : (\E x \in D : WaitsFor(g, x)) /\ (\E x \in D : WaitsFor(x, g))
    /\ Release(h)
    /\ UNCHANGED <<tasks, stockVars, results>>

\* The connection is lost or the gateway dies: rolled back.  Between the two
\* transactions of a start, the claim stays.
Abort(h) ==
    /\ Busy(h)
    /\ Release(h)
    /\ UNCHANGED <<tasks, stockVars, results>>

-----------------------------------------------------------------------------
Begin(h) == \E c \in Commands : \E x \in Sent(c) : Lookup(h, x) \/ ReplayStart(h, x)

TaskStep(h) == \/ Claim(h) \/ StartClaim(h) \/ Start(h)
               \/ ValidateSource(h) \/ ValidateDestination(h) \/ ValidateItem(h) \/ ValidateLot(h)
               \/ ConfirmGroup(h) \/ Complete(h)

StockStep(h) == \/ LockTask(h) \/ CheckStock(h) \/ CheckPlace(h) \/ LockDestination(h) \/ ApplyMove(h)
                \/ ValidateLocations(h) \/ Transfer(h)

\* A transaction under way takes its next step.
Proceed(h) == TaskStep(h) \/ StockStep(h) \/ Refuse(h)

Next == \E h \in Handlers : Begin(h) \/ Proceed(h) \/ Victim(h) \/ Abort(h)

\* PostgreSQL grants a lock in the order it was asked for, and looks for cycles
\* after deadlock_timeout.
Fairness == \A h \in Handlers : SF_vars(Proceed(h)) /\ WF_vars(Victim(h))

Spec == Init /\ [][Next]_vars /\ Fairness

-----------------------------------------------------------------------------
(* Properties                                                              *)

\* The units that rows of inventory_movement record, and how many they are.
Units(rows) == UNION {{m} \X (1 .. m.quantity) : m \in rows}
Quantity(rows) == Cardinality(Units(rows))

\* The rows of inventory_movement account for every balance: stock is neither
\* made nor lost, and no movement is without its row, whatever transactions
\* meet at a place, are refused half-way or end as a deadlock's victim.
LedgerExplainsStock ==
    \A p \in Places, i \in Items :
        /\ stock[<<p, i>>] >= 0
        /\ stock[<<p, i>>] + Quantity({m \in ledger : m.route.source = p /\ m.route.item = i})
             = FirstStock[<<p, i>>] + Quantity({m \in ledger : m.route.destination = p /\ m.route.item = i})

\* What a task says it has completed is what was moved for it, and never more
\* than it requires, although a completed task can be claimed and started again.
CompletedIsMoved ==
    \A t \in Tasks :
        /\ tasks[t].completed = FirstRow[t].completed + Quantity({m \in ledger : m.task = t})
        /\ tasks[t].completed <= Order[t].required

\* A key moves stock at most once as a task's command and once as a transfer,
\* however often it is sent, with whatever command.
OneMovePerKey ==
    \A k \in Keys :
        /\ Cardinality({m \in ledger : m.key = k /\ m.task = NoTask}) <= 1
        /\ Cardinality({m \in ledger : m.key = k /\ m.task # NoTask}) <= 1

\* Whoever finds the version unchanged finds the row unchanged: the result
\* stored for a key, which a start that is sent again goes on from, is the
\* current row if it has the current version.
VersionNamesRow ==
    \A k \in Keys :
        LET found == results["movement"][k] IN
        found # NoResult /\ found.row.version = tasks[found.task].version
            => found.row = tasks[found.task]

\* Tasks never fill a location beyond its capacity, also when several that
\* come from different places arrive there at once.
CapacityRespected == \A l \in Locations : used[l] <= Capacity[l]

\* Every transaction ends, although moves in opposite directions lock the same
\* rows in opposite orders.
EveryTransactionEnds == \A h \in Handlers : Busy(h) ~> ~Busy(h)
=============================================================================
