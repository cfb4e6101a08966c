---------------------------- MODULE FloorDocuments --------------------------
(***************************************************************************)
(* Receiving, cycle count and shipping in the local composition            *)
(* (internal/execution/receiving, internal/inventory, internal/shipping)   *)
(* and the cache in front of the shipments (internal/platform/cache):      *)
(* handlers of several gateway replicas change documents while others      *)
(* read a shipment through Redis.                                          *)
(*                                                                         *)
(* A command is one transaction of PostgreSQL.  It locks its idempotency   *)
(* key, then the row of its document, then at most one balance, so that    *)
(* transactions that meet follow one another: one step of the model.  A    *)
(* command whose key has a result, or that is refused, changes nothing.    *)
(* After the commit the handler deletes the cached views, a step of its    *)
(* own that can fail.  Events and audit records are left out.              *)
(***************************************************************************)
EXTENDS Integers, FiniteSets

CONSTANTS Operators, NoOperator, NotCounted,
          Receipts, ReceiptDoc, FirstReceipt,
          Counts, CountExpected, FirstCount,
          Packages, FirstShipment,  \* the packages and the first row of the shipment
          Items, FirstBalance,
          Keys,                     \* idempotency keys, 1..n
          Handlers,                 \* request goroutines of all gateway replicas
          Readers,                  \* gateway processes, one singleflight group each
          Commands,                 \* what devices ask for
          MaxVersion,               \* bound on the projections of a picking
          Absent, NoFlight, Loading, NoResult

R == INSTANCE ReceivingTask
C == INSTANCE CountTask
S == INSTANCE Shipment

\* line and quantity are of a receipt or a count, package and barcode of a
\* shipment; foreign: the actor's warehouse is not the document's.
CommandType(table, kinds, docs) ==
    [table : {table}, kind : kinds, doc : docs, operator : Operators, foreign : BOOLEAN,
     line : STRING, quantity : Int, match : BOOLEAN, remark : BOOLEAN, package : STRING,
     barcode : STRING, verified : SUBSET STRING, carrierValid : BOOLEAN]
ReceivingKinds == {"CLAIM", "START", "CONFIRM_QUANTITY", "COMPLETE"}
CountKinds == {"SUBMIT", "RECOUNT", "COMPLETE"}
ShippingKinds == {"VERIFY", "CONFIRM"}

\* What a stored command keeps.
ResultType == [doc : Receipts \union Counts \union {"shipment"}, operator : Operators]

ASSUME DocumentsAssumption ==
    /\ IsFiniteSet(Keys) /\ Keys = 1..Cardinality(Keys)
    /\ Commands \subseteq CommandType("receiving", ReceivingKinds, Receipts)
            \union CommandType("count", CountKinds, Counts)
            \union CommandType("shipping", ShippingKinds, {"shipment"})
    /\ \A t \in Receipts : LET lines == DOMAIN ReceiptDoc[t].expected IN
        /\ ReceiptDoc[t].expected \in [lines -> Nat]
        /\ ReceiptDoc[t].item \in [lines -> Items]
        /\ FirstReceipt[t] \in R!Row(ReceiptDoc[t])
    /\ \A t \in Counts : FirstCount[t] \in C!Row(CountExpected[t])
    /\ FirstShipment \in S!Row(Packages)
    /\ FirstBalance \in [Items -> Nat]
    /\ NoResult \notin ResultType

\* The pieces of item i that lines have received, one by one: a sum of
\* quantities is the size of a set.
Lines(i) ==
    {e \in UNION {{t} \X DOMAIN ReceiptDoc[t].expected : t \in Receipts} :
        ReceiptDoc[e[1]].item[e[2]] = i}
Pieces(rows, i) == UNION {{e} \X (1..rows[e[1]].received[e[2]]) : e \in Lines(i)}
Received(rows, i) == Cardinality(Pieces(rows, i))

\* Documents are inserted open: no line with more than was expected, no count
\* taken, nothing shipped.
ASSUME OpenAssumption ==
    /\ \A t \in Receipts :
        /\ FirstReceipt[t].status # "COMPLETED"
        /\ \A l \in DOMAIN ReceiptDoc[t].expected :
            FirstReceipt[t].received[l] > ReceiptDoc[t].expected[l] => ReceiptDoc[t].allowOverReceipt
    /\ \A i \in Items : IsFiniteSet(Pieces(FirstReceipt, i))
    /\ \A t \in Counts :
        /\ FirstCount[t].status # "COMPLETED"
        /\ \A l \in DOMAIN CountExpected[t] : FirstCount[t].lines[l].counted = NotCounted
    /\ FirstShipment.status # "SHIPPED"

VARIABLES receipts,   \* receipts[t]: rows of receiving_task and receiving_line
          balance,    \* balance[i]: quantity of inventory_balance
          counts,     \* counts[t]: rows of cycle_count_task and cycle_count_line
          shipment,   \* rows of shipment and shipment_package, of one shipment
          results,    \* results[table][k]: receiving_, inventory_ and shipping_command_status
          handler,    \* handler[h]: "idle", or "clear" between commit and invalidation
          redis,      \* the cached view of the shipment, or Absent
          flight,     \* flight[p]: the load of reader p that is under way
          stale       \* stale[p]: the view p served last, kept in the process

vars == <<receipts, balance, counts, shipment, results, handler, redis, flight, stale>>
documentVars == <<receipts, balance, counts, shipment, results, handler>>
viewVars == <<redis, flight, stale>>

Init == /\ receipts = [t \in Receipts |-> FirstReceipt[t]]
        /\ balance = FirstBalance
        /\ counts = [t \in Counts |-> FirstCount[t]]
        /\ shipment = FirstShipment
        /\ results = [s \in {"receiving", "count", "shipping"} |-> [k \in Keys |-> NoResult]]
        /\ handler = [h \in Handlers |-> "idle"]
        /\ redis = Absent
        /\ flight = [p \in Readers |-> NoFlight]
        /\ stale = [p \in Readers |-> Absent]

-----------------------------------------------------------------------------
(* The frame of a command                                                  *)

\* A key that was not used yet is named by the next number.
Usable(k) == \A j \in Keys : j < k => \E s \in DOMAIN results : results[s][j] # NoResult

\* A device sends a command under a key, with a version it has seen.
Sent(c, k, b) ==
    [table |-> c.table, kind |-> c.kind, doc |-> c.doc, operator |-> c.operator, foreign |-> c.foreign,
     line |-> c.line, quantity |-> c.quantity, match |-> c.match, remark |-> c.remark,
     package |-> c.package, barcode |-> c.barcode, verified |-> c.verified,
     carrierValid |-> c.carrierValid, key |-> k, base |-> b]

NotFound(x) == results[x.table][x.key] = NoResult

Store(x) == results' = [results EXCEPT ![x.table][x.key] = [doc |-> x.doc, operator |-> x.operator]]

Committed(h) == handler' = [handler EXCEPT ![h] = "clear"] /\ UNCHANGED viewVars

\* A command of this table and kind that its handler lets pass and whose key is new.
Begins(h, x, table, kind) ==
    /\ x.table = table /\ x.kind = kind
    /\ handler[h] = "idle"
    /\ NotFound(x)
    /\ ~x.foreign

-----------------------------------------------------------------------------
(* Receiving                                                               *)

\* Mutant: the balance is overwritten.
ApplyInventoryOverwriting(item, delta) == balance' = [balance EXCEPT ![item] = delta]

ApplyInventory(item, delta) == balance' = [balance EXCEPT ![item] = @ + delta]

\* Save, SaveCommand and the commit of mutate.
mutate(h, x, row) ==
    /\ receipts' = [receipts EXCEPT ![x.doc] = row]
    /\ Store(x)
    /\ Committed(h)
    /\ UNCHANGED <<counts, shipment>>

ClaimReceipt(h, x) ==
    /\ Begins(h, x, "receiving", "CLAIM")
    /\ R!CanClaim(receipts[x.doc], x)
    /\ mutate(h, x, R!Claimed(receipts[x.doc], x))
    /\ UNCHANGED balance

StartReceipt(h, x) ==
    /\ Begins(h, x, "receiving", "START")
    /\ R!CanStart(receipts[x.doc], x)
    /\ mutate(h, x, R!Started(receipts[x.doc]))
    /\ UNCHANGED balance

ConfirmReceipt(h, x) ==
    /\ Begins(h, x, "receiving", "CONFIRM_QUANTITY")
    /\ R!CanConfirm(ReceiptDoc[x.doc], receipts[x.doc], x)
    /\ LET row == R!Confirmed(receipts[x.doc], x) IN
        /\ mutate(h, x, row)
        /\ ApplyInventory(ReceiptDoc[x.doc].item[x.line],
                          row.received[x.line] - receipts[x.doc].received[x.line])

CompleteReceipt(h, x) ==
    /\ Begins(h, x, "receiving", "COMPLETE")
    /\ R!CanComplete(ReceiptDoc[x.doc], receipts[x.doc], x)
    /\ mutate(h, x, R!Completed(receipts[x.doc]))
    /\ UNCHANGED balance

-----------------------------------------------------------------------------
(* Cycle count                                                             *)

countMutation(h, x, row) ==
    /\ counts' = [counts EXCEPT ![x.doc] = row]
    /\ Store(x)
    /\ Committed(h)
    /\ UNCHANGED <<receipts, balance, shipment>>

SubmitCount(h, x) ==
    /\ Begins(h, x, "count", "SUBMIT")
    /\ C!CanSubmit(counts[x.doc], x)
    /\ countMutation(h, x, C!Submitted(CountExpected[x.doc], counts[x.doc], x))

Recount(h, x) ==
    /\ Begins(h, x, "count", "RECOUNT")
    /\ C!CanRecount(counts[x.doc], x)
    /\ countMutation(h, x, C!Recounted(counts[x.doc], x))

CompleteCount(h, x) ==
    /\ Begins(h, x, "count", "COMPLETE")
    /\ C!CanComplete(counts[x.doc], x)
    /\ countMutation(h, x, C!Completed(counts[x.doc], x))

-----------------------------------------------------------------------------
(* Shipping                                                                *)

\* Mutant: a command reads the shipment through the cache.
GetForUpdateCached == IF redis = Absent THEN shipment ELSE redis

GetForUpdate == shipment

\* Save writes neither packages nor picking_complete.
SaveShipment(row) == [shipment EXCEPT !.status = row.status, !.version = row.version]

\* VerifyPackage has no idempotency key.  A package that is verified already
\* changes nothing.
VerifyPackage(h, x) ==
    /\ x.table = "shipping" /\ x.kind = "VERIFY"
    /\ handler[h] = "idle"
    /\ ~x.foreign
    /\ S!CanVerify(GetForUpdate, x)
    /\ LET row == S!Verified(GetForUpdate, x) IN
        /\ row.version # GetForUpdate.version
        /\ shipment' = [SaveShipment(row) EXCEPT !.packages[x.package] = "VERIFIED"]
    /\ Committed(h)
    /\ UNCHANGED <<receipts, balance, counts, results>>

ConfirmShipment(h, x) ==
    /\ Begins(h, x, "shipping", "CONFIRM")
    /\ S!CanConfirm(GetForUpdate, x)
    /\ shipment' = SaveShipment(S!Confirmed(GetForUpdate))
    /\ Store(x)
    /\ Committed(h)
    /\ UNCHANGED <<receipts, balance, counts>>

\* A projection of the picking's completion, unconditional and outside a
\* transaction of the service.
ProjectPickingComplete(h) ==
    /\ handler[h] = "idle"
    /\ shipment.version < MaxVersion
    /\ shipment' = [shipment EXCEPT !.pickingComplete = TRUE, !.version = @ + 1]
    /\ Committed(h)
    /\ UNCHANGED <<receipts, balance, counts, results>>

-----------------------------------------------------------------------------
(* Cached views                                                            *)

\* After the commit: the views are deleted.  The error of a failed deletion (no
\* Redis, the request's context is over, the gateway died) is dropped.
Invalidate(h) ==
    /\ handler[h] = "clear"
    /\ handler' = [handler EXCEPT ![h] = "idle"]
    /\ redis' = Absent
    /\ UNCHANGED <<receipts, balance, counts, shipment, results, flight, stale>>
InvalidationFails(h) ==
    /\ handler[h] = "clear"
    /\ handler' = [handler EXCEPT ![h] = "idle"]
    /\ UNCHANGED <<receipts, balance, counts, shipment, results, viewVars>>

Hit(p) ==
    /\ redis # Absent
    /\ stale' = [stale EXCEPT ![p] = redis]
    /\ UNCHANGED <<documentVars, redis, flight>>

\* A miss, or no answer of Redis: a load begins, or the one under way is joined.
Miss(p) ==
    /\ flight[p] = NoFlight
    /\ flight' = [flight EXCEPT ![p] = Loading]
    /\ UNCHANGED <<documentVars, redis, stale>>

Load(p) ==
    /\ flight[p] = Loading
    /\ flight' = [flight EXCEPT ![p] = shipment]
    /\ UNCHANGED <<documentVars, redis, stale>>

\* Mutant: the view served in place of the load is cached again.
LoadFailsRecached(p) ==
    /\ flight[p] = Loading
    /\ flight' = [flight EXCEPT ![p] = NoFlight]
    /\ redis' = IF stale[p] = Absent THEN redis ELSE stale[p]
    /\ UNCHANGED <<documentVars, stale>>

\* The load fails: what the process served last is served again.
LoadFails(p) ==
    /\ flight[p] = Loading
    /\ flight' = [flight EXCEPT ![p] = NoFlight]
    /\ UNCHANGED <<documentVars, redis, stale>>

\* The loaded view goes to Redis, whatever was committed or deleted since.
SetLoaded(p) ==
    /\ flight[p] \notin {NoFlight, Loading}
    /\ redis' = flight[p]
    /\ stale' = [stale EXCEPT ![p] = flight[p]]
    /\ flight' = [flight EXCEPT ![p] = NoFlight]
    /\ UNCHANGED documentVars
SetFails(p) ==
    /\ flight[p] \notin {NoFlight, Loading}
    /\ stale' = [stale EXCEPT ![p] = flight[p]]
    /\ flight' = [flight EXCEPT ![p] = NoFlight]
    /\ UNCHANGED <<documentVars, redis>>

\* The time to live of the entry is over.
Expire ==
    /\ redis # Absent
    /\ redis' = Absent
    /\ UNCHANGED <<documentVars, flight, stale>>

-----------------------------------------------------------------------------
Command(h, x) ==
    \/ ClaimReceipt(h, x) \/ StartReceipt(h, x) \/ ConfirmReceipt(h, x) \/ CompleteReceipt(h, x)
    \/ SubmitCount(h, x) \/ Recount(h, x) \/ CompleteCount(h, x)
    \/ VerifyPackage(h, x) \/ ConfirmShipment(h, x)

Write(h) ==
    \/ \E c \in Commands, k \in {j \in Keys : Usable(j)} :
        LET row == CASE c.table = "receiving" -> receipts[c.doc]
                     [] c.table = "count" -> counts[c.doc]
                     [] OTHER -> shipment
        IN  \E b \in 1..row.version : Command(h, Sent(c, k, b))
    \/ ProjectPickingComplete(h)

Clear(h) == Invalidate(h) \/ InvalidationFails(h)
Finish(p) == Load(p) \/ LoadFails(p) \/ SetLoaded(p) \/ SetFails(p)

Next == \/ \E h \in Handlers : Write(h) \/ Clear(h)
        \/ \E p \in Readers : Hit(p) \/ Miss(p) \/ Finish(p)
        \/ Expire

\* Redis deletes what is past its time to live; a load has the time-outs of the
\* database and of Redis.
Fairness == /\ WF_vars(Expire)
            /\ \A p \in Readers : WF_vars(Finish(p))
            /\ \A h \in Handlers : WF_vars(Clear(h))

Spec == Init /\ [][Next]_vars /\ Fairness

-----------------------------------------------------------------------------
(* Properties                                                              *)

\* What was received of an item, over all lines of all receipts, is what was
\* booked, and every change of a receipt is the one of a stored command: a key
\* that is sent again, at the same time or for another receipt, books nothing.
BookedIsReceived ==
    /\ \A i \in Items :
        balance[i] + Received(FirstReceipt, i) = FirstBalance[i] + Received(receipts, i)
    /\ \A t \in Receipts :
        receipts[t].version - FirstReceipt[t].version
          = Cardinality({k \in Keys : /\ results["receiving"][k] # NoResult
                                      /\ results["receiving"][k].doc = t})

\* A document that says it is finished is: all lines of a completed receipt are
\* received, and no line beyond what was expected unless the policy allows it;
\* all lines of a completed count agree with the system; a shipment is shipped
\* by exactly one confirmation, with its picking complete and every package
\* verified, whatever versions stale views show to devices.  No view says
\* SHIPPED before the shipment is.
ClosedIsJustified ==
    /\ \A t \in Receipts : \A l \in DOMAIN ReceiptDoc[t].expected :
        /\ receipts[t].status = "COMPLETED" => receipts[t].received[l] >= ReceiptDoc[t].expected[l]
        /\ receipts[t].received[l] > ReceiptDoc[t].expected[l] => ReceiptDoc[t].allowOverReceipt
    /\ \A t \in Counts : counts[t].status = "COMPLETED" =>
        \A l \in DOMAIN CountExpected[t] : counts[t].lines[l].counted = CountExpected[t][l]
    /\ shipment.status = "SHIPPED" => S!Readiness(shipment)
    /\ Cardinality({k \in Keys : results["shipping"][k] # NoResult})
         = (IF shipment.status = "SHIPPED" THEN 1 ELSE 0)
    /\ \A view \in {redis} \union {stale[p] : p \in Readers} :
        view # Absent /\ view.status = "SHIPPED" => shipment.status = "SHIPPED"

\* A reader that loaded before a commit can cache its view after the views were
\* deleted, and a deletion can fail; still, once a shipment stays as it is, the
\* cache has no other view of it in the end.
ViewCatchesUp == <>[](redis \in {Absent, shipment})
=============================================================================
