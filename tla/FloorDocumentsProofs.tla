------------------------- MODULE FloorDocumentsProofs -------------------------
(***************************************************************************)
(* Proofs about FloorDocuments, for any documents that are inserted open,  *)
(* any commands and keys, and any number of handlers and readers.          *)
(***************************************************************************)
EXTENDS FloorDocuments, FiniteSetTheorems, TLAPS

Tables == {"receiving", "count", "shipping"}

\* The shape of the state.
Typed ==
    /\ receipts = [t \in Receipts |-> receipts[t]]
    /\ \A t \in Receipts : receipts[t] \in R!Row(ReceiptDoc[t])
    /\ counts = [t \in Counts |-> counts[t]]
    /\ \A t \in Counts : counts[t] \in C!Row(CountExpected[t])
    /\ shipment \in S!Row(Packages)
    /\ results \in [Tables -> [Keys -> ResultType \union {NoResult}]]
    /\ balance \in [Items -> Nat]

\* A command as a device sends it.
CommandOf(x, table) ==
    /\ x.table = table
    /\ x.key \in Keys
    /\ x.operator \in Operators
    /\ x.quantity \in Int
    /\ table = "receiving" => x.doc \in Receipts
    /\ table = "count" => x.doc \in Counts
    /\ table = "shipping" => x.doc = "shipment"

LEMMA SentIsCommand ==
    ASSUME NEW c \in Commands, NEW k \in Keys, NEW b
    PROVE  \E table \in Tables : CommandOf(Sent(c, k, b), table)
<1>1. \/ c \in CommandType("receiving", ReceivingKinds, Receipts)
      \/ c \in CommandType("count", CountKinds, Counts)
      \/ c \in CommandType("shipping", ShippingKinds, {"shipment"})
  BY DocumentsAssumption
<1>2. CASE c \in CommandType("receiving", ReceivingKinds, Receipts)
  <2>1. CommandOf(Sent(c, k, b), "receiving")
    BY <1>2 DEF CommandType, CommandOf, Sent
  <2> QED
    BY <2>1 DEF Tables
<1>3. CASE c \in CommandType("count", CountKinds, Counts)
  <2>1. CommandOf(Sent(c, k, b), "count")
    BY <1>3 DEF CommandType, CommandOf, Sent
  <2> QED
    BY <2>1 DEF Tables
<1>4. CASE c \in CommandType("shipping", ShippingKinds, {"shipment"})
  <2>1. CommandOf(Sent(c, k, b), "shipping")
    BY <1>4 DEF CommandType, CommandOf, Sent
  <2> QED
    BY <2>1 DEF Tables
<1> QED
  BY <1>1, <1>2, <1>3, <1>4

-----------------------------------------------------------------------------
(* Rows                                                                    *)

\* A receipt after a command that receives nothing.
LEMMA ReceiptAdvanced ==
    ASSUME NEW doc, NEW row \in R!Row(doc), NEW s \in R!Statuses
    PROVE  /\ R!Advanced(row, s) \in R!Row(doc)
           /\ R!Advanced(row, s).status = s
           /\ R!Advanced(row, s).version = row.version + 1
           /\ R!Advanced(row, s).received = row.received
<1>1. row.version + 1 \in Nat \ {0}
  BY DEF R!Row
<1>2. /\ R!Advanced(row, s).status = s
      /\ R!Advanced(row, s).version = row.version + 1
      /\ R!Advanced(row, s).operator = row.operator
      /\ R!Advanced(row, s).received = row.received
  BY DEF R!Advanced, R!Row
<1>3. R!Advanced(row, s) \in R!Row(doc)
  BY <1>1, <1>2 DEF R!Advanced, R!Row
<1> QED
  BY <1>2, <1>3

LEMMA ReceiptClaimed ==
    ASSUME NEW doc, NEW row \in R!Row(doc), NEW x, x.operator \in Operators
    PROVE  /\ R!Claimed(row, x) \in R!Row(doc)
           /\ R!Claimed(row, x).status = "IN_PROGRESS"
           /\ R!Claimed(row, x).version = row.version + 1
           /\ R!Claimed(row, x).received = row.received
<1> DEFINE r == R!Advanced(row, "IN_PROGRESS")
<1>1. /\ r \in R!Row(doc) /\ r.status = "IN_PROGRESS" /\ r.version = row.version + 1
      /\ r.received = row.received
  <2>1. "IN_PROGRESS" \in R!Statuses
    BY DEF R!Statuses
  <2> QED
    BY <2>1, ReceiptAdvanced
<1>2. R!Claimed(row, x) = [r EXCEPT !.operator = x.operator]
  BY DEF R!Claimed
<1> HIDE DEF r
<1> QED
  BY <1>1, <1>2 DEF R!Row

\* A receipt after a line has received a quantity.
LEMMA ReceiptConfirmed ==
    ASSUME NEW doc, NEW row \in R!Row(doc), NEW x, x.quantity \in Nat, x.line \in DOMAIN doc.expected
    PROVE  /\ R!Confirmed(row, x) \in R!Row(doc)
           /\ R!Confirmed(row, x).status = "PARTIALLY_COMPLETED"
           /\ R!Confirmed(row, x).version = row.version + 1
           /\ R!Confirmed(row, x).received = [row.received EXCEPT ![x.line] = @ + x.quantity]
<1> DEFINE r == R!Advanced(row, "PARTIALLY_COMPLETED")
<1>1. /\ r \in R!Row(doc) /\ r.status = "PARTIALLY_COMPLETED" /\ r.version = row.version + 1
      /\ r.received = row.received
  <2>1. "PARTIALLY_COMPLETED" \in R!Statuses
    BY DEF R!Statuses
  <2> QED
    BY <2>1, ReceiptAdvanced
<1>2. R!Confirmed(row, x) = [r EXCEPT !.received[x.line] = @ + x.quantity]
  BY DEF R!Confirmed
<1> HIDE DEF r
<1>3. r.received \in [DOMAIN doc.expected -> Nat]
  BY <1>1 DEF R!Row
<1>4. [r.received EXCEPT ![x.line] = @ + x.quantity] \in [DOMAIN doc.expected -> Nat]
  BY <1>3
<1>5. /\ R!Confirmed(row, x).received = [r.received EXCEPT ![x.line] = @ + x.quantity]
      /\ R!Confirmed(row, x).status = r.status /\ R!Confirmed(row, x).version = r.version
  BY <1>1, <1>2 DEF R!Row
<1>6. R!Confirmed(row, x) \in R!Row(doc)
  BY <1>1, <1>2, <1>4, <1>5 DEF R!Row
<1> QED
  BY <1>1, <1>5, <1>6

\* A count after a command.
LEMMA CountAdvanced ==
    ASSUME NEW expected, NEW row \in C!Row(expected), NEW s \in C!Statuses,
           NEW x, x.operator \in Operators
    PROVE  /\ C!Advanced(row, s, x) \in C!Row(expected)
           /\ C!Advanced(row, s, x).status = s
           /\ C!Advanced(row, s, x).lines = row.lines
<1>1. row.version + 1 \in Nat \ {0}
  BY DEF C!Row
<1>2. /\ C!Advanced(row, s, x).status = s
      /\ C!Advanced(row, s, x).version = row.version + 1
      /\ C!Advanced(row, s, x).operator = x.operator
      /\ C!Advanced(row, s, x).lines = row.lines
  BY DEF C!Advanced, C!Row
<1>3. C!Advanced(row, s, x) \in C!Row(expected)
  BY <1>1, <1>2 DEF C!Advanced, C!Row
<1> QED
  BY <1>2, <1>3

LEMMA CountLineSet ==
    ASSUME NEW expected, NEW r \in C!Row(expected), NEW l \in DOMAIN expected, NEW v \in C!Line
    PROVE  /\ [r EXCEPT !.lines[l] = v] \in C!Row(expected)
           /\ [r EXCEPT !.lines[l] = v].status = r.status
           /\ [r EXCEPT !.lines[l] = v].lines = [r.lines EXCEPT ![l] = v]
<1>1. r.lines \in [DOMAIN expected -> C!Line]
  BY DEF C!Row
<1>2. [r.lines EXCEPT ![l] = v] \in [DOMAIN expected -> C!Line]
  BY <1>1
<1>3. /\ [r EXCEPT !.lines[l] = v].status = r.status
      /\ [r EXCEPT !.lines[l] = v].lines = [r.lines EXCEPT ![l] = v]
  BY DEF C!Row
<1>4. [r EXCEPT !.lines[l] = v] \in C!Row(expected)
  BY <1>2, <1>3 DEF C!Row
<1> QED
  BY <1>3, <1>4

-----------------------------------------------------------------------------
(* Sorts of steps                                                          *)

\* What is right about a row by itself.
ReceiptSound(doc, row) ==
    \A l \in DOMAIN doc.expected :
        /\ row.status = "COMPLETED" => row.received[l] >= doc.expected[l]
        /\ row.received[l] > doc.expected[l] => doc.allowOverReceipt
CountSound(expected, row) ==
    \A l \in DOMAIN expected :
        /\ row.status = "COMPLETED" => row.lines[l].counted = expected[l]
        /\ \/ row.lines[l].counted \in {NotCounted, expected[l]}
           \/ row.lines[l].recountRequired
ShipmentSound(row) == row.status = "SHIPPED" => S!Readiness(row)

\* The command is stored under its key, which was new.
Stored(x, table) ==
    /\ CommandOf(x, table)
    /\ results[table][x.key] = NoResult
    /\ results' = [results EXCEPT ![table][x.key] = [doc |-> x.doc, operator |-> x.operator]]

\* A command changes a receipt and receives nothing.
ReceiptMoves(x, row) ==
    /\ Stored(x, "receiving")
    /\ receipts' = [receipts EXCEPT ![x.doc] = row]
    /\ row \in R!Row(ReceiptDoc[x.doc])
    /\ row.version = receipts[x.doc].version + 1
    /\ row.received = receipts[x.doc].received
    /\ ReceiptSound(ReceiptDoc[x.doc], receipts[x.doc]) => ReceiptSound(ReceiptDoc[x.doc], row)
    /\ UNCHANGED <<balance, counts, shipment, redis, flight, stale>>

\* A command receives a quantity of a line, and books it.
ReceiptGrows(x, row) ==
    /\ Stored(x, "receiving")
    /\ receipts' = [receipts EXCEPT ![x.doc] = row]
    /\ row \in R!Row(ReceiptDoc[x.doc])
    /\ row.version = receipts[x.doc].version + 1
    /\ x.line \in DOMAIN ReceiptDoc[x.doc].expected /\ x.quantity \in Nat \ {0}
    /\ row.received = [receipts[x.doc].received EXCEPT ![x.line] = @ + x.quantity]
    /\ ReceiptSound(ReceiptDoc[x.doc], receipts[x.doc]) => ReceiptSound(ReceiptDoc[x.doc], row)
    /\ balance' = [balance EXCEPT ![ReceiptDoc[x.doc].item[x.line]] = @ + x.quantity]
    /\ UNCHANGED <<counts, shipment, redis, flight, stale>>

CountMoves(x, row) ==
    /\ Stored(x, "count")
    /\ counts' = [counts EXCEPT ![x.doc] = row]
    /\ row \in C!Row(CountExpected[x.doc])
    /\ CountSound(CountExpected[x.doc], counts[x.doc]) => CountSound(CountExpected[x.doc], row)
    /\ UNCHANGED <<receipts, balance, shipment, redis, flight, stale>>

ShipmentMoves ==
    /\ shipment' \in S!Row(Packages)
    /\ shipment.status = "SHIPPED" => shipment'.status = "SHIPPED"
    /\ ShipmentSound(shipment) => ShipmentSound(shipment')
    /\ \/ shipment'.status = shipment.status /\ results' = results
       \/ /\ \E x : Stored(x, "shipping")
          /\ shipment.status # "SHIPPED" /\ shipment'.status = "SHIPPED"
    /\ UNCHANGED <<receipts, balance, counts, redis, flight, stale>>

\* A step of the cache.
ViewsMove == UNCHANGED <<receipts, balance, counts, shipment, results>>

LEMMA BeginsStores ==
    ASSUME NEW h, NEW x, NEW table \in Tables, NEW kind, Begins(h, x, table, kind), Store(x),
           CommandOf(x, x.table)
    PROVE  Stored(x, table)
  BY DEF Begins, NotFound, Store, Stored

LEMMA ReceiptSteps ==
    ASSUME Typed, NEW h, NEW x, CommandOf(x, x.table),
           ClaimReceipt(h, x) \/ StartReceipt(h, x) \/ ConfirmReceipt(h, x) \/ CompleteReceipt(h, x)
    PROVE  \E row : ReceiptMoves(x, row) \/ ReceiptGrows(x, row)
<1> DEFINE doc == ReceiptDoc[x.doc]
           old == receipts[x.doc]
<1>1. x.table = "receiving" /\ "receiving" \in Tables
  BY DEF ClaimReceipt, StartReceipt, ConfirmReceipt, CompleteReceipt, Begins, Tables
<1>2. x.doc \in Receipts /\ x.operator \in Operators /\ x.quantity \in Int
  BY <1>1 DEF CommandOf
<1>3. old \in R!Row(doc) /\ doc.expected \in [DOMAIN doc.expected -> Nat]
  BY <1>2, DocumentsAssumption DEF Typed
<1>4. old.received \in [DOMAIN doc.expected -> Nat]
  BY <1>3 DEF R!Row
<1>5. ASSUME NEW row, row \in R!Row(doc), row.version = old.version + 1, row.received = old.received,
             ReceiptSound(doc, old) => ReceiptSound(doc, row),
             NEW kind, Begins(h, x, "receiving", kind), mutate(h, x, row), UNCHANGED balance
      PROVE  ReceiptMoves(x, row)
  <2>1. Stored(x, "receiving")
    BY <1>1, <1>5, BeginsStores DEF mutate
  <2> QED
    BY <1>5, <2>1 DEF ReceiptMoves, mutate, Committed, viewVars
<1>6. CASE ClaimReceipt(h, x)
  <2> DEFINE row == R!Claimed(old, x)
  <2>1. row \in R!Row(doc) /\ row.status = "IN_PROGRESS" /\ row.version = old.version + 1
        /\ row.received = old.received
    BY <1>2, <1>3, ReceiptClaimed
  <2>2. Begins(h, x, "receiving", "CLAIM") /\ mutate(h, x, row) /\ UNCHANGED balance
    BY <1>6 DEF ClaimReceipt
  <2> HIDE DEF row
  <2>3. ReceiptSound(doc, old) => ReceiptSound(doc, row)
    BY <2>1 DEF ReceiptSound
  <2> QED
    BY <1>5, <2>1, <2>2, <2>3
<1>7. CASE StartReceipt(h, x)
  <2> DEFINE row == R!Started(old)
  <2>1. row \in R!Row(doc) /\ row.status = "IN_PROGRESS" /\ row.version = old.version + 1
        /\ row.received = old.received
    <3>1. "IN_PROGRESS" \in R!Statuses
      BY DEF R!Statuses
    <3> QED
      BY <1>3, <3>1, ReceiptAdvanced DEF R!Started
  <2>2. Begins(h, x, "receiving", "START") /\ mutate(h, x, row) /\ UNCHANGED balance
    BY <1>7 DEF StartReceipt
  <2> HIDE DEF row
  <2>3. ReceiptSound(doc, old) => ReceiptSound(doc, row)
    BY <2>1 DEF ReceiptSound
  <2> QED
    BY <1>5, <2>1, <2>2, <2>3
<1>8. CASE CompleteReceipt(h, x)
  <2> DEFINE row == R!Completed(old)
  <2>1. row \in R!Row(doc) /\ row.version = old.version + 1 /\ row.received = old.received
    <3>1. "COMPLETED" \in R!Statuses
      BY DEF R!Statuses
    <3> QED
      BY <1>3, <3>1, ReceiptAdvanced DEF R!Completed
  <2>2. Begins(h, x, "receiving", "COMPLETE") /\ mutate(h, x, row) /\ UNCHANGED balance
    BY <1>8 DEF CompleteReceipt
  <2> HIDE DEF row
  <2>3. \A l \in DOMAIN doc.expected : old.received[l] >= doc.expected[l]
    BY <1>8 DEF CompleteReceipt, R!CanComplete
  <2>4. ReceiptSound(doc, old) => ReceiptSound(doc, row)
    BY <2>1, <2>3 DEF ReceiptSound
  <2> QED
    BY <1>5, <2>1, <2>2, <2>4
<1>9. CASE ConfirmReceipt(h, x)
  <2> DEFINE row == R!Confirmed(old, x)
  <2>1. R!CanConfirm(doc, old, x)
    BY <1>9 DEF ConfirmReceipt
  <2>2. /\ x.line \in DOMAIN doc.expected /\ x.quantity \in Nat \ {0}
        /\ x.quantity > doc.expected[x.line] - old.received[x.line] => doc.allowOverReceipt
    BY <1>2, <2>1 DEF R!CanConfirm
  <2>3. /\ row \in R!Row(doc) /\ row.status = "PARTIALLY_COMPLETED" /\ row.version = old.version + 1
        /\ row.received = [old.received EXCEPT ![x.line] = @ + x.quantity]
    BY <1>3, <2>2, ReceiptConfirmed
  <2>4. /\ Begins(h, x, "receiving", "CONFIRM_QUANTITY") /\ mutate(h, x, row)
        /\ balance' = [balance EXCEPT ![doc.item[x.line]] =
                           @ + (row.received[x.line] - old.received[x.line])]
    BY <1>9 DEF ConfirmReceipt, ApplyInventory
  <2> HIDE DEF row
  <2>5. row.received[x.line] - old.received[x.line] = x.quantity
    BY <1>4, <2>2, <2>3
  <2>6. ReceiptSound(doc, old) => ReceiptSound(doc, row)
    <3> SUFFICES ASSUME ReceiptSound(doc, old), NEW l \in DOMAIN doc.expected,
                        row.received[l] > doc.expected[l]
                 PROVE  doc.allowOverReceipt
      BY <2>3 DEF ReceiptSound
    <3>1. doc.expected[l] \in Nat /\ old.received[l] \in Nat
      BY <1>3, <1>4
    <3>2. CASE l = x.line
      BY <1>4, <2>2, <2>3, <3>1, <3>2
    <3>3. CASE l # x.line
      BY <1>4, <2>3, <3>3 DEF ReceiptSound
    <3> QED
      BY <3>2, <3>3
  <2>7. Stored(x, "receiving")
    BY <1>1, <2>4, BeginsStores DEF mutate
  <2>8. ReceiptGrows(x, row)
    BY <2>2, <2>3, <2>4, <2>5, <2>6, <2>7 DEF ReceiptGrows, mutate, Committed, viewVars
  <2> QED
    BY <2>8
<1> QED
  BY <1>6, <1>7, <1>8, <1>9

LEMMA CountSteps ==
    ASSUME Typed, NEW h, NEW x, CommandOf(x, x.table),
           SubmitCount(h, x) \/ Recount(h, x) \/ CompleteCount(h, x)
    PROVE  \E row : CountMoves(x, row)
<1> DEFINE expected == CountExpected[x.doc]
           old == counts[x.doc]
<1>1. x.table = "count" /\ "count" \in Tables
  BY DEF SubmitCount, Recount, CompleteCount, Begins, Tables
<1>2. x.doc \in Counts /\ x.operator \in Operators /\ x.quantity \in Int
  BY <1>1 DEF CommandOf
<1>3. old \in C!Row(expected)
  BY <1>2 DEF Typed
<1>4. old.lines \in [DOMAIN expected -> C!Line] /\ DOMAIN old.lines = DOMAIN expected
  BY <1>3 DEF C!Row
<1>5. ASSUME NEW row, row \in C!Row(expected),
             CountSound(expected, old) => CountSound(expected, row),
             NEW kind, Begins(h, x, "count", kind), countMutation(h, x, row)
      PROVE  CountMoves(x, row)
  <2>1. Stored(x, "count")
    BY <1>1, <1>5, BeginsStores DEF countMutation
  <2> QED
    BY <1>5, <2>1 DEF CountMoves, countMutation, Committed, viewVars
<1>6. ASSUME NEW s \in {"IN_PROGRESS", "RECOUNT"}, x.line \in DOMAIN old.lines,
             NEW v \in C!Line, v.counted \in {NotCounted, expected[x.line]} \/ v.recountRequired,
             NEW row, row = [C!Advanced(old, s, x) EXCEPT !.lines[x.line] = v]
      PROVE  row \in C!Row(expected) /\ (CountSound(expected, old) => CountSound(expected, row))
  <2> DEFINE r == C!Advanced(old, s, x)
  <2>1. r \in C!Row(expected) /\ r.status = s /\ r.lines = old.lines
    <3>1. s \in C!Statuses
      BY DEF C!Statuses
    <3> QED
      BY <1>2, <1>3, <3>1, CountAdvanced
  <2>2. row = [r EXCEPT !.lines[x.line] = v] /\ x.line \in DOMAIN expected
    BY <1>4, <1>6
  <2> HIDE DEF r
  <2>3. row \in C!Row(expected) /\ row.status = r.status /\ row.lines = [r.lines EXCEPT ![x.line] = v]
    BY <2>1, <2>2, CountLineSet
  <2>4. \A l \in DOMAIN expected : row.lines[l] = IF l = x.line THEN v ELSE old.lines[l]
    BY <1>4, <2>1, <2>3
  <2> QED
    BY <1>6, <2>1, <2>3, <2>4 DEF CountSound
<1>7. CASE SubmitCount(h, x)
  <2> DEFINE v == [counted |-> x.quantity, recountRequired |-> x.quantity # expected[x.line]]
             row == C!Submitted(expected, old, x)
  <2>1. /\ Begins(h, x, "count", "SUBMIT") /\ countMutation(h, x, row)
        /\ x.line \in DOMAIN old.lines
    BY <1>7 DEF SubmitCount, C!CanSubmit
  <2>2. v \in C!Line
    BY <1>2 DEF C!Line
  <2>3. v.counted \in {NotCounted, expected[x.line]} \/ v.recountRequired
    OBVIOUS
  <2>4. row = [C!Advanced(old, "IN_PROGRESS", x) EXCEPT !.lines[x.line] = v]
    BY DEF C!Submitted
  <2> HIDE DEF v, row
  <2>5. row \in C!Row(expected) /\ (CountSound(expected, old) => CountSound(expected, row))
    BY <1>6, <2>1, <2>2, <2>3, <2>4
  <2> QED
    BY <1>5, <2>1, <2>5
<1>8. CASE Recount(h, x)
  <2> DEFINE v == [counted |-> NotCounted, recountRequired |-> TRUE]
             row == C!Recounted(old, x)
  <2>1. /\ Begins(h, x, "count", "RECOUNT") /\ countMutation(h, x, row)
        /\ x.line \in DOMAIN old.lines
    BY <1>8 DEF Recount, C!CanRecount
  <2>2. v \in C!Line /\ v.recountRequired
    BY DEF C!Line
  <2>3. row = [C!Advanced(old, "RECOUNT", x) EXCEPT !.lines[x.line] = v]
    BY DEF C!Recounted
  <2> HIDE DEF v, row
  <2>4. row \in C!Row(expected) /\ (CountSound(expected, old) => CountSound(expected, row))
    BY <1>6, <2>1, <2>2, <2>3
  <2> QED
    BY <1>5, <2>1, <2>4
<1>9. CASE CompleteCount(h, x)
  <2> DEFINE row == C!Completed(old, x)
  <2>1. row \in C!Row(expected) /\ row.lines = old.lines
    <3>1. "COMPLETED" \in C!Statuses
      BY DEF C!Statuses
    <3> QED
      BY <1>2, <1>3, <3>1, CountAdvanced DEF C!Completed
  <2>2. /\ Begins(h, x, "count", "COMPLETE") /\ countMutation(h, x, row)
        /\ \A l \in DOMAIN old.lines : /\ old.lines[l].counted # NotCounted
                                       /\ ~old.lines[l].recountRequired
    BY <1>9 DEF CompleteCount, C!CanComplete
  <2> HIDE DEF row
  <2>3. CountSound(expected, old) => CountSound(expected, row)
    BY <1>4, <2>1, <2>2 DEF CountSound
  <2> QED
    BY <1>5, <2>1, <2>2, <2>3
<1> QED
  BY <1>7, <1>8, <1>9

\* A shipment row with another status and version.
LEMMA ShipmentSaved ==
    ASSUME Typed, NEW row, row.status \in {"PENDING", "SHIPPED"}, row.version \in Nat \ {0}
    PROVE  /\ SaveShipment(row) \in S!Row(Packages)
           /\ SaveShipment(row).status = row.status
           /\ SaveShipment(row).packages = shipment.packages
           /\ SaveShipment(row).pickingComplete = shipment.pickingComplete
<1>1. /\ SaveShipment(row).status = row.status
      /\ SaveShipment(row).version = row.version
      /\ SaveShipment(row).packages = shipment.packages
      /\ SaveShipment(row).pickingComplete = shipment.pickingComplete
  BY DEF Typed, S!Row, SaveShipment
<1>2. SaveShipment(row) \in S!Row(Packages)
  BY <1>1 DEF Typed, S!Row, SaveShipment
<1> QED
  BY <1>1, <1>2

LEMMA ShippingSteps ==
    ASSUME Typed, NEW h, NEW x, CommandOf(x, x.table), VerifyPackage(h, x) \/ ConfirmShipment(h, x)
    PROVE  ShipmentMoves
<1>1. /\ shipment \in S!Row(Packages) /\ shipment.status \in {"PENDING", "SHIPPED"}
      /\ shipment.version \in Nat \ {0} /\ shipment.packages \in [Packages -> S!PackageStatuses]
      /\ shipment.version + 1 \in Nat \ {0}
  BY DEF Typed, S!Row
<1>2. CASE VerifyPackage(h, x)
  <2> DEFINE row == S!Verified(shipment, x)
             saved == SaveShipment(row)
  <2>1. /\ x.package \in DOMAIN shipment.packages
        /\ row.version # shipment.version
        /\ shipment' = [saved EXCEPT !.packages[x.package] = "VERIFIED"]
        /\ UNCHANGED <<receipts, balance, counts, results, redis, flight, stale>>
    BY <1>2 DEF VerifyPackage, GetForUpdate, S!CanVerify, Committed, viewVars
  <2>2. row = [shipment EXCEPT !.packages[x.package] = "VERIFIED", !.version = @ + 1]
    BY <2>1 DEF S!Verified
  <2>3. row.status = shipment.status /\ row.version = shipment.version + 1
    BY <1>1, <2>2 DEF S!Row
  <2> HIDE DEF row
  <2>4. /\ saved \in S!Row(Packages) /\ saved.status = shipment.status
        /\ saved.packages = shipment.packages /\ saved.pickingComplete = shipment.pickingComplete
    BY <1>1, <2>3, ShipmentSaved
  <2> HIDE DEF saved
  <2>5. "VERIFIED" \in S!PackageStatuses
    BY DEF S!PackageStatuses
  <2>6. /\ shipment'.status = saved.status
        /\ shipment'.pickingComplete = saved.pickingComplete
        /\ shipment'.packages = [saved.packages EXCEPT ![x.package] = "VERIFIED"]
    BY <2>1, <2>4 DEF S!Row
  <2>7. shipment' \in S!Row(Packages)
    <3>1. [saved.packages EXCEPT ![x.package] = "VERIFIED"] \in [Packages -> S!PackageStatuses]
      BY <1>1, <2>4, <2>5
    <3> QED
      BY <2>1, <2>4, <2>6, <3>1 DEF S!Row
  <2>8. S!Readiness(shipment) => S!Readiness(shipment')
    <3>1. DOMAIN shipment'.packages = DOMAIN shipment.packages
      BY <1>1, <2>4, <2>6
    <3>2. \A k \in DOMAIN shipment.packages :
              shipment'.packages[k] = IF k = x.package THEN "VERIFIED" ELSE shipment.packages[k]
      BY <1>1, <2>4, <2>6
    <3>3. S!PackagesComplete(shipment) => S!PackagesComplete(shipment')
      BY <3>1, <3>2 DEF S!PackagesComplete
    <3> QED
      BY <2>4, <2>6, <3>1, <3>3 DEF S!Readiness
  <2> QED
    BY <2>1, <2>4, <2>6, <2>7, <2>8 DEF ShipmentMoves, ShipmentSound
<1>3. CASE ConfirmShipment(h, x)
  <2> DEFINE row == S!Confirmed(shipment)
             saved == SaveShipment(row)
  <2>1. /\ Begins(h, x, "shipping", "CONFIRM") /\ Store(x)
        /\ shipment.status # "SHIPPED" /\ S!Readiness(shipment)
        /\ shipment' = saved
        /\ UNCHANGED <<receipts, balance, counts, redis, flight, stale>>
    BY <1>3 DEF ConfirmShipment, GetForUpdate, S!CanConfirm, Committed, viewVars
  <2>2. row.status = "SHIPPED" /\ row.version = shipment.version + 1
    BY <1>1 DEF S!Confirmed, S!Row
  <2> HIDE DEF row
  <2>3. /\ saved \in S!Row(Packages) /\ saved.status = "SHIPPED"
        /\ saved.packages = shipment.packages /\ saved.pickingComplete = shipment.pickingComplete
    BY <1>1, <2>2, ShipmentSaved
  <2> HIDE DEF saved
  <2>4. S!Readiness(saved)
    BY <2>1, <2>3 DEF S!Readiness, S!PackagesComplete
  <2>5. Stored(x, "shipping")
    <3>1. x.table = "shipping" /\ "shipping" \in Tables
      BY <2>1 DEF Begins, Tables
    <3> QED
      BY <2>1, <3>1, BeginsStores
  <2> QED
    BY <2>1, <2>3, <2>4, <2>5 DEF ShipmentMoves, ShipmentSound
<1> QED
  BY <1>2, <1>3

LEMMA ProjectionStep ==
    ASSUME Typed, NEW h, ProjectPickingComplete(h)
    PROVE  ShipmentMoves
<1>1. /\ shipment' = [shipment EXCEPT !.pickingComplete = TRUE, !.version = @ + 1]
      /\ UNCHANGED <<receipts, balance, counts, results, redis, flight, stale>>
  BY DEF ProjectPickingComplete, Committed, viewVars
<1>2. shipment \in S!Row(Packages) /\ shipment.version + 1 \in Nat \ {0}
  BY DEF Typed, S!Row
<1>3. /\ shipment'.status = shipment.status
      /\ shipment'.version = shipment.version + 1
      /\ shipment'.packages = shipment.packages
      /\ shipment'.pickingComplete = TRUE
  BY <1>1, <1>2 DEF S!Row
<1>4. shipment' \in S!Row(Packages)
  BY <1>1, <1>2, <1>3 DEF S!Row
<1>5. S!Readiness(shipment) => S!Readiness(shipment')
  BY <1>3 DEF S!Readiness, S!PackagesComplete
<1> QED
  BY <1>1, <1>3, <1>4, <1>5 DEF ShipmentMoves, ShipmentSound

\* Every step is of one of these sorts.
LEMMA StepSorts ==
    ASSUME Typed, [Next]_vars
    PROVE  \/ \E x, row : ReceiptMoves(x, row) \/ ReceiptGrows(x, row) \/ CountMoves(x, row)
           \/ ShipmentMoves
           \/ ViewsMove
<1>1. CASE UNCHANGED vars
  BY <1>1 DEF vars, ViewsMove
<1>2. ASSUME NEW h \in Handlers, Write(h)
      PROVE  \/ \E x, row : ReceiptMoves(x, row) \/ ReceiptGrows(x, row) \/ CountMoves(x, row)
             \/ ShipmentMoves
  <2>1. CASE ProjectPickingComplete(h)
    BY <2>1, ProjectionStep
  <2>2. CASE \E c \in Commands, k \in Keys : \E b : Command(h, Sent(c, k, b))
    <3>1. PICK c \in Commands, k \in Keys : \E b : Command(h, Sent(c, k, b))
      BY <2>2
    <3>2. PICK b : Command(h, Sent(c, k, b))
      BY <3>1
    <3> DEFINE x == Sent(c, k, b)
    <3>3. CommandOf(x, x.table)
      BY SentIsCommand DEF CommandOf
    <3> HIDE DEF x
    <3>4. Command(h, x)
      BY <3>2 DEF x
    <3> QED
      BY <3>3, <3>4, ReceiptSteps, CountSteps, ShippingSteps DEF Command
  <2> QED
    BY <1>2, <2>1, <2>2 DEF Write
<1>3. ASSUME NEW h \in Handlers, Clear(h) PROVE ViewsMove
  BY <1>3 DEF Clear, Invalidate, InvalidationFails, ViewsMove
<1>4. ASSUME NEW p \in Readers, Hit(p) \/ Miss(p) \/ Finish(p) PROVE ViewsMove
  BY <1>4 DEF Hit, Miss, Finish, Load, LoadFails, SetLoaded, SetFails, documentVars, ViewsMove
<1>5. CASE Expire
  BY <1>5 DEF Expire, documentVars, ViewsMove
<1> QED
  BY <1>1, <1>2, <1>3, <1>4, <1>5 DEF Next

-----------------------------------------------------------------------------
(* Types and rows                                                          *)

\* Storing a command fills one key of one table.
LEMMA StoredFills ==
    ASSUME Typed, NEW table \in Tables, NEW x, Stored(x, table)
    PROVE  /\ x.key \in Keys
           /\ results' \in [Tables -> [Keys -> ResultType \union {NoResult}]]
           /\ \A s \in Tables \ {table} : results'[s] = results[s]
           /\ results'[table][x.key] # NoResult /\ results'[table][x.key].doc = x.doc
           /\ \A k \in Keys \ {x.key} : results'[table][k] = results[table][k]
<1> DEFINE r == [doc |-> x.doc, operator |-> x.operator]
<1>1. r \in ResultType /\ x.key \in Keys
  BY DEF Stored, CommandOf, Tables, ResultType
<1>2. r # NoResult /\ r.doc = x.doc
  BY <1>1, DocumentsAssumption
<1>3. results \in [Tables -> [Keys -> ResultType \union {NoResult}]]
      /\ results' = [results EXCEPT ![table][x.key] = r]
  BY DEF Typed, Stored
<1> HIDE DEF r
<1>4. [results[table] EXCEPT ![x.key] = r] \in [Keys -> ResultType \union {NoResult}]
  BY <1>1, <1>3
<1>5. results' = [results EXCEPT ![table] = [results[table] EXCEPT ![x.key] = r]]
  BY <1>3
<1>6. results' \in [Tables -> [Keys -> ResultType \union {NoResult}]]
  BY <1>3, <1>4, <1>5
<1>7. results'[table] = [results[table] EXCEPT ![x.key] = r]
  BY <1>3, <1>5
<1>8. \A s \in Tables \ {table} : results'[s] = results[s]
  BY <1>3, <1>5
<1> QED
  BY <1>1, <1>2, <1>3, <1>6, <1>7, <1>8

\* What is right about every document by itself.
Sound ==
    /\ \A t \in Receipts : ReceiptSound(ReceiptDoc[t], receipts[t])
    /\ \A t \in Counts : CountSound(CountExpected[t], counts[t])
    /\ ShipmentSound(shipment)

\* The receipts after a step on one of them.
LEMMA OneReceipt ==
    ASSUME Typed, NEW d \in Receipts, NEW row \in R!Row(ReceiptDoc[d]),
           receipts' = [receipts EXCEPT ![d] = row]
    PROVE  /\ receipts' = [t \in Receipts |-> receipts'[t]]
           /\ \A t \in Receipts : receipts'[t] \in R!Row(ReceiptDoc[t])
           /\ receipts'[d] = row
           /\ \A t \in Receipts \ {d} : receipts'[t] = receipts[t]
<1>1. receipts = [t \in Receipts |-> receipts[t]]
  BY DEF Typed
<1>2. receipts'[d] = row /\ \A t \in Receipts \ {d} : receipts'[t] = receipts[t]
  BY <1>1
<1>3. receipts' = [t \in Receipts |-> receipts'[t]]
  BY <1>1
<1> QED
  BY <1>2, <1>3 DEF Typed

LEMMA TypingNext ==
    ASSUME Typed, Sound, [Next]_vars
    PROVE  Typed' /\ Sound'
<1>1. ASSUME NEW x, NEW row, ReceiptMoves(x, row) \/ ReceiptGrows(x, row)
      PROVE  Typed' /\ Sound'
  <2>1. /\ Stored(x, "receiving") /\ x.doc \in Receipts /\ "receiving" \in Tables
        /\ row \in R!Row(ReceiptDoc[x.doc])
        /\ receipts' = [receipts EXCEPT ![x.doc] = row]
        /\ ReceiptSound(ReceiptDoc[x.doc], receipts[x.doc]) => ReceiptSound(ReceiptDoc[x.doc], row)
        /\ UNCHANGED <<counts, shipment>>
    BY <1>1 DEF ReceiptMoves, ReceiptGrows, Stored, CommandOf, Tables
  <2>2. /\ receipts' = [t \in Receipts |-> receipts'[t]]
        /\ \A t \in Receipts : receipts'[t] \in R!Row(ReceiptDoc[t])
        /\ receipts'[x.doc] = row
        /\ \A t \in Receipts \ {x.doc} : receipts'[t] = receipts[t]
    BY <2>1, OneReceipt
  <2>3. balance' \in [Items -> Nat]
    <3>1. CASE ReceiptMoves(x, row)
      BY <3>1 DEF ReceiptMoves, Typed
    <3>2. CASE ReceiptGrows(x, row)
      <4>1. ReceiptDoc[x.doc].item[x.line] \in Items /\ x.quantity \in Nat
        BY <2>1, <3>2, DocumentsAssumption DEF ReceiptGrows
      <4> QED
        BY <3>2, <4>1 DEF ReceiptGrows, Typed
    <3> QED
      BY <1>1, <3>1, <3>2
  <2>4. results' \in [Tables -> [Keys -> ResultType \union {NoResult}]]
    BY <2>1, StoredFills
  <2>5. \A t \in Receipts : ReceiptSound(ReceiptDoc[t], receipts'[t])
    BY <2>1, <2>2 DEF Sound
  <2>6. Typed'
    BY <2>1, <2>2, <2>3, <2>4 DEF Typed
  <2> QED
    BY <2>1, <2>5, <2>6 DEF Sound
<1>2. ASSUME NEW x, NEW row, CountMoves(x, row)
      PROVE  Typed' /\ Sound'
  <2>1. /\ Stored(x, "count") /\ x.doc \in Counts /\ "count" \in Tables
        /\ row \in C!Row(CountExpected[x.doc])
        /\ counts' = [counts EXCEPT ![x.doc] = row]
        /\ CountSound(CountExpected[x.doc], counts[x.doc]) => CountSound(CountExpected[x.doc], row)
        /\ UNCHANGED <<receipts, balance, shipment>>
    BY <1>2 DEF CountMoves, Stored, CommandOf, Tables
  <2>2. counts = [t \in Counts |-> counts[t]]
    BY DEF Typed
  <2>3. counts'[x.doc] = row /\ \A t \in Counts \ {x.doc} : counts'[t] = counts[t]
    BY <2>1, <2>2
  <2>4. counts' = [t \in Counts |-> counts'[t]]
    BY <2>1, <2>2
  <2>5. \A t \in Counts : counts'[t] \in C!Row(CountExpected[t])
    BY <2>1, <2>3 DEF Typed
  <2>6. results' \in [Tables -> [Keys -> ResultType \union {NoResult}]]
    BY <2>1, StoredFills
  <2>7. \A t \in Counts : CountSound(CountExpected[t], counts'[t])
    BY <2>1, <2>3 DEF Sound
  <2>8. Typed'
    BY <2>1, <2>4, <2>5, <2>6 DEF Typed
  <2> QED
    BY <2>1, <2>7, <2>8 DEF Sound
<1>3. CASE ShipmentMoves
  <2>1. results' \in [Tables -> [Keys -> ResultType \union {NoResult}]]
    <3>1. "shipping" \in Tables
      BY DEF Tables
    <3> QED
      BY <1>3, <3>1, StoredFills DEF ShipmentMoves, Typed
  <2>2. /\ shipment' \in S!Row(Packages) /\ UNCHANGED <<receipts, balance, counts>>
        /\ ShipmentSound(shipment) => ShipmentSound(shipment')
    BY <1>3 DEF ShipmentMoves
  <2>3. Typed'
    BY <2>1, <2>2 DEF Typed
  <2> QED
    BY <2>2, <2>3 DEF Sound
<1>4. CASE ViewsMove
  BY <1>4 DEF ViewsMove, Typed, Sound
<1> QED
  BY <1>1, <1>2, <1>3, <1>4, StepSorts

LEMMA TypingInit == Init => Typed /\ Sound
<1> SUFFICES ASSUME Init PROVE Typed /\ Sound
  OBVIOUS
<1>1. /\ receipts = [t \in Receipts |-> FirstReceipt[t]] /\ balance = FirstBalance
      /\ counts = [t \in Counts |-> FirstCount[t]] /\ shipment = FirstShipment
      /\ results = [s \in Tables |-> [k \in Keys |-> NoResult]]
  BY DEF Init, Tables
<1>2. Typed
  BY <1>1, DocumentsAssumption DEF Typed
<1>3. \A t \in Receipts : ReceiptSound(ReceiptDoc[t], receipts[t])
  BY <1>1, OpenAssumption DEF ReceiptSound
<1>4. \A t \in Counts : CountSound(CountExpected[t], counts[t])
  BY <1>1, OpenAssumption DEF CountSound
<1>5. ShipmentSound(shipment)
  BY <1>1, OpenAssumption DEF ShipmentSound
<1> QED
  BY <1>2, <1>3, <1>4, <1>5 DEF Sound

-----------------------------------------------------------------------------
(* Closed documents                                                        *)

\* The keys under which a shipment was confirmed.
Confirmations == {k \in Keys : results["shipping"][k] # NoResult}
ShippedOnce == Cardinality(Confirmations) = IF shipment.status = "SHIPPED" THEN 1 ELSE 0

LEMMA ShippedOnceNext ==
    ASSUME Typed, ShippedOnce, [Next]_vars
    PROVE  ShippedOnce'
<1>1. "receiving" \in Tables /\ "count" \in Tables /\ "shipping" \in Tables
  BY DEF Tables
<1>2. ASSUME results'["shipping"] = results["shipping"], shipment'.status = shipment.status
      PROVE  ShippedOnce'
  <2>1. Confirmations' = Confirmations
    BY <1>2 DEF Confirmations
  <2> QED
    BY <1>2, <2>1 DEF ShippedOnce
<1>3. ASSUME NEW x, NEW row, ReceiptMoves(x, row) \/ ReceiptGrows(x, row) \/ CountMoves(x, row)
      PROVE  ShippedOnce'
  <2>1. shipment' = shipment /\ (Stored(x, "receiving") \/ Stored(x, "count"))
    BY <1>3 DEF ReceiptMoves, ReceiptGrows, CountMoves
  <2>2. results'["shipping"] = results["shipping"]
    <3>1. CASE Stored(x, "receiving")
      <4>1. \A s \in Tables \ {"receiving"} : results'[s] = results[s]
        BY <1>1, <3>1, StoredFills
      <4> QED
        BY <1>1, <4>1
    <3>2. CASE Stored(x, "count")
      <4>1. \A s \in Tables \ {"count"} : results'[s] = results[s]
        BY <1>1, <3>2, StoredFills
      <4> QED
        BY <1>1, <4>1
    <3> QED
      BY <2>1, <3>1, <3>2
  <2> QED
    BY <1>2, <2>1, <2>2
<1>4. CASE ShipmentMoves
  <2>1. CASE shipment'.status = shipment.status /\ results' = results
    BY <1>2, <2>1
  <2>2. CASE /\ \E x : Stored(x, "shipping")
             /\ shipment.status # "SHIPPED" /\ shipment'.status = "SHIPPED"
    <3>1. PICK x : Stored(x, "shipping")
      BY <2>2
    <3>2. /\ x.key \in Keys /\ results'["shipping"][x.key] # NoResult
          /\ \A k \in Keys \ {x.key} : results'["shipping"][k] = results["shipping"][k]
      BY <1>1, <3>1, StoredFills
    <3>3. results["shipping"][x.key] = NoResult
      BY <3>1 DEF Stored
    <3>4. Confirmations' = Confirmations \cup {x.key} /\ x.key \notin Confirmations
      BY <3>2, <3>3 DEF Confirmations
    <3>5. IsFiniteSet(Confirmations)
      <4>1. Confirmations \subseteq Keys
        BY DEF Confirmations
      <4> QED
        BY <4>1, DocumentsAssumption, FS_Subset
    <3>6. Cardinality(Confirmations') = Cardinality(Confirmations) + 1
      BY <3>4, <3>5, FS_AddElement
    <3> QED
      BY <2>2, <3>6 DEF ShippedOnce
  <2> QED
    BY <1>4, <2>1, <2>2 DEF ShipmentMoves
<1>5. CASE ViewsMove
  BY <1>2, <1>5 DEF ViewsMove
<1> QED
  BY <1>3, <1>4, <1>5, StepSorts

\* No view, cached, served last or on its way to the cache, is ahead of the
\* shipment.
NotAhead(view) == view.status = "SHIPPED" => shipment.status = "SHIPPED"
ViewsSound ==
    /\ stale = [p \in Readers |-> stale[p]] /\ flight = [p \in Readers |-> flight[p]]
    /\ redis # Absent => NotAhead(redis)
    /\ \A p \in Readers : /\ stale[p] # Absent => NotAhead(stale[p])
                          /\ flight[p] \notin {NoFlight, Loading} => NotAhead(flight[p])

LEMMA ViewsNext ==
    ASSUME Typed, ViewsSound, [Next]_vars
    PROVE  ViewsSound'
<1>1. ASSUME UNCHANGED <<redis, flight, stale>>,
             shipment.status = "SHIPPED" => shipment'.status = "SHIPPED"
      PROVE  ViewsSound'
  BY <1>1 DEF ViewsSound, NotAhead
<1>2. CASE \E x, row : ReceiptMoves(x, row) \/ ReceiptGrows(x, row) \/ CountMoves(x, row)
  BY <1>1, <1>2 DEF ReceiptMoves, ReceiptGrows, CountMoves
<1>3. CASE ShipmentMoves
  BY <1>1, <1>3 DEF ShipmentMoves
<1>4. CASE ViewsMove
  <2>1. shipment' = shipment
    BY <1>4 DEF ViewsMove
  <2>2. CASE UNCHANGED vars
    BY <1>1, <2>2 DEF vars
  <2>3. ASSUME NEW h \in Handlers, Write(h) PROVE ViewsSound'
    <3>1. UNCHANGED <<redis, flight, stale>>
      BY <2>3 DEF Write, Command, ClaimReceipt, StartReceipt, ConfirmReceipt, CompleteReceipt,
                  SubmitCount, Recount, CompleteCount, VerifyPackage, ConfirmShipment,
                  ProjectPickingComplete, mutate, countMutation, Committed, viewVars
    <3> QED
      BY <1>1, <2>1, <3>1
  <2>4. ASSUME NEW h \in Handlers, Clear(h) PROVE ViewsSound'
    BY <2>1, <2>4 DEF Clear, Invalidate, InvalidationFails, viewVars, ViewsSound, NotAhead
  <2>5. ASSUME NEW p \in Readers, Hit(p) PROVE ViewsSound'
    BY <2>1, <2>5 DEF Hit, ViewsSound, NotAhead
  <2>6. ASSUME NEW p \in Readers, Miss(p) \/ LoadFails(p) PROVE ViewsSound'
    BY <2>1, <2>6 DEF Miss, LoadFails, ViewsSound, NotAhead
  <2>7. ASSUME NEW p \in Readers, Load(p) PROVE ViewsSound'
    BY <2>1, <2>7 DEF Load, ViewsSound, NotAhead
  <2>8. ASSUME NEW p \in Readers, SetLoaded(p) \/ SetFails(p) PROVE ViewsSound'
    BY <2>1, <2>8 DEF SetLoaded, SetFails, ViewsSound, NotAhead
  <2>9. CASE Expire
    BY <2>1, <2>9 DEF Expire, ViewsSound, NotAhead
  <2> QED
    BY <2>2, <2>3, <2>4, <2>5, <2>6, <2>7, <2>8, <2>9 DEF Next, Finish
<1> QED
  BY <1>2, <1>3, <1>4, StepSorts

\* A document that says it is finished is: completed receipts are received in
\* full, completed counts agree with the system, a shipment is shipped by one
\* confirmation, when it was ready, and no cached view says so before.
THEOREM ClosedDocumentsAreDone == Spec => []ClosedIsJustified
<1> DEFINE IInv == Typed /\ Sound /\ ShippedOnce /\ ViewsSound
<1>1. Init => IInv
  <2> SUFFICES ASSUME Init PROVE IInv
    OBVIOUS
  <2>1. Typed /\ Sound
    BY TypingInit
  <2>2. ShippedOnce
    <3>1. Confirmations = {}
      BY DEF Init, Confirmations
    <3>2. shipment.status # "SHIPPED"
      BY OpenAssumption DEF Init
    <3> QED
      BY <3>1, <3>2, FS_EmptySet DEF ShippedOnce
  <2>3. ViewsSound
    BY DEF Init, ViewsSound
  <2> QED
    BY <2>1, <2>2, <2>3
<1>2. IInv /\ [Next]_vars => IInv'
  BY TypingNext, ShippedOnceNext, ViewsNext
<1>3. IInv => ClosedIsJustified
  BY DEF ClosedIsJustified, Sound, ReceiptSound, CountSound, ShipmentSound, ShippedOnce,
         Confirmations, ViewsSound, NotAhead
<1> QED
  BY <1>1, <1>2, <1>3, PTL DEF Spec

-----------------------------------------------------------------------------
(* Booked is received                                                      *)

\* The pieces of a collection, f[d] of d.
OneByOne(L, f) == UNION {{d} \X (1..f[d]) : d \in L}

\* One element of a counted collection gains q pieces.
LEMMA PiecesAdded ==
    ASSUME NEW L, NEW f \in [L -> Nat], NEW e \in L, NEW q \in Nat \ {0},
           NEW g, g[e] = f[e] + q, \A d \in L \ {e} : g[d] = f[d],
           IsFiniteSet(OneByOne(L, f))
    PROVE  /\ IsFiniteSet(OneByOne(L, g)) /\ Cardinality(OneByOne(L, f)) \in Nat
           /\ Cardinality(OneByOne(L, g)) = Cardinality(OneByOne(L, f)) + q
<1> DEFINE more == (f[e] + 1)..(f[e] + q)
           New == {e} \X more
           F == OneByOne(L, f)
           G == OneByOne(L, g)
<1>1. f[e] \in Nat
  OBVIOUS
<1>2. IsFiniteSet(more) /\ Cardinality(more) = q
  <2>1. PICK a \in Int, b \in Int : a = f[e] + 1 /\ b = f[e] + q
    <3>1. f[e] + 1 \in Int /\ f[e] + q \in Int
      BY <1>1
    <3> QED
      BY <3>1, Zenon
  <2>2. IsFiniteSet(a..b) /\ Cardinality(a..b) = IF a > b THEN 0 ELSE b - a + 1
    BY FS_Interval
  <2>3. (IF a > b THEN 0 ELSE b - a + 1) = q
    BY <1>1, <2>1
  <2> QED
    BY <2>1, <2>2, <2>3
<1>3. \A n : n \in 1..(f[e] + q) <=> n \in 1..f[e] \/ n \in more
  BY <1>1
<1>4. \A n : ~(n \in 1..f[e] /\ n \in more)
  BY <1>1
<1>5. g[e] = f[e] + q /\ \A d \in L \ {e} : g[d] = f[d]
  OBVIOUS
<1> HIDE DEF more
<1>6. G = F \cup New
  <2>1. ASSUME NEW d \in L PROVE {d} \X (1..g[d]) \subseteq F \cup New
    <3>1. CASE d = e
      BY <1>3, <1>5, <3>1 DEF OneByOne
    <3>2. CASE d # e
      BY <1>5, <3>2 DEF OneByOne
    <3> QED
      BY <3>1, <3>2
  <2>2. G \subseteq F \cup New
    BY <2>1 DEF OneByOne
  <2>3. New \subseteq {e} \X (1..g[e])
    BY <1>3, <1>5
  <2>4. ASSUME NEW d \in L PROVE {d} \X (1..f[d]) \subseteq G
    <3>1. CASE d = e
      <4>1. {e} \X (1..f[e]) \subseteq {e} \X (1..g[e])
        BY <1>3, <1>5
      <4> QED
        BY <3>1, <4>1 DEF OneByOne
    <3>2. CASE d # e
      BY <1>5, <3>2 DEF OneByOne
    <3> QED
      BY <3>1, <3>2
  <2>5. New \subseteq G
    BY <2>3 DEF OneByOne
  <2>6. F \subseteq G
    BY <2>4 DEF OneByOne
  <2> QED
    BY <2>2, <2>5, <2>6
<1>7. F \cap New = {}
  BY <1>4 DEF OneByOne
<1>8. IsFiniteSet(New) /\ Cardinality(New) = q
  <2>1. IsFiniteSet({e}) /\ Cardinality({e}) = 1
    BY FS_Singleton
  <2>2. IsFiniteSet(New) /\ Cardinality(New) = 1 * q
    BY <1>2, <2>1, FS_Product
  <2> QED
    BY <2>2
<1> HIDE DEF New, F, G
<1>0. IsFiniteSet(F)
  BY DEF F
<1>9. Cardinality(F) \in Nat /\ Cardinality({}) = 0
  BY <1>0, FS_CardinalityType, FS_EmptySet
<1>10. IsFiniteSet(F \cup New) /\ Cardinality(F \cup New) = Cardinality(F) + q - 0
  <2>1. /\ IsFiniteSet(F \cup New)
        /\ Cardinality(F \cup New) = Cardinality(F) + Cardinality(New) - Cardinality(F \cap New)
    BY <1>0, <1>8, FS_Union
  <2> QED
    BY <1>7, <1>8, <1>9, <2>1
<1>11. IsFiniteSet(G) /\ Cardinality(G) = Cardinality(F) + q
  BY <1>6, <1>9, <1>10
<1> QED
  BY <1>9, <1>11, Zenon DEF F, G

\* Pieces as a collection of lines with quantities.
Amounts(rows, i) == [e \in Lines(i) |-> rows[e[1]].received[e[2]]]

LEMMA PiecesOfAmounts ==
    ASSUME NEW rows, NEW i
    PROVE  Pieces(rows, i) = OneByOne(Lines(i), Amounts(rows, i))
  BY DEF Pieces, Amounts, OneByOne

LEMMA LinesAre ==
    ASSUME NEW i, NEW e \in Lines(i)
    PROVE  /\ e[1] \in Receipts /\ e[2] \in DOMAIN ReceiptDoc[e[1]].expected /\ e = <<e[1], e[2]>>
           /\ ReceiptDoc[e[1]].item[e[2]] = i
  BY DEF Lines

\* The keys under which a receipt was changed.
Changes(t) == {k \in Keys : results["receiving"][k] # NoResult /\ results["receiving"][k].doc = t}

Booked ==
    /\ \A i \in Items :
        /\ IsFiniteSet(Pieces(receipts, i))
        /\ balance[i] + Received(FirstReceipt, i) = FirstBalance[i] + Received(receipts, i)
    /\ \A t \in Receipts : receipts[t].version - FirstReceipt[t].version = Cardinality(Changes(t))

\* Rows with the same quantities have the same pieces.
LEMMA SamePieces ==
    ASSUME NEW rows, NEW new, NEW i,
           \A t \in Receipts : new[t].received = rows[t].received
    PROVE  Pieces(new, i) = Pieces(rows, i)
<1>1. Amounts(new, i) = Amounts(rows, i)
  BY LinesAre DEF Amounts
<1> QED
  BY <1>1, PiecesOfAmounts

\* Line l of receipt t has received q more.
Grown(rows, new, t, l, q) ==
    /\ t \in Receipts /\ l \in DOMAIN ReceiptDoc[t].expected /\ q \in Nat \ {0}
    /\ \A s \in Receipts : rows[s].received \in [DOMAIN ReceiptDoc[s].expected -> Nat]
    /\ \A s \in Receipts \ {t} : new[s] = rows[s]
    /\ new[t].received[l] = rows[t].received[l] + q
    /\ \A m \in DOMAIN ReceiptDoc[t].expected \ {l} : new[t].received[m] = rows[t].received[m]

\* A line gains q pieces of its item, and no other item gains any.
LEMMA PiecesGrow ==
    ASSUME NEW rows, NEW new, NEW t, NEW l, NEW q, Grown(rows, new, t, l, q),
           NEW i, IsFiniteSet(Pieces(rows, i))
    PROVE  /\ IsFiniteSet(Pieces(new, i)) /\ Received(rows, i) \in Nat
           /\ Received(new, i) = IF i = ReceiptDoc[t].item[l] THEN Received(rows, i) + q
                                 ELSE Received(rows, i)
<1> DEFINE f == Amounts(rows, i)
           g == Amounts(new, i)
           e0 == <<t, l>>
<1>1. f \in [Lines(i) -> Nat]
  BY LinesAre DEF Amounts, Grown
<1>2. \A e \in Lines(i) : g[e] = IF e = e0 THEN f[e] + q ELSE f[e]
  <2> SUFFICES ASSUME NEW e \in Lines(i) PROVE g[e] = IF e = e0 THEN f[e] + q ELSE f[e]
    OBVIOUS
  <2>1. /\ e[1] \in Receipts /\ e[2] \in DOMAIN ReceiptDoc[e[1]].expected /\ e = <<e[1], e[2]>>
    BY LinesAre
  <2>2. g[e] = new[e[1]].received[e[2]] /\ f[e] = rows[e[1]].received[e[2]]
    BY DEF Amounts
  <2>3. CASE e[1] # t
    BY <2>1, <2>2, <2>3 DEF Grown
  <2>4. CASE e[1] = t /\ e[2] # l
    BY <2>1, <2>2, <2>4 DEF Grown
  <2>5. CASE e[1] = t /\ e[2] = l
    BY <2>1, <2>2, <2>5 DEF Grown
  <2> QED
    BY <2>3, <2>4, <2>5
<1>3. Received(rows, i) \in Nat
  BY FS_CardinalityType DEF Received
<1>4. DOMAIN g = Lines(i) /\ DOMAIN f = Lines(i) /\ g = [e \in Lines(i) |-> g[e]]
      /\ f = [e \in Lines(i) |-> f[e]]
  BY DEF Amounts
<1> HIDE DEF f, g
<1>5. CASE i = ReceiptDoc[t].item[l]
  <2>1. e0 \in Lines(i)
    BY <1>5 DEF Lines, Grown
  <2>2. g[e0] = f[e0] + q /\ \A d \in Lines(i) \ {e0} : g[d] = f[d]
    BY <1>2, <2>1
  <2>3. Pieces(rows, i) = OneByOne(Lines(i), f) /\ Pieces(new, i) = OneByOne(Lines(i), g)
    BY PiecesOfAmounts DEF f, g
  <2> HIDE DEF e0
  <2>4. /\ IsFiniteSet(OneByOne(Lines(i), g))
        /\ Cardinality(OneByOne(Lines(i), g)) = Cardinality(OneByOne(Lines(i), f)) + q
    <3>1. IsFiniteSet(OneByOne(Lines(i), f)) /\ q \in Nat \ {0}
      BY <2>3 DEF Grown
    <3> QED
      BY <1>1, <2>1, <2>2, <3>1, PiecesAdded
  <2> QED
    BY <1>3, <1>5, <2>3, <2>4 DEF Received
<1>6. CASE i # ReceiptDoc[t].item[l]
  <2>1. e0 \notin Lines(i)
    BY <1>6, LinesAre
  <2>2. g = f
    BY <1>2, <1>4, <2>1
  <2>3. Pieces(rows, i) = OneByOne(Lines(i), f) /\ Pieces(new, i) = OneByOne(Lines(i), g)
    BY PiecesOfAmounts DEF f, g
  <2> QED
    BY <1>3, <1>6, <2>2, <2>3 DEF Received
<1> QED
  BY <1>5, <1>6

\* A stored command is one more change of its receipt, and of no other.
LEMMA ChangesCounted ==
    ASSUME Typed, NEW x, Stored(x, "receiving"), NEW t \in Receipts
    PROVE  /\ Cardinality(Changes(t)) \in Nat
           /\ Cardinality(Changes(t)') = IF t = x.doc THEN Cardinality(Changes(t)) + 1
                                         ELSE Cardinality(Changes(t))
<1>1. /\ x.key \in Keys /\ results'["receiving"][x.key] # NoResult
      /\ results'["receiving"][x.key].doc = x.doc
      /\ \A k \in Keys \ {x.key} : results'["receiving"][k] = results["receiving"][k]
  <2>1. "receiving" \in Tables
    BY DEF Tables
  <2> QED
    BY <2>1, StoredFills
<1>2. results["receiving"][x.key] = NoResult
  BY DEF Stored
<1>3. IsFiniteSet(Changes(t))
  <2>1. Changes(t) \subseteq Keys
    BY DEF Changes
  <2> QED
    BY <2>1, DocumentsAssumption, FS_Subset
<1>4. x.key \notin Changes(t)
  BY <1>2 DEF Changes
<1>5. CASE t = x.doc
  <2>1. Changes(t)' = Changes(t) \cup {x.key}
    BY <1>1, <1>2, <1>5 DEF Changes
  <2> QED
    BY <1>3, <1>4, <1>5, <2>1, FS_AddElement, FS_CardinalityType
<1>6. CASE t # x.doc
  <2>1. Changes(t)' = Changes(t)
    BY <1>1, <1>2, <1>6 DEF Changes
  <2> QED
    BY <1>3, <1>6, <2>1, FS_CardinalityType
<1> QED
  BY <1>5, <1>6

LEMMA BookedNext ==
    ASSUME Typed, Booked, [Next]_vars
    PROVE  Booked'
<1>1. \A i \in Items : Pieces(receipts, i)' = Pieces(receipts', i) /\ Received(receipts, i)' = Received(receipts', i)
  BY DEF Pieces, Received, Lines
<1>2. \A t \in Receipts : receipts[t].version \in Nat /\ FirstReceipt[t].version \in Nat
                          /\ receipts[t].received \in [DOMAIN ReceiptDoc[t].expected -> Nat]
  BY DocumentsAssumption DEF Typed, R!Row
<1>3. ASSUME NEW x, Stored(x, "receiving"), x.doc \in Receipts,
             receipts'[x.doc].version = receipts[x.doc].version + 1,
             \A t \in Receipts \ {x.doc} : receipts'[t] = receipts[t]
      PROVE  \A t \in Receipts : receipts'[t].version - FirstReceipt[t].version = Cardinality(Changes(t)')
  <2> SUFFICES ASSUME NEW t \in Receipts
               PROVE  receipts'[t].version - FirstReceipt[t].version = Cardinality(Changes(t)')
    OBVIOUS
  <2>1. /\ Cardinality(Changes(t)) \in Nat
        /\ Cardinality(Changes(t)') = IF t = x.doc THEN Cardinality(Changes(t)) + 1
                                      ELSE Cardinality(Changes(t))
    BY <1>3, ChangesCounted
  <2>2. receipts[t].version - FirstReceipt[t].version = Cardinality(Changes(t))
    BY DEF Booked
  <2>3. receipts'[t].version = IF t = x.doc THEN receipts[t].version + 1 ELSE receipts[t].version
    BY <1>3
  <2> QED
    BY <1>2, <2>1, <2>2, <2>3
<1>4. ASSUME NEW x, NEW row, ReceiptMoves(x, row) PROVE Booked'
  <2>1. /\ Stored(x, "receiving") /\ x.doc \in Receipts /\ row \in R!Row(ReceiptDoc[x.doc])
        /\ receipts' = [receipts EXCEPT ![x.doc] = row]
        /\ row.version = receipts[x.doc].version + 1 /\ row.received = receipts[x.doc].received
        /\ balance' = balance
    BY <1>4 DEF ReceiptMoves, Stored, CommandOf
  <2>2. receipts'[x.doc] = row /\ \A t \in Receipts \ {x.doc} : receipts'[t] = receipts[t]
    BY <2>1, OneReceipt
  <2>3. \A t \in Receipts : receipts'[t].received = receipts[t].received
    BY <2>1, <2>2
  <2>4. \A i \in Items : Pieces(receipts', i) = Pieces(receipts, i)
    BY <2>3, SamePieces
  <2>5. \A i \in Items : /\ IsFiniteSet(Pieces(receipts', i))
                         /\ balance'[i] + Received(FirstReceipt, i) = FirstBalance[i] + Received(receipts', i)
    BY <2>1, <2>4 DEF Booked, Received
  <2>6. \A t \in Receipts : receipts'[t].version - FirstReceipt[t].version = Cardinality(Changes(t)')
    BY <1>3, <2>1, <2>2
  <2> QED
    BY <1>1, <2>5, <2>6 DEF Booked
<1>5. ASSUME NEW x, NEW row, ReceiptGrows(x, row) PROVE Booked'
  <2>1. /\ Stored(x, "receiving") /\ x.doc \in Receipts /\ row \in R!Row(ReceiptDoc[x.doc])
        /\ receipts' = [receipts EXCEPT ![x.doc] = row]
        /\ row.version = receipts[x.doc].version + 1
        /\ x.line \in DOMAIN ReceiptDoc[x.doc].expected /\ x.quantity \in Nat \ {0}
        /\ row.received = [receipts[x.doc].received EXCEPT ![x.line] = @ + x.quantity]
        /\ balance' = [balance EXCEPT ![ReceiptDoc[x.doc].item[x.line]] = @ + x.quantity]
    BY <1>5 DEF ReceiptGrows, Stored, CommandOf
  <2>2. receipts'[x.doc] = row /\ \A t \in Receipts \ {x.doc} : receipts'[t] = receipts[t]
    BY <2>1, OneReceipt
  <2> DEFINE item == ReceiptDoc[x.doc].item[x.line]
  <2>3. ASSUME NEW i \in Items
        PROVE  /\ IsFiniteSet(Pieces(receipts', i)) /\ Received(receipts, i) \in Nat
               /\ Received(receipts', i) = IF i = item THEN Received(receipts, i) + x.quantity
                                           ELSE Received(receipts, i)
    <3>1. IsFiniteSet(Pieces(receipts, i))
      BY DEF Booked
    <3>2. /\ receipts'[x.doc].received[x.line] = receipts[x.doc].received[x.line] + x.quantity
          /\ \A m \in DOMAIN ReceiptDoc[x.doc].expected \ {x.line} :
                 receipts'[x.doc].received[m] = receipts[x.doc].received[m]
      BY <1>2, <2>1, <2>2
    <3>3. Grown(receipts, receipts', x.doc, x.line, x.quantity)
      BY <1>2, <2>1, <2>2, <3>2 DEF Grown
    <3> QED
      BY <3>1, <3>3, PiecesGrow
  <2>4. ASSUME NEW i \in Items
        PROVE  balance'[i] + Received(FirstReceipt, i) = FirstBalance[i] + Received(receipts', i)
    <3>1. balance[i] + Received(FirstReceipt, i) = FirstBalance[i] + Received(receipts, i)
      BY DEF Booked
    <3>2. /\ balance[i] \in Nat /\ FirstBalance[i] \in Nat
          /\ balance'[i] = IF i = item THEN balance[i] + x.quantity ELSE balance[i]
      BY <2>1, DocumentsAssumption DEF Typed
    <3>3. Received(FirstReceipt, i) \in Nat
      BY OpenAssumption, FS_CardinalityType DEF Received
    <3>4. /\ Received(receipts, i) \in Nat /\ x.quantity \in Nat
          /\ Received(receipts', i) = IF i = item THEN Received(receipts, i) + x.quantity
                                      ELSE Received(receipts, i)
      BY <2>1, <2>3
    <3> HIDE DEF item
    <3>5. CASE i = item
      BY <3>1, <3>2, <3>3, <3>4, <3>5
    <3>6. CASE i # item
      BY <3>1, <3>2, <3>3, <3>4, <3>6
    <3> QED
      BY <3>5, <3>6
  <2>5. \A t \in Receipts : receipts'[t].version - FirstReceipt[t].version = Cardinality(Changes(t)')
    BY <1>3, <2>1, <2>2
  <2> QED
    BY <1>1, <2>3, <2>4, <2>5 DEF Booked
<1>6. ASSUME UNCHANGED <<receipts, balance>>, results'["receiving"] = results["receiving"]
      PROVE  Booked'
  <2>1. \A t \in Receipts : Changes(t)' = Changes(t)
    BY <1>6 DEF Changes
  <2>2. \A i \in Items : Pieces(receipts, i)' = Pieces(receipts, i) /\ Received(receipts, i)' = Received(receipts, i)
    BY <1>1, <1>6
  <2> QED
    BY <1>6, <2>1, <2>2 DEF Booked
<1>7. ASSUME NEW table \in Tables \ {"receiving"}, NEW x, Stored(x, table)
      PROVE  results'["receiving"] = results["receiving"]
  <2>1. \A s \in Tables \ {table} : results'[s] = results[s]
    BY <1>7, StoredFills
  <2> QED
    BY <2>1 DEF Tables
<1>8. "count" \in Tables \ {"receiving"} /\ "shipping" \in Tables \ {"receiving"}
  BY DEF Tables
<1>9. ASSUME NEW x, NEW row, CountMoves(x, row) PROVE Booked'
  BY <1>6, <1>7, <1>8, <1>9 DEF CountMoves
<1>10. CASE ShipmentMoves
  <2>1. results'["receiving"] = results["receiving"]
    BY <1>7, <1>8, <1>10 DEF ShipmentMoves
  <2> QED
    BY <1>6, <1>10, <2>1 DEF ShipmentMoves
<1>11. CASE ViewsMove
  BY <1>6, <1>11 DEF ViewsMove
<1> QED
  BY <1>4, <1>5, <1>9, <1>10, <1>11, StepSorts

\* What was received of an item, over all lines of all receipts, is what was
\* booked to its balance (ApplyInventory), and a receipt's version counts the
\* commands stored for it: a key that is sent again changes nothing.
THEOREM ReceivedIsBooked == Spec => []BookedIsReceived
<1> DEFINE IInv == Typed /\ Sound /\ Booked
<1>1. Init => IInv
  <2> SUFFICES ASSUME Init PROVE IInv
    OBVIOUS
  <2>1. Typed /\ Sound
    BY TypingInit
  <2>2. \A t \in Receipts : receipts[t] = FirstReceipt[t]
    BY DEF Init
  <2>3. \A i \in Items : Pieces(receipts, i) = Pieces(FirstReceipt, i)
    BY <2>2, SamePieces
  <2>4. ASSUME NEW i \in Items
        PROVE  /\ IsFiniteSet(Pieces(receipts, i))
               /\ balance[i] + Received(FirstReceipt, i) = FirstBalance[i] + Received(receipts, i)
    BY <2>3, OpenAssumption DEF Init, Received
  <2>5. ASSUME NEW t \in Receipts
        PROVE  receipts[t].version - FirstReceipt[t].version = Cardinality(Changes(t))
    <3>1. Changes(t) = {}
      BY DEF Init, Changes
    <3>2. FirstReceipt[t].version \in Nat
      BY DocumentsAssumption DEF R!Row
    <3> QED
      BY <2>2, <3>1, <3>2, FS_EmptySet
  <2> QED
    BY <2>1, <2>4, <2>5 DEF Booked
<1>2. IInv /\ [Next]_vars => IInv'
  BY TypingNext, BookedNext
<1>3. IInv => BookedIsReceived
  BY DEF Booked, BookedIsReceived, Changes
<1> QED
  BY <1>1, <1>2, <1>3, PTL DEF Spec
=============================================================================
