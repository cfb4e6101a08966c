--------------------------- MODULE WmsGatewayProofs ---------------------------
(***************************************************************************)
(* Theorems about WmsGateway, for every set of documents, keys, operators  *)
(* and commands.                                                           *)
(*                                                                         *)
(* Everything about the owner follows from what a request carries.  A      *)
(* request is Proper: it is one its command makes, under the key that      *)
(* belongs to command and operation, and a START is vouched for: as long   *)
(* as the version it expects is current, a claimed document is its         *)
(* operator's.  Owner and supervisors only advance versions, so a vouched  *)
(* version stays vouched for, however late the request arrives.            *)
(***************************************************************************)
EXTENDS WmsGateway, TLAPS

-----------------------------------------------------------------------------
(* Requests and keys                                                       *)

Starts(c) == c.adapter \in {"PUTAWAY", "PICKING"} /\ c.kind = "START"

Requests == {"CLAIM", "START", "RELEASE", "SCAN", "CONFIRM", "CONFIRM_GROUP", "ALLOCATE",
             "CLAIM_RECEIPT", "RECORD", "CONFIRM_RECEIPT", "RECEIVE", "SUBMIT", "RECOUNT",
             "COMPLETE", "TRANSFER", "VERIFY", "SHIP"}

\* The requests a command makes.
ReceivingOps(kind) ==
    CASE kind = "CLAIM" -> {"CLAIM_RECEIPT"}
      [] kind = "CONFIRM" -> {"RECORD", "CONFIRM_RECEIPT", "RECEIVE"}
      [] kind = "BATCH" -> {"RECEIVE"}
      [] OTHER -> {}
OpsOf(c) ==
    CASE c.adapter = "RECEIVING" -> ReceivingOps(c.kind)
      [] Starts(c) -> {"CLAIM", "START"}
      [] OTHER -> {c.kind}

\* The part of the owner that recognises the request, and its key there.
Endpoint(c, op) ==
    CASE c.adapter = "COUNT" -> "count"
      [] c.adapter = "TRANSFER" -> "transfer"
      [] op = "VERIFY" -> "verify"
      [] op = "SHIP" -> "shipping"
      [] op = "CLAIM_RECEIPT" -> "claim"
      [] op = "RECORD" -> "quantity"
      [] op = "CONFIRM_RECEIPT" -> "confirm"
      [] op = "RECEIVE" -> "receive"
      [] op = "START" -> "start"
      [] OTHER -> "execution"
KeyOf(k, op) ==
    LET e == Endpoint(command[k], op) IN
    CASE e = "verify" -> <<"verify", command[k].doc, base[k]>>
      [] e = "start" -> <<"execution", k, "start">>
      [] OTHER -> <<e, k>>

\* As long as version v of d is current, a claim of d is o's.
Vouched(d, v, o) ==
    /\ v <= rows[d].version
    /\ rows[d].version = v /\ rows[d].status = "CLAIMED" => rows[d].operator = o

Proper(r) ==
    LET c == command[r.from] IN
    /\ r.from \in Keys /\ base[r.from] # 0
    /\ r.op \in OpsOf(c) /\ r.doc = c.doc /\ r.by = c.operator /\ r.quantity = c.quantity
    /\ r.key = IF r.op = "SCAN" THEN NoKey ELSE KeyOf(r.from, r.op)
    /\ r.op = "START" => r.expected \in Nat /\ Vouched(r.doc, r.expected, r.by)

-----------------------------------------------------------------------------
(* What a goroutine has still to do                                        *)

Claiming == <<"CLAIM", "enrich", "START", "enrich">>
Claimed == <<"enrich", "START", "enrich">>
Starting == <<"START", "enrich">>
StartPaths(c) ==
    {<<>>, Claiming, Claimed, Starting, <<"enrich">>}
    \union IF c.adapter = "PUTAWAY"
           THEN {<<"detail", "CLAIM", "enrich", "START", "enrich">>}
           ELSE {<<"own", "CLAIM", "enrich", "START", "enrich">>,
                 <<"detail", "own", "CLAIM", "enrich", "START", "enrich">>}
BatchPath == <<"receipt", "assigned", "RECEIVE", "detail">>

Path(c, todo) ==
    CASE Starts(c) -> todo \in StartPaths(c)
      [] c.adapter = "RECEIVING" /\ c.kind = "BATCH" ->
            todo = BatchPath \/ todo \in Seq({"assigned", "RECEIVE", "detail"})
      [] c.adapter = "RECEIVING" /\ c.kind = "CONFIRM" -> todo \in Seq(Reads \union OpsOf(c))
      [] OTHER -> todo \in Seq((Reads \ {"receipt"}) \union OpsOf(c))

\* A step that brings the change about, or finds out how, is still to come.
Decisive(c) == Promised(c) \union {"unavailable", "receipt"}
Ahead(c, todo) == \E i \in DOMAIN todo : todo[i] \in Decisive(c)

-----------------------------------------------------------------------------
(* The inductive invariant                                                 *)

RowOk(row) ==
    row \in [status : {row.status}, operator : Operators \union {NoOperator},
             version : Nat \ {0}, line : Nat, quantity : Nat]

Typed ==
    /\ command \in [Keys -> CommandType]
    /\ rows = [d \in Docs |-> rows[d]]
    /\ \A d \in Docs : RowOk(rows[d])
    /\ base \in [Keys -> Nat]
    /\ attempt = [a \in Attempts |-> attempt[a]]
    /\ told = [k \in Keys |-> told[k]]

\* Documents: what is claimed is somebody's, what is in progress was started.
Holders == \A d \in Docs : rows[d].status = "CLAIMED" => rows[d].operator # NoOperator
Begun ==
    \A d \in Docs : rows[d].status = "IN_PROGRESS" =>
        \/ FirstRow[d].status = "IN_PROGRESS"
        \/ \E e \in effects : /\ e.op = "START" /\ e.doc = d
                              /\ e.by = rows[d].operator /\ e.by # NoOperator

\* The owner remembers what it did under a key, and did what it remembers.
Remembered(e) ==
    LET c == command[e.from] IN
    /\ e.from \in Keys /\ base[e.from] # 0
    /\ e.op \in OpsOf(c) /\ e.doc = c.doc /\ e.by = c.operator
    /\ e.op # "SCAN" => \E x \in answers : x.key = KeyOf(e.from, e.op)
Done(x) ==
    /\ x.row.version \in Nat
    /\ \E e \in effects :
        /\ e.op # "SCAN" /\ x.key = KeyOf(e.from, e.op)
        /\ e.op = "CLAIM" => x.row.status = "CLAIMED" /\ Vouched(e.doc, x.row.version, e.by)
Memory == (\A e \in effects : Remembered(e)) /\ (\A x \in answers : Done(x))

Once == \A e, f \in effects : e.from = f.from /\ e.op = f.op /\ e.op # "SCAN" => e = f
LateProper == \A r \in late : Proper(r)

\* Goroutines.
OnPath(a) ==
    LET c == Cmd(a)
        todo == attempt[a].todo IN
    /\ attempt[a].seen \in Nat
    /\ Path(c, todo)
    /\ todo # <<>> => base[a[1]] # 0
    /\ todo # <<>> /\ ~Local(c) => Ahead(c, todo) \/ Achieved(a[1])
    /\ Starts(c) /\ todo \in {Claimed, Starting} => Vouched(c.doc, attempt[a].seen, c.operator)
Told == \A k \in Keys : told[k] = "ok" /\ ~Local(command[k]) => Achieved(k)

Goroutines == (\A a \in Attempts : OnPath(a)) /\ Told

IInv == /\ Typed /\ Holders /\ Begun /\ Memory /\ Once /\ StartedByHolder
        /\ LateProper /\ Goroutines

-----------------------------------------------------------------------------
(* Commands, their requests and keys                                       *)

CommandOk(c) ==
    /\ c.doc \in Docs /\ c.operator \in Operators /\ c.quantity \in Nat
    /\ \/ c.adapter = "PUTAWAY" /\ c.kind \in {"CLAIM", "START", "SCAN", "CONFIRM", "CONFIRM_GROUP"}
       \/ /\ c.adapter = "PICKING"
          /\ c.kind \in {"CLAIM", "START", "ALLOCATE", "SCAN", "CONFIRM", "COMPLETE"}
       \/ c.adapter = "REPLENISHMENT" /\ c.kind \in {"SCAN", "CONFIRM"}
       \/ c.adapter = "TASK" /\ c.kind \in {"CLAIM", "RELEASE"}
       \/ c.adapter = "RECEIVING" /\ c.kind \in {"CLAIM", "START", "CONFIRM", "BATCH", "COMPLETE"}
       \/ c.adapter = "COUNT" /\ c.kind \in {"SUBMIT", "RECOUNT", "COMPLETE"}
       \/ c.adapter = "TRANSFER" /\ c.kind = "TRANSFER"
       \/ c.adapter = "SHIPPING" /\ c.kind \in {"VERIFY", "SHIP"}

LEMMA CommandsOk == ASSUME NEW c \in CommandType PROVE CommandOk(c)
<1> DEFINE For(adapter, kinds) ==
      /\ c.doc \in Docs /\ c.operator \in Operators /\ c.quantity \in Nat
      /\ c.adapter = adapter /\ c.kind \in kinds
<1>1. \A adapter, kinds : c \in CommandFor(adapter, kinds) => For(adapter, kinds)
  BY DEF CommandFor
<1> HIDE DEF For
<1>2. \/ For("PUTAWAY", {"CLAIM", "START", "SCAN", "CONFIRM", "CONFIRM_GROUP"})
      \/ For("PICKING", {"CLAIM", "START", "ALLOCATE", "SCAN", "CONFIRM", "COMPLETE"})
      \/ For("REPLENISHMENT", {"SCAN", "CONFIRM"})
      \/ For("TASK", {"CLAIM", "RELEASE"})
      \/ For("RECEIVING", {"CLAIM", "START", "CONFIRM", "BATCH", "COMPLETE"})
      \/ For("COUNT", {"SUBMIT", "RECOUNT", "COMPLETE"})
      \/ For("TRANSFER", {"TRANSFER"})
      \/ For("SHIPPING", {"VERIFY", "SHIP"})
  BY <1>1 DEF CommandType
<1> QED
  BY <1>2 DEF CommandOk, For

LEMMA OpsFacts ==
    ASSUME NEW c, CommandOk(c), NEW op \in OpsOf(c)
    PROVE  /\ op \in Requests /\ op \notin Reads
           /\ op = "START" => Starts(c)
           /\ Starts(c) /\ op # "START" => op = "CLAIM"
           /\ op = "RECEIVE" => c.adapter = "RECEIVING" /\ c.kind \in {"CONFIRM", "BATCH"}
           /\ op = "VERIFY" => c.adapter = "SHIPPING"
  BY DEF CommandOk, OpsOf, ReceivingOps, Starts, Requests, Reads

\* The operations of one command go to different endpoints.
LEMMA EndpointsDiffer ==
    ASSUME NEW c, CommandOk(c), NEW op \in OpsOf(c), NEW pq \in OpsOf(c),
           Endpoint(c, op) = Endpoint(c, pq)
    PROVE  op = pq
  BY DEF CommandOk, OpsOf, ReceivingOps, Starts, Endpoint

LEMMA EndpointFacts ==
    ASSUME NEW c, CommandOk(c), NEW op \in OpsOf(c)
    PROVE  /\ Endpoint(c, op) \in {"execution", "claim", "quantity", "confirm", "receive", "count",
                                   "transfer", "shipping", "verify", "start"}
           /\ Endpoint(c, op) = "verify" <=> op = "VERIFY"
           /\ Endpoint(c, op) = "start" <=> op = "START"
  BY DEF CommandOk, OpsOf, ReceivingOps, Starts, Endpoint

LEMMA KeyIsKey ==
    ASSUME Typed, NEW k \in Keys, NEW op \in OpsOf(command[k])
    PROVE  KeyOf(k, op) # NoKey
<1>1. CommandOk(command[k]) /\ base[k] \in Nat /\ command[k].doc \in Docs
  BY CommandsOk DEF Typed, CommandOk
<1> DEFINE e == Endpoint(command[k], op)
<1>2. e \in {"execution", "claim", "quantity", "confirm", "receive", "count", "transfer",
             "shipping", "verify", "start"}
  BY <1>1, EndpointFacts
<1> HIDE DEF e
<1>3. CASE e = "verify"
  BY <1>1, <1>3, GatewayAssumption DEF KeyOf, e
<1>4. CASE e = "start"
  BY <1>1, <1>4, GatewayAssumption DEF KeyOf, e
<1>5. CASE e \notin {"verify", "start"}
  <2>1. KeyOf(k, op) = <<e, k>>
    BY <1>5 DEF KeyOf, e
  <2> QED
    BY <1>2, <1>5, <2>1, GatewayAssumption
<1> QED
  BY <1>3, <1>4, <1>5

\* A key belongs to one operation of one command, but for the verification of
\* a package, which belongs to shipment and version.
LEMMA KeysApart ==
    ASSUME Typed, NEW k \in Keys, NEW l \in Keys,
           NEW op \in OpsOf(command[k]), NEW pq \in OpsOf(command[l]),
           KeyOf(k, op) = KeyOf(l, pq)
    PROVE  /\ op = pq
           /\ k = l \/ (op = "VERIFY" /\ command[k].doc = command[l].doc)
<1>1. CommandOk(command[k]) /\ CommandOk(command[l])
  BY CommandsOk DEF Typed
<1> DEFINE e == Endpoint(command[k], op)
           f == Endpoint(command[l], pq)
<1>2. /\ e = "verify" <=> op = "VERIFY"
      /\ f = "verify" <=> pq = "VERIFY"
  BY <1>1, EndpointFacts
<1>3. k = l /\ e = f => op = pq
  BY <1>1, EndpointsDiffer
<1>4. /\ e = "verify" => KeyOf(k, op) = <<"verify", command[k].doc, base[k]>>
      /\ e = "start" => KeyOf(k, op) = <<"execution", k, "start">>
      /\ e \notin {"verify", "start"} => KeyOf(k, op) = <<e, k>>
  BY DEF KeyOf
<1>5. /\ f = "verify" => KeyOf(l, pq) = <<"verify", command[l].doc, base[l]>>
      /\ f = "start" => KeyOf(l, pq) = <<"execution", l, "start">>
      /\ f \notin {"verify", "start"} => KeyOf(l, pq) = <<f, l>>
  BY DEF KeyOf
<1> HIDE DEF e, f
<1>6. CASE e = "verify" /\ f = "verify"
  BY <1>2, <1>4, <1>5, <1>6
<1>7. CASE e = "start" /\ f = "start"
  BY <1>3, <1>4, <1>5, <1>7
<1>8. CASE e \notin {"verify", "start"} /\ f \notin {"verify", "start"}
  <2>1. <<e, k>> = <<f, l>>
    BY <1>4, <1>5, <1>8
  <2> QED
    BY <1>3, <2>1
<1>9. ASSUME NEW a, NEW b, NEW c, NEW d, NEW g PROVE <<a, b, c>> # <<d, g>>
  OBVIOUS
<1>10. ~(e = "verify" /\ f = "start") /\ ~(e = "start" /\ f = "verify")
  <2>1. \A a, b, c : <<"verify", a, b>> # <<"execution", c, "start">>
    OBVIOUS
  <2> QED
    BY <1>4, <1>5, <2>1
<1>11. /\ ~(e \in {"verify", "start"} /\ f \notin {"verify", "start"})
       /\ ~(f \in {"verify", "start"} /\ e \notin {"verify", "start"})
  BY <1>4, <1>5, <1>9
<1> QED
  BY <1>6, <1>7, <1>8, <1>10, <1>11

-----------------------------------------------------------------------------
(* What a request does to a document                                       *)

LEMMA TransitionFacts ==
    ASSUME NEW op \in Requests
    PROVE  /\ "CONFIRMED" \notin Transition(op).from
           /\ Transition(op).to = "CLAIMED" => op \in {"CLAIM", "CLAIM_RECEIPT"}
           /\ op = "CLAIM" => Transition(op).to = "CLAIMED"
           /\ Transition(op).to = "" /\ "CLAIMED" \in Transition(op).from => op = "RECORD"
           /\ Transition(op).to = "IN_PROGRESS" => op = "START"
           /\ Transition(op).to = "" /\ "IN_PROGRESS" \in Transition(op).from => op = "SCAN"
           /\ op = "START" => Transition(op).from = {"CLAIMED"} /\ Transition(op).to = "IN_PROGRESS"
           /\ op = "RECORD" => Transition(op).to = ""
  BY DEF Requests, Transition

LEMMA RowAfterFacts ==
    ASSUME NEW row, NEW r, r.op \in Requests, r.by \in Operators, r.quantity \in Nat,
           Accepts(row, r),
           RowOk(row),
           row.status = "CLAIMED" => row.operator # NoOperator,
           NEW next, next = RowAfter(row, r)
    PROVE  /\ row.status # "CONFIRMED"
           /\ RowOk(next)
           /\ \/ next.version > row.version
              \/ /\ next.version = row.version /\ next.status = row.status
                 /\ next.operator = row.operator
           /\ next.status = "CLAIMED" => next.operator # NoOperator
           /\ next.status = "IN_PROGRESS" =>
                next.operator = row.operator /\ (r.op = "START" \/ row.status = "IN_PROGRESS")
           /\ r.op = "CLAIM" => next.status = "CLAIMED" /\ next.operator = r.by
           /\ r.op = "START" =>
                /\ row.status = "CLAIMED"
                /\ r.expected \in Nat => r.expected = row.version
<1> DEFINE from == Transition(r.op).from
           to == Transition(r.op).to
<1>0. row.version \in Nat \ {0} /\ row.operator \in Operators \union {NoOperator}
  BY DEF RowOk
<1>1. /\ "CONFIRMED" \notin from
      /\ to = "CLAIMED" => r.op \in {"CLAIM", "CLAIM_RECEIPT"}
      /\ r.op = "CLAIM" => to = "CLAIMED"
      /\ to = "" /\ "CLAIMED" \in from => r.op = "RECORD"
      /\ to = "IN_PROGRESS" => r.op = "START"
      /\ to = "" /\ "IN_PROGRESS" \in from => r.op = "SCAN"
      /\ r.op = "START" => from = {"CLAIMED"} /\ to = "IN_PROGRESS"
      /\ r.op = "RECORD" => to = ""
  BY TransitionFacts
<1>2. /\ next.status = IF to = "" THEN row.status ELSE to
      /\ next.operator = HolderAfter(row, r)
      /\ r.op = "RECORD" => next.version = row.version
      /\ r.op # "RECORD" => next.version = row.version + 1
  BY DEF RowAfter
<1>3. /\ row.status \in from
      /\ r.expected \in {AnyVersion, IF r.op = "RECORD" THEN row.line ELSE row.version}
  BY DEF Accepts
<1> HIDE DEF from, to
<1>4. /\ r.op \in {"CLAIM", "CLAIM_RECEIPT"} => next.operator = r.by
      /\ r.op \in {"START", "SCAN", "RECORD"} => next.operator = row.operator
      /\ next.operator \in Operators \union {NoOperator}
  BY <1>0, <1>2 DEF HolderAfter
<1>5. r.by # NoOperator
  BY GatewayAssumption
<1>6. next.version \in Nat \ {0} /\ (r.op # "RECORD" => next.version > row.version)
  <2>1. CASE r.op = "RECORD"
    BY <1>0, <1>2, <2>1
  <2>2. CASE r.op # "RECORD"
    <3>1. row.version \in Nat /\ next.version = row.version + 1
      BY <1>0, <1>2, <2>2
    <3> QED
      BY <3>1
  <2> QED
    BY <2>1, <2>2
<1>7. next.version > row.version
      \/ (next.version = row.version /\ next.status = row.status /\ next.operator = row.operator)
  BY <1>1, <1>2, <1>4, <1>6
<1>8. next.status = "CLAIMED" => next.operator # NoOperator
  BY <1>1, <1>2, <1>3, <1>4, <1>5
<1>9. next.status = "IN_PROGRESS" =>
        next.operator = row.operator /\ (r.op = "START" \/ row.status = "IN_PROGRESS")
  BY <1>1, <1>2, <1>3, <1>4
<1>10. r.op = "CLAIM" => next.status = "CLAIMED" /\ next.operator = r.by
  BY <1>1, <1>2, <1>4
<1>11. r.op = "START" => row.status = "CLAIMED" /\ (r.expected \in Nat => r.expected = row.version)
  BY <1>1, <1>3, GatewayAssumption
<1>12. RowOk(next)
  <2>1. next.line \in Nat /\ next.quantity \in Nat
    <3>1. row.line \in Nat /\ row.quantity \in Nat
      BY DEF RowOk
    <3>2. /\ next.line = IF r.op \in {"RECORD", "RECEIVE"} THEN row.line + 1 ELSE row.line
          /\ next.quantity = IF r.op \in {"RECORD", "RECEIVE"} THEN r.quantity ELSE row.quantity
      BY DEF RowAfter
    <3> QED
      BY <3>1, <3>2
  <2>2. next = [status |-> next.status, operator |-> next.operator, version |-> next.version,
                line |-> next.line, quantity |-> next.quantity]
    BY DEF RowAfter
  <2> QED
    BY <1>4, <1>6, <2>1, <2>2 DEF RowOk
<1> QED
  BY <1>12, <1>1, <1>3, <1>4, <1>6, <1>7, <1>8, <1>9, <1>10, <1>11

-----------------------------------------------------------------------------
(* Documents and memory only advance                                       *)

\* A document that changes gets a higher version, or keeps what a START asks
\* for; a confirmed receipt does not change.
Advances ==
    /\ rows' = [d \in Docs |-> rows'[d]]
    /\ \A d \in Docs :
        /\ RowOk(rows'[d])
        /\ rows[d].status = "CONFIRMED" => rows'[d] = rows[d]
        /\ \/ rows'[d].version > rows[d].version
           \/ /\ rows'[d].version = rows[d].version /\ rows'[d].status = rows[d].status
              /\ rows'[d].operator = rows[d].operator
    /\ effects \subseteq effects'

\* The commands and the versions devices saw are kept.
Kept == /\ command' = command
        /\ \A k \in Keys : base[k] # 0 => base'[k] = base[k]

LEMMA VouchedStays ==
    ASSUME Typed, Advances, NEW d \in Docs, NEW v \in Nat, NEW o, Vouched(d, v, o)
    PROVE  Vouched(d, v, o)'
<1>1. rows[d].version \in Nat /\ rows'[d].version \in Nat
  BY DEF Typed, Advances, RowOk
<1>2. CASE rows'[d].version > rows[d].version
  BY <1>1, <1>2 DEF Vouched
<1>3. CASE rows'[d].version = rows[d].version /\ rows'[d].status = rows[d].status
           /\ rows'[d].operator = rows[d].operator
  BY <1>3 DEF Vouched
<1> QED
  BY <1>2, <1>3 DEF Advances

LEMMA AchievedStays ==
    ASSUME Typed, Advances, command' = command, NEW k \in Keys, Achieved(k)
    PROVE  Achieved(k)'
<1>1. command[k].doc \in Docs
  BY CommandsOk DEF Typed, CommandOk
<1>2. rows[command[k].doc].status = "CONFIRMED" => rows'[command[k].doc] = rows[command[k].doc]
  BY <1>1 DEF Advances
<1> QED
  BY <1>2 DEF Achieved, Advances

LEMMA KeyStays ==
    ASSUME Kept, NEW k \in Keys, base[k] # 0, NEW op
    PROVE  KeyOf(k, op)' = KeyOf(k, op)
  BY DEF Kept, KeyOf

LEMMA ProperStays ==
    ASSUME Typed, Kept, Advances, NEW r, Proper(r)
    PROVE  Proper(r)'
<1>1. r.from \in Keys /\ base[r.from] # 0 /\ base'[r.from] # 0 /\ command' = command
  BY DEF Proper, Kept
<1>2. KeyOf(r.from, r.op)' = KeyOf(r.from, r.op)
  BY <1>1, KeyStays
<1>3. r.doc \in Docs
  BY <1>1, CommandsOk DEF Proper, Typed, CommandOk
<1>4. r.op = "START" => Vouched(r.doc, r.expected, r.by)'
  BY <1>3, VouchedStays DEF Proper
<1> QED
  BY <1>1, <1>2, <1>4 DEF Proper

LEMMA RememberedStays ==
    ASSUME Kept, answers \subseteq answers', NEW e, Remembered(e)
    PROVE  Remembered(e)'
<1>1. e.from \in Keys /\ base[e.from] # 0 /\ base'[e.from] # 0 /\ command' = command
  BY DEF Remembered, Kept
<1>2. KeyOf(e.from, e.op)' = KeyOf(e.from, e.op)
  BY <1>1, KeyStays
<1> QED
  BY <1>1, <1>2 DEF Remembered

LEMMA DoneStays ==
    ASSUME Typed, Memory, Kept, Advances, NEW x, Done(x)
    PROVE  Done(x)'
<1>1. PICK e \in effects :
        /\ e.op # "SCAN" /\ x.key = KeyOf(e.from, e.op)
        /\ e.op = "CLAIM" => x.row.status = "CLAIMED" /\ Vouched(e.doc, x.row.version, e.by)
  BY DEF Done
<1>2. e.from \in Keys /\ base[e.from] # 0 /\ e.doc \in Docs /\ e \in effects'
  BY CommandsOk DEF Memory, Remembered, Typed, CommandOk, Advances
<1>3. KeyOf(e.from, e.op)' = KeyOf(e.from, e.op)
  BY <1>2, KeyStays
<1>4. x.row.version \in Nat
  BY DEF Done
<1>5. e.op = "CLAIM" => Vouched(e.doc, x.row.version, e.by)'
  BY <1>1, <1>2, <1>4, VouchedStays
<1> QED
  BY <1>1, <1>2, <1>3, <1>4, <1>5 DEF Done

-----------------------------------------------------------------------------
(* The owner handles a proper request                                      *)

LEMMA ProperFacts ==
    ASSUME Typed, NEW r, Proper(r)
    PROVE  /\ r.from \in Keys /\ CommandOk(command[r.from])
           /\ r.op \in Requests /\ r.doc \in Docs /\ r.by \in Operators /\ r.quantity \in Nat
<1>1. r.from \in Keys /\ r.op \in OpsOf(command[r.from])
  BY DEF Proper
<1>2. CommandOk(command[r.from])
  BY <1>1, CommandsOk DEF Typed
<1> QED
  BY <1>1, <1>2, OpsFacts DEF Proper, CommandOk

LEMMA HandleAdvances ==
    ASSUME Typed, Holders, NEW r, Proper(r), Handle(r)
    PROVE  Advances /\ Holders' /\ answers \subseteq answers'
<1> DEFINE row == rows[r.doc]
           next == RowAfter(row, r)
<1>1. r.op \in Requests /\ r.doc \in Docs /\ r.by \in Operators /\ r.quantity \in Nat
  BY ProperFacts
<1>2. Accepts(row, r) /\ rows' = [rows EXCEPT ![r.doc] = next]
  BY DEF Handle
<1>3. /\ RowOk(row)
      /\ row.status = "CLAIMED" => row.operator # NoOperator
  BY <1>1 DEF Typed, Holders
<1> HIDE DEF next
<1>4. /\ row.status # "CONFIRMED"
      /\ RowOk(next)
      /\ \/ next.version > row.version
         \/ /\ next.version = row.version /\ next.status = row.status
            /\ next.operator = row.operator
      /\ next.status = "CLAIMED" => next.operator # NoOperator
  BY <1>1, <1>2, <1>3, RowAfterFacts DEF next
<1>5. /\ rows' = [d \in Docs |-> rows'[d]]
      /\ rows'[r.doc] = next
      /\ \A d \in Docs : d # r.doc => rows'[d] = rows[d]
  BY <1>1, <1>2 DEF Typed
<1>6. effects \subseteq effects' /\ answers \subseteq answers'
  BY DEF Handle
<1>7. Advances
  BY <1>4, <1>5, <1>6 DEF Advances, Typed
<1>8. Holders'
  BY <1>4, <1>5 DEF Holders
<1> QED
  BY <1>6, <1>7, <1>8

\* Who starts a task holds it.
LEMMA StartVouched ==
    ASSUME Typed, Holders, NEW r, Proper(r), Handle(r), r.op = "START"
    PROVE  rows[r.doc].status = "CLAIMED" /\ rows[r.doc].operator = r.by
<1> DEFINE row == rows[r.doc]
<1>1. r.op \in Requests /\ r.doc \in Docs /\ r.by \in Operators /\ r.quantity \in Nat
  BY ProperFacts
<1>2. Accepts(row, r) /\ r.expected \in Nat
  BY DEF Handle, Proper
<1>3. /\ RowOk(row)
      /\ row.status = "CLAIMED" => row.operator # NoOperator
  BY <1>1 DEF Typed, Holders
<1>4. row.status = "CLAIMED" /\ r.expected = row.version
  BY <1>1, <1>2, <1>3, RowAfterFacts
<1> QED
  BY <1>4 DEF Proper, Vouched

LEMMA HandleOwner ==
    ASSUME Typed, Holders, Begun, Memory, Once, StartedByHolder,
           command' = command, base' = base, NEW r, Proper(r), Handle(r)
    PROVE  Begun' /\ Memory' /\ Once' /\ StartedByHolder'
<1> DEFINE row == rows[r.doc]
           next == RowAfter(row, r)
<1>eff. PICK eff : eff = [from |-> r.from, op |-> r.op, doc |-> r.doc, by |-> r.by,
                          holder |-> row.operator, version |-> next.version]
  OBVIOUS
<1>1. /\ r.from \in Keys /\ CommandOk(command[r.from])
      /\ r.op \in Requests /\ r.doc \in Docs /\ r.by \in Operators /\ r.by # NoOperator
      /\ r.quantity \in Nat
  BY ProperFacts, GatewayAssumption
<1>2. /\ Accepts(row, r) /\ Known(r) = {} /\ rows' = [rows EXCEPT ![r.doc] = next]
      /\ effects' = effects \union {eff}
      /\ answers' = IF r.key = NoKey THEN answers ELSE answers \union {[key |-> r.key, row |-> next]}
  BY <1>eff DEF Handle
<1>3. Advances /\ answers \subseteq answers'
  BY HandleAdvances
<1>4. Kept
  BY DEF Kept
<1>5. /\ eff.from = r.from /\ eff.op = r.op /\ eff.doc = r.doc /\ eff.by = r.by
      /\ eff.holder = row.operator
  BY <1>eff
<1>6. /\ RowOk(row)
      /\ row.status = "CLAIMED" => row.operator # NoOperator
  BY <1>1 DEF Typed, Holders
<1>7. /\ next.version \in Nat \ {0}
      /\ next.status = "IN_PROGRESS" =>
           next.operator = row.operator /\ (r.op = "START" \/ row.status = "IN_PROGRESS")
      /\ r.op = "CLAIM" => next.status = "CLAIMED" /\ next.operator = r.by
  <2> HIDE DEF next
  <2> QED
    BY <1>1, <1>2, <1>6, RowAfterFacts DEF next, RowOk
<1>8. /\ rows'[r.doc] = next
      /\ \A d \in Docs : d # r.doc => rows'[d] = rows[d]
  BY <1>1, <1>2 DEF Typed
<1> HIDE DEF next
<1>9. r.op = "START" => row.operator = r.by
  BY StartVouched
<1>10. StartedByHolder'
  BY <1>2, <1>5, <1>9 DEF StartedByHolder
<1>11. Begun'
  <2> SUFFICES ASSUME NEW d \in Docs, rows'[d].status = "IN_PROGRESS",
                      FirstRow[d].status # "IN_PROGRESS"
               PROVE  \E e \in effects' : /\ e.op = "START" /\ e.doc = d
                                          /\ e.by = rows'[d].operator /\ e.by # NoOperator
    BY DEF Begun
  <2>1. CASE rows[d].status = "IN_PROGRESS" /\ rows'[d].operator = rows[d].operator
    BY <1>2, <2>1 DEF Begun
  <2>2. CASE d = r.doc /\ r.op = "START"
    <3>1. eff.by = rows'[d].operator
      BY <1>5, <1>7, <1>8, <1>9, <2>2
    <3>2. eff \in effects' /\ eff.op = "START" /\ eff.doc = d /\ eff.by # NoOperator
      BY <1>1, <1>2, <1>5, <2>2
    <3> QED
      BY <3>1, <3>2
  <2> QED
    BY <1>7, <1>8, <2>1, <2>2
<1>12. r.op # "SCAN" => /\ r.key = KeyOf(r.from, r.op) /\ r.key # NoKey
                        /\ [key |-> r.key, row |-> next] \in answers'
  <2>1. r.op # "SCAN" => r.key = KeyOf(r.from, r.op) /\ r.key # NoKey
    BY KeyIsKey DEF Proper
  <2> QED
    BY <1>2, <2>1
<1>13. KeyOf(r.from, r.op)' = KeyOf(r.from, r.op)
  BY <1>1, <1>4, KeyStays DEF Proper
<1>14. Memory'
  <2>1. ASSUME NEW e \in effects PROVE Remembered(e)'
    BY <1>3, <1>4, RememberedStays DEF Memory
  <2>2. Remembered(eff)'
    <3>1. eff.op # "SCAN" => \E x \in answers' : x.key = KeyOf(r.from, r.op)
      BY <1>5, <1>12
    <3> QED
      BY <1>5, <1>13, <3>1 DEF Remembered, Proper
  <2>3. ASSUME NEW x \in answers PROVE Done(x)'
    BY <1>3, <1>4, DoneStays DEF Memory
  <2>4. ASSUME NEW x \in answers', x \notin answers PROVE Done(x)'
    <3>1. x = [key |-> r.key, row |-> next] /\ r.key # NoKey
      BY <1>2, <2>4
    <3>2. x.key = r.key /\ x.row = next /\ r.op # "SCAN"
      BY <3>1 DEF Proper
    <3>3. r.op = "CLAIM" => x.row.status = "CLAIMED" /\ Vouched(r.doc, x.row.version, r.by)'
      <4>1. next.version <= next.version
        BY <1>7
      <4>2. r.op = "CLAIM" => next.status = "CLAIMED" /\ rows'[r.doc].operator = r.by
        BY <1>7, <1>8
      <4> QED
        BY <1>8, <3>2, <4>1, <4>2 DEF Vouched
    <3>4. eff \in effects'
      BY <1>2
    <3> QED
      BY <1>5, <1>7, <1>12, <1>13, <3>2, <3>3, <3>4 DEF Done
  <2> QED
    BY <1>2, <2>1, <2>2, <2>3, <2>4 DEF Memory
<1>15. Once'
  <2>1. ASSUME NEW e \in effects, e.from = r.from, e.op = r.op, e.op # "SCAN" PROVE FALSE
    <3>1. PICK x \in answers : x.key = KeyOf(e.from, e.op)
      BY <2>1 DEF Memory, Remembered
    <3>2. x \in Known(r)
      BY <1>12, <2>1, <3>1 DEF Known
    <3> QED
      BY <1>2, <3>2
  <2> SUFFICES ASSUME NEW e \in effects', NEW f \in effects',
                      e.from = f.from, e.op = f.op, e.op # "SCAN"
               PROVE  e = f
    BY DEF Once
  <2>2. e \in effects \/ e = eff
    BY <1>2
  <2>3. f \in effects \/ f = eff
    BY <1>2
  <2>4. CASE e \in effects /\ f \in effects
    BY <2>4 DEF Once
  <2>5. CASE e \in effects /\ f = eff
    BY <1>5, <2>1, <2>5
  <2>6. CASE f \in effects /\ e = eff
    BY <1>5, <2>1, <2>6
  <2> QED
    BY <2>2, <2>3, <2>4, <2>5, <2>6
<1> QED
  BY <1>10, <1>11, <1>14, <1>15

\* A supervisor or the end of a lease takes a document from its holder.
LEMMA RegivenOwner ==
    ASSUME Typed, Holders, Begun, NEW d \in Docs,
           LeaseExpires(d) \/ \E o \in Operators : Reassign(d, o)
    PROVE  Kept /\ Advances /\ Holders' /\ Begun'
<1>1. /\ RowOk(rows[d]) /\ rows[d].version \in Nat /\ rows[d].status # "CONFIRMED"
      /\ UNCHANGED <<answers, effects, base, command>>
  BY DEF Typed, RowOk, LeaseExpires, Reassign
<1>2. ASSUME NEW s, NEW o \in Operators \union {NoOperator}
      PROVE  /\ RowOk(Given(rows[d], s, o)) /\ Given(rows[d], s, o).status = s
             /\ Given(rows[d], s, o).version = rows[d].version + 1
  <2>1. rows[d].version + 1 \in Nat \ {0} /\ rows[d].line \in Nat /\ rows[d].quantity \in Nat
    BY <1>1 DEF RowOk
  <2> QED
    BY <2>1 DEF Given, RowOk
<1>9. \E s \in {"ASSIGNED", "OPEN"}, o \in Operators \union {NoOperator} :
        rows' = [rows EXCEPT ![d] = Given(rows[d], s, o)]
  <2>1. LeaseExpires(d) => rows' = [rows EXCEPT ![d] = Given(rows[d], "OPEN", NoOperator)]
    BY DEF LeaseExpires
  <2>2. \A o \in Operators : Reassign(d, o) => rows' = [rows EXCEPT ![d] = Given(rows[d], "ASSIGNED", o)]
    BY DEF Reassign
  <2> QED
    BY <2>1, <2>2
<1>3. PICK next : /\ rows' = [rows EXCEPT ![d] = next]
                  /\ RowOk(next) /\ next.version = rows[d].version + 1
                  /\ next.status \in {"ASSIGNED", "OPEN"}
  <2>1. PICK s \in {"ASSIGNED", "OPEN"}, o \in Operators \union {NoOperator} :
          rows' = [rows EXCEPT ![d] = Given(rows[d], s, o)]
    BY <1>9
  <2> QED
    BY <1>2, <2>1
<1>4. /\ rows' = [e \in Docs |-> rows'[e]]
      /\ rows'[d] = next
      /\ \A e \in Docs : e # d => rows'[e] = rows[e]
  BY <1>3 DEF Typed
<1>5. rows'[d].version > rows[d].version
  BY <1>1, <1>3, <1>4
<1>6. Advances
  BY <1>1, <1>3, <1>4, <1>5 DEF Advances, Typed
<1>7. Kept
  BY <1>1 DEF Kept
<1>8. Holders' /\ Begun'
  BY <1>1, <1>3, <1>4 DEF Holders, Begun
<1> QED
  BY <1>6, <1>7, <1>8

\* Whatever happens to the documents, the owner's memory stays true.
LEMMA MemoryStays ==
    ASSUME Typed, Memory, Once, StartedByHolder, Kept, Advances, UNCHANGED <<answers, effects>>
    PROVE  Memory' /\ Once' /\ StartedByHolder'
<1>1. ASSUME NEW e \in effects PROVE Remembered(e)'
  BY RememberedStays DEF Memory
<1>2. ASSUME NEW x \in answers PROVE Done(x)'
  BY DoneStays DEF Memory
<1> QED
  BY <1>1, <1>2 DEF Memory, Once, StartedByHolder

-----------------------------------------------------------------------------
(* The requests of a goroutine are proper                                  *)

\* Taking the first element of a sequence.
LEMMA Rest ==
    ASSUME NEW S, NEW s \in Seq(S), s # <<>>
    PROVE  /\ Head(s) \in S /\ Head(s) = s[1] /\ Tail(s) \in Seq(S) /\ 1 \in DOMAIN s
           /\ Tail(s) = <<>> => DOMAIN s = {1}
           /\ \A i \in DOMAIN s : i # 1 => i - 1 \in DOMAIN Tail(s) /\ Tail(s)[i - 1] = s[i]
<1>1. Len(s) \in Nat /\ Len(s) # 0 /\ DOMAIN s = 1 .. Len(s)
  OBVIOUS
<1>2. Head(s) \in S /\ Head(s) = s[1] /\ Tail(s) \in Seq(S) /\ Len(Tail(s)) = Len(s) - 1
  BY <1>1
<1>3. Tail(s) = <<>> => DOMAIN s = {1}
  BY <1>1, <1>2
<1>5. 1 \in DOMAIN s
  BY <1>1
<1>4. ASSUME NEW i \in DOMAIN s, i # 1
      PROVE  i - 1 \in DOMAIN Tail(s) /\ Tail(s)[i - 1] = s[i]
  <2>1. i \in Nat /\ i - 1 \in 1 .. Len(Tail(s)) /\ DOMAIN Tail(s) = 1 .. Len(Tail(s))
    BY <1>1, <1>2, <1>4
  <2>2. Tail(s)[i - 1] = s[(i - 1) + 1]
    BY <1>1, <1>2, <1>4, <2>1
  <2> QED
    BY <2>1, <2>2
<1> QED
  BY <1>2, <1>3, <1>4, <1>5

LEMMA StartHeads ==
    ASSUME NEW c, NEW todo \in StartPaths(c), todo # <<>>
    PROVE  /\ Head(todo) \in {"detail", "own", "CLAIM", "enrich", "START"}
           /\ Head(todo) = "START" => todo = Starting
  BY DEF StartPaths, Claiming, Claimed, Starting

\* A step of a command is a read or one of its requests.
LEMMA StepsOf ==
    ASSUME NEW c, CommandOk(c), NEW todo, Path(c, todo), todo # <<>>
    PROVE  /\ Head(todo) \in Reads \union OpsOf(c)
           /\ Starts(c) /\ Head(todo) = "START" => todo = Starting
<1>1. CASE Starts(c)
  <2>1. todo \in StartPaths(c)
    BY <1>1 DEF Path, Starts
  <2>2. OpsOf(c) = {"CLAIM", "START"}
    BY <1>1 DEF OpsOf, Starts
  <2>3. Head(todo) \in {"detail", "own", "CLAIM", "enrich", "START"}
    BY <2>1, StartHeads
  <2>4. Head(todo) \in Reads \union {"CLAIM", "START"}
    BY <2>3 DEF Reads
  <2> QED
    BY <2>1, <2>2, <2>4, StartHeads
<1>2. CASE c.adapter = "RECEIVING" /\ c.kind = "BATCH"
  <2>1. todo = BatchPath \/ todo \in Seq({"assigned", "RECEIVE", "detail"})
    BY <1>2 DEF Path, Starts
  <2>2. Head(todo) \in {"receipt", "assigned", "RECEIVE", "detail"}
    BY <2>1, Rest DEF BatchPath
  <2> QED
    BY <1>2, <2>2 DEF Reads, OpsOf, ReceivingOps, Starts
<1>3. CASE ~Starts(c) /\ ~(c.adapter = "RECEIVING" /\ c.kind = "BATCH")
  BY <1>3, Rest DEF Path
<1> QED
  BY <1>1, <1>2, <1>3

LEMMA RequestForm ==
    ASSUME Typed, NEW a \in Attempts, OnPath(a), Busy(a), Step(a) \notin Reads
    PROVE  \E expected : /\ RequestOf(a) = Request(Step(a), Cmd(a), a[1],
                                IF Step(a) = "SCAN" THEN NoKey ELSE KeyOf(a[1], Step(a)), expected)
                         /\ Step(a) = "START" => expected = attempt[a].seen
<1> DEFINE c == Cmd(a)
           k == a[1]
           op == Step(a)
           b == base[k]
           seen == attempt[a].seen
<1>1. k \in Keys /\ CommandOk(c) /\ c = command[k]
  BY CommandsOk DEF Attempts, Cmd, Typed
<1>2. op \in OpsOf(c)
  BY <1>1, StepsOf DEF OnPath, Busy, Step
<1>3. RequestOf(a) =
        CASE c.adapter = "COUNT" -> IF op = "SUBMIT" THEN SubmitCycleCount(c, k, b)
                                    ELSE cycleCountCommand(op, c, k, b)
          [] c.adapter = "TRANSFER" -> TransferInventory(c, k)
          [] c.adapter = "SHIPPING" -> IF op = "VERIFY" THEN VerifyShippingPackage(c, k, b)
                                       ELSE ConfirmShipping(c, k, b)
          [] op = "CLAIM_RECEIPT" -> ClaimReceipt(c, k)
          [] op = "RECORD" -> RecordReceiptQuantity(c, k, seen)
          [] op = "CONFIRM_RECEIPT" -> ConfirmReceipt(c, k)
          [] op = "RECEIVE" -> ReceiveReceipt(c, k, seen)
          [] op = "ALLOCATE" -> AllocateExecutionTask(c, k)
          [] op = "SCAN" -> RecordExecutionScan(c, k, b)
          [] OTHER -> ApplyExecutionTaskCommand(op, c, k, b, seen)
  BY DEF RequestOf
<1>4. KeyOf(k, op) =
        CASE Endpoint(c, op) = "verify" -> <<"verify", c.doc, b>>
          [] Endpoint(c, op) = "start" -> <<"execution", k, "start">>
          [] OTHER -> <<Endpoint(c, op), k>>
  BY <1>1 DEF KeyOf
<1> DEFINE key == IF op = "SCAN" THEN NoKey ELSE KeyOf(k, op)
           Goal == \E expected : /\ RequestOf(a) = Request(op, c, k, key, expected)
                                 /\ op = "START" => expected = seen
<1> HIDE DEF c, k, op, b, seen, key
<1>5. ASSUME c.adapter = "COUNT" PROVE Goal
  <2>1. op \in {"SUBMIT", "RECOUNT", "COMPLETE"}
    BY <1>1, <1>2, <1>5 DEF CommandOk, OpsOf, Starts
  <2>2. key = <<"count", k>>
    BY <1>4, <1>5, <2>1 DEF Endpoint, key
  <2>3. RequestOf(a) = Request(op, c, k, key, b)
    BY <1>3, <1>5, <2>1, <2>2 DEF SubmitCycleCount, cycleCountCommand
  <2> QED
    BY <2>1, <2>3
<1>6. ASSUME c.adapter = "TRANSFER" PROVE Goal
  <2>1. op = "TRANSFER"
    BY <1>1, <1>2, <1>6 DEF CommandOk, OpsOf, Starts
  <2>2. key = <<"transfer", k>>
    BY <1>4, <1>6, <2>1 DEF Endpoint, key
  <2>3. RequestOf(a) = Request(op, c, k, key, AnyVersion)
    BY <1>3, <1>6, <2>1, <2>2 DEF TransferInventory
  <2> QED
    BY <2>1, <2>3
<1>7. ASSUME c.adapter = "SHIPPING" PROVE Goal
  <2>1. op \in {"VERIFY", "SHIP"}
    BY <1>1, <1>2, <1>7 DEF CommandOk, OpsOf, Starts
  <2>2. /\ op = "VERIFY" => key = <<"verify", c.doc, b>>
        /\ op = "SHIP" => key = <<"shipping", k>>
    BY <1>4, <1>7, <2>1 DEF Endpoint, key
  <2>3. RequestOf(a) = Request(op, c, k, key, b)
    BY <1>3, <1>7, <2>1, <2>2 DEF VerifyShippingPackage, ConfirmShipping
  <2> QED
    BY <2>1, <2>3
<1>8. ASSUME c.adapter = "RECEIVING" PROVE Goal
  <2>1. op \in {"CLAIM_RECEIPT", "RECORD", "CONFIRM_RECEIPT", "RECEIVE"}
    BY <1>1, <1>2, <1>8 DEF CommandOk, OpsOf, ReceivingOps, Starts
  <2>2. /\ op = "CLAIM_RECEIPT" => key = <<"claim", k>>
        /\ op = "RECORD" => key = <<"quantity", k>>
        /\ op = "CONFIRM_RECEIPT" => key = <<"confirm", k>>
        /\ op = "RECEIVE" => key = <<"receive", k>>
    BY <1>4, <1>8, <2>1 DEF Endpoint, key
  <2>3. \/ RequestOf(a) = Request(op, c, k, key, AnyVersion)
        \/ RequestOf(a) = Request(op, c, k, key, seen)
    BY <1>3, <1>8, <2>1, <2>2
       DEF ClaimReceipt, RecordReceiptQuantity, ConfirmReceipt, ReceiveReceipt
  <2> QED
    BY <2>1, <2>3
<1>9. ASSUME c.adapter \in {"PUTAWAY", "PICKING", "REPLENISHMENT", "TASK"} PROVE Goal
  <2>1. op \in {"CLAIM", "START", "SCAN", "CONFIRM", "CONFIRM_GROUP", "ALLOCATE", "COMPLETE", "RELEASE"}
    BY <1>1, <1>2, <1>9 DEF CommandOk, OpsOf, Starts
  <2>2. /\ op = "START" => key = <<"execution", k, "start">>
        /\ op = "SCAN" => key = NoKey
        /\ op \notin {"START", "SCAN"} => key = <<"execution", k>>
    BY <1>4, <1>9, <2>1 DEF Endpoint, key
  <2>3. CASE op = "ALLOCATE"
    BY <1>3, <1>9, <2>2, <2>3 DEF AllocateExecutionTask
  <2>4. CASE op = "SCAN"
    BY <1>3, <1>9, <2>2, <2>4 DEF RecordExecutionScan
  <2>5. CASE op = "START"
    <3>1. RequestOf(a) = Request(op, c, k, key, seen)
      BY <1>3, <1>9, <2>2, <2>5 DEF ApplyExecutionTaskCommand
    <3> QED
      BY <3>1
  <2>6. CASE op \notin {"ALLOCATE", "SCAN", "START"}
    <3>1. RequestOf(a) = Request(op, c, k, key, b)
      BY <1>3, <1>9, <2>1, <2>2, <2>6 DEF ApplyExecutionTaskCommand
    <3> QED
      BY <2>6, <3>1
  <2> QED
    BY <2>3, <2>4, <2>5, <2>6
<1>10. Goal
  BY <1>1, <1>5, <1>6, <1>7, <1>8, <1>9 DEF CommandOk
<1> QED
  BY <1>10 DEF c, k, op, seen, key

LEMMA RequestProper ==
    ASSUME Typed, NEW a \in Attempts, OnPath(a), Busy(a), Step(a) \notin Reads,
           NEW r, r = RequestOf(a)
    PROVE  Proper(r) /\ r.op = Step(a) /\ r.from = a[1]
<1>1. a[1] \in Keys /\ CommandOk(Cmd(a)) /\ Cmd(a) = command[a[1]]
  BY CommandsOk DEF Attempts, Cmd, Typed
<1>2. Step(a) \in OpsOf(Cmd(a)) /\ (Starts(Cmd(a)) /\ Step(a) = "START" => attempt[a].todo = Starting)
  BY <1>1, StepsOf DEF OnPath, Busy, Step
<1>3. PICK expected :
        /\ r = Request(Step(a), Cmd(a), a[1],
                       IF Step(a) = "SCAN" THEN NoKey ELSE KeyOf(a[1], Step(a)), expected)
        /\ Step(a) = "START" => expected = attempt[a].seen
  BY RequestForm
<1>4. /\ r.op = Step(a) /\ r.doc = Cmd(a).doc /\ r.by = Cmd(a).operator
      /\ r.quantity = Cmd(a).quantity /\ r.from = a[1] /\ r.expected = expected
      /\ r.key = IF Step(a) = "SCAN" THEN NoKey ELSE KeyOf(a[1], Step(a))
  BY <1>3 DEF Request
<1>5. Step(a) = "START" => Starts(Cmd(a))
  BY <1>1, <1>2, OpsFacts
<1>6. r.op = "START" => r.expected \in Nat /\ Vouched(r.doc, r.expected, r.by)
  BY <1>2, <1>3, <1>4, <1>5 DEF OnPath
<1>7. base[a[1]] # 0
  BY DEF OnPath, Busy
<1> QED
  BY <1>1, <1>2, <1>4, <1>6, <1>7 DEF Proper

-----------------------------------------------------------------------------
(* What is left to do after a step                                         *)

\* The way of a START: it gets to the request over a read that leaves the
\* version to the next reader, or over the claim.
LEMMA StartOnward ==
    ASSUME NEW c, Starts(c), NEW todo \in StartPaths(c), todo # <<>>, NEW row,
           NEW rest, rest = After(c, Head(todo), row, Tail(todo))
    PROVE  /\ rest \in StartPaths(c)
           /\ \/ rest \in StartPaths(c) \ {<<>>, <<"enrich">>}
              \/ Head(todo) = "START"
              \/ todo = <<"enrich">>
              \/ Head(todo) \in {"detail", "CLAIM"} /\ row.status = "IN_PROGRESS"
           /\ rest \in {Claimed, Starting} =>
                \/ Head(todo) = "CLAIM"
                \/ Head(todo) = "detail"
                \/ Head(todo) = "enrich" /\ todo = Claimed
<1>1. c.kind = "START" /\ c.adapter \in {"PUTAWAY", "PICKING"}
  BY DEF Starts
<1>2. CASE todo = Claiming
  <2>1. Head(todo) = "CLAIM" /\ Tail(todo) = Claimed
    BY <1>2 DEF Claiming, Claimed
  <2>2. rest = IF row.status = "IN_PROGRESS" THEN <<>> ELSE Claimed
    BY <1>1, <2>1 DEF After
  <2> QED
    BY <2>1, <2>2 DEF StartPaths, Claiming, Claimed, Starting
<1>3. CASE todo = Claimed
  <2>1. Head(todo) = "enrich" /\ Tail(todo) = Starting
    BY <1>3 DEF Starting, Claimed
  <2>2. rest = Starting
    BY <1>1, <2>1 DEF After
  <2>3. Starting # <<>> /\ Starting # <<"enrich">>
    BY DEF Starting
  <2> QED
    BY <1>3, <2>1, <2>2, <2>3 DEF StartPaths
<1>4. CASE todo = Starting
  <2>1. Head(todo) = "START" /\ Tail(todo) = <<"enrich">>
    BY <1>4 DEF Starting
  <2>2. rest = <<"enrich">>
    BY <1>1, <2>1 DEF After
  <2> QED
    BY <2>1, <2>2 DEF StartPaths, Claiming, Claimed, Starting
<1>5. CASE todo = <<"enrich">>
  <2>1. Head(todo) = "enrich" /\ Tail(todo) = <<>>
    BY <1>5
  <2>2. rest = <<>>
    BY <1>1, <2>1 DEF After
  <2> QED
    BY <1>5, <2>1, <2>2 DEF StartPaths, Claiming, Claimed, Starting
<1>6. CASE todo = <<"own", "CLAIM", "enrich", "START", "enrich">> /\ c.adapter = "PICKING"
  <2>1. Head(todo) = "own" /\ Tail(todo) = Claiming
    BY <1>6 DEF Claiming
  <2>2. rest = Claiming
    BY <1>1, <2>1 DEF After
  <2> QED
    BY <1>6, <2>1, <2>2 DEF StartPaths, Claiming, Claimed, Starting
<1>7. CASE todo = <<"detail", "own", "CLAIM", "enrich", "START", "enrich">> /\ c.adapter = "PICKING"
  <2>1. Head(todo) = "detail" /\ Tail(todo) = <<"own", "CLAIM", "enrich", "START", "enrich">>
    BY <1>7
  <2>2. rest = IF row.status = "IN_PROGRESS" THEN <<>> ELSE Tail(todo)
    BY <1>1, <1>7, <2>1 DEF After, StartSteps
  <2> QED
    BY <1>7, <2>1, <2>2 DEF StartPaths, Claiming, Claimed, Starting
<1>8. CASE todo = <<"detail", "CLAIM", "enrich", "START", "enrich">> /\ c.adapter = "PUTAWAY"
  <2>1. /\ Head(todo) = "detail" /\ Tail(todo) = Claiming
        /\ Tail(Tail(Tail(todo))) = Starting
    BY <1>8 DEF Claiming, Starting
  <2>2. /\ row.status = "IN_PROGRESS" => rest = <<>>
        /\ row.status \in {"ASSIGNED", "CLAIMED"} => rest = Starting
        /\ row.status \notin {"IN_PROGRESS", "ASSIGNED", "CLAIMED"} => rest = Claiming
    BY <1>1, <1>8, <2>1 DEF After, StartSteps
  <2> QED
    BY <1>8, <2>1, <2>2 DEF StartPaths, Claiming, Claimed, Starting
<1> QED
  BY <1>1, <1>2, <1>3, <1>4, <1>5, <1>6, <1>7, <1>8 DEF StartPaths

LEMMA StartAhead ==
    ASSUME NEW c, Starts(c), NEW todo \in StartPaths(c)
    PROVE  Ahead(c, todo) <=> todo \notin {<<>>, <<"enrich">>}
<1>1. Decisive(c) = {"START", "unavailable", "receipt"}
  BY DEF Decisive, Promised, Starts
<1>2. ~Ahead(c, <<>>) /\ ~Ahead(c, <<"enrich">>)
  BY <1>1 DEF Ahead
<1>3. \A x, y, z, u : /\ Ahead(c, <<"START", x>>)
                      /\ Ahead(c, <<x, "START", y>>)
                      /\ Ahead(c, <<x, y, "START", z>>)
                      /\ Ahead(c, <<x, y, z, "START", u>>)
  BY <1>1 DEF Ahead
<1>4. \A x, y, z, u, v : Ahead(c, <<x, y, z, u, "START", v>>)
  BY <1>1 DEF Ahead
<1> QED
  BY <1>2, <1>3, <1>4 DEF StartPaths, Claiming, Claimed, Starting

LEMMA OtherOnward ==
    ASSUME NEW c, CommandOk(c), ~Starts(c), NEW todo, Path(c, todo), todo # <<>>, NEW row,
           NEW rest, rest = After(c, Head(todo), row, Tail(todo))
    PROVE  /\ Path(c, rest)
           /\ ~Local(c) /\ Ahead(c, todo) =>
                Ahead(c, rest) \/ Head(todo) \in Promised(c) \union {"unavailable"}
<1> DEFINE S == CASE c.adapter = "RECEIVING" /\ c.kind = "BATCH" -> {"assigned", "RECEIVE", "detail"}
                  [] c.adapter = "RECEIVING" /\ c.kind = "CONFIRM" -> Reads \union OpsOf(c)
                  [] OTHER -> (Reads \ {"receipt"}) \union OpsOf(c)
           Batch == c.adapter = "RECEIVING" /\ c.kind = "BATCH"
           Confirm == c.adapter = "RECEIVING" /\ c.kind = "CONFIRM"
<1>1. /\ \A s \in Seq(S) : Path(c, s)
      /\ todo \in Seq(S) \/ (Batch /\ todo = BatchPath)
  BY DEF Path
<1>2. /\ Batch => S = {"assigned", "RECEIVE", "detail"} /\ Promised(c) = {"CONFIRM_RECEIPT", "RECEIVE"}
      /\ Confirm => S = Reads \union {"RECORD", "CONFIRM_RECEIPT", "RECEIVE"}
                    /\ Promised(c) = {"CONFIRM_RECEIPT", "RECEIVE"}
  BY DEF OpsOf, ReceivingOps, Promised, Starts
<1>3. "receipt" \in S => Confirm
  BY OpsFacts DEF Reads
<1> HIDE DEF S
<1>4. CASE Batch /\ todo = BatchPath
  <2>1. /\ Head(todo) = "receipt" /\ Tail(todo) = <<"assigned", "RECEIVE", "detail">>
        /\ Tail(Tail(todo)) = <<"RECEIVE", "detail">>
    BY <1>4 DEF BatchPath
  <2>2. rest \in {<<"assigned", "RECEIVE", "detail">>, <<"RECEIVE", "detail">>}
    BY <1>4, <2>1 DEF After, BatchSteps
  <2>3. rest \in Seq({"assigned", "RECEIVE", "detail"})
    <3>1. <<"assigned", "RECEIVE", "detail">> \in Seq({"assigned", "RECEIVE", "detail"})
      OBVIOUS
    <3>2. <<"RECEIVE", "detail">> \in Seq({"assigned", "RECEIVE", "detail"})
      OBVIOUS
    <3> QED
      BY <2>2, <3>1, <3>2
  <2>4. Ahead(c, rest)
    BY <1>2, <1>4, <2>2 DEF Ahead, Decisive
  <2> QED
    BY <1>1, <1>2, <1>4, <2>3, <2>4
<1>5. CASE todo \in Seq(S) /\ Head(todo) = "receipt"
  <2>1. Confirm
    BY <1>3, <1>5, Rest
  <2>2. rest = ConfirmSteps(row)
    <3>1. Head(todo) = "receipt" /\ c.kind = "CONFIRM"
      BY <1>5, <2>1
    <3>2. \A tail : After(c, "receipt", row, tail) = ConfirmSteps(row)
      BY <3>1 DEF After
    <3> QED
      BY <3>1, <3>2
  <2>3. rest \in {<<"RECEIVE", "detail">>, <<"assigned", "lines", "RECORD", "CONFIRM_RECEIPT", "detail">>}
    BY <2>2 DEF ConfirmSteps
  <2>4. {"RECEIVE", "detail", "assigned", "lines", "RECORD", "CONFIRM_RECEIPT"} \subseteq S
    BY <1>2, <2>1 DEF Reads
  <2>5. rest \in Seq(S)
    <3>1. \A x, y : x \in S /\ y \in S => <<x, y>> \in Seq(S)
      OBVIOUS
    <3>2. \A x, y, z, u, v : x \in S /\ y \in S /\ z \in S /\ u \in S /\ v \in S =>
            <<x, y, z, u, v>> \in Seq(S)
      OBVIOUS
    <3> QED
      BY <2>3, <2>4, <3>1, <3>2
  <2>6. Ahead(c, rest)
    BY <1>2, <2>1, <2>3 DEF Ahead, Decisive
  <2> QED
    BY <1>1, <2>5, <2>6
<1>6. CASE todo \in Seq(S) /\ Head(todo) # "receipt"
  <2>1. rest = Tail(todo) \/ (rest = <<>> /\ c.kind = "START") \/ (c.kind = "START" /\ c.adapter = "PUTAWAY")
    BY <1>6 DEF After, StartSteps
  <2>2. c.kind = "START" => Local(c)
    BY DEF Local, CommandOk, Starts
  <2>3. rest \in Seq(S)
    <3>1. Tail(todo) \in Seq(S) /\ <<>> \in Seq(S)
      BY <1>6, Rest
    <3>2. ~(c.kind = "START" /\ c.adapter = "PUTAWAY")
      BY <2>2 DEF Local
    <3> QED
      BY <2>1, <3>1, <3>2
  <2>4. ASSUME Ahead(c, todo), rest = Tail(todo), Head(todo) \notin Decisive(c)
        PROVE  Ahead(c, rest)
    <3>1. PICK i \in DOMAIN todo : todo[i] \in Decisive(c)
      BY <2>4 DEF Ahead
    <3>2. i # 1
      BY <1>6, <2>4, <3>1, Rest
    <3>3. i - 1 \in DOMAIN rest /\ rest[i - 1] \in Decisive(c)
      BY <1>6, <2>4, <3>1, <3>2, Rest
    <3> QED
      BY <3>3 DEF Ahead
  <2> QED
    BY <1>1, <1>6, <2>1, <2>2, <2>3, <2>4 DEF Decisive, Local
<1> QED
  BY <1>1, <1>4, <1>5, <1>6

-----------------------------------------------------------------------------
(* A goroutine takes a step                                                *)

LEMMA AttemptFacts ==
    ASSUME Typed, NEW a \in Attempts
    PROVE  /\ a[1] \in Keys /\ Cmd(a) = command[a[1]] /\ CommandOk(Cmd(a))
           /\ Cmd(a).doc \in Docs /\ RowOk(rows[Cmd(a).doc])
<1>1. a[1] \in Keys /\ Cmd(a) = command[a[1]]
  BY DEF Attempts, Cmd
<1>2. CommandOk(Cmd(a))
  BY <1>1, CommandsOk DEF Typed
<1> QED
  BY <1>1, <1>2 DEF CommandOk, Typed

LEMMA OnPathStays ==
    ASSUME Typed, Kept, Advances, NEW b \in Attempts, attempt'[b] = attempt[b], OnPath(b)
    PROVE  OnPath(b)'
<1>1. b[1] \in Keys /\ Cmd(b) = command[b[1]] /\ Cmd(b).doc \in Docs
  BY AttemptFacts
<1>2. Cmd(b)' = Cmd(b) /\ command' = command /\ (base[b[1]] # 0 => base'[b[1]] # 0)
  BY <1>1 DEF Kept, Cmd
<1>3. Achieved(b[1]) => Achieved(b[1])'
  BY <1>1, <1>2, AchievedStays
<1>4. Vouched(Cmd(b).doc, attempt[b].seen, Cmd(b).operator) =>
        Vouched(Cmd(b).doc, attempt[b].seen, Cmd(b).operator)'
  <2>1. PICK d, v, o : d \in Docs /\ v \in Nat /\
          d = Cmd(b).doc /\ v = attempt[b].seen /\ o = Cmd(b).operator
    BY <1>1 DEF OnPath
  <2>2. Vouched(d, v, o) => Vouched(d, v, o)'
    BY <2>1, VouchedStays
  <2> QED
    BY <1>2, <2>1, <2>2
<1> QED
  BY <1>2, <1>3, <1>4 DEF OnPath

\* The other goroutines of a step, and what devices knew before it.
LEMMA OthersStay ==
    ASSUME Typed, Goroutines, Kept, Advances, NEW a \in Attempts, NEW t,
           attempt' = [attempt EXCEPT ![a] = t]
    PROVE  /\ attempt' = [b \in Attempts |-> attempt'[b]]
           /\ attempt'[a] = t
           /\ \A b \in Attempts : b # a => OnPath(b)'
           /\ \A k \in Keys : told[k] = "ok" /\ ~Local(command[k]) => Achieved(k)'
<1>1. /\ attempt' = [b \in Attempts |-> attempt'[b]]
      /\ attempt'[a] = t
      /\ \A b \in Attempts : b # a => attempt'[b] = attempt[b]
  BY DEF Typed
<1>2. ASSUME NEW b \in Attempts, b # a PROVE OnPath(b)'
  BY <1>1, <1>2, OnPathStays DEF Goroutines
<1>3. ASSUME NEW k \in Keys, told[k] = "ok", ~Local(command[k]) PROVE Achieved(k)'
  BY <1>3, AchievedStays DEF Goroutines, Told, Kept
<1> QED
  BY <1>1, <1>2, <1>3

LEMMA PathsEnd == ASSUME NEW c PROVE Path(c, <<>>)
<1>1. \A T : <<>> \in Seq(T)
  OBVIOUS
<1> QED
  BY <1>1 DEF Path, StartPaths

LEMMA Answers ==
    ASSUME Typed, Goroutines, Kept, Advances, NEW a \in Attempts, NEW what, NEW failed,
           Answer(a, what, failed),
           what = "ok" /\ ~Local(Cmd(a)) => Achieved(a[1])'
    PROVE  /\ Goroutines'
           /\ attempt' = [b \in Attempts |-> attempt'[b]] /\ told' = [k \in Keys |-> told'[k]]
<1>1. /\ attempt' = [attempt EXCEPT ![a] = Ended]
      /\ told' = [told EXCEPT ![a[1]] = IF told[a[1]] = "ok" THEN told[a[1]] ELSE what]
      /\ command' = command
  BY DEF Answer, Kept
<1>2. /\ attempt' = [b \in Attempts |-> attempt'[b]]
      /\ attempt'[a] = Ended
      /\ \A b \in Attempts : b # a => OnPath(b)'
      /\ \A k \in Keys : told[k] = "ok" /\ ~Local(command[k]) => Achieved(k)'
  BY <1>1, OthersStay
<1>3. a[1] \in Keys /\ Cmd(a) = command[a[1]]
  BY AttemptFacts
<1>4. /\ told' = [k \in Keys |-> told'[k]]
      /\ told'[a[1]] = "ok" => told[a[1]] = "ok" \/ what = "ok"
      /\ \A k \in Keys : k # a[1] => told'[k] = told[k]
  BY <1>1, <1>3 DEF Typed
<1>5. Told'
  BY <1>1, <1>2, <1>3, <1>4 DEF Told
<1>6. OnPath(a)'
  <2>1. attempt'[a].todo = <<>> /\ attempt'[a].seen = 0
    BY <1>2 DEF Ended
  <2>2. <<>> \notin {Claimed, Starting}
    BY DEF Claimed, Starting
  <2> QED
    BY <2>1, <2>2, PathsEnd DEF OnPath
<1> QED
  BY <1>2, <1>4, <1>5, <1>6 DEF Goroutines

\* What is left after a step that returned row is a way to the change, or the
\* change is there.
LEMMA Onward ==
    ASSUME Typed, Goroutines, Kept, Advances, NEW a \in Attempts, Busy(a), NEW row,
           row.version \in Nat, Step(a) = "lines" => row.line \in Nat,
           NEW rest, rest = After(Cmd(a), Step(a), row, Tail(attempt[a].todo)),
           NEW seen, seen = Seen(Step(a), row, attempt[a].seen),
           Step(a) # "unavailable",
           Step(a) \in Promised(Cmd(a)) => Achieved(a[1])',
           Starts(Cmd(a)) /\ Step(a) \in {"detail", "CLAIM"} =>
             /\ row.status = "IN_PROGRESS" => Achieved(a[1])'
             /\ Vouched(Cmd(a).doc, row.version, Cmd(a).operator)'
    PROVE  /\ Path(Cmd(a), rest) /\ seen \in Nat
           /\ ~Local(Cmd(a)) => Ahead(Cmd(a), rest) \/ Achieved(a[1])'
           /\ Starts(Cmd(a)) /\ rest \in {Claimed, Starting} =>
                Vouched(Cmd(a).doc, seen, Cmd(a).operator)'
<1>1. PICK c, todo, v : v \in Nat /\ c = Cmd(a) /\ todo = attempt[a].todo /\ v = attempt[a].seen
  BY DEF Goroutines, OnPath
<1>2. /\ a[1] \in Keys /\ c = command[a[1]] /\ CommandOk(c) /\ c.doc \in Docs
  BY <1>1, AttemptFacts
<1>3. /\ todo # <<>> /\ Path(c, todo) /\ Step(a) = Head(todo)
      /\ ~Local(c) => Ahead(c, todo) \/ Achieved(a[1])'
  <2>1. OnPath(a)
    BY DEF Goroutines
  <2>2. Achieved(a[1]) => Achieved(a[1])'
    BY <1>2, AchievedStays DEF Kept
  <2> QED
    BY <1>1, <2>1, <2>2 DEF OnPath, Busy, Step
<1>4. seen \in Nat
  BY <1>1 DEF Seen
<1>5. CASE Starts(c)
  <2>1. todo \in StartPaths(c)
    BY <1>3, <1>5 DEF Path, Starts
  <2>2. /\ rest \in StartPaths(c)
        /\ \/ rest \in StartPaths(c) \ {<<>>, <<"enrich">>}
           \/ Head(todo) = "START"
           \/ todo = <<"enrich">>
           \/ Head(todo) \in {"detail", "CLAIM"} /\ row.status = "IN_PROGRESS"
        /\ rest \in {Claimed, Starting} =>
             \/ Head(todo) = "CLAIM"
             \/ Head(todo) = "detail"
             \/ Head(todo) = "enrich" /\ todo = Claimed
    BY <1>1, <1>3, <1>5, <2>1, StartOnward
  <2>3. /\ Ahead(c, todo) <=> todo \notin {<<>>, <<"enrich">>}
        /\ Ahead(c, rest) <=> rest \notin {<<>>, <<"enrich">>}
    BY <1>5, <2>1, <2>2, StartAhead
  <2>4. "START" \in Promised(c) /\ ~Local(c)
    BY <1>5 DEF Promised, Starts, Local
  <2>5. Ahead(c, rest) \/ Achieved(a[1])'
    BY <1>1, <1>3, <1>5, <2>2, <2>3, <2>4
  <2>6. Path(c, rest)
    BY <1>5, <2>2 DEF Path, Starts
  <2>7. ASSUME rest \in {Claimed, Starting}
        PROVE  Vouched(Cmd(a).doc, seen, Cmd(a).operator)'
    <3>1. CASE Head(todo) \in {"detail", "CLAIM"}
      <4>1. seen = row.version
        BY <1>3, <3>1 DEF Seen
      <4> QED
        BY <1>1, <1>3, <1>5, <3>1, <4>1
    <3>2. CASE Head(todo) = "enrich" /\ todo = Claimed
      <4>1. seen = v
        BY <1>1, <1>3, <3>2 DEF Seen
      <4>2. PICK o : o = c.operator
        OBVIOUS
      <4>3. PICK d \in Docs : d = c.doc
        BY <1>2
      <4>4. Vouched(d, v, o)
        BY <1>1, <1>5, <3>2, <4>2, <4>3 DEF Goroutines, OnPath
      <4>5. Vouched(d, v, o)'
        BY <1>1, <4>4, VouchedStays
      <4>6. Cmd(a)' = c
        BY <1>1, <1>2 DEF Cmd, Kept
      <4> QED
        BY <4>1, <4>2, <4>3, <4>5, <4>6
    <3> QED
      BY <2>2, <2>7, <3>1, <3>2
  <2> QED
    BY <1>1, <1>4, <2>5, <2>6, <2>7
<1>6. CASE ~Starts(c)
  <2>1. /\ Path(c, rest)
        /\ ~Local(c) /\ Ahead(c, todo) =>
             Ahead(c, rest) \/ Head(todo) \in Promised(c) \union {"unavailable"}
    BY <1>1, <1>2, <1>3, <1>6, OtherOnward
  <2> QED
    BY <1>1, <1>3, <1>4, <1>6, <2>1
<1> QED
  BY <1>5, <1>6

LEMMA Proceeds ==
    ASSUME Typed, Goroutines, Kept, Advances, NEW a \in Attempts, Busy(a), NEW row,
           row.version \in Nat, Step(a) = "lines" => row.line \in Nat,
           Proceed(a, row),
           Step(a) \in Promised(Cmd(a)) => Achieved(a[1])',
           Starts(Cmd(a)) /\ Step(a) \in {"detail", "CLAIM"} /\ (Step(a) = "detail" => Visible(Cmd(a), row)) =>
             /\ row.status = "IN_PROGRESS" => Achieved(a[1])'
             /\ Vouched(Cmd(a).doc, row.version, Cmd(a).operator)'
    PROVE  /\ Goroutines'
           /\ attempt' = [b \in Attempts |-> attempt'[b]] /\ told' = [k \in Keys |-> told'[k]]
<1>1. CASE Answer(a, "refused", FALSE)
  BY <1>1, Answers
<1>2. CASE ~Answer(a, "refused", FALSE)
  <2>1. PICK rest, seen : /\ rest = After(Cmd(a), Step(a), row, Tail(attempt[a].todo))
                          /\ seen = Seen(Step(a), row, attempt[a].seen)
    OBVIOUS
  <2>2. /\ Continues(Cmd(a), Step(a), row, base[a[1]])
        /\ \/ rest = <<>> /\ Answer(a, "ok", FALSE)
           \/ /\ rest # <<>>
              /\ attempt' = [attempt EXCEPT ![a] = [todo |-> rest, seen |-> seen]]
              /\ told' = told /\ base' = base
    BY <1>2, <2>1 DEF Proceed
  <2>3. /\ Step(a) # "unavailable"
        /\ Step(a) = "detail" => Visible(Cmd(a), row)
    BY <2>2 DEF Continues
  <2>4. /\ Path(Cmd(a), rest) /\ seen \in Nat
        /\ ~Local(Cmd(a)) => Ahead(Cmd(a), rest) \/ Achieved(a[1])'
        /\ Starts(Cmd(a)) /\ rest \in {Claimed, Starting} =>
             Vouched(Cmd(a).doc, seen, Cmd(a).operator)'
    BY <2>1, <2>3, Onward
  <2>5. CASE rest = <<>> /\ Answer(a, "ok", FALSE)
    <3>1. ~Ahead(Cmd(a), rest)
      BY <2>5 DEF Ahead
    <3> QED
      BY <2>4, <2>5, <3>1, Answers
  <2>6. CASE /\ rest # <<>>
             /\ attempt' = [attempt EXCEPT ![a] = [todo |-> rest, seen |-> seen]]
             /\ told' = told /\ base' = base
    <3>1. /\ attempt' = [b \in Attempts |-> attempt'[b]]
          /\ attempt'[a] = [todo |-> rest, seen |-> seen]
          /\ \A b \in Attempts : b # a => OnPath(b)'
          /\ \A k \in Keys : told[k] = "ok" /\ ~Local(command[k]) => Achieved(k)'
      BY <2>6, OthersStay
    <3>2. Cmd(a)' = Cmd(a) /\ command' = command
      BY AttemptFacts DEF Cmd, Kept
    <3>3. base'[a[1]] # 0
      BY <2>6 DEF Goroutines, OnPath, Busy
    <3>4. attempt'[a].todo = rest /\ attempt'[a].seen = seen
      BY <3>1
    <3>5. OnPath(a)'
      BY <2>4, <3>2, <3>3, <3>4 DEF OnPath
    <3>6. Told'
      BY <2>6, <3>1, <3>2 DEF Told
    <3> QED
      BY <2>6, <3>1, <3>5, <3>6 DEF Goroutines, Typed
  <2> QED
    BY <2>2, <2>5, <2>6
<1> QED
  BY <1>1, <1>2

-----------------------------------------------------------------------------
(* The actions                                                             *)

LEMMA Unmoved == ASSUME Typed, UNCHANGED <<rows, effects>> PROVE Advances
  BY DEF Typed, Advances

LEMMA GoroutinesStay ==
    ASSUME Typed, Goroutines, Kept, Advances, UNCHANGED <<attempt, told>>
    PROVE  Goroutines'
<1>1. ASSUME NEW b \in Attempts PROVE OnPath(b)'
  BY OnPathStays DEF Goroutines
<1>2. ASSUME NEW k \in Keys, told'[k] = "ok", ~Local(command'[k]) PROVE Achieved(k)'
  BY <1>2, AchievedStays DEF Goroutines, Told, Kept
<1> QED
  BY <1>1, <1>2 DEF Goroutines, Told

\* What stays when documents advance and requests are proper.
LEMMA Frame ==
    ASSUME IInv, Kept, Advances, base' \in [Keys -> Nat],
           attempt' = [b \in Attempts |-> attempt'[b]], told' = [k \in Keys |-> told'[k]],
           \A r \in late' : r \in late \/ Proper(r)
    PROVE  Typed' /\ LateProper'
<1>1. Typed'
  BY DEF IInv, Typed, Kept, Advances
<1>2. ASSUME NEW r \in late' PROVE Proper(r)'
  BY <1>2, ProperStays DEF IInv, LateProper
<1> QED
  BY <1>1, <1>2 DEF LateProper

\* A step of a goroutine that leaves the owner alone.
LEMMA OwnerStays ==
    ASSUME IInv, Kept, UNCHANGED ownerVars, base' \in [Keys -> Nat], Goroutines',
           attempt' = [b \in Attempts |-> attempt'[b]], told' = [k \in Keys |-> told'[k]],
           \A r \in late' : r \in late \/ Proper(r)
    PROVE  IInv'
<1>1. Advances /\ UNCHANGED <<rows, answers, effects>>
  BY Unmoved DEF IInv, ownerVars
<1>2. Typed' /\ LateProper'
  BY <1>1, Frame
<1>3. Memory' /\ Once' /\ StartedByHolder'
  BY <1>1, MemoryStays DEF IInv
<1>4. Holders' /\ Begun'
  BY <1>1 DEF IInv, Holders, Begun
<1> QED
  BY <1>2, <1>3, <1>4 DEF IInv

LEMMA ProceedKeeps ==
    ASSUME Typed, NEW a, NEW row, Proceed(a, row)
    PROVE  command' = command /\ base' = base /\ Kept /\ base' \in [Keys -> Nat]
  BY DEF Proceed, Answer, Kept, Typed

LEMMA ReadStep == ASSUME IInv, NEW a \in Attempts, Read(a) PROVE IInv'
<1>row. PICK row : row = rows[Cmd(a).doc]
  OBVIOUS
<1>1. /\ Typed /\ Holders /\ Begun /\ Goroutines
      /\ Busy(a) /\ Step(a) \in Reads /\ Proceed(a, row)
      /\ UNCHANGED <<rows, answers, effects>> /\ UNCHANGED ownerVars /\ late' = late
  BY <1>row DEF IInv, Read, ownerVars
<1>2. Kept /\ Advances /\ command' = command /\ base' \in [Keys -> Nat]
  BY <1>1, ProceedKeeps, Unmoved
<1>3. /\ a[1] \in Keys /\ Cmd(a) = command[a[1]] /\ CommandOk(Cmd(a)) /\ Cmd(a).doc \in Docs
      /\ RowOk(row)
  BY <1>1, <1>row, AttemptFacts
<1>4. row.version \in Nat /\ row.line \in Nat
  BY <1>3 DEF RowOk
<1>5. Step(a) \notin Promised(Cmd(a))
  BY <1>1, <1>3 DEF Promised, Reads, CommandOk
<1>6. ASSUME Starts(Cmd(a)), Visible(Cmd(a), row), row.status = "IN_PROGRESS"
      PROVE  Achieved(a[1])'
  <2>1. row.operator \in {NoOperator, Cmd(a).operator} /\ Cmd(a).kind = "START" /\ "START" \in Promised(Cmd(a))
    BY <1>6 DEF Visible, Unassigned, Starts, Promised
  <2>2. \/ FirstRow[Cmd(a).doc].status = "IN_PROGRESS"
        \/ \E e \in effects : /\ e.op = "START" /\ e.doc = Cmd(a).doc
                              /\ e.by = row.operator /\ e.by # NoOperator
    BY <1>1, <1>3, <1>6, <1>row DEF Begun
  <2>3. Achieved(a[1])
    BY <1>3, <2>1, <2>2 DEF Achieved
  <2> QED
    BY <1>1, <1>2, <1>3, <2>3, AchievedStays
<1>7. ASSUME Starts(Cmd(a)), Visible(Cmd(a), row)
      PROVE  Vouched(Cmd(a).doc, row.version, Cmd(a).operator)'
  <2>1. row.operator \in {NoOperator, Cmd(a).operator}
    BY <1>7 DEF Visible, Unassigned, Starts
  <2>2. row.status = "CLAIMED" => row.operator = Cmd(a).operator
    BY <1>1, <1>3, <1>row, <2>1 DEF Holders
  <2>3. rows' = rows /\ Cmd(a)' = Cmd(a) /\ row.version <= row.version
    BY <1>1, <1>2, <1>4 DEF Cmd
  <2> QED
    BY <1>row, <2>2, <2>3 DEF Vouched
<1>8. "CLAIM" \notin Reads
  BY DEF Reads
<1>9. /\ Goroutines'
      /\ attempt' = [b \in Attempts |-> attempt'[b]] /\ told' = [k \in Keys |-> told'[k]]
  BY <1>1, <1>2, <1>4, <1>5, <1>6, <1>7, <1>8, Proceeds
<1> QED
  BY <1>1, <1>2, <1>9, OwnerStays

LEMMA CallStep == ASSUME IInv, NEW a \in Attempts, Call(a) PROVE IInv'
<1> DEFINE row == rows[Cmd(a).doc]
<1>r. PICK r : r = RequestOf(a)
  OBVIOUS
<1>n. PICK next : next = RowAfter(row, r)
  OBVIOUS
<1>1. /\ Typed /\ Holders /\ Begun /\ Memory /\ Once /\ StartedByHolder /\ Goroutines
      /\ Busy(a) /\ Step(a) \notin Reads /\ Handle(r) /\ Proceed(a, next) /\ late' = late
  BY <1>r, <1>n DEF IInv, Call
<1>2. Proper(r) /\ r.op = Step(a) /\ r.from = a[1]
  BY <1>1, <1>r, RequestProper DEF Goroutines
<1>3. Kept /\ command' = command /\ base' = base /\ base' \in [Keys -> Nat]
  BY <1>1, ProceedKeeps
<1>4. Advances /\ Holders' /\ Begun' /\ Memory' /\ Once' /\ StartedByHolder'
  BY <1>1, <1>2, <1>3, HandleAdvances, HandleOwner
<1>5. /\ a[1] \in Keys /\ Cmd(a) = command[a[1]] /\ CommandOk(Cmd(a)) /\ Cmd(a).doc \in Docs
      /\ RowOk(row)
  BY <1>1, AttemptFacts
<1>6. /\ r.doc = Cmd(a).doc /\ r.by = Cmd(a).operator
      /\ r.op \in Requests /\ r.by \in Operators /\ r.quantity \in Nat
  BY <1>1, <1>2, <1>5, ProperFacts DEF Proper
<1>7. Accepts(row, r) /\ rows' = [rows EXCEPT ![r.doc] = next]
  BY <1>1, <1>6, <1>n DEF Handle
<1>8. row.status = "CLAIMED" => row.operator # NoOperator
  BY <1>1, <1>5 DEF Holders
<1>9. /\ RowOk(next) /\ next.version \in Nat
      /\ r.op = "CLAIM" => next.status = "CLAIMED" /\ next.operator = r.by
  BY <1>5, <1>6, <1>7, <1>8, <1>n, RowAfterFacts DEF RowOk
<1>10. ASSUME Step(a) \in Promised(Cmd(a)) PROVE Achieved(a[1])'
  <2>1. PICK e \in effects' : e.op = r.op /\ e.doc = r.doc /\ e.by = r.by
    <3>1. PICK e : e = [from |-> r.from, op |-> r.op, doc |-> r.doc, by |-> r.by,
                        holder |-> row.operator, version |-> next.version]
      OBVIOUS
    <3>2. e \in effects'
      BY <1>1, <1>6, <1>n, <3>1 DEF Handle
    <3> QED
      BY <3>1, <3>2
  <2> QED
    BY <1>2, <1>3, <1>5, <1>6, <1>10, <2>1 DEF Achieved
<1>11. Step(a) # "detail"
  BY <1>1 DEF Reads
<1>12. ASSUME Step(a) = "CLAIM"
       PROVE  next.status # "IN_PROGRESS" /\ Vouched(Cmd(a).doc, next.version, Cmd(a).operator)'
  <2>1. rows'[Cmd(a).doc] = next /\ Cmd(a)' = Cmd(a) /\ next.version <= next.version
    BY <1>1, <1>3, <1>5, <1>6, <1>7, <1>9 DEF Typed, Cmd
  <2> QED
    BY <1>2, <1>6, <1>9, <1>12, <2>1 DEF Vouched
<1>13. Step(a) # "lines"
  BY <1>1 DEF Reads
<1>14. /\ Goroutines'
       /\ attempt' = [b \in Attempts |-> attempt'[b]] /\ told' = [k \in Keys |-> told'[k]]
  BY <1>1, <1>3, <1>4, <1>9, <1>10, <1>11, <1>12, <1>13, Proceeds
<1>15. Typed' /\ LateProper'
  BY <1>1, <1>3, <1>4, <1>14, Frame
<1> QED
  BY <1>4, <1>14, <1>15 DEF IInv

\* The owner recognises a request: it is the one that took effect.
LEMMA KnownIsDone ==
    ASSUME Typed, Memory, NEW r, Proper(r), NEW x \in Known(r)
    PROVE  /\ x.row.version \in Nat
           /\ \E e \in effects :
                /\ e.op = r.op /\ e.doc = r.doc /\ (e.op # "VERIFY" => e.by = r.by)
                /\ r.op = "CLAIM" => x.row.status = "CLAIMED" /\ Vouched(r.doc, x.row.version, r.by)
<1>1. x \in answers /\ x.key = r.key
  BY DEF Known
<1>2. PICK e \in effects :
        /\ e.op # "SCAN" /\ x.key = KeyOf(e.from, e.op)
        /\ e.op = "CLAIM" => x.row.status = "CLAIMED" /\ Vouched(e.doc, x.row.version, e.by)
  BY <1>1 DEF Memory, Done
<1>3. /\ e.from \in Keys /\ e.op \in OpsOf(command[e.from])
      /\ e.doc = command[e.from].doc /\ e.by = command[e.from].operator
  BY DEF Memory, Remembered
<1>4. /\ r.from \in Keys /\ r.op \in OpsOf(command[r.from])
      /\ r.doc = command[r.from].doc /\ r.by = command[r.from].operator
      /\ r.key = IF r.op = "SCAN" THEN NoKey ELSE KeyOf(r.from, r.op)
  BY DEF Proper
<1>5. KeyOf(e.from, e.op) # NoKey
  BY <1>3, KeyIsKey
<1>6. KeyOf(r.from, r.op) = KeyOf(e.from, e.op)
  BY <1>1, <1>2, <1>4, <1>5
<1>7. /\ r.op = e.op
      /\ r.from = e.from \/ (r.op = "VERIFY" /\ command[r.from].doc = command[e.from].doc)
  BY <1>3, <1>4, <1>6, KeysApart
<1>8. x.row.version \in Nat
  BY <1>1 DEF Memory, Done
<1>9. e.doc = r.doc /\ (e.op # "VERIFY" => e.by = r.by)
  BY <1>3, <1>4, <1>7
<1>10. r.op = "CLAIM" => x.row.status = "CLAIMED" /\ Vouched(r.doc, x.row.version, r.by)
  BY <1>2, <1>7, <1>9
<1> QED
  BY <1>7, <1>8, <1>9, <1>10

LEMMA ReplayedStep == ASSUME IInv, NEW a \in Attempts, Replayed(a) PROVE IInv'
<1>r. PICK r : r = RequestOf(a)
  OBVIOUS
<1>1. /\ Typed /\ Memory /\ Goroutines /\ Busy(a) /\ Step(a) \notin Reads
      /\ UNCHANGED <<rows, answers, effects>> /\ UNCHANGED ownerVars /\ late' = late
      /\ \/ \E x \in Known(r) : Proceed(a, x.row)
         \/ AlreadyPosted(rows[Cmd(a).doc], r) /\ Proceed(a, rows[Cmd(a).doc])
  BY <1>r DEF IInv, Replayed, ownerVars
<1>2. Proper(r) /\ r.op = Step(a) /\ r.from = a[1]
  BY <1>1, <1>r, RequestProper DEF Goroutines
<1>3. Kept /\ command' = command /\ base' \in [Keys -> Nat]
  BY <1>1, ProceedKeeps
<1>4. Advances
  BY <1>1, Unmoved
<1>5. /\ a[1] \in Keys /\ Cmd(a) = command[a[1]] /\ CommandOk(Cmd(a)) /\ Cmd(a).doc \in Docs
      /\ RowOk(rows[Cmd(a).doc])
  BY <1>1, AttemptFacts
<1>6. /\ r.doc = Cmd(a).doc /\ r.by = Cmd(a).operator /\ r.quantity = Cmd(a).quantity
      /\ r.op \in OpsOf(Cmd(a)) /\ Cmd(a)' = Cmd(a)
  BY <1>2, <1>3, <1>5 DEF Proper, Cmd
<1>7. Step(a) # "detail" /\ Step(a) # "lines"
  BY <1>1 DEF Reads
<1> DEFINE Good == /\ Goroutines'
                   /\ attempt' = [b \in Attempts |-> attempt'[b]]
                   /\ told' = [k \in Keys |-> told'[k]]
<1>8. ASSUME NEW x \in Known(r), Proceed(a, x.row) PROVE Good
  <2>1. PICK row : row = x.row
    OBVIOUS
  <2>2. /\ row.version \in Nat
        /\ \E e \in effects :
             /\ e.op = r.op /\ e.doc = r.doc /\ (e.op # "VERIFY" => e.by = r.by)
             /\ r.op = "CLAIM" => row.status = "CLAIMED" /\ Vouched(r.doc, row.version, r.by)
    BY <1>1, <1>2, <2>1, KnownIsDone
  <2>3. Step(a) \in Promised(Cmd(a)) => Achieved(a[1])
    BY <1>2, <1>5, <1>6, <2>2 DEF Achieved
  <2>4. Step(a) \in Promised(Cmd(a)) => Achieved(a[1])'
    BY <1>1, <1>3, <1>4, <1>5, <2>3, AchievedStays
  <2>5. Step(a) = "CLAIM" =>
          row.status = "CLAIMED" /\ Vouched(Cmd(a).doc, row.version, Cmd(a).operator)'
    BY <1>1, <1>2, <1>6, <2>2 DEF Vouched
  <2> QED
    BY <1>1, <1>3, <1>4, <1>7, <1>8, <2>1, <2>2, <2>4, <2>5, Proceeds
<1>9. ASSUME AlreadyPosted(rows[Cmd(a).doc], r), Proceed(a, rows[Cmd(a).doc]) PROVE Good
  <2>1. PICK row : row = rows[Cmd(a).doc]
    OBVIOUS
  <2>2. /\ r.op = "RECEIVE" /\ row.status = "CONFIRMED" /\ row.quantity = Cmd(a).quantity
        /\ row.version \in Nat
    BY <1>5, <1>6, <1>9, <2>1 DEF AlreadyPosted, RowOk
  <2>3. Cmd(a).adapter = "RECEIVING" /\ Cmd(a).kind \in {"CONFIRM", "BATCH"}
    BY <1>5, <1>6, <2>2, OpsFacts
  <2>4. Achieved(a[1])
    BY <1>5, <2>1, <2>2, <2>3 DEF Achieved
  <2>5. Achieved(a[1])'
    BY <1>1, <1>3, <1>4, <1>5, <2>4, AchievedStays
  <2>6. Step(a) # "CLAIM"
    BY <1>2, <2>2
  <2> QED
    BY <1>1, <1>3, <1>4, <1>7, <1>9, <2>1, <2>2, <2>5, <2>6, Proceeds
<1>10. Good
  BY <1>1, <1>8, <1>9
<1> QED
  BY <1>1, <1>3, <1>10, OwnerStays

\* A goroutine ends without success.
LEMMA FailedStep ==
    ASSUME IInv, NEW a \in Attempts, Refused(a) \/ GiveUp(a) \/ OwnerUnavailable(a)
    PROVE  IInv'
<1>1. /\ Typed /\ Goroutines /\ Busy(a) /\ UNCHANGED ownerVars
      /\ Answer(a, "refused", FALSE) \/ Answer(a, "error", FALSE) \/ Answer(a, "error", TRUE)
      /\ late' = late \/ (Step(a) \notin Reads /\ late' = late \union {RequestOf(a)})
  BY DEF IInv, Refused, GiveUp, OwnerUnavailable
<1>2. /\ command' = command /\ base' = base /\ Kept /\ base' \in [Keys -> Nat]
  BY <1>1 DEF Answer, Kept, Typed
<1>3. Advances
  BY <1>1, Unmoved DEF ownerVars
<1>4. /\ Goroutines'
      /\ attempt' = [b \in Attempts |-> attempt'[b]] /\ told' = [k \in Keys |-> told'[k]]
  <2>1. PICK what, failed : what # "ok" /\ Answer(a, what, failed)
    BY <1>1
  <2> QED
    BY <1>1, <1>2, <1>3, <2>1, Answers
<1>5. Step(a) \notin Reads => Proper(RequestOf(a))
  BY <1>1, RequestProper DEF Goroutines
<1>6. \A r \in late' : r \in late \/ Proper(r)
  BY <1>1, <1>5
<1> QED
  BY <1>1, <1>2, <1>4, <1>6, OwnerStays

LEMMA LateStep == ASSUME IInv, NEW r \in late, Late(r) PROVE IInv'
<1>1. /\ Typed /\ Holders /\ Begun /\ Memory /\ Once /\ StartedByHolder /\ Goroutines
      /\ Proper(r) /\ Handle(r)
      /\ UNCHANGED <<attempt, told, base, command>> /\ \A x \in late' : x \in late
  BY DEF IInv, Late, LateProper
<1>2. Kept /\ base' \in [Keys -> Nat]
  BY <1>1 DEF Kept, Typed
<1>3. Advances /\ Holders' /\ Begun' /\ Memory' /\ Once' /\ StartedByHolder'
  BY <1>1, HandleAdvances, HandleOwner
<1>4. Goroutines'
  BY <1>1, <1>2, <1>3, GoroutinesStay
<1>5. attempt' = [b \in Attempts |-> attempt'[b]] /\ told' = [k \in Keys |-> told'[k]]
  BY <1>1 DEF Typed
<1>6. Typed' /\ LateProper'
  BY <1>1, <1>2, <1>3, <1>5, Frame
<1> QED
  BY <1>3, <1>4, <1>6 DEF IInv

LEMMA RegivenStep ==
    ASSUME IInv, NEW d \in {command[k].doc : k \in Keys},
           LeaseExpires(d) \/ \E o \in Operators : Reassign(d, o)
    PROVE  IInv'
<1>1. /\ Typed /\ Holders /\ Begun /\ Memory /\ Once /\ StartedByHolder /\ Goroutines
      /\ UNCHANGED <<answers, effects, late, attempt, told, base, command>>
  BY DEF IInv, LeaseExpires, Reassign
<1>2. d \in Docs
  BY <1>1, CommandsOk DEF Typed, CommandOk
<1>3. Kept /\ Advances /\ Holders' /\ Begun'
  BY <1>1, <1>2, RegivenOwner
<1>4. Memory' /\ Once' /\ StartedByHolder' /\ Goroutines'
  BY <1>1, <1>3, MemoryStays, GoroutinesStay
<1>5. /\ attempt' = [b \in Attempts |-> attempt'[b]] /\ told' = [k \in Keys |-> told'[k]]
      /\ base' \in [Keys -> Nat]
  BY <1>1 DEF Typed
<1>6. Typed' /\ LateProper'
  BY <1>1, <1>3, <1>5, Frame
<1> QED
  BY <1>3, <1>4, <1>6 DEF IInv

\* The steps of a command lead to the change it promises.
LEMMA StepsLead ==
    ASSUME NEW c, CommandOk(c)
    PROVE  /\ Path(c, Steps(c))
           /\ ~Local(c) => Ahead(c, Steps(c))
           /\ Starts(c) => Steps(c) \notin {Claimed, Starting}
<1> DEFINE T == (Reads \ {"receipt"}) \union OpsOf(c)
<1>1. \A x, y, z : x \in T /\ y \in T /\ z \in T =>
        <<x>> \in Seq(T) /\ <<x, y>> \in Seq(T) /\ <<x, y, z>> \in Seq(T)
  <2> HIDE DEF T
  <2> QED
    OBVIOUS
<1>2. CASE Starts(c)
  <2>1. \/ /\ c.adapter = "PUTAWAY"
           /\ Steps(c) = <<"detail", "CLAIM", "enrich", "START", "enrich">>
        \/ /\ c.adapter = "PICKING"
           /\ Steps(c) = <<"detail", "own", "CLAIM", "enrich", "START", "enrich">>
    BY <1>2 DEF Starts, Steps, PutawaySteps, PickingSteps, Unavailable
  <2>2. Steps(c) \in StartPaths(c)
    BY <2>1 DEF StartPaths
  <2>3. Steps(c) \notin {<<>>, <<"enrich">>, Claimed, Starting}
    BY <2>1 DEF Claimed, Starting
  <2>4. Ahead(c, Steps(c))
    BY <1>2, <2>2, <2>3, StartAhead
  <2> QED
    BY <1>2, <2>2, <2>3, <2>4 DEF Path, Starts
<1>3. CASE c.adapter = "RECEIVING"
  <2>1. CASE c.kind = "BATCH"
    <3>1. Steps(c) = BatchPath
      BY <1>3, <2>1 DEF Steps, ReceivingSteps, BatchPath
    <3>2. Ahead(c, BatchPath)
      BY DEF Ahead, Decisive, BatchPath
    <3> QED
      BY <1>3, <2>1, <3>1, <3>2 DEF Path, Starts
  <2>2. CASE c.kind = "CONFIRM"
    <3>1. Steps(c) = <<"receipt">>
      BY <1>3, <2>2 DEF Steps, ReceivingSteps
    <3>2. Ahead(c, <<"receipt">>)
      BY DEF Ahead, Decisive
    <3>3. "receipt" \in Reads \union OpsOf(c)
      BY DEF Reads
    <3>4. \A S, x : x \in S => <<x>> \in Seq(S)
      OBVIOUS
    <3>5. <<"receipt">> \in Seq(Reads \union OpsOf(c))
      BY <3>3, <3>4
    <3> QED
      BY <1>3, <2>2, <3>1, <3>2, <3>5 DEF Path, Starts
  <2>3. CASE c.kind = "CLAIM"
    <3>1. Steps(c) = <<"CLAIM_RECEIPT", "detail">> /\ Promised(c) = {"CLAIM_RECEIPT"}
      BY <1>3, <2>3 DEF Steps, ReceivingSteps, Promised
    <3>2. "CLAIM_RECEIPT" \in T /\ "detail" \in T
      BY <1>3, <2>3 DEF OpsOf, ReceivingOps, Starts, Reads
    <3>3. Ahead(c, <<"CLAIM_RECEIPT", "detail">>)
      BY <3>1 DEF Ahead, Decisive
    <3>4. Path(c, Steps(c))
      BY <1>1, <1>3, <2>3, <3>1, <3>2 DEF Path, Starts
    <3> QED
      BY <1>3, <3>1, <3>3, <3>4 DEF Starts
  <2>4. CASE c.kind \in {"START", "COMPLETE"}
    <3>1. Steps(c) \in {<<"start">>, <<"detail">>} /\ Local(c)
      BY <1>3, <2>4 DEF Steps, ReceivingSteps, Local
    <3>2. "start" \in T /\ "detail" \in T
      BY DEF Reads
    <3>3. Path(c, Steps(c))
      BY <1>1, <1>3, <2>4, <3>1, <3>2 DEF Path, Starts
    <3> QED
      BY <1>3, <3>1, <3>3 DEF Starts
  <2> QED
    BY <1>3, <2>1, <2>2, <2>3, <2>4 DEF CommandOk
<1>4. CASE c.adapter # "RECEIVING" /\ ~Starts(c)
  <2>1. Promised(c) = {c.kind} /\ c.kind \in T
    BY <1>4 DEF Promised, OpsOf
  <2>2. {"unavailable", "own", "enrich", "detail"} \subseteq T
    BY DEF Reads
  <2>3. Steps(c) \in {<<"unavailable">>, <<c.kind>>, <<c.kind, "enrich">>, <<c.kind, "detail">>,
                      <<"own", c.kind, "enrich">>, <<"detail", c.kind, "detail">>}
    BY <1>4 DEF Steps, CommandOk, Starts, Unavailable, PutawaySteps, PickingSteps,
                ReplenishmentSteps, TaskSteps, CountSteps, TransferSteps, ShippingSteps
  <2>4. Steps(c) \in Seq(T)
    <3> HIDE DEF T
    <3> QED
      BY <1>1, <2>1, <2>2, <2>3
  <2>5. \A x, y, k : k \in Decisive(c) =>
          /\ Ahead(c, <<k>>) /\ Ahead(c, <<k, x>>) /\ Ahead(c, <<x, k, y>>)
    BY DEF Ahead
  <2>6. c.kind \in Decisive(c) /\ "unavailable" \in Decisive(c)
    BY <2>1 DEF Decisive
  <2>7. Ahead(c, Steps(c))
    BY <2>3, <2>5, <2>6
  <2> QED
    BY <1>4, <2>4, <2>7 DEF Path
<1> QED
  BY <1>2, <1>3, <1>4

LEMMA AdmitStep == ASSUME IInv, NEW a \in Attempts, Admit(a) PROVE IInv'
<1>1. /\ Typed /\ Goroutines /\ UNCHANGED ownerVars /\ UNCHANGED <<late, told, command>>
      /\ attempt' = [attempt EXCEPT ![a] = [todo |-> Steps(Cmd(a)), seen |-> 0]]
      /\ base' = [base EXCEPT ![a[1]] = IF base[a[1]] = 0 THEN rows[Cmd(a).doc].version
                                        ELSE base[a[1]]]
  BY DEF IInv, Admit, Cmd
<1>2. /\ a[1] \in Keys /\ Cmd(a) = command[a[1]] /\ CommandOk(Cmd(a)) /\ Cmd(a).doc \in Docs
      /\ rows[Cmd(a).doc].version \in Nat \ {0}
  BY <1>1, AttemptFacts DEF RowOk
<1>3. base' \in [Keys -> Nat] /\ base'[a[1]] # 0 /\ Kept
  BY <1>1, <1>2 DEF Typed, Kept
<1>4. Advances
  BY <1>1, Unmoved DEF ownerVars
<1>5. /\ attempt' = [b \in Attempts |-> attempt'[b]]
      /\ attempt'[a] = [todo |-> Steps(Cmd(a)), seen |-> 0]
      /\ \A b \in Attempts : b # a => OnPath(b)'
      /\ \A k \in Keys : told[k] = "ok" /\ ~Local(command[k]) => Achieved(k)'
  BY <1>1, <1>3, <1>4, OthersStay
<1>6. /\ Path(Cmd(a), Steps(Cmd(a)))
      /\ ~Local(Cmd(a)) => Ahead(Cmd(a), Steps(Cmd(a)))
      /\ Starts(Cmd(a)) => Steps(Cmd(a)) \notin {Claimed, Starting}
  BY <1>2, StepsLead
<1>7. Cmd(a)' = Cmd(a) /\ attempt'[a].todo = Steps(Cmd(a)) /\ attempt'[a].seen = 0
  BY <1>1, <1>5 DEF Cmd
<1>8. OnPath(a)'
  BY <1>3, <1>6, <1>7 DEF OnPath
<1>9. Goroutines' /\ told' = [k \in Keys |-> told'[k]]
  BY <1>1, <1>5, <1>8 DEF Goroutines, Told, Typed
<1> QED
  BY <1>1, <1>3, <1>5, <1>9, OwnerStays

-----------------------------------------------------------------------------
(* The theorems                                                            *)

LEMMA Initially == Init => IInv
<1> SUFFICES ASSUME Init PROVE IInv
  OBVIOUS
<1>1. command \in [Keys -> CommandType]
  BY GatewayAssumption DEF Init
<1>2. ASSUME NEW d \in Docs
      PROVE  RowOk(rows[d]) /\ (rows[d].status = "CLAIMED" => rows[d].operator # NoOperator)
  <2>1. FirstRow[d] \in Row /\ FirstRow[d].version > 0
    BY GatewayAssumption
  <2>2. rows[d] = FirstRow[d]
    BY DEF Init
  <2> QED
    BY <2>1, <2>2, GatewayAssumption DEF RowOk, Row
<1>3. rows = [d \in Docs |-> rows[d]]
  BY GatewayAssumption DEF Init
<1>4. Typed /\ Holders
  BY <1>1, <1>2, <1>3 DEF Typed, Holders, Init
<1>5. Begun /\ Memory /\ Once /\ StartedByHolder /\ LateProper
  BY DEF Init, Begun, Memory, Once, StartedByHolder, LateProper
<1>6. ASSUME NEW a \in Attempts PROVE OnPath(a)
  <2>1. attempt[a].todo = <<>> /\ attempt[a].seen = 0
    BY DEF Init, Ended
  <2>2. <<>> \notin {Claimed, Starting}
    BY DEF Claimed, Starting
  <2> QED
    BY <2>1, <2>2, PathsEnd DEF OnPath
<1>7. Told
  BY DEF Init, Told
<1> QED
  BY <1>4, <1>5, <1>6, <1>7 DEF IInv, Goroutines

LEMMA Inductive == IInv /\ [Next]_vars => IInv'
<1> SUFFICES ASSUME IInv, [Next]_vars PROVE IInv'
  OBVIOUS
<1>1. ASSUME NEW a \in Attempts, Admit(a) \/ Serve(a) \/ GiveUp(a) \/ OwnerUnavailable(a)
      PROVE  IInv'
  BY <1>1, AdmitStep, ReadStep, CallStep, ReplayedStep, FailedStep DEF Serve
<1>2. ASSUME NEW r \in late, Late(r) PROVE IInv'
  BY <1>2, LateStep
<1>3. ASSUME NEW d \in {command[k].doc : k \in Keys},
             LeaseExpires(d) \/ \E o \in Operators : Reassign(d, o)
      PROVE  IInv'
  BY <1>3, RegivenStep
<1>4. CASE Tick \/ UNCHANGED vars
  <2>1. UNCHANGED <<command, rows, answers, effects, late, attempt, told, base>>
    BY <1>4 DEF Tick, vars, ownerVars
  <2>2. Typed /\ Goroutines
    BY DEF IInv
  <2>3. Kept /\ Advances /\ base' \in [Keys -> Nat] /\ UNCHANGED ownerVars
    BY <2>1, <2>2, Unmoved DEF Kept, Typed, ownerVars
  <2>4. Goroutines'
    BY <2>1, <2>2, <2>3, GoroutinesStay
  <2>5. attempt' = [b \in Attempts |-> attempt'[b]] /\ told' = [k \in Keys |-> told'[k]]
    BY <2>1, <2>2 DEF Typed
  <2> QED
    BY <2>1, <2>3, <2>4, <2>5, OwnerStays
<1> QED
  BY <1>1, <1>2, <1>3, <1>4 DEF Next

LEMMA AlwaysIInv == Spec => []IInv
  BY Initially, Inductive, PTL DEF Spec

\* However the attempts of movement.go's Start overlap, whoever claims or is
\* given the task between its read and its request, and however late the
\* request arrives: the owner starts the task only for who holds it.
THEOREM StartsAreHeld == Spec => []StartedByHolder
<1>1. IInv => StartedByHolder
  BY DEF IInv
<1> QED
  BY <1>1, AlwaysIInv, PTL

\* For any number of commands, retried and overlapping: under the keys that
\* client.go puts on its requests the owner makes each change of a command once,
\* and a device is told of success only if the change it asked for is there.
THEOREM AnswersAreApplied == Spec => []AnsweredIsApplied
<1>1. IInv => AnsweredIsApplied
  BY DEF IInv, Once, Goroutines, Told, AnsweredIsApplied
<1> QED
  BY <1>1, AlwaysIInv, PTL
=============================================================================
