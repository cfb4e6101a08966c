------------------------ MODULE IntegrationRelayProofs ------------------------
(***************************************************************************)
(* Proofs about IntegrationRelay, for every finite set of replicas, every  *)
(* outbox, batch size and bound on attempts, and any number of faults.     *)
(***************************************************************************)
EXTENDS IntegrationRelay, FiniteSetTheorems, TLAPS

Entry == [row : Rows, attempts : Nat]
Steps == {"write", "mark", "failed", "retire"}

\* The shape of the state.
Typed ==
    /\ created \in 0 .. Len(Key)
    /\ retired \subseteq 1 .. created
    /\ available \subseteq 1 .. created
    /\ dead \subseteq 1 .. created
    /\ attempts \in [Rows -> Nat]
    /\ topic \in [Keys -> Seq(Rows)]
    /\ \A k \in Keys : \A n \in DOMAIN topic[k] : topic[k][n] \in 1 .. created
    /\ relay \in [Relays -> [batch : Seq(Entry), step : Steps]]
    /\ \A w \in Relays : \A n \in DOMAIN relay[w].batch : relay[w].batch[n].row \in 1 .. created
    /\ faults \in 0 .. MaxFaults

\* What a batch is: of different rows, claimed as often as the batch says, and
\* at its first row until that row is done.
Batches ==
    \A w \in Relays :
        /\ relay[w].batch = <<>> => relay[w].step = "write"
        /\ \A m, n \in DOMAIN relay[w].batch :
               relay[w].batch[m].row = relay[w].batch[n].row => m = n
        /\ \A n \in DOMAIN relay[w].batch :
               relay[w].batch[n].attempts <= attempts[relay[w].batch[n].row]

\* How a step changes one replica.
Loads(w, order) ==
    /\ relay[w].batch = <<>>
    /\ order \in Seq(Rows)
    /\ \A m, n \in DOMAIN order : order[m] = order[n] => m = n
    /\ \A n \in DOMAIN order : order[n] \in available \ retired
    /\ attempts' = [i \in Rows |-> IF \E n \in DOMAIN order : order[n] = i
                                   THEN attempts[i] + 1 ELSE attempts[i]]
    /\ relay' = [relay EXCEPT ![w].batch =
           [n \in DOMAIN order |-> [row |-> order[n], attempts |-> attempts[order[n]] + 1]]]
    /\ UNCHANGED <<created, retired, available, topic, dead, faults>>

LEMMA RowsAre ==
    /\ Rows = 1 .. Len(Key) /\ Len(Key) \in Nat
    /\ \A i \in Rows : Key[i] \in Keys
<1>1. Key \in Seq(STRING)
  BY RelayAssumption
<1>2. Rows = 1 .. Len(Key) /\ Len(Key) \in Nat
  BY <1>1 DEF Rows
<1> QED
  BY <1>2 DEF Keys

\* A claim loads a batch of different rows that are due.
LEMMA ClaimLoads ==
    ASSUME Typed, NEW w \in Relays, ClaimSome(w)
    PROVE  \E order : Loads(w, order)
<1>1. PICK skipped \in SUBSET Rows, order \in UNION {[1 .. n -> Rows] : n \in 1 .. BatchSize} :
          Claim(w, skipped, order)
  BY DEF ClaimSome
<1> DEFINE pending == (available \ retired) \ skipped
           claimed == Oldest(pending)
<1>2. /\ relay[w].batch = <<>>
      /\ order \in SetToSeqs(claimed)
      /\ attempts' = [i \in Rows |-> IF i \in claimed THEN attempts[i] + 1 ELSE attempts[i]]
      /\ relay' = [relay EXCEPT ![w].batch =
             [n \in DOMAIN order |-> [row |-> order[n], attempts |-> attempts[order[n]] + 1]]]
      /\ UNCHANGED <<created, retired, available, topic, dead, faults>>
  BY <1>1 DEF Claim
<1>3. order \in Seq(Rows)
  <2>1. PICK k \in 1 .. BatchSize : order \in [1 .. k -> Rows]
    OBVIOUS
  <2>2. k \in Nat
    BY <2>1, RelayAssumption
  <2> QED
    BY <2>1, <2>2
<1>4. claimed \subseteq available \ retired /\ claimed \subseteq Rows
  <2>1. claimed \subseteq pending
    BY DEF Oldest
  <2>2. available \subseteq Rows
    BY RowsAre DEF Typed
  <2> QED
    BY <2>1, <2>2
<1>5. IsFiniteSet(claimed)
  <2>1. IsFiniteSet(Rows)
    BY RowsAre, FS_Interval
  <2> QED
    BY <1>4, <2>1, FS_Subset
<1> HIDE DEF claimed
<1>6. /\ DOMAIN order = 1 .. Cardinality(claimed)
      /\ \A n \in DOMAIN order : order[n] \in claimed
      /\ \A m, n \in DOMAIN order : order[m] = order[n] => m = n
  BY <1>2 DEF SetToSeqs
<1>7. \A i \in claimed : \E n \in DOMAIN order : order[n] = i
  <2>1. Cardinality(claimed) \in Nat
    BY <1>5, FS_CardinalityType
  <2>2. IsFiniteSet(1 .. Cardinality(claimed))
        /\ Cardinality(1 .. Cardinality(claimed)) = Cardinality(claimed)
    BY <2>1, FS_Interval
  <2>3. order \in Injection(1 .. Cardinality(claimed), claimed)
    BY <1>2 DEF SetToSeqs, Injection, IsInjective
  <2>4. order \in Surjection(1 .. Cardinality(claimed), claimed)
    BY <1>5, <2>2, <2>3, FS_Injection
  <2> QED
    BY <1>6, <2>4 DEF Surjection
<1>8. \A i : i \in claimed <=> \E n \in DOMAIN order : order[n] = i
  BY <1>6, <1>7
<1>9. attempts' = [i \in Rows |-> IF \E n \in DOMAIN order : order[n] = i
                                  THEN attempts[i] + 1 ELSE attempts[i]]
  BY <1>2, <1>8
<1>10. \A n \in DOMAIN order : order[n] \in available \ retired
  BY <1>4, <1>6
<1>11. Loads(w, order)
  BY <1>2, <1>3, <1>6, <1>9, <1>10, Zenon DEF Loads
<1> QED
  BY <1>11

\* The other replicas stay as they are.
Others(w) == \A v \in Relays \ {w} : relay'[v] = relay[v]

\* The state of a replica after each kind of step.
LEMMA AfterLoad ==
    ASSUME Typed, Batches, NEW w \in Relays, NEW order, Loads(w, order)
    PROVE  /\ Others(w)
           /\ relay' \in [Relays -> [batch : Seq(Entry), step : Steps]]
           /\ DOMAIN relay'[w].batch = DOMAIN order
           /\ \A n \in DOMAIN order : /\ relay'[w].batch[n].row = order[n]
                                      /\ relay'[w].batch[n].attempts = attempts[order[n]] + 1
           /\ relay'[w].step = "write"
<1> DEFINE new == [n \in DOMAIN order |-> [row |-> order[n], attempts |-> attempts[order[n]] + 1]]
<1>1. relay \in [Relays -> [batch : Seq(Entry), step : Steps]] /\ attempts \in [Rows -> Nat]
  BY DEF Typed
<1>2. order \in Seq(Rows) /\ relay' = [relay EXCEPT ![w].batch = new] /\ relay[w].batch = <<>>
  BY DEF Loads
<1>3. new \in Seq(Entry) /\ DOMAIN new = DOMAIN order
  <2>1. \A n \in DOMAIN order : order[n] \in Rows /\ attempts[order[n]] + 1 \in Nat
    BY <1>1, <1>2
  <2>2. \A n \in DOMAIN order : [row |-> order[n], attempts |-> attempts[order[n]] + 1] \in Entry
    BY <2>1 DEF Entry
  <2>3. Len(order) \in Nat /\ DOMAIN order = 1 .. Len(order)
    BY <1>2
  <2>4. new \in [1 .. Len(order) -> Entry]
    BY <2>2, <2>3
  <2> QED
    BY <2>3, <2>4
<1>4. \A n \in DOMAIN order : new[n].row = order[n] /\ new[n].attempts = attempts[order[n]] + 1
  OBVIOUS
<1>5. relay[w].step = "write"
  BY <1>2 DEF Batches
<1> HIDE DEF new
<1>6. relay'[w].batch = new /\ relay'[w].step = "write"
  BY <1>1, <1>2, <1>5
<1>7. relay' \in [Relays -> [batch : Seq(Entry), step : Steps]] /\ Others(w)
  BY <1>1, <1>2, <1>3 DEF Others
<1> QED
  BY <1>3, <1>4, <1>6, <1>7

LEMMA AfterGoTo ==
    ASSUME Typed, NEW w \in Relays, NEW s \in Steps, GoTo(w, s)
    PROVE  /\ Others(w)
           /\ relay' \in [Relays -> [batch : Seq(Entry), step : Steps]]
           /\ relay'[w].batch = relay[w].batch /\ relay'[w].step = s
  BY DEF Typed, GoTo, Others

\* The items behind the head, once the head is done.
LEMMA AfterNext ==
    ASSUME Typed, NEW w \in Relays, NextItem(w), relay[w].batch # <<>>
    PROVE  /\ Others(w)
           /\ relay' \in [Relays -> [batch : Seq(Entry), step : Steps]]
           /\ Len(relay[w].batch) \in Nat \ {0}
           /\ DOMAIN relay[w].batch = 1 .. Len(relay[w].batch)
           /\ DOMAIN relay'[w].batch = 1 .. (Len(relay[w].batch) - 1)
           /\ \A n \in 1 .. (Len(relay[w].batch) - 1) : relay'[w].batch[n] = relay[w].batch[n + 1]
           /\ relay'[w].step = "write"
<1>1. relay \in [Relays -> [batch : Seq(Entry), step : Steps]]
  BY DEF Typed
<1>2. relay[w].batch \in Seq(Entry)
  BY <1>1
<1>3. /\ Tail(relay[w].batch) \in Seq(Entry)
      /\ Len(relay[w].batch) \in Nat \ {0}
      /\ DOMAIN relay[w].batch = 1 .. Len(relay[w].batch)
      /\ DOMAIN Tail(relay[w].batch) = 1 .. (Len(relay[w].batch) - 1)
      /\ \A n \in 1 .. (Len(relay[w].batch) - 1) : Tail(relay[w].batch)[n] = relay[w].batch[n + 1]
  BY <1>2
<1>4. relay' = [relay EXCEPT ![w] = [batch |-> Tail(relay[w].batch), step |-> "write"]]
  BY DEF NextItem
<1>5. relay'[w].batch = Tail(relay[w].batch) /\ relay'[w].step = "write" /\ Others(w)
  BY <1>1, <1>4 DEF Others
<1>6. "write" \in Steps
  BY DEF Steps
<1>7. relay' \in [Relays -> [batch : Seq(Entry), step : Steps]]
  BY <1>1, <1>3, <1>4, <1>6
<1> QED
  BY <1>3, <1>5, <1>7

LEMMA AfterAbandon ==
    ASSUME Typed, NEW w \in Relays, Abandon(w)
    PROVE  /\ Others(w)
           /\ relay' \in [Relays -> [batch : Seq(Entry), step : Steps]]
           /\ relay'[w].batch = <<>> /\ relay'[w].step = "write"
  BY DEF Typed, Abandon, Resting, Others, Steps

\* The row at the head of a batch.
LEMMA ItemTyped ==
    ASSUME Typed, NEW w \in Relays, relay[w].batch # <<>>
    PROVE  /\ Item(w) = relay[w].batch[1] /\ 1 \in DOMAIN relay[w].batch
           /\ Item(w).row \in Rows /\ Item(w).row \in 1 .. created /\ Item(w).attempts \in Nat
           /\ Key[Item(w).row] \in Keys
<1>1. relay[w].batch \in Seq(Entry)
  BY DEF Typed
<1>2. 1 \in DOMAIN relay[w].batch /\ Item(w) = relay[w].batch[1] /\ Item(w) \in Entry
  BY <1>1 DEF Item
<1>3. Item(w).row \in Rows /\ Item(w).attempts \in Nat
  BY <1>2 DEF Entry
<1>4. Item(w).row \in 1 .. created
  BY <1>2 DEF Typed
<1> QED
  BY <1>2, <1>3, <1>4, RowsAre

\* What a write leaves in the partition of the row: it grows, by n copies.
Grows(i, n) ==
    /\ topic' \in [Keys -> Seq(Rows)]
    /\ \A k \in Keys \ {Key[i]} : topic'[k] = topic[k]
    /\ Len(topic'[Key[i]]) = Len(topic[Key[i]]) + n
    /\ \A m \in 1 .. Len(topic[Key[i]]) : topic'[Key[i]][m] = topic[Key[i]][m]
    /\ \A m \in (Len(topic[Key[i]]) + 1) .. (Len(topic[Key[i]]) + n) : topic'[Key[i]][m] = i

LEMMA WrittenGrows ==
    ASSUME Typed, NEW w \in Relays, relay[w].batch # <<>>, NEW n \in Nat, topic' = Written(w, n)
    PROVE  Grows(Item(w).row, n)
<1> DEFINE i == Item(w).row
           k == Key[i]
           more == [m \in 1 .. n |-> i]
<1>1. i \in Rows /\ k \in Keys
  BY ItemTyped
<1>2. topic \in [Keys -> Seq(Rows)] /\ topic[k] \in Seq(Rows)
  BY <1>1 DEF Typed
<1>3. more \in Seq(Rows) /\ Len(more) = n /\ \A m \in 1 .. n : more[m] = i
  BY <1>1
<1>4. topic' = [topic EXCEPT ![k] = topic[k] \o more]
  BY DEF Written
<1> HIDE DEF more, k
<1>5. /\ topic[k] \o more \in Seq(Rows)
      /\ Len(topic[k] \o more) = Len(topic[k]) + n
      /\ \A m \in 1 .. Len(topic[k]) : (topic[k] \o more)[m] = topic[k][m]
      /\ \A m \in (Len(topic[k]) + 1) .. (Len(topic[k]) + n) : (topic[k] \o more)[m] = i
  <2>1. ASSUME NEW a \in Seq(Rows), NEW b \in Seq(Rows), Len(b) = n, \A m \in 1 .. n : b[m] = i
        PROVE  /\ a \o b \in Seq(Rows)
               /\ Len(a \o b) = Len(a) + n
               /\ \A m \in 1 .. Len(a) : (a \o b)[m] = a[m]
               /\ \A m \in (Len(a) + 1) .. (Len(a) + n) : (a \o b)[m] = i
    <3>1. a \o b \in Seq(Rows) /\ Len(a \o b) = Len(a) + n /\ Len(a) \in Nat
      BY <2>1
    <3>2. \A m \in 1 .. Len(a) : (a \o b)[m] = a[m]
      BY <2>1
    <3>3. \A m \in (Len(a) + 1) .. (Len(a) + n) : m - Len(a) \in 1 .. n
                                                  /\ (a \o b)[m] = b[m - Len(a)]
      BY <2>1, <3>1
    <3> QED
      BY <2>1, <3>1, <3>2, <3>3
  <2> QED
    BY <1>2, <1>3, <2>1
<1>6. topic'[k] = topic[k] \o more /\ \A l \in Keys \ {k} : topic'[l] = topic[l]
  BY <1>1, <1>2, <1>4
<1>7. topic' \in [Keys -> Seq(Rows)]
  BY <1>1, <1>2, <1>4, <1>5
<1> QED
  BY <1>5, <1>6, <1>7 DEF Grows, k

-----------------------------------------------------------------------------
(* Types and batches                                                       *)

\* A call of the writer leaves n copies, at least one if it succeeds.
Wrote(w, n, s) ==
    /\ AtStep(w, "write")
    /\ n \in 0 .. WriterAttempts
    /\ s \in {"mark", "failed"} /\ (s = "mark" => n >= 1)
    /\ Grows(Item(w).row, n)
    /\ GoTo(w, s)
    /\ faults' \in faults .. MaxFaults
    /\ UNCHANGED <<created, retired, available, attempts, dead>>

\* A statement that ends the work on a row.
Done(w) ==
    /\ relay[w].batch # <<>> /\ relay[w].step # "write"
    /\ NextItem(w)
    /\ available' \subseteq available
    /\ \/ retired' = retired \union {Item(w).row} /\ relay[w].step \in {"mark", "retire"}
       \/ retired' = retired /\ Item(w).attempts < MaxAttempts
    /\ UNCHANGED <<created, attempts, topic, dead, faults>>

LEMMA WriteWrote ==
    ASSUME Typed, NEW w \in Relays, Write(w)
    PROVE  \E n, s : Wrote(w, n, s)
<1>1. WriterAttempts \in Nat /\ MaxFaults \in Nat /\ faults \in Nat
  BY RelayAssumption DEF Typed
<1>2. CASE WriteSucceeds(w)
  <2>1. PICK n \in 1 .. WriterAttempts : topic' = Written(w, n) /\ LostAcks(n - 1)
    BY <1>2 DEF WriteSucceeds
  <2>2. n \in Nat /\ n >= 1 /\ n \in 0 .. WriterAttempts
    BY <1>1
  <2>3. faults' \in faults .. MaxFaults
    BY <1>1, <2>1, <2>2 DEF LostAcks
  <2>4. Grows(Item(w).row, n)
    BY <1>2, <2>1, <2>2, WrittenGrows DEF WriteSucceeds, AtStep
  <2>5. Wrote(w, n, "mark")
    BY <1>2, <2>2, <2>3, <2>4 DEF WriteSucceeds, Wrote
  <2> QED
    BY <2>5
<1>3. CASE WriteFails(w)
  <2>1. PICK n \in 0 .. WriterAttempts : topic' = Written(w, n) /\ LostAcks(n)
    BY <1>3 DEF WriteFails
  <2>2. n \in Nat
    BY <1>1
  <2>3. faults' \in faults .. MaxFaults
    BY <1>1, <2>1, <2>2 DEF LostAcks
  <2>4. Grows(Item(w).row, n)
    BY <1>3, <2>1, <2>2, WrittenGrows DEF WriteFails, AtStep
  <2>5. Wrote(w, n, "failed")
    BY <1>3, <2>2, <2>3, <2>4 DEF WriteFails, Wrote
  <2> QED
    BY <2>5
<1> QED
  BY <1>2, <1>3 DEF Write

LEMMA MarkDone ==
    ASSUME Typed, NEW w \in Relays, MarkPublished(w) \/ Retire(w) \/ Backoff(w)
    PROVE  Done(w)
  BY DEF MarkPublished, Retire, Backoff, Done, AtStep

\* Grown partitions hold rows that were inserted.
LEMMA TopicTyped ==
    ASSUME Typed, NEW i \in Rows, i \in 1 .. created, NEW n \in Nat, Grows(i, n)
    PROVE  \A k \in Keys : \A m \in DOMAIN topic'[k] : topic'[k][m] \in 1 .. created
<1> SUFFICES ASSUME NEW k \in Keys, NEW m \in DOMAIN topic'[k]
             PROVE  topic'[k][m] \in 1 .. created
  OBVIOUS
<1>1. topic[k] \in Seq(Rows) /\ topic'[k] \in Seq(Rows)
  BY DEF Typed, Grows
<1>2. Len(topic[k]) \in Nat /\ DOMAIN topic[k] = 1 .. Len(topic[k])
      /\ DOMAIN topic'[k] = 1 .. Len(topic'[k])
  BY <1>1
<1>3. CASE k # Key[i]
  BY <1>3 DEF Typed, Grows
<1>4. CASE k = Key[i]
  <2>1. \/ m \in 1 .. Len(topic[k])
        \/ m \in (Len(topic[k]) + 1) .. (Len(topic[k]) + n)
    BY <1>2, <1>4 DEF Grows
  <2> QED
    BY <1>2, <1>4, <2>1 DEF Typed, Grows
<1> QED
  BY <1>3, <1>4

\* Every step is of one of seven sorts.
LEMMA StepSorts ==
    ASSUME Typed, Next
    PROVE  \/ Insert \/ \E i \in Rows : BackoffEnds(i)
           \/ \E w \in Relays : \/ \E order : Loads(w, order)
                                \/ \E n, s : Wrote(w, n, s)
                                \/ DeadLetter(w) \/ Done(w) \/ Abandon(w)
<1>1. ASSUME NEW w \in Relays, ClaimSome(w) \/ Write(w) \/ Mark(w) \/ Abandon(w)
      PROVE  \/ \E order : Loads(w, order)
             \/ \E n, s : Wrote(w, n, s)
             \/ DeadLetter(w) \/ Done(w) \/ Abandon(w)
  <2>1. CASE ClaimSome(w)
    BY <2>1, ClaimLoads
  <2>2. CASE Write(w)
    BY <2>2, WriteWrote
  <2>3. CASE Mark(w)
    BY <2>3, MarkDone DEF Mark
  <2> QED
    BY <1>1, <2>1, <2>2, <2>3
<1> QED
  BY <1>1 DEF Next

\* The rows of the batches and the counts in them, where one replica changes
\* and the claims do not become fewer.
OneBatch(w) ==
    /\ relay'[w].batch = <<>> => relay'[w].step = "write"
    /\ \A m, n \in DOMAIN relay'[w].batch :
           relay'[w].batch[m].row = relay'[w].batch[n].row => m = n
    /\ \A n \in DOMAIN relay'[w].batch :
           /\ relay'[w].batch[n].attempts <= attempts'[relay'[w].batch[n].row]
           /\ relay'[w].batch[n].row \in 1 .. created

LEMMA OneBatchEnough ==
    ASSUME Typed, Batches, NEW w \in Relays, Others(w), OneBatch(w), created' = created,
           \A i \in Rows : attempts'[i] \in Nat /\ attempts'[i] >= attempts[i]
    PROVE  /\ Batches'
           /\ \A v \in Relays : \A n \in DOMAIN relay'[v].batch : relay'[v].batch[n].row \in 1 .. created'
<1>1. ASSUME NEW v \in Relays
      PROVE  /\ relay'[v].batch = <<>> => relay'[v].step = "write"
             /\ \A m, n \in DOMAIN relay'[v].batch :
                    relay'[v].batch[m].row = relay'[v].batch[n].row => m = n
             /\ \A n \in DOMAIN relay'[v].batch :
                    /\ relay'[v].batch[n].attempts <= attempts'[relay'[v].batch[n].row]
                    /\ relay'[v].batch[n].row \in 1 .. created
  <2>1. CASE v = w
    BY <2>1 DEF OneBatch
  <2>2. CASE v # w
    <3>1. relay'[v] = relay[v]
      BY <2>2 DEF Others
    <3>2. ASSUME NEW n \in DOMAIN relay[v].batch
          PROVE  /\ relay[v].batch[n].attempts <= attempts'[relay[v].batch[n].row]
                 /\ relay[v].batch[n].row \in 1 .. created
      <4>1. relay[v].batch \in Seq(Entry)
        BY DEF Typed
      <4>2. relay[v].batch[n] \in Entry
        BY <4>1
      <4>3. relay[v].batch[n].row \in Rows /\ relay[v].batch[n].attempts \in Nat
        BY <4>2 DEF Entry
      <4>4. relay[v].batch[n].attempts <= attempts[relay[v].batch[n].row]
            /\ attempts[relay[v].batch[n].row] \in Nat
        BY <4>3 DEF Batches, Typed
      <4> QED
        BY <4>3, <4>4 DEF Typed
    <3> QED
      BY <3>1, <3>2 DEF Batches
  <2> QED
    BY <2>1, <2>2
<1> QED
  BY <1>1 DEF Batches

LEMMA LoadTyped ==
    ASSUME Typed, Batches, NEW w \in Relays, NEW order, Loads(w, order)
    PROVE  Typed' /\ Batches'
<1>1. /\ Others(w)
      /\ relay' \in [Relays -> [batch : Seq(Entry), step : Steps]]
      /\ DOMAIN relay'[w].batch = DOMAIN order
      /\ \A n \in DOMAIN order : /\ relay'[w].batch[n].row = order[n]
                                 /\ relay'[w].batch[n].attempts = attempts[order[n]] + 1
      /\ relay'[w].step = "write"
  BY AfterLoad
<1>2. /\ attempts' \in [Rows -> Nat]
      /\ \A i \in Rows : attempts'[i] \in Nat /\ attempts'[i] >= attempts[i]
      /\ \A n \in DOMAIN order : attempts'[order[n]] = attempts[order[n]] + 1
  <2>1. attempts \in [Rows -> Nat] /\ \A n \in DOMAIN order : order[n] \in Rows
    BY DEF Typed, Loads
  <2>2. attempts' = [i \in Rows |-> IF \E n \in DOMAIN order : order[n] = i
                                    THEN attempts[i] + 1 ELSE attempts[i]]
    BY DEF Loads
  <2>3. attempts' \in [Rows -> Nat]
    BY <2>1, <2>2
  <2>4. \A i \in Rows : attempts'[i] = attempts[i] + 1 \/ attempts'[i] = attempts[i]
    BY <2>2
  <2>5. \A n \in DOMAIN order : attempts'[order[n]] = attempts[order[n]] + 1
    BY <2>1, <2>2
  <2> QED
    BY <2>1, <2>3, <2>4, <2>5
<1>3. OneBatch(w)
  <2>1. \A m, n \in DOMAIN order : order[m] = order[n] => m = n
    BY DEF Loads
  <2>2. \A n \in DOMAIN order : order[n] \in 1 .. created /\ attempts[order[n]] \in Nat
    BY RowsAre DEF Loads, Typed
  <2> QED
    BY <1>1, <1>2, <2>1, <2>2 DEF OneBatch
<1>4. UNCHANGED <<created, retired, available, topic, dead, faults>>
  BY DEF Loads
<1>5. Batches' /\ \A v \in Relays : \A n \in DOMAIN relay'[v].batch : relay'[v].batch[n].row \in 1 .. created'
  BY <1>1, <1>2, <1>3, <1>4, OneBatchEnough
<1> QED
  BY <1>1, <1>2, <1>4, <1>5 DEF Typed

LEMMA WroteTyped ==
    ASSUME Typed, Batches, NEW w \in Relays, NEW n, NEW s, Wrote(w, n, s)
    PROVE  Typed' /\ Batches'
<1>1. relay[w].batch # <<>> /\ n \in Nat /\ s \in Steps
  BY RelayAssumption DEF Wrote, AtStep, Steps
<1>2. Item(w).row \in Rows /\ Item(w).row \in 1 .. created
  BY <1>1, ItemTyped
<1>3. /\ topic' \in [Keys -> Seq(Rows)]
      /\ \A k \in Keys : \A m \in DOMAIN topic'[k] : topic'[k][m] \in 1 .. created
  BY <1>1, <1>2, TopicTyped DEF Wrote, Grows
<1>4. /\ Others(w)
      /\ relay' \in [Relays -> [batch : Seq(Entry), step : Steps]]
      /\ relay'[w].batch = relay[w].batch
  BY <1>1, AfterGoTo DEF Wrote
<1>5. UNCHANGED <<created, retired, available, attempts, dead>> /\ faults' \in 0 .. MaxFaults
  BY RelayAssumption DEF Wrote, Typed
<1>6. \A i \in Rows : attempts'[i] \in Nat /\ attempts'[i] >= attempts[i]
  BY <1>5 DEF Typed
<1>7. OneBatch(w)
  BY <1>1, <1>4, <1>5 DEF OneBatch, Batches, Typed
<1>8. Batches' /\ \A v \in Relays : \A m \in DOMAIN relay'[v].batch : relay'[v].batch[m].row \in 1 .. created'
  BY <1>4, <1>5, <1>6, <1>7, OneBatchEnough
<1> QED
  BY <1>3, <1>4, <1>5, <1>8 DEF Typed

LEMMA DeadLetterTyped ==
    ASSUME Typed, Batches, NEW w \in Relays, DeadLetter(w)
    PROVE  Typed' /\ Batches'
<1>1. relay[w].batch # <<>> /\ "retire" \in Steps
  BY DEF DeadLetter, AtStep, Steps
<1>2. Item(w).row \in 1 .. created
  BY <1>1, ItemTyped
<1>3. /\ Others(w)
      /\ relay' \in [Relays -> [batch : Seq(Entry), step : Steps]]
      /\ relay'[w].batch = relay[w].batch
  BY <1>1, AfterGoTo DEF DeadLetter
<1>4. UNCHANGED <<created, retired, available, attempts, topic, faults>>
      /\ dead' = dead \union {Item(w).row}
  BY DEF DeadLetter
<1>5. \A i \in Rows : attempts'[i] \in Nat /\ attempts'[i] >= attempts[i]
  BY <1>4 DEF Typed
<1>6. OneBatch(w)
  BY <1>1, <1>3, <1>4 DEF OneBatch, Batches, Typed
<1>7. Batches' /\ \A v \in Relays : \A m \in DOMAIN relay'[v].batch : relay'[v].batch[m].row \in 1 .. created'
  BY <1>3, <1>4, <1>5, <1>6, OneBatchEnough
<1> QED
  BY <1>2, <1>3, <1>4, <1>7 DEF Typed

LEMMA DoneTyped ==
    ASSUME Typed, Batches, NEW w \in Relays, Done(w) \/ Abandon(w)
    PROVE  Typed' /\ Batches'
<1>1. relay[w].batch # <<>>
  BY DEF Done, Abandon
<1>2. Item(w).row \in 1 .. created
  BY <1>1, ItemTyped
<1>3. /\ UNCHANGED <<created, attempts, topic, dead>>
      /\ available' \subseteq available /\ retired' \subseteq retired \union {Item(w).row}
      /\ faults' \in 0 .. MaxFaults
  BY RelayAssumption DEF Done, Abandon, Typed
<1>4. \A i \in Rows : attempts'[i] \in Nat /\ attempts'[i] >= attempts[i]
  BY <1>3 DEF Typed
<1>5. /\ Others(w)
      /\ relay' \in [Relays -> [batch : Seq(Entry), step : Steps]]
      /\ OneBatch(w)
  <2>1. CASE Abandon(w)
    <3>1. /\ Others(w)
          /\ relay' \in [Relays -> [batch : Seq(Entry), step : Steps]]
          /\ relay'[w].batch = <<>> /\ relay'[w].step = "write"
      BY <2>1, AfterAbandon
    <3> QED
      BY <3>1 DEF OneBatch
  <2>2. CASE Done(w)
    <3> DEFINE L == Len(relay[w].batch)
    <3>1. /\ Others(w)
          /\ relay' \in [Relays -> [batch : Seq(Entry), step : Steps]]
          /\ L \in Nat \ {0}
          /\ DOMAIN relay[w].batch = 1 .. L
          /\ DOMAIN relay'[w].batch = 1 .. (L - 1)
          /\ \A n \in 1 .. (L - 1) : relay'[w].batch[n] = relay[w].batch[n + 1]
          /\ relay'[w].step = "write"
      BY <1>1, <2>2, AfterNext DEF Done
    <3> HIDE DEF L
    <3>2. \A n \in 1 .. (L - 1) : n + 1 \in 1 .. L
      BY <3>1
    <3>3. \A m, n \in 1 .. (L - 1) : relay'[w].batch[m].row = relay'[w].batch[n].row => m = n
      <4> SUFFICES ASSUME NEW m \in 1 .. (L - 1), NEW n \in 1 .. (L - 1),
                          relay'[w].batch[m].row = relay'[w].batch[n].row
                   PROVE  m = n
        OBVIOUS
      <4>1. m + 1 = n + 1
        BY <3>1, <3>2 DEF Batches
      <4> QED
        BY <3>1, <4>1
    <3>4. \A n \in 1 .. (L - 1) : /\ relay'[w].batch[n].attempts <= attempts'[relay'[w].batch[n].row]
                                  /\ relay'[w].batch[n].row \in 1 .. created
      BY <1>3, <3>1, <3>2 DEF Batches, Typed
    <3> QED
      BY <3>1, <3>3, <3>4 DEF OneBatch
  <2> QED
    BY <2>1, <2>2
<1>6. Batches' /\ \A v \in Relays : \A m \in DOMAIN relay'[v].batch : relay'[v].batch[m].row \in 1 .. created'
  BY <1>3, <1>4, <1>5, OneBatchEnough
<1> QED
  BY <1>2, <1>3, <1>5, <1>6 DEF Typed

LEMMA OutboxTyped ==
    ASSUME Typed, Batches, Insert \/ \E i \in Rows : BackoffEnds(i)
    PROVE  Typed' /\ Batches'
<1>1. CASE Insert
  <2>1. /\ created < Len(Key) /\ created' = created + 1
        /\ available' = available \union {created + 1}
        /\ UNCHANGED <<retired, attempts, topic, dead, relay, faults>>
    BY <1>1 DEF Insert
  <2>2. created' \in 0 .. Len(Key) /\ 1 .. created \subseteq 1 .. created' /\ created + 1 \in 1 .. created'
    BY <2>1, RowsAre DEF Typed
  <2> QED
    BY <2>1, <2>2 DEF Typed, Batches
<1>2. CASE \E i \in Rows : BackoffEnds(i)
  <2>1. PICK i \in Rows : BackoffEnds(i)
    BY <1>2
  <2> QED
    BY <2>1 DEF BackoffEnds, Typed, Batches
<1> QED
  BY <1>1, <1>2

LEMMA TypingInit == Init => Typed /\ Batches
<1> SUFFICES ASSUME Init PROVE Typed /\ Batches
  OBVIOUS
<1>1. Resting \in [batch : Seq(Entry), step : Steps] /\ Resting.batch = <<>> /\ Resting.step = "write"
  BY DEF Resting, Steps
<1>2. Typed
  BY <1>1, RowsAre, RelayAssumption DEF Init, Typed
<1>3. Batches
  BY <1>1 DEF Init, Batches
<1> QED
  BY <1>2, <1>3

LEMMA TypingStep == Typed /\ Batches /\ [Next]_vars => Typed' /\ Batches'
<1> SUFFICES ASSUME Typed, Batches, [Next]_vars PROVE Typed' /\ Batches'
  OBVIOUS
<1>1. CASE UNCHANGED vars
  BY <1>1 DEF vars, Typed, Batches
<1>2. CASE Next
  BY <1>2, StepSorts, LoadTyped, WroteTyped, DeadLetterTyped, DoneTyped, OutboxTyped
<1> QED
  BY <1>1, <1>2

\* The tables and the batches hold rows that were inserted.
THEOREM TypeCorrect == Spec => []TypeOK
<1>1. Typed => TypeOK
  BY DEF Typed, TypeOK, Held, Steps
<1> QED
  BY <1>1, TypingInit, TypingStep, PTL DEF Spec

-----------------------------------------------------------------------------
(* Retired rows are accounted for                                          *)

\* What a replica knows of the row at the head of its batch: it is in Kafka
\* before it is marked, and in the dead-letter table before it is retired.
HeadAccounted(w) ==
    /\ AtStep(w, "mark") => Published(Item(w).row)
    /\ AtStep(w, "retire") => Item(w).row \in dead

Accounted == RetiredIsAccounted /\ \A w \in Relays : HeadAccounted(w)

\* Messages stay in Kafka, and those just written are there.
LEMMA GrownIsPublished ==
    ASSUME Typed, NEW i \in Rows, NEW n \in Nat, Grows(i, n)
    PROVE  /\ \A j \in Rows : Published(j) => Published(j)'
           /\ n >= 1 => Published(i)'
<1>1. \A k \in Keys : /\ topic[k] \in Seq(Rows) /\ topic'[k] \in Seq(Rows)
                      /\ Len(topic[k]) \in Nat
                      /\ DOMAIN topic[k] = 1 .. Len(topic[k])
                      /\ DOMAIN topic'[k] = 1 .. Len(topic'[k])
  BY DEF Typed, Grows
<1>2. Key[i] \in Keys
  BY RowsAre
<1>3. ASSUME NEW j \in Rows, Published(j) PROVE Published(j)'
  <2>1. Key[j] \in Keys
    BY RowsAre
  <2>2. PICK m \in DOMAIN topic[Key[j]] : topic[Key[j]][m] = j
    BY <1>3 DEF Published
  <2>3. m \in DOMAIN topic'[Key[j]] /\ topic'[Key[j]][m] = j
    <3>1. CASE Key[j] = Key[i]
      <4>1. /\ Len(topic'[Key[i]]) = Len(topic[Key[i]]) + n
            /\ \A l \in 1 .. Len(topic[Key[i]]) : topic'[Key[i]][l] = topic[Key[i]][l]
        BY DEF Grows
      <4>2. m \in 1 .. Len(topic[Key[i]]) /\ topic[Key[i]][m] = j
        BY <1>1, <1>2, <2>2, <3>1
      <4>3. m \in 1 .. Len(topic'[Key[i]]) /\ topic'[Key[i]][m] = j
        BY <1>1, <1>2, <4>1, <4>2
      <4> QED
        BY <1>1, <1>2, <3>1, <4>3
    <3>2. CASE Key[j] # Key[i]
      BY <2>1, <2>2, <3>2 DEF Grows
    <3> QED
      BY <3>1, <3>2
  <2> QED
    BY <2>3 DEF Published
<1>4. ASSUME n >= 1 PROVE Published(i)'
  <2>1. Len(topic[Key[i]]) + n \in DOMAIN topic'[Key[i]]
        /\ topic'[Key[i]][Len(topic[Key[i]]) + n] = i
    BY <1>1, <1>2, <1>4 DEF Grows
  <2> QED
    BY <2>1 DEF Published
<1> QED
  BY <1>3, <1>4

\* The other replicas' knowledge stays true.
LEMMA HeadsStay ==
    ASSUME Typed, Accounted, NEW w \in Relays, Others(w), HeadAccounted(w)', dead \subseteq dead',
           \A j \in Rows : Published(j) => Published(j)'
    PROVE  \A v \in Relays : HeadAccounted(v)'
<1> SUFFICES ASSUME NEW v \in Relays, v # w PROVE HeadAccounted(v)'
  OBVIOUS
<1>1. relay'[v] = relay[v]
  BY DEF Others
<1>2. (AtStep(v, "mark")' <=> AtStep(v, "mark")) /\ (AtStep(v, "retire")' <=> AtStep(v, "retire"))
      /\ Item(v)' = Item(v)
  BY <1>1 DEF AtStep, Item
<1>3. AtStep(v, "mark") \/ AtStep(v, "retire") => Item(v).row \in Rows
  BY ItemTyped DEF AtStep
<1>4. HeadAccounted(v)
  BY DEF Accounted
<1> QED
  BY <1>2, <1>3, <1>4 DEF HeadAccounted

LEMMA AccountedNext ==
    ASSUME Typed, Batches, Accounted, Next
    PROVE  Accounted'
<1>1. retired \subseteq Rows
  BY RowsAre DEF Typed
<1>2. CASE Insert \/ \E i \in Rows : BackoffEnds(i)
  <2>1. UNCHANGED <<retired, topic, dead, relay>>
    BY <1>2 DEF Insert, BackoffEnds
  <2> QED
    BY <2>1 DEF Accounted, RetiredIsAccounted, HeadAccounted, Published, AtStep, Item
<1>3. ASSUME NEW w \in Relays, UNCHANGED topic, dead' = dead,
             Others(w), relay'[w].step = "write", retired' = retired
      PROVE  Accounted'
  <2>1. HeadAccounted(w)'
    BY <1>3 DEF HeadAccounted, AtStep
  <2>2. \A j \in Rows : Published(j) => Published(j)'
    BY <1>3 DEF Published
  <2>3. \A v \in Relays : HeadAccounted(v)'
    BY <1>3, <2>1, <2>2, HeadsStay
  <2> QED
    BY <1>1, <1>3, <2>2, <2>3 DEF Accounted, RetiredIsAccounted
<1>4. ASSUME NEW w \in Relays, NEW order, Loads(w, order) PROVE Accounted'
  <2>1. Others(w) /\ relay'[w].step = "write"
    BY <1>4, AfterLoad
  <2>2. UNCHANGED topic /\ dead' = dead /\ retired' = retired
    BY <1>4 DEF Loads
  <2> QED
    BY <1>3, <2>1, <2>2
<1>5. ASSUME NEW w \in Relays, Abandon(w) PROVE Accounted'
  <2>1. Others(w) /\ relay'[w].step = "write"
    BY <1>5, AfterAbandon
  <2>2. UNCHANGED topic /\ dead' = dead /\ retired' = retired
    BY <1>5 DEF Abandon
  <2> QED
    BY <1>3, <2>1, <2>2
<1>6. ASSUME NEW w \in Relays, NEW n, NEW s, Wrote(w, n, s) PROVE Accounted'
  <2>1. relay[w].batch # <<>> /\ n \in Nat /\ s \in Steps /\ s \in {"mark", "failed"}
        /\ (s = "mark" => n >= 1)
    BY <1>6, RelayAssumption DEF Wrote, AtStep, Steps
  <2>2. PICK i \in Rows : i = Item(w).row
    BY <2>1, ItemTyped
  <2>3. /\ \A j \in Rows : Published(j) => Published(j)'
        /\ n >= 1 => Published(i)'
    BY <1>6, <2>1, <2>2, GrownIsPublished DEF Wrote
  <2>4. Others(w) /\ relay'[w].batch = relay[w].batch /\ relay'[w].step = s
    BY <1>6, <2>1, AfterGoTo DEF Wrote
  <2>5. dead' = dead /\ retired' = retired
    BY <1>6 DEF Wrote
  <2>6. HeadAccounted(w)'
    BY <2>1, <2>2, <2>3, <2>4 DEF HeadAccounted, AtStep, Item, Published
  <2>7. \A v \in Relays : HeadAccounted(v)'
    BY <2>3, <2>4, <2>5, <2>6, HeadsStay
  <2> QED
    BY <1>1, <2>3, <2>5, <2>7 DEF Accounted, RetiredIsAccounted
<1>7. ASSUME NEW w \in Relays, DeadLetter(w) PROVE Accounted'
  <2>1. /\ relay[w].batch # <<>> /\ "retire" \in Steps
        /\ dead' = dead \union {Item(w).row} /\ UNCHANGED <<retired, topic>>
    BY <1>7 DEF DeadLetter, AtStep, Steps
  <2>2. Others(w) /\ relay'[w].batch = relay[w].batch /\ relay'[w].step = "retire"
    BY <1>7, <2>1, AfterGoTo DEF DeadLetter
  <2>3. HeadAccounted(w)'
    BY <2>1, <2>2 DEF HeadAccounted, AtStep, Item
  <2>4. \A j \in Rows : Published(j) => Published(j)'
    BY <2>1 DEF Published
  <2>5. \A v \in Relays : HeadAccounted(v)'
    BY <2>1, <2>2, <2>3, <2>4, HeadsStay
  <2> QED
    BY <1>1, <2>1, <2>4, <2>5 DEF Accounted, RetiredIsAccounted
<1>8. ASSUME NEW w \in Relays, Done(w) PROVE Accounted'
  <2>1. relay[w].batch # <<>> /\ UNCHANGED <<topic, dead>>
    BY <1>8 DEF Done
  <2>2. Others(w) /\ relay'[w].step = "write"
    BY <1>8, <2>1, AfterNext DEF Done
  <2>3. HeadAccounted(w)'
    BY <2>2 DEF HeadAccounted, AtStep
  <2>4. Item(w).row \in Rows
    BY <2>1, ItemTyped
  <2>5. \A j \in Rows : Published(j) => Published(j)'
    BY <2>1 DEF Published
  <2>6. \A v \in Relays : HeadAccounted(v)'
    BY <2>1, <2>2, <2>3, <2>5, HeadsStay
  <2>7. ASSUME NEW i \in retired' PROVE Published(i) \/ i \in dead
    <3>1. CASE i \in retired
      BY <3>1 DEF Accounted, RetiredIsAccounted
    <3>2. CASE i = Item(w).row /\ relay[w].step \in {"mark", "retire"}
      BY <2>1, <3>2 DEF Accounted, HeadAccounted, AtStep
    <3> QED
      BY <1>8, <3>1, <3>2 DEF Done
  <2>8. retired' \subseteq Rows
    BY <1>1, <1>8, <2>4 DEF Done
  <2> QED
    BY <2>1, <2>5, <2>6, <2>7, <2>8 DEF Accounted, RetiredIsAccounted
<1> QED
  BY <1>2, <1>4, <1>5, <1>6, <1>7, <1>8, StepSorts

\* Retiring a row never loses the fact: a row that the relay will not look at
\* again (RunOnce's published_at IS NULL) is in Kafka or in the dead-letter
\* table, however many replicas worked on it and wherever they crashed.
THEOREM RetiredIsKept == Spec => []RetiredIsAccounted
<1>1. Init => Accounted
  BY DEF Init, Resting, Accounted, RetiredIsAccounted, HeadAccounted, AtStep
<1>2. Typed /\ Batches /\ Accounted /\ [Next]_vars => Accounted'
  <2>1. Accounted /\ UNCHANGED vars => Accounted'
    BY DEF vars, Accounted, RetiredIsAccounted, HeadAccounted, Published, AtStep, Item
  <2> QED
    BY <2>1, AccountedNext
<1>3. Accounted => RetiredIsAccounted
  BY DEF Accounted
<1> QED
  BY <1>1, <1>2, <1>3, TypingInit, TypingStep, PTL DEF Spec

-----------------------------------------------------------------------------
(* Redelivery is bounded                                                   *)

\* Replicas whose batch has row i still to be written.
UnwrittenBy(w, i) ==
    \E n \in DOMAIN relay[w].batch :
        relay[w].batch[n].row = i /\ (n > 1 \/ relay[w].step = "write")
Unwritten(i) == {w \in Relays : UnwrittenBy(w, i)}

\* Replicas for which this is the last attempt at row i.
LastTryBy(w, i) ==
    \E n \in DOMAIN relay[w].batch :
        relay[w].batch[n].row = i /\ relay[w].batch[n].attempts >= MaxAttempts
LastTry(i) == {w \in Relays : LastTryBy(w, i)}

\* A claim pays for one call of the writer, which may still be to come.
CopiesPaid ==
    \A i \in Rows : Copies(i) + WriterAttempts * Cardinality(Unwritten(i)) <= WriterAttempts * attempts[i]

\* A claim that counts to MaxAttempts or more is held by a replica, or was
\* dropped, or retired the row.
ClaimsCounted ==
    \A i \in Rows :
        /\ i \notin retired => attempts[i] < MaxAttempts + Cardinality(LastTry(i)) + faults
        /\ attempts[i] < MaxAttempts + Cardinality(Relays) + MaxFaults

DeadAreSpent == \A i \in dead : attempts[i] >= MaxAttempts

\* Two sets that differ in one element at most.
LEMMA OneApart ==
    ASSUME NEW S, NEW T, IsFiniteSet(S), NEW w, T \ {w} = S \ {w}
    PROVE  /\ IsFiniteSet(T) /\ Cardinality(S) \in Nat /\ Cardinality(T) \in Nat
           /\ (w \in S <=> w \in T) => T = S
           /\ w \notin S /\ w \in T => Cardinality(T) = Cardinality(S) + 1
           /\ w \in S /\ w \notin T => Cardinality(S) = Cardinality(T) + 1
<1>1. IsFiniteSet(S \ {w}) /\ IsFiniteSet(S \cup {w})
  BY FS_RemoveElement, FS_AddElement
<1>2. T \subseteq S \cup {w}
  OBVIOUS
<1>3. IsFiniteSet(T)
  BY <1>1, <1>2, FS_Subset
<1>4. Cardinality(S) \in Nat /\ Cardinality(T) \in Nat
  BY <1>3, FS_CardinalityType
<1>5. (w \in S <=> w \in T) => T = S
  OBVIOUS
<1>6. w \notin S /\ w \in T => Cardinality(T) = Cardinality(S) + 1
  <2>1. w \notin S /\ w \in T => T = S \cup {w}
    OBVIOUS
  <2> QED
    BY <2>1, FS_AddElement
<1>7. w \in S /\ w \notin T => Cardinality(S) = Cardinality(T) + 1
  <2>1. w \in S /\ w \notin T => S = T \cup {w}
    OBVIOUS
  <2> QED
    BY <1>3, <2>1, FS_AddElement
<1> QED
  BY <1>3, <1>4, <1>5, <1>6, <1>7

\* How a step of one replica changes the two sets.
LEMMA SetsMove ==
    ASSUME NEW w \in Relays, Others(w), NEW i \in Rows
    PROVE  /\ Unwritten(i)' \ {w} = Unwritten(i) \ {w}
           /\ LastTry(i)' \ {w} = LastTry(i) \ {w}
           /\ IsFiniteSet(Unwritten(i)) /\ IsFiniteSet(LastTry(i)) /\ IsFiniteSet(LastTry(i)')
           /\ Cardinality(LastTry(i)') <= Cardinality(Relays)
           /\ w \in Unwritten(i) <=> UnwrittenBy(w, i)
           /\ w \in Unwritten(i)' <=> UnwrittenBy(w, i)'
           /\ w \in LastTry(i) <=> LastTryBy(w, i)
           /\ w \in LastTry(i)' <=> LastTryBy(w, i)'
<1>1. ASSUME NEW v \in Relays \ {w}
      PROVE  (UnwrittenBy(v, i)' <=> UnwrittenBy(v, i)) /\ (LastTryBy(v, i)' <=> LastTryBy(v, i))
  <2>1. relay'[v] = relay[v]
    BY DEF Others
  <2> QED
    BY <2>1 DEF UnwrittenBy, LastTryBy
<1>2. Unwritten(i)' \ {w} = Unwritten(i) \ {w} /\ LastTry(i)' \ {w} = LastTry(i) \ {w}
  BY <1>1 DEF Unwritten, LastTry
<1>3. Unwritten(i) \subseteq Relays /\ LastTry(i) \subseteq Relays /\ LastTry(i)' \subseteq Relays
  BY DEF Unwritten, LastTry
<1>4. /\ IsFiniteSet(Unwritten(i)) /\ IsFiniteSet(LastTry(i)) /\ IsFiniteSet(LastTry(i)')
      /\ Cardinality(LastTry(i)') <= Cardinality(Relays)
  BY <1>3, FS_Subset, RelayAssumption
<1>5. /\ w \in Unwritten(i) <=> UnwrittenBy(w, i)
      /\ w \in Unwritten(i)' <=> UnwrittenBy(w, i)'
      /\ w \in LastTry(i) <=> LastTryBy(w, i)
      /\ w \in LastTry(i)' <=> LastTryBy(w, i)'
  BY DEF Unwritten, LastTry
<1> QED
  BY <1>2, <1>4, <1>5

\* A write adds its copies to those of its row only.
LEMMA CopiesGrow ==
    ASSUME Typed, NEW i \in Rows, NEW n \in Nat, Grows(i, n), NEW j \in Rows
    PROVE  /\ Copies(j) \in Nat
           /\ Copies(j)' = IF j = i THEN Copies(j) + n ELSE Copies(j)
<1> DEFINE k == Key[j]
           L == Len(topic[k])
           old == {m \in DOMAIN topic[k] : topic[k][m] = j}
           new == {m \in DOMAIN topic'[k] : topic'[k][m] = j}
           add == (L + 1) .. (L + n)
<1>1. k \in Keys /\ Key[i] \in Keys
  BY RowsAre
<1>2. /\ topic[k] \in Seq(Rows) /\ topic'[k] \in Seq(Rows)
      /\ L \in Nat /\ DOMAIN topic[k] = 1 .. L /\ DOMAIN topic'[k] = 1 .. Len(topic'[k])
  BY <1>1 DEF Typed, Grows
<1>3. Copies(j) = Cardinality(old) /\ Copies(j)' = Cardinality(new)
  BY DEF Copies
<1>4. IsFiniteSet(old) /\ Cardinality(old) \in Nat
  <2>1. IsFiniteSet(1 .. L) /\ old \subseteq 1 .. L
    BY <1>2, FS_Interval
  <2>2. IsFiniteSet(old)
    BY <2>1, FS_Subset
  <2> QED
    BY <2>2, FS_CardinalityType
<1>5. CASE k # Key[i]
  <2>1. topic'[k] = topic[k]
    BY <1>1, <1>5 DEF Grows
  <2> QED
    BY <1>3, <1>4, <1>5, <2>1
<1>6. CASE k = Key[i]
  <2>1. /\ Len(topic'[k]) = L + n
        /\ \A m \in 1 .. L : topic'[k][m] = topic[k][m]
        /\ \A m \in add : topic'[k][m] = i
    BY <1>6 DEF Grows
  <2>2. DOMAIN topic'[k] = (1 .. L) \cup add /\ (1 .. L) \cap add = {}
    BY <1>2, <2>1
  <2>3. CASE j # i
    <3>1. new = old
      BY <1>2, <2>1, <2>2, <2>3
    <3> QED
      BY <1>3, <1>4, <2>3, <3>1
  <2>4. CASE j = i
    <3>1. new = old \cup add /\ old \cap add = {}
      BY <1>2, <2>1, <2>2, <2>4
    <3>2. IsFiniteSet(add) /\ Cardinality(add) = n
      <4> HIDE DEF L
      <4>0. L \in Nat /\ L + 1 \in Int /\ L + n \in Int
        BY <1>2
      <4>1. PICK a \in Int, b \in Int : a = L + 1 /\ b = L + n
        BY <4>0, Zenon
      <4>2. IsFiniteSet(a .. b) /\ Cardinality(a .. b) = IF a > b THEN 0 ELSE b - a + 1
        BY FS_Interval
      <4>3. (IF a > b THEN 0 ELSE b - a + 1) = n
        BY <4>0, <4>1
      <4> QED
        BY <4>1, <4>2, <4>3
    <3>3. Cardinality({}) = 0
      BY FS_EmptySet
    <3> HIDE DEF old, new, add
    <3>4. Cardinality(new) = Cardinality(old) + n - 0
      BY <1>4, <3>1, <3>2, <3>3, FS_Union
    <3> QED
      BY <1>3, <1>4, <2>4, <3>4
  <2> QED
    BY <2>3, <2>4
<1> QED
  BY <1>5, <1>6

LEMMA CopiesCount ==
    ASSUME Typed, NEW i \in Rows
    PROVE  Copies(i) \in Nat
<1> DEFINE here == {n \in DOMAIN topic[Key[i]] : topic[Key[i]][n] = i}
<1>1. topic[Key[i]] \in Seq(Rows)
  BY RowsAre DEF Typed
<1>2. Len(topic[Key[i]]) \in Nat /\ here \subseteq 1 .. Len(topic[Key[i]])
  BY <1>1
<1>3. IsFiniteSet(here)
  BY <1>2, FS_Interval, FS_Subset
<1> QED
  BY <1>3, FS_CardinalityType DEF Copies

\* The price of claims.
LEMMA Price ==
    /\ WriterAttempts \in Nat
    /\ \A a \in Nat : WriterAttempts * a \in Nat
    /\ \A a \in Nat : WriterAttempts * (a + 1) = WriterAttempts * a + WriterAttempts
<1>1. WriterAttempts \in Nat
  BY RelayAssumption
<1> QED
  BY <1>1

\* What the bounds become when one replica moves and the claims do not.
LEMMA MoveBounded ==
    ASSUME Typed, CopiesPaid, ClaimsCounted, DeadAreSpent,
           NEW w \in Relays, Others(w), attempts' = attempts, retired \subseteq retired',
           faults' \in faults .. MaxFaults,
           \A i \in Rows : Copies(i) \in Nat /\ Copies(i)' \in Nat,
           \A i \in Rows :
               \/ (UnwrittenBy(w, i)' => UnwrittenBy(w, i))
                  /\ Copies(i)' = Copies(i)
               \/ UnwrittenBy(w, i) /\ ~UnwrittenBy(w, i)'
                  /\ Copies(i)' <= Copies(i) + WriterAttempts,
           \A i \in Rows : \/ LastTryBy(w, i)' <=> LastTryBy(w, i)
                           \/ i \in retired'
                           \/ faults' >= faults + 1,
           \A i \in dead' \ dead : attempts[i] >= MaxAttempts
    PROVE  CopiesPaid' /\ ClaimsCounted' /\ DeadAreSpent'
<1>1. DeadAreSpent'
  BY DEF DeadAreSpent
<1>2. \A i \in Rows : attempts[i] \in Nat
  BY DEF Typed
<1>3. MaxAttempts \in Nat /\ MaxFaults \in Nat /\ faults \in Nat /\ faults' \in Nat /\ faults <= faults'
  BY RelayAssumption DEF Typed
<1>4. ASSUME NEW i \in Rows
      PROVE  Copies(i)' + WriterAttempts * Cardinality(Unwritten(i)') <= WriterAttempts * attempts'[i]
  <2> DEFINE U == Cardinality(Unwritten(i))
             V == Cardinality(Unwritten(i)')
  <2>1. /\ Unwritten(i)' \ {w} = Unwritten(i) \ {w} /\ IsFiniteSet(Unwritten(i))
        /\ w \in Unwritten(i) <=> UnwrittenBy(w, i)
        /\ w \in Unwritten(i)' <=> UnwrittenBy(w, i)'
    BY SetsMove
  <2>2. /\ U \in Nat /\ V \in Nat
        /\ (w \in Unwritten(i) <=> w \in Unwritten(i)') => V = U
        /\ w \in Unwritten(i) /\ w \notin Unwritten(i)' => U = V + 1
    <3>1. \A S, T : IsFiniteSet(S) /\ T \ {w} = S \ {w} =>
              /\ Cardinality(S) \in Nat /\ Cardinality(T) \in Nat
              /\ (w \in S <=> w \in T) => T = S
              /\ w \in S /\ w \notin T => Cardinality(S) = Cardinality(T) + 1
      BY OneApart
    <3> QED
      BY <2>1, <3>1
  <2> HIDE DEF U, V
  <2>3. Copies(i) + WriterAttempts * U <= WriterAttempts * attempts[i]
    BY DEF CopiesPaid, U
  <2>4. /\ WriterAttempts \in Nat /\ WriterAttempts * U \in Nat /\ WriterAttempts * V \in Nat
        /\ WriterAttempts * attempts[i] \in Nat
        /\ WriterAttempts * (V + 1) = WriterAttempts * V + WriterAttempts
    BY <1>2, <2>2, Price
  <2>5. CASE (UnwrittenBy(w, i)' => UnwrittenBy(w, i)) /\ Copies(i)' = Copies(i)
    <3>1. WriterAttempts * V <= WriterAttempts * U
      <4>1. V = U \/ U = V + 1
        BY <2>1, <2>2, <2>5
      <4> QED
        BY <2>2, <2>4, <4>1
    <3> QED
      BY <2>3, <2>4, <2>5, <3>1 DEF V
  <2>6. CASE UnwrittenBy(w, i) /\ ~UnwrittenBy(w, i)' /\ Copies(i)' <= Copies(i) + WriterAttempts
    <3>1. U = V + 1
      BY <2>1, <2>2, <2>6
    <3>2. WriterAttempts * U = WriterAttempts * V + WriterAttempts
      BY <2>4, <3>1
    <3>3. Copies(i)' + WriterAttempts * V <= WriterAttempts * attempts[i]
      BY <2>3, <2>4, <2>6, <3>2
    <3> QED
      BY <3>3 DEF V
  <2> QED
    BY <2>5, <2>6
<1>5. ASSUME NEW i \in Rows, i \notin retired'
      PROVE  attempts'[i] < MaxAttempts + Cardinality(LastTry(i)') + faults'
  <2> DEFINE U == Cardinality(LastTry(i))
             V == Cardinality(LastTry(i)')
  <2>1. /\ LastTry(i)' \ {w} = LastTry(i) \ {w} /\ IsFiniteSet(LastTry(i))
        /\ w \in LastTry(i) <=> LastTryBy(w, i)
        /\ w \in LastTry(i)' <=> LastTryBy(w, i)'
    BY SetsMove
  <2>2. /\ U \in Nat /\ V \in Nat
        /\ (w \in LastTry(i) <=> w \in LastTry(i)') => V = U
        /\ V >= U \/ U = V + 1
    <3>1. \A S, T : IsFiniteSet(S) /\ T \ {w} = S \ {w} =>
              /\ Cardinality(S) \in Nat /\ Cardinality(T) \in Nat
              /\ (w \in S <=> w \in T) => T = S
              /\ w \notin S /\ w \in T => Cardinality(T) = Cardinality(S) + 1
              /\ w \in S /\ w \notin T => Cardinality(S) = Cardinality(T) + 1
      BY OneApart
    <3> QED
      BY <2>1, <3>1
  <2> HIDE DEF U, V
  <2>3. attempts[i] < MaxAttempts + U + faults
    BY <1>5 DEF ClaimsCounted, U
  <2>4. V = U \/ faults' >= faults + 1
    BY <1>5, <2>1, <2>2
  <2>5. attempts[i] < MaxAttempts + V + faults'
    BY <1>2, <1>3, <2>2, <2>3, <2>4
  <2> QED
    BY <2>5 DEF V
<1>6. ClaimsCounted'
  BY <1>5 DEF ClaimsCounted
<1>7. CopiesPaid'
  BY <1>4 DEF CopiesPaid
<1> QED
  BY <1>1, <1>6, <1>7

\* A claim adds a copy to be written, and perhaps a last attempt.
LEMMA LoadBounded ==
    ASSUME Typed, Batches, CopiesPaid, ClaimsCounted, DeadAreSpent,
           NEW w \in Relays, NEW order, Loads(w, order)
    PROVE  CopiesPaid' /\ ClaimsCounted' /\ DeadAreSpent'
<1>1. /\ Others(w)
      /\ DOMAIN relay'[w].batch = DOMAIN order
      /\ \A n \in DOMAIN order : /\ relay'[w].batch[n].row = order[n]
                                 /\ relay'[w].batch[n].attempts = attempts[order[n]] + 1
      /\ relay'[w].step = "write"
  BY AfterLoad
<1>2. relay[w].batch = <<>> /\ UNCHANGED <<retired, topic, dead, faults>>
      /\ \A n \in DOMAIN order : order[n] \notin retired
  BY DEF Loads
<1>3. \A i \in Rows : attempts[i] \in Nat
      /\ attempts'[i] = IF \E n \in DOMAIN order : order[n] = i THEN attempts[i] + 1 ELSE attempts[i]
  BY DEF Loads, Typed
<1>4. MaxAttempts \in Nat /\ MaxFaults \in Nat /\ faults \in Nat /\ faults <= MaxFaults
  BY RelayAssumption DEF Typed
<1>5. \A i \in Rows : Copies(i)' = Copies(i) /\ Copies(i) \in Nat
  BY <1>2, CopiesCount DEF Copies
<1>6. ASSUME NEW i \in Rows
      PROVE  /\ ~UnwrittenBy(w, i) /\ ~LastTryBy(w, i)
             /\ UnwrittenBy(w, i)' <=> \E n \in DOMAIN order : order[n] = i
             /\ LastTryBy(w, i)' <=> /\ \E n \in DOMAIN order : order[n] = i
                                     /\ attempts[i] + 1 >= MaxAttempts
  <2>1. ~UnwrittenBy(w, i) /\ ~LastTryBy(w, i)
    BY <1>2 DEF UnwrittenBy, LastTryBy
  <2>2. UnwrittenBy(w, i)' <=> \E n \in DOMAIN order : order[n] = i
    BY <1>1 DEF UnwrittenBy
  <2>3. LastTryBy(w, i)' <=> /\ \E n \in DOMAIN order : order[n] = i
                             /\ attempts[i] + 1 >= MaxAttempts
    BY <1>1 DEF LastTryBy
  <2> QED
    BY <2>1, <2>2, <2>3
<1>7. ASSUME NEW i \in Rows
      PROVE  Copies(i)' + WriterAttempts * Cardinality(Unwritten(i)') <= WriterAttempts * attempts'[i]
  <2> DEFINE U == Cardinality(Unwritten(i))
             V == Cardinality(Unwritten(i)')
  <2>1. /\ Unwritten(i)' \ {w} = Unwritten(i) \ {w} /\ IsFiniteSet(Unwritten(i))
        /\ w \in Unwritten(i) <=> UnwrittenBy(w, i)
        /\ w \in Unwritten(i)' <=> UnwrittenBy(w, i)'
    BY <1>1, SetsMove
  <2>2. U \in Nat /\ V \in Nat /\ V = IF \E n \in DOMAIN order : order[n] = i THEN U + 1 ELSE U
    <3>1. \A S, T : IsFiniteSet(S) /\ T \ {w} = S \ {w} =>
              /\ Cardinality(S) \in Nat /\ Cardinality(T) \in Nat
              /\ (w \in S <=> w \in T) => T = S
              /\ w \notin S /\ w \in T => Cardinality(T) = Cardinality(S) + 1
      BY OneApart
    <3> QED
      BY <1>6, <2>1, <3>1
  <2> HIDE DEF U, V
  <2>3. Copies(i) + WriterAttempts * U <= WriterAttempts * attempts[i]
    BY DEF CopiesPaid, U
  <2>4. /\ WriterAttempts \in Nat /\ WriterAttempts * U \in Nat
        /\ WriterAttempts * attempts[i] \in Nat
        /\ WriterAttempts * (U + 1) = WriterAttempts * U + WriterAttempts
        /\ WriterAttempts * (attempts[i] + 1) = WriterAttempts * attempts[i] + WriterAttempts
    BY <1>3, <2>2, Price
  <2>5. CASE \E n \in DOMAIN order : order[n] = i
    <3>1. V = U + 1 /\ attempts'[i] = attempts[i] + 1
      BY <1>3, <2>2, <2>5
    <3>2. Copies(i) + WriterAttempts * (U + 1) <= WriterAttempts * (attempts[i] + 1)
      BY <1>5, <2>3, <2>4
    <3> QED
      BY <1>5, <3>1, <3>2 DEF V
  <2>6. CASE ~\E n \in DOMAIN order : order[n] = i
    BY <1>3, <1>5, <2>2, <2>3, <2>6 DEF V
  <2> QED
    BY <2>5, <2>6
<1>8. ASSUME NEW i \in Rows
      PROVE  /\ i \notin retired' => attempts'[i] < MaxAttempts + Cardinality(LastTry(i)') + faults'
             /\ attempts'[i] < MaxAttempts + Cardinality(Relays) + MaxFaults
  <2> DEFINE U == Cardinality(LastTry(i))
             V == Cardinality(LastTry(i)')
  <2>1. /\ LastTry(i)' \ {w} = LastTry(i) \ {w} /\ IsFiniteSet(LastTry(i))
        /\ w \in LastTry(i) <=> LastTryBy(w, i)
        /\ w \in LastTry(i)' <=> LastTryBy(w, i)'
        /\ V <= Cardinality(Relays)
    BY <1>1, SetsMove
  <2>2. U \in Nat /\ V \in Nat /\ V = IF LastTryBy(w, i)' THEN U + 1 ELSE U
    <3>1. \A S, T : IsFiniteSet(S) /\ T \ {w} = S \ {w} =>
              /\ Cardinality(S) \in Nat /\ Cardinality(T) \in Nat
              /\ (w \in S <=> w \in T) => T = S
              /\ w \notin S /\ w \in T => Cardinality(T) = Cardinality(S) + 1
      BY OneApart
    <3> QED
      BY <1>6, <2>1, <3>1
  <2>3. Cardinality(Relays) \in Nat
    BY RelayAssumption, FS_CardinalityType
  <2> HIDE DEF U, V
  <2>4. /\ i \notin retired => attempts[i] < MaxAttempts + U + faults
        /\ attempts[i] < MaxAttempts + Cardinality(Relays) + MaxFaults
    BY DEF ClaimsCounted, U
  <2>5. CASE \E n \in DOMAIN order : order[n] = i
    <3>1. i \notin retired /\ attempts'[i] = attempts[i] + 1
      BY <1>2, <1>3, <2>5
    <3>2. attempts[i] + 1 < MaxAttempts + V + faults
      <4>1. CASE attempts[i] + 1 >= MaxAttempts
        BY <1>3, <1>4, <1>6, <2>2, <2>4, <2>5, <3>1, <4>1
      <4>2. CASE attempts[i] + 1 < MaxAttempts
        BY <1>3, <1>4, <2>2, <4>2
      <4> QED
        BY <1>3, <1>4, <4>1, <4>2
    <3>3. V <= Cardinality(Relays)
      BY <2>1 DEF V
    <3> QED
      BY <1>2, <1>3, <1>4, <2>2, <2>3, <3>1, <3>2, <3>3 DEF V
  <2>6. CASE ~\E n \in DOMAIN order : order[n] = i
    <3>1. V = U /\ attempts'[i] = attempts[i]
      BY <1>3, <1>6, <2>2, <2>6
    <3> QED
      BY <1>2, <2>4, <3>1 DEF V
  <2> QED
    BY <2>5, <2>6
<1>9. DeadAreSpent'
  <2>1. dead \subseteq Rows
    BY RowsAre DEF Typed
  <2> QED
    BY <1>2, <1>3, <1>4, <2>1 DEF DeadAreSpent
<1> QED
  BY <1>7, <1>8, <1>9 DEF CopiesPaid, ClaimsCounted

\* A write delivers what its claim paid for.
LEMMA WroteBounded ==
    ASSUME Typed, Batches, CopiesPaid, ClaimsCounted, DeadAreSpent,
           NEW w \in Relays, NEW n, NEW s, Wrote(w, n, s)
    PROVE  CopiesPaid' /\ ClaimsCounted' /\ DeadAreSpent'
<1>1. /\ relay[w].batch # <<>> /\ relay[w].step = "write" /\ n \in Nat /\ n <= WriterAttempts
      /\ s \in Steps /\ s # "write"
  BY RelayAssumption DEF Wrote, AtStep, Steps
<1>2. Others(w) /\ relay'[w].batch = relay[w].batch /\ relay'[w].step = s
  BY <1>1, AfterGoTo DEF Wrote
<1>3. PICK r \in Rows : r = Item(w).row
  BY <1>1, ItemTyped
<1>4. 1 \in DOMAIN relay[w].batch /\ relay[w].batch[1].row = r
  BY <1>1, <1>3, ItemTyped
<1>5. DOMAIN relay[w].batch = 1 .. Len(relay[w].batch) /\ Len(relay[w].batch) \in Nat
  BY DEF Typed
<1>6. \A m \in DOMAIN relay[w].batch : relay[w].batch[m].row = r => m = 1
  BY <1>4 DEF Batches
<1>7. UnwrittenBy(w, r) /\ ~UnwrittenBy(w, r)'
  <2>1. UnwrittenBy(w, r)
    BY <1>1, <1>4 DEF UnwrittenBy
  <2>2. ~UnwrittenBy(w, r)'
    BY <1>1, <1>2, <1>6 DEF UnwrittenBy
  <2> QED
    BY <2>1, <2>2
<1>8. \A i \in Rows \ {r} : UnwrittenBy(w, i)' => UnwrittenBy(w, i)
  BY <1>1, <1>2 DEF UnwrittenBy
<1>9. \A i \in Rows : /\ Copies(i) \in Nat
                      /\ Copies(i)' = IF i = r THEN Copies(i) + n ELSE Copies(i)
  BY <1>1, <1>3, CopiesGrow DEF Wrote
<1>10. \A i \in Rows : \/ (UnwrittenBy(w, i)' => UnwrittenBy(w, i))
                          /\ Copies(i)' = Copies(i)
                       \/ UnwrittenBy(w, i) /\ ~UnwrittenBy(w, i)'
                          /\ Copies(i)' <= Copies(i) + WriterAttempts
  <2>1. WriterAttempts \in Nat
    BY RelayAssumption
  <2> QED
    BY <1>1, <1>7, <1>8, <1>9, <2>1
<1>11. \A i \in Rows : LastTryBy(w, i)' <=> LastTryBy(w, i)
  BY <1>2 DEF LastTryBy
<1>12. attempts' = attempts /\ retired' = retired /\ dead' = dead /\ faults' \in faults .. MaxFaults
  BY DEF Wrote
<1>13. \A i \in Rows : Copies(i) \in Nat /\ Copies(i)' \in Nat
  BY <1>1, <1>9
<1> QED
  BY <1>2, <1>10, <1>11, <1>12, <1>13, MoveBounded

\* A row is given up when its attempts are spent.
LEMMA DeadLetterBounded ==
    ASSUME Typed, Batches, CopiesPaid, ClaimsCounted, DeadAreSpent, NEW w \in Relays, DeadLetter(w)
    PROVE  CopiesPaid' /\ ClaimsCounted' /\ DeadAreSpent'
<1>1. /\ relay[w].batch # <<>> /\ relay[w].step = "failed" /\ Item(w).attempts >= MaxAttempts
      /\ "retire" \in Steps /\ dead' = dead \union {Item(w).row}
      /\ UNCHANGED <<attempts, retired, topic, faults>>
  BY DEF DeadLetter, AtStep, Steps
<1>2. Others(w) /\ relay'[w].batch = relay[w].batch /\ relay'[w].step = "retire"
  BY <1>1, AfterGoTo DEF DeadLetter
<1>3. \A i \in dead' \ dead : attempts[i] >= MaxAttempts
  <2>1. /\ Item(w) = relay[w].batch[1] /\ 1 \in DOMAIN relay[w].batch /\ Item(w).attempts \in Nat
        /\ attempts[Item(w).row] \in Nat
    BY <1>1, ItemTyped DEF Typed
  <2>2. Item(w).attempts <= attempts[Item(w).row]
    BY <2>1 DEF Batches
  <2>3. MaxAttempts \in Nat
    BY RelayAssumption
  <2>4. attempts[Item(w).row] >= MaxAttempts
    BY <1>1, <2>1, <2>2, <2>3
  <2> QED
    BY <1>1, <2>4
<1>4. \A i \in Rows : /\ UnwrittenBy(w, i)' <=> UnwrittenBy(w, i)
                      /\ LastTryBy(w, i)' <=> LastTryBy(w, i)
  BY <1>1, <1>2 DEF UnwrittenBy, LastTryBy
<1>5. \A i \in Rows : Copies(i)' = Copies(i) /\ Copies(i) \in Nat
  BY <1>1, CopiesCount DEF Copies
<1>6. faults' \in faults .. MaxFaults
  BY <1>1, RelayAssumption DEF Typed
<1> QED
  BY <1>1, <1>2, <1>3, <1>4, <1>5, <1>6, MoveBounded

\* A last attempt ends by retiring the row, or costs a fault.
LEMMA DoneBounded ==
    ASSUME Typed, Batches, CopiesPaid, ClaimsCounted, DeadAreSpent,
           NEW w \in Relays, Done(w) \/ Abandon(w)
    PROVE  CopiesPaid' /\ ClaimsCounted' /\ DeadAreSpent'
<1>1. relay[w].batch # <<>> /\ UNCHANGED <<attempts, topic, dead>> /\ retired \subseteq retired'
  BY DEF Done, Abandon
<1>2. \A i \in Rows : Copies(i)' = Copies(i) /\ Copies(i) \in Nat
  BY <1>1, CopiesCount DEF Copies
<1>3. faults' \in faults .. MaxFaults
  BY RelayAssumption DEF Typed, Done, Abandon
<1>4. /\ Others(w)
      /\ \A i \in Rows : /\ UnwrittenBy(w, i)' => UnwrittenBy(w, i)
                         /\ \/ LastTryBy(w, i)' <=> LastTryBy(w, i)
                            \/ i \in retired'
                            \/ faults' >= faults + 1
  <2>1. CASE Abandon(w)
    <3>1. Others(w) /\ relay'[w].batch = <<>>
      BY <2>1, AfterAbandon
    <3>2. faults' >= faults + 1
      BY <2>1 DEF Abandon, Typed
    <3>3. \A i \in Rows : ~UnwrittenBy(w, i)'
      BY <3>1 DEF UnwrittenBy
    <3> QED
      BY <3>1, <3>2, <3>3
  <2>2. CASE Done(w)
    <3> DEFINE L == Len(relay[w].batch)
    <3>1. /\ Others(w)
          /\ L \in Nat \ {0}
          /\ DOMAIN relay[w].batch = 1 .. L
          /\ DOMAIN relay'[w].batch = 1 .. (L - 1)
          /\ \A n \in 1 .. (L - 1) : relay'[w].batch[n] = relay[w].batch[n + 1]
      BY <1>1, <2>2, AfterNext DEF Done
    <3> HIDE DEF L
    <3>2. \A n \in 1 .. (L - 1) : n + 1 \in 1 .. L /\ n + 1 > 1
      BY <3>1
    <3>3. \A m \in 1 .. L : m = 1 \/ (m - 1 \in 1 .. (L - 1) /\ (m - 1) + 1 = m)
      BY <3>1
    <3>4. ASSUME NEW i \in Rows PROVE UnwrittenBy(w, i)' => UnwrittenBy(w, i)
      BY <3>1, <3>2 DEF UnwrittenBy
    <3>5. ASSUME NEW i \in Rows, i \notin retired' PROVE LastTryBy(w, i)' <=> LastTryBy(w, i)
      <4>1. LastTryBy(w, i)' => LastTryBy(w, i)
        BY <3>1, <3>2 DEF LastTryBy
      <4>2. ASSUME LastTryBy(w, i) PROVE LastTryBy(w, i)'
        <5>1. PICK m \in 1 .. L : relay[w].batch[m].row = i /\ relay[w].batch[m].attempts >= MaxAttempts
          BY <3>1, <4>2 DEF LastTryBy
        <5>2. m # 1
          <6>1. Item(w) = relay[w].batch[1] /\ Item(w).attempts \in Nat /\ MaxAttempts \in Nat
            BY <1>1, ItemTyped, RelayAssumption
          <6>2. i = Item(w).row => Item(w).attempts < MaxAttempts
            BY <2>2, <3>5 DEF Done
          <6> QED
            BY <5>1, <6>1, <6>2
        <5>3. m - 1 \in 1 .. (L - 1) /\ relay'[w].batch[m - 1] = relay[w].batch[m]
          BY <3>1, <3>3, <5>2
        <5> QED
          BY <3>1, <5>1, <5>3 DEF LastTryBy
      <4> QED
        BY <4>1, <4>2
    <3> QED
      BY <3>1, <3>4, <3>5
  <2> QED
    BY <2>1, <2>2
<1> QED
  BY <1>1, <1>2, <1>3, <1>4, MoveBounded

LEMMA BoundedNext ==
    ASSUME Typed, Batches, CopiesPaid, ClaimsCounted, DeadAreSpent, [Next]_vars
    PROVE  CopiesPaid' /\ ClaimsCounted' /\ DeadAreSpent'
<1>1. CASE Insert \/ (\E i \in Rows : BackoffEnds(i)) \/ UNCHANGED vars
  <2>1. UNCHANGED <<retired, attempts, topic, dead, relay, faults>>
    BY <1>1 DEF Insert, BackoffEnds, vars
  <2>2. \A i \in Rows : /\ Unwritten(i)' = Unwritten(i) /\ LastTry(i)' = LastTry(i)
                        /\ Copies(i)' = Copies(i)
    BY <2>1 DEF Unwritten, UnwrittenBy, LastTry, LastTryBy, Copies
  <2> QED
    BY <2>1, <2>2 DEF CopiesPaid, ClaimsCounted, DeadAreSpent
<1>2. CASE Next
  BY <1>1, <1>2, StepSorts, LoadBounded, WroteBounded, DeadLetterBounded, DoneBounded
<1> QED
  BY <1>1, <1>2

\* Redelivery is bounded: a row has at most WriterAttempts copies in Kafka for
\* each of its claims, the claims are bounded by maxIntegrationAttempts, the
\* replicas and the faults, and only a row whose attempts are spent is given up.
THEOREM RedeliveryIsBounded == Spec => []RedeliveryBounded
<1> DEFINE IInv == Typed /\ Batches /\ CopiesPaid /\ ClaimsCounted /\ DeadAreSpent
<1>1. Init => IInv
  <2> SUFFICES ASSUME Init PROVE IInv
    OBVIOUS
  <2>1. Typed /\ Batches
    BY TypingInit
  <2>2. \A w \in Relays : relay[w].batch = <<>>
    BY DEF Init, Resting
  <2>3. ASSUME NEW i \in Rows
        PROVE  Unwritten(i) = {} /\ LastTry(i) = {} /\ Copies(i) = 0 /\ attempts[i] = 0
    <3>1. Unwritten(i) = {} /\ LastTry(i) = {}
      BY <2>2 DEF Unwritten, UnwrittenBy, LastTry, LastTryBy
    <3>2. topic[Key[i]] = <<>>
      BY RowsAre DEF Init
    <3>3. {n \in DOMAIN topic[Key[i]] : topic[Key[i]][n] = i} = {}
      BY <3>2
    <3> QED
      BY <3>1, <3>3, FS_EmptySet DEF Copies, Init
  <2>4. Cardinality({}) = 0 /\ Cardinality(Relays) \in Nat
    BY FS_EmptySet, RelayAssumption, FS_CardinalityType
  <2>5. CopiesPaid
    <3>1. WriterAttempts * 0 = 0
      BY RelayAssumption
    <3>2. ASSUME NEW i \in Rows
          PROVE  Copies(i) + WriterAttempts * Cardinality(Unwritten(i)) <= WriterAttempts * attempts[i]
      <4>1. Copies(i) = 0 /\ Cardinality(Unwritten(i)) = 0 /\ attempts[i] = 0
        BY <2>3, <2>4
      <4> QED
        BY <3>1, <4>1
    <3> QED
      BY <3>2 DEF CopiesPaid
  <2>6. ClaimsCounted
    <3>1. MaxAttempts \in Nat \ {0} /\ MaxFaults \in Nat /\ faults = 0
      BY RelayAssumption DEF Init
    <3> QED
      BY <2>3, <2>4, <3>1 DEF ClaimsCounted
  <2>7. DeadAreSpent
    BY DEF Init, DeadAreSpent
  <2> QED
    BY <2>1, <2>5, <2>6, <2>7
<1>2. IInv /\ [Next]_vars => IInv'
  BY TypingStep, BoundedNext
<1>3. IInv => RedeliveryBounded
  <2> SUFFICES ASSUME IInv PROVE RedeliveryBounded
    OBVIOUS
  <2>1. ASSUME NEW i \in Rows PROVE Copies(i) <= WriterAttempts * attempts[i]
    <3>1. Cardinality(Unwritten(i)) \in Nat
      <4>1. Unwritten(i) \subseteq Relays
        BY DEF Unwritten
      <4> QED
        BY <4>1, RelayAssumption, FS_Subset, FS_CardinalityType
    <3>2. /\ Copies(i) \in Nat /\ WriterAttempts * Cardinality(Unwritten(i)) \in Nat
          /\ WriterAttempts * attempts[i] \in Nat
      BY <3>1, Price, CopiesCount DEF Typed
    <3>3. Copies(i) + WriterAttempts * Cardinality(Unwritten(i)) <= WriterAttempts * attempts[i]
      BY DEF CopiesPaid
    <3> QED
      BY <3>2, <3>3
  <2> QED
    BY <2>1 DEF RedeliveryBounded, ClaimsCounted, DeadAreSpent
<1> QED
  BY <1>1, <1>2, <1>3, PTL DEF Spec
=============================================================================
