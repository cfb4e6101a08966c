--------------------------- MODULE IntegrationRelay ---------------------------
(***************************************************************************)
(* The relay of integration_outbox to Kafka                                *)
(* (internal/integration/adapters/kafka/integration_relay.go), run by      *)
(* every replica of the integration service.                               *)
(*                                                                         *)
(* RunOnce claims a batch in one statement, which commits by itself: the   *)
(* row locks are gone before the first message is written.  Then each row  *)
(* of the batch is written, and marked in a further statement; any error   *)
(* of such a statement drops the rest of the batch, as a crash does.       *)
(*                                                                         *)
(* A row is named by its place in the order of created_at; Key[i] is its   *)
(* partition key, the warehouse task.                                      *)
(***************************************************************************)
EXTENDS Naturals, Sequences, FiniteSets, SequencesExt

CONSTANTS Relays,            \* replicas of the relay
          Key,               \* Key[i]: partition key of the i-th row
          BatchSize,         \* LIMIT of the claim
          MaxAttempts,       \* maxIntegrationAttempts
          WriterAttempts,    \* MaxAttempts of the Kafka writer
          MaxFaults,         \* bound on crashes, failed statements and lost acknowledgements
          OrderedReturning   \* UPDATE ... RETURNING keeps the order of its subquery

ASSUME RelayAssumption ==
    /\ IsFiniteSet(Relays)
    /\ Key \in Seq(STRING)
    /\ BatchSize \in Nat \ {0}
    /\ MaxAttempts \in Nat \ {0}
    /\ WriterAttempts \in Nat \ {0}
    /\ MaxFaults \in Nat
    /\ OrderedReturning \in BOOLEAN

Rows == DOMAIN Key
Keys == {Key[i] : i \in Rows}

VARIABLES created,    \* rows 1..created have been inserted
          retired,    \* rows with published_at set
          available,  \* rows whose available_at has come
          attempts,   \* attempts[i]
          topic,      \* topic[k]: rows written to k's partition, in order
          dead,       \* rows in integration_outbox_dead_letters
          relay,      \* relay[w]: rest of w's batch, and progress on its head
          faults      \* history: how many of those there were

vars == <<created, retired, available, attempts, topic, dead, relay, faults>>

Resting == [batch |-> <<>>, step |-> "write"]

Init == /\ created = 0
        /\ retired = {}
        /\ available = {}
        /\ attempts = [i \in Rows |-> 0]
        /\ topic = [k \in Keys |-> <<>>]
        /\ dead = {}
        /\ relay = [w \in Relays |-> Resting]
        /\ faults = 0

-----------------------------------------------------------------------------
\* appendIntegrationEvent commits the next row.
Insert ==
    /\ created < Len(Key)
    /\ created' = created + 1
    /\ available' = available \union {created + 1}
    /\ UNCHANGED <<retired, attempts, topic, dead, relay, faults>>

\* Mutant: the timer may fire for a row that is not there yet.
BackoffEndsEarly(i) ==
    /\ i \notin available
    /\ available' = available \union {i}
    /\ UNCHANGED <<created, retired, attempts, topic, dead, relay, faults>>

\* The backoff of a row is over.
BackoffEnds(i) ==
    /\ i \in 1 .. created
    /\ i \notin available
    /\ available' = available \union {i}
    /\ UNCHANGED <<created, retired, attempts, topic, dead, relay, faults>>

Held(w) == {relay[w].batch[n].row : n \in DOMAIN relay[w].batch}

\* The rows with the BatchSize smallest created_at.
Oldest(S) == {i \in S : Cardinality({j \in S : j < i}) < BatchSize}

\* Mutant: the claim does not count.
ClaimUncounted(w, skipped, order) ==
    /\ relay[w].batch = <<>>
    /\ order \in SetToSeqs(Oldest((available \ retired) \ skipped)) \ {<<>>}
    /\ relay' = [relay EXCEPT ![w].batch =
           [n \in DOMAIN order |-> [row |-> order[n], attempts |-> attempts[order[n]]]]]
    /\ UNCHANGED <<created, retired, available, attempts, topic, dead, faults>>

\* Mutant: rows that used up their attempts are not claimed any more.
ClaimUnexhausted(w, skipped, order) ==
    LET claimed == Oldest({i \in available \ retired : attempts[i] < MaxAttempts} \ skipped)
    IN  /\ relay[w].batch = <<>>
        /\ skipped \subseteq UNION {Held(v) : v \in Relays \ {w}}
        /\ order \in SetToSeqs(claimed) \ {<<>>}
        /\ attempts' = [i \in Rows |-> IF i \in claimed THEN attempts[i] + 1 ELSE attempts[i]]
        /\ relay' = [relay EXCEPT ![w].batch =
               [n \in DOMAIN order |-> [row |-> order[n], attempts |-> attempts[order[n]] + 1]]]
        /\ UNCHANGED <<created, retired, available, topic, dead, faults>>

\* The claim statement.  SKIP LOCKED passes over rows that another replica's
\* statement has locked at this very moment; those are rows of its batch.
\* The order in which RETURNING yields the rows is the subquery's only if
\* the plan keeps it.
Claim(w, skipped, order) ==
    LET pending == (available \ retired) \ skipped
        claimed == Oldest(pending)
    IN  /\ relay[w].batch = <<>>
        /\ skipped \subseteq UNION {Held(v) : v \in Relays \ {w}}
        /\ claimed # {}
        /\ order \in SetToSeqs(claimed)
        /\ OrderedReturning => \A m, n \in DOMAIN order : m < n => order[m] < order[n]
        /\ attempts' = [i \in Rows |-> IF i \in claimed THEN attempts[i] + 1 ELSE attempts[i]]
        /\ relay' = [relay EXCEPT ![w].batch =
               [n \in DOMAIN order |-> [row |-> order[n], attempts |-> attempts[order[n]] + 1]]]
        /\ UNCHANGED <<created, retired, available, topic, dead, faults>>

-----------------------------------------------------------------------------
(* One row of the batch *)

Item(w) == Head(relay[w].batch)
AtStep(w, s) == relay[w].batch # <<>> /\ relay[w].step = s
GoTo(w, s) == relay' = [relay EXCEPT ![w].step = s]
NextItem(w) == relay' = [relay EXCEPT ![w] = [batch |-> Tail(relay[w].batch), step |-> "write"]]

\* The writer sends a message again when an acknowledgement is lost: n copies.
Written(w, n) ==
    [topic EXCEPT ![Key[Item(w).row]] = @ \o [m \in 1 .. n |-> Item(w).row]]

LostAcks(n) == /\ faults + n <= MaxFaults
               /\ faults' = faults + n

WriteSucceeds(w) ==
    /\ AtStep(w, "write")
    /\ \E n \in 1 .. WriterAttempts : topic' = Written(w, n) /\ LostAcks(n - 1)
    /\ GoTo(w, "mark")
    /\ UNCHANGED <<created, retired, available, attempts, dead>>

\* Mutant: the error of WriteMessages is ignored.
WriteFailsIgnored(w) ==
    /\ AtStep(w, "write")
    /\ GoTo(w, "mark")
    /\ UNCHANGED <<created, retired, available, attempts, topic, dead, faults>>

\* An error from WriteMessages; the broker may have the message all the same.
WriteFails(w) ==
    /\ AtStep(w, "write")
    /\ \E n \in 0 .. WriterAttempts : topic' = Written(w, n) /\ LostAcks(n)
    /\ GoTo(w, "failed")
    /\ UNCHANGED <<created, retired, available, attempts, dead>>

MarkPublished(w) ==
    /\ AtStep(w, "mark")
    /\ retired' = retired \union {Item(w).row}
    /\ NextItem(w)
    /\ UNCHANGED <<created, available, attempts, topic, dead, faults>>

DeadLetter(w) ==
    /\ AtStep(w, "failed")
    /\ Item(w).attempts >= MaxAttempts
    /\ dead' = dead \union {Item(w).row}
    /\ GoTo(w, "retire")
    /\ UNCHANGED <<created, retired, available, attempts, topic, faults>>

Retire(w) ==
    /\ AtStep(w, "retire")
    /\ retired' = retired \union {Item(w).row}
    /\ NextItem(w)
    /\ UNCHANGED <<created, available, attempts, topic, dead, faults>>

Backoff(w) ==
    /\ AtStep(w, "failed")
    /\ Item(w).attempts < MaxAttempts
    /\ available' = available \ {Item(w).row}
    /\ NextItem(w)
    /\ UNCHANGED <<created, retired, attempts, topic, dead, faults>>

\* The replica crashes, or one of the statements above fails.
Abandon(w) ==
    /\ relay[w].batch # <<>>
    /\ faults < MaxFaults
    /\ faults' = faults + 1
    /\ relay' = [relay EXCEPT ![w] = Resting]
    /\ UNCHANGED <<created, retired, available, attempts, topic, dead>>

ClaimSome(w) ==
    \E skipped \in SUBSET Rows, order \in UNION {[1 .. n -> Rows] : n \in 1 .. BatchSize} :
        Claim(w, skipped, order)
Write(w) == WriteSucceeds(w) \/ WriteFails(w)
Mark(w) == MarkPublished(w) \/ DeadLetter(w) \/ Retire(w) \/ Backoff(w)

Next == \/ Insert
        \/ \E i \in Rows : BackoffEnds(i)
        \/ \E w \in Relays : ClaimSome(w) \/ Write(w) \/ Mark(w) \/ Abandon(w)

\* Each replica runs a cycle every second, and clocks advance.  Nothing says
\* that the broker ever accepts a message.
Fairness == /\ \A w \in Relays : WF_vars(ClaimSome(w)) /\ WF_vars(Write(w)) /\ WF_vars(Mark(w))
            /\ \A i \in Rows : WF_vars(BackoffEnds(i))

Spec == Init /\ [][Next]_vars /\ Fairness

-----------------------------------------------------------------------------
(* Properties *)

\* The tables and the batches hold rows that were inserted.
TypeOK ==
    /\ created \in 0 .. Len(Key)
    /\ retired \subseteq 1 .. created
    /\ available \subseteq 1 .. created
    /\ dead \subseteq 1 .. created
    /\ attempts \in [Rows -> Nat]
    /\ \A k \in Keys : \A n \in DOMAIN topic[k] : topic[k][n] \in 1 .. created
    /\ \A w \in Relays : /\ Held(w) \subseteq 1 .. created
                         /\ relay[w].step \in {"write", "mark", "failed", "retire"}

Published(i) == \E n \in DOMAIN topic[Key[i]] : topic[Key[i]][n] = i

\* Retiring a row never loses the fact: a row the relay will not look at again
\* is in Kafka or in the dead-letter table, whatever replicas did with the row
\* at the same time and wherever one of them crashed.
RetiredIsAccounted == \A i \in retired : Published(i) \/ i \in dead

Copies(i) == Cardinality({n \in DOMAIN topic[Key[i]] : topic[Key[i]][n] = i})

\* Redelivery is bounded, however replicas and crashes interleave: Kafka holds no
\* more copies of a fact than one call of the writer for each claim of its row
\* can have left there; a row is given up only after MaxAttempts claims; and it
\* is not claimed for ever: the claims that count to MaxAttempts or more are at
\* most one for each replica, which still holds the row or has retired it, and
\* one for each dropped batch (a fault).
RedeliveryBounded ==
    /\ \A i \in Rows : /\ Copies(i) <= WriterAttempts * attempts[i]
                       /\ attempts[i] < MaxAttempts + Cardinality(Relays) + MaxFaults
    /\ \A i \in dead : attempts[i] >= MaxAttempts

\* "So the partition keeps draining": every row is eventually retired, even if
\* the broker rejects every message.
EveryRowRetired == \A i \in Rows : (created >= i) ~> (i \in retired)

\* "A completion must never overtake the start that preceded it": of two facts
\* about one task, the older one reaches the partition first.
NoOvertaking ==
    \A k \in Keys : \A n \in DOMAIN topic[k] : \A i \in 1 .. (topic[k][n] - 1) :
        Key[i] = k => \E m \in 1 .. n : topic[k][m] = i
=============================================================================
