----------------------- MODULE CrosschainIndexer_proofs ------------------------
(***************************************************************************)
(* Theorems about the crosschain handlers, for any set of messages, payloads*)
(* and adapters, any batches and any interleaving of the logs of the chains.*)
(*                                                                         *)
(* First the tables of CrosschainFacts (which rows the choices name, and   *)
(* that the upserts keep a table a table), what every write of the handlers *)
(* keeps, that draining the receive queues keeps it too, and that upserts  *)
(* of a row may come in any order, and come again.                         *)
(*                                                                         *)
(* The invariant that carries the rest is that the tables are in `Good`:   *)
(* every handler leads from a good database to a good one.                 *)
(***************************************************************************)
EXTENDS CrosschainIndexer, WellFoundedInduction, FiniteSetTheorems, TLAPS

-----------------------------------------------------------------------------
(* Least elements and induction *)

\* A non-empty set of naturals has a least element.
LEMMA LeastNatural ==
  ASSUME NEW T, T \subseteq Nat, T # {}
  PROVE  \E x \in T : \A y \in T : x <= y
<1>1. \E x \in T : \A y \in T : ~(<<y, x>> \in OpToRel(<, Nat))
  BY WFMin, NatLessThanWellFounded
<1>2. \A x, y \in Nat : ~(<<y, x>> \in OpToRel(<, Nat)) => x <= y
  BY DEF OpToRel
<1> QED BY <1>1, <1>2

\* Induction on a set of naturals.
LEMMA SetInduction ==
  ASSUME NEW T, 0 \in T, \A n \in Nat : n \in T => n + 1 \in T
  PROVE  Nat \subseteq T
<1> SUFFICES ASSUME Nat \ T # {} PROVE FALSE
  OBVIOUS
<1>1. PICK x \in Nat \ T : \A y \in Nat \ T : x <= y
  BY LeastNatural
<1>2. x # 0 /\ x - 1 \in Nat
  BY <1>1
<1>3. x - 1 \in T
  BY <1>1, <1>2
<1>4. x - 1 + 1 = x
  BY <1>1
<1> QED BY <1>1, <1>2, <1>3, <1>4

\* Lowest names a key of the set, at most as high as every other one.
LEMMA LowestIsLowest ==
  ASSUME NEW Ids, NEW K, K \subseteq Ids \X Nat, K # {}
  PROVE  Lowest(K) \in K /\ \A j \in K : Lowest(K)[2] <= j[2]
<1> DEFINE I == {k[2] : k \in K}
<1>1. I \subseteq Nat /\ I # {}
  OBVIOUS
<1>2. PICK i \in I : \A j \in I : i <= j
  BY <1>1, LeastNatural
<1>3. PICK k \in K : k[2] = i
  OBVIOUS
<1>4. \A j \in K : k[2] <= j[2]
  BY <1>2, <1>3
<1> QED BY <1>3, <1>4 DEF Lowest

\* The rows of a table have indices below some bound.
Bounded(K) == \E n \in Nat : \A k \in K : k[2] < n

\* Below a bound there is a next index: it is above every index of the set.
LEMMA NextIndexIsNext ==
  ASSUME NEW Ids, NEW K, K \subseteq Ids \X Nat, Bounded(K)
  PROVE  NextIndex(K) \in Nat /\ \A k \in K : k[2] < NextIndex(K)
<1> DEFINE B == {n \in Nat : \A k \in K : k[2] < n}
           C == {0} \cup {k[2] + 1 : k \in K}
<1>1. B # {}
  BY DEF Bounded
<1>2. PICK n \in B : \A b \in B : n <= b
  BY <1>1, LeastNatural
<1>3. C \subseteq Nat
  OBVIOUS
<1>4. n \in C
  <2>1. CASE n = 0
    BY <2>1
  <2>2. CASE n # 0
    <3>1. n - 1 \in Nat /\ n - 1 \notin B
      BY <2>2, <1>2
    <3>2. PICK k \in K : ~(k[2] < n - 1)
      BY <3>1
    <3>3. k[2] \in Nat /\ k[2] < n
      BY <3>2, <1>2
    <3>4. n = k[2] + 1
      BY <3>2, <3>3, <3>1
    <3> QED BY <3>4
  <2> QED BY <2>1, <2>2
<1>5. NextIndex(K) \in C /\ \A k \in K : k[2] < NextIndex(K)
  BY <1>4, <1>2 DEF NextIndex
<1> QED BY <1>3, <1>5

-----------------------------------------------------------------------------
(* Tables *)

Tables(Keys, Row) == UNION {[K -> Row] : K \in SUBSET Keys}
MessageTables == Tables(MessageKeys, MessageRow)
PayloadTables == Tables(PayloadKeys, PayloadRow)

\* A table is a function from some of the keys to rows.
LEMMA TableIsFunction ==
  ASSUME NEW Keys, NEW Row, NEW t \in Tables(Keys, Row)
  PROVE  /\ DOMAIN t \subseteq Keys
         /\ t \in [DOMAIN t -> Row]
         /\ IsTable(t, Keys, Row)
BY DEF Tables, IsTable

\* The same, to build one.
LEMMA FunctionIsTable ==
  ASSUME NEW Keys, NEW Row, NEW K, K \subseteq Keys, NEW t \in [K -> Row]
  PROVE  t \in Tables(Keys, Row)
BY DEF Tables

\* Two sets of keys with bounded indices, together.
LEMMA BoundedUnion ==
  ASSUME NEW Ids, NEW K, K \subseteq Ids \X Nat, NEW L, L \subseteq Ids \X Nat,
         Bounded(K), Bounded(L)
  PROVE  Bounded(K \cup L)
<1>1. PICK m \in Nat : \A k \in K : k[2] < m
  BY DEF Bounded
<1>2. PICK n \in Nat : \A k \in L : k[2] < n
  BY DEF Bounded
<1>3. \A k \in K \cup L : k[2] < m + n
  <2> TAKE k \in K \cup L
  <2>1. k[2] \in Nat
    OBVIOUS
  <2> QED BY <1>1, <1>2, <2>1
<1> QED BY <1>3 DEF Bounded

\* A single key is bounded, and so is a part of a bounded set.
LEMMA BoundedKey ==
  ASSUME NEW Ids, NEW k \in Ids \X Nat
  PROVE  Bounded({k})
<1>1. k[2] + 1 \in Nat /\ k[2] < k[2] + 1
  OBVIOUS
<1> QED BY <1>1 DEF Bounded

LEMMA BoundedSubset ==
  ASSUME NEW K, NEW L, L \subseteq K, Bounded(K)
  PROVE  Bounded(L)
BY DEF Bounded

-----------------------------------------------------------------------------
(* Messages *)

\* The status of a message row is the one its facts call for.
MessageConsistent(row) ==
  /\ row.status = "Executed" <=> row.executedAt # Null
  /\ row.status = "Failed" <=> row.failedAt # Null

LEMMA MergeEarliestType ==
  ASSUME NEW a \in Nat, NEW b \in Nat
  PROVE  /\ MergeEarliest(a, b) \in Nat
         /\ MergeEarliest(a, b) = Null <=> a = Null /\ b = Null
         /\ Coalesce(a, b) \in Nat
         /\ Coalesce(a, b) = Null <=> a = Null /\ b = Null
BY DEF MergeEarliest, Coalesce, Null

LEMMA MergeMessageType ==
  ASSUME NEW row \in MessageRow, NEW facts \in MessageRow
  PROVE  MergeMessage(row, facts) \in MessageRow
BY MergeEarliestType DEF MergeMessage, MessageRow, MessageStatuses, Null

\* A merge keeps a row consistent unless it writes a failure onto an executed row.
LEMMA MergeMessageConsistent ==
  ASSUME NEW row \in MessageRow, NEW facts \in MessageRow, MessageConsistent(row),
         facts.failedAt # Null => row.executedAt = Null /\ facts.executedAt = Null
  PROVE  MessageConsistent(MergeMessage(row, facts))
<1>1. /\ MergeEarliest(row.executedAt, facts.executedAt) = Null <=>
           row.executedAt = Null /\ facts.executedAt = Null
      /\ Coalesce(facts.failedAt, row.failedAt) = Null <=>
           row.failedAt = Null /\ facts.failedAt = Null
  <2>1. /\ row.executedAt \in Nat /\ facts.executedAt \in Nat
        /\ row.failedAt \in Nat /\ facts.failedAt \in Nat
    BY DEF MessageRow
  <2> QED BY <2>1, MergeEarliestType
<1> QED BY <1>1 DEF MergeMessage, MessageConsistent, Null, MessageRow, MessageStatuses

\* An upsert of messages leaves a table of consistent rows.
LEMMA UpsertMessagesTable ==
  ASSUME NEW t \in MessageTables, NEW K, K \subseteq MessageKeys, NEW facts \in MessageRow
  PROVE  /\ UpsertMessages(t, K, facts) \in MessageTables
         /\ DOMAIN UpsertMessages(t, K, facts) = DOMAIN t \cup K
<1>1. t \in [DOMAIN t -> MessageRow] /\ DOMAIN t \subseteq MessageKeys
  BY TableIsFunction DEF MessageTables
<1>2. \A k \in DOMAIN t : MergeMessage(t[k], facts) \in MessageRow
  BY <1>1, MergeMessageType
<1>3. UpsertMessages(t, K, facts) \in [DOMAIN t \cup K -> MessageRow]
  BY <1>1, <1>2 DEF UpsertMessages
<1>4. DOMAIN t \cup K \subseteq MessageKeys
  BY <1>1
<1> QED BY <1>3, <1>4, FunctionIsTable DEF MessageTables

LEMMA UpsertMessagesConsistent ==
  ASSUME NEW t \in MessageTables, NEW K, K \subseteq MessageKeys, NEW facts \in MessageRow,
         \A k \in DOMAIN t : MessageConsistent(t[k]),
         \A k \in K \ DOMAIN t : MessageConsistent(facts),
         \A k \in K \cap DOMAIN t :
           facts.failedAt # Null => t[k].executedAt = Null /\ facts.executedAt = Null
  PROVE  \A k \in DOMAIN UpsertMessages(t, K, facts) :
           MessageConsistent(UpsertMessages(t, K, facts)[k])
<1>1. t \in [DOMAIN t -> MessageRow]
  BY TableIsFunction DEF MessageTables
<1> SUFFICES ASSUME NEW k \in DOMAIN t \cup K
             PROVE  MessageConsistent(UpsertMessages(t, K, facts)[k])
  BY UpsertMessagesTable
<1>2. CASE k \notin K
  BY <1>2 DEF UpsertMessages
<1>3. CASE k \in K /\ k \in DOMAIN t
  <2>1. MessageConsistent(MergeMessage(t[k], facts))
    BY <1>1, <1>3, MergeMessageConsistent
  <2> QED BY <1>3, <2>1 DEF UpsertMessages
<1>4. CASE k \in K /\ k \notin DOMAIN t
  BY <1>4 DEF UpsertMessages
<1> QED BY <1>2, <1>3, <1>4

-----------------------------------------------------------------------------
(* Payloads *)

LEMMA PayloadStatusType ==
  ASSUME NEW row \in PayloadRow
  PROVE  /\ PayloadStatus(row) \in PayloadStatuses
         /\ WithPayloadStatus(row) \in PayloadRow
         /\ WithPayloadStatus(row).sentAt = row.sentAt
         /\ WithPayloadStatus(row).completedAt = row.completedAt
         /\ WithPayloadStatus(row).status = PayloadStatus(WithPayloadStatus(row))
BY DEF PayloadStatus, WithPayloadStatus, PayloadRow, PayloadStatuses

\* A merge gives a payload row that stays sent, whose status fits its facts.
LEMMA MergePayloadRow ==
  ASSUME NEW row \in PayloadRow, NEW facts \in PayloadRow
  PROVE  /\ MergePayload(row, facts) \in PayloadRow
         /\ MergePayload(row, facts).status = PayloadStatus(MergePayload(row, facts))
         /\ IsSent(row) => IsSent(MergePayload(row, facts))
         /\ facts.completedAt = Null => MergePayload(row, facts).completedAt = row.completedAt
<1> DEFINE r == [underpaidAt       |-> MergeEarliest(row.underpaidAt, facts.underpaidAt),
                 sentAt            |-> MergeEarliest(row.sentAt, facts.sentAt),
                 sentTx            |-> Coalesce(row.sentTx, facts.sentTx),
                 deliveredAt       |-> MergeEarliest(row.deliveredAt, facts.deliveredAt),
                 partiallyFailedAt |-> MergeEarliest(row.partiallyFailedAt, facts.partiallyFailedAt),
                 completedAt       |-> MergeEarliest(row.completedAt, facts.completedAt),
                 status            |-> row.status]
<1>1. r \in PayloadRow
  BY MergeEarliestType DEF PayloadRow
<1>2. IsSent(row) => IsSent(r)
  BY MergeEarliestType DEF PayloadRow, IsSent
<1>3. facts.completedAt = Null => r.completedAt = row.completedAt
  BY DEF MergeEarliest, Null, PayloadRow
<1>4. MergePayload(row, facts) = WithPayloadStatus(r)
  BY DEF MergePayload
<1> HIDE DEF r
<1> QED BY <1>1, <1>2, <1>3, <1>4, PayloadStatusType DEF IsSent

\* An upsert of a payload leaves a table that keeps every row, and every row sent
\* or completed that was.
LEMMA UpsertPayloadTable ==
  ASSUME NEW t \in PayloadTables, NEW key \in PayloadKeys, NEW facts \in PayloadRow,
         facts.completedAt = Null,
         \A k \in DOMAIN t : t[k].status = PayloadStatus(t[k]),
         NEW u, u = UpsertPayload(t, key, facts)
  PROVE  /\ u \in PayloadTables
         /\ DOMAIN u = DOMAIN t \cup {key}
         /\ \A k \in DOMAIN u : u[k].status = PayloadStatus(u[k])
         /\ \A k \in DOMAIN t : /\ IsSent(t[k]) => IsSent(u[k])
                                /\ u[k].completedAt = t[k].completedAt
         /\ key \notin DOMAIN t => u[key].completedAt = Null
<1>1. t \in [DOMAIN t -> PayloadRow] /\ DOMAIN t \subseteq PayloadKeys
  BY TableIsFunction DEF PayloadTables
<1>2. /\ DOMAIN u = DOMAIN t \cup {key}
      /\ \A k \in DOMAIN t : k # key => u[k] = t[k]
      /\ key \in DOMAIN t => u[key] = MergePayload(t[key], facts)
      /\ key \notin DOMAIN t => u[key] = WithPayloadStatus(facts)
      /\ u = [k \in DOMAIN t \cup {key} |-> u[k]]
  BY DEF UpsertPayload
<1>3. \A k \in DOMAIN u : u[k] \in PayloadRow /\ u[k].status = PayloadStatus(u[k])
  BY <1>1, <1>2, MergePayloadRow, PayloadStatusType
<1>4. u \in [DOMAIN t \cup {key} -> PayloadRow]
  BY <1>2, <1>3
<1>5. u \in PayloadTables
  BY <1>1, <1>4, FunctionIsTable DEF PayloadTables
<1>6. \A k \in DOMAIN t : /\ IsSent(t[k]) => IsSent(u[k])
                          /\ u[k].completedAt = t[k].completedAt
  BY <1>1, <1>2, MergePayloadRow
<1>7. key \notin DOMAIN t => u[key].completedAt = Null
  BY <1>2, PayloadStatusType
<1> QED BY <1>2, <1>3, <1>5, <1>6, <1>7

-----------------------------------------------------------------------------
(* The choice of a row *)

\* A receive of a message lands on a row of the message that is not executed.
LEMMA SendTargetsOpen ==
  ASSUME NEW messages, NEW payloads, NEW id, NEW status
  PROVE  /\ SendTargets(messages, payloads, id, status) \subseteq RowsOf(messages, id)
         /\ \A k \in SendTargets(messages, payloads, id, status) : messages[k].executedAt = Null
BY DEF SendTargets, RowsOf

\* A handle lands on a row of the payload that was sent.
LEMMA HandleTargetsSent ==
  ASSUME NEW payloads, NEW id, NEW sentBy, NEW linked, NEW receivedAt
  PROVE  HandleTargets(payloads, id, sentBy, linked, receivedAt)
           \subseteq {k \in RowsOf(payloads, id) : IsSent(payloads[k])}
<1> DEFINE sent == {k \in RowsOf(payloads, id) : IsSent(payloads[k])}
           pointed(I) == {k \in sent : I = {k[2]}}
           causal == {k \in sent : payloads[k].sentAt <= receivedAt}
           fifo == {k \in IF causal # {} THEN causal ELSE sent : IsOpen(payloads[k])}
           fresh == {k \in fifo : payloads[k].deliveredAt = Null}
           rest == {k \in sent : k[2] \in linked /\ \A i \in linked : k[2] <= i}
<1>1. /\ pointed(sentBy) \subseteq sent /\ pointed(linked) \subseteq sent
      /\ fresh \subseteq sent /\ fifo \subseteq sent /\ rest \subseteq sent
  OBVIOUS
<1>2. HandleTargets(payloads, id, sentBy, linked, receivedAt) \in
        {pointed(sentBy), pointed(linked), fresh, fifo, rest}
  BY DEF HandleTargets
<1> QED BY <1>1, <1>2

\* Mutate names a row of the set it is given, Create the index after all of them.
LEMMA MutateAndCreate ==
  ASSUME NEW payloads \in PayloadTables, Bounded(DOMAIN payloads), NEW id \in PayloadIds,
         NEW K, K \subseteq RowsOf(payloads, id)
  PROVE  /\ K # {} => /\ Mutate(K).action = "mutate"
                      /\ Mutate(K).index \in Nat
                      /\ <<id, Mutate(K).index>> \in DOMAIN payloads
         /\ Create(K).action = "create" /\ Create(K).index \in Nat
<1>1. DOMAIN payloads \subseteq PayloadIds \X Nat
  BY TableIsFunction DEF PayloadTables, PayloadKeys
<1>2. K \subseteq PayloadIds \X Nat /\ K \subseteq DOMAIN payloads /\ \A k \in K : k[1] = id
  BY <1>1 DEF RowsOf
<1>3. K # {} => Lowest(K) \in K
  BY <1>2, LowestIsLowest
<1>4. K # {} => Lowest(K)[2] \in Nat /\ <<id, Lowest(K)[2]>> \in DOMAIN payloads
  <2> SUFFICES ASSUME K # {} PROVE Lowest(K)[2] \in Nat /\ <<id, Lowest(K)[2]>> \in DOMAIN payloads
    OBVIOUS
  <2>1. \A k \in K : k[2] \in Nat /\ <<id, k[2]>> = k
    BY <1>2
  <2> QED BY <1>2, <1>3, <2>1
<1>5. NextIndex(K) \in Nat
  BY <1>2, BoundedSubset, NextIndexIsNext
<1> QED BY <1>4, <1>5 DEF Mutate, Create

\* The row of a send event: a row there is, the next one, or none; a SendPayload
\* always gets one.
LEMMA ResolvePayloadKeyType ==
  ASSUME NEW kind, NEW payloads \in PayloadTables, Bounded(DOMAIN payloads),
         NEW id \in PayloadIds, NEW hint, NEW newSend, NEW tx,
         NEW r, r = ResolvePayloadKey(kind, payloads, id, hint, newSend, tx)
  PROVE  /\ r.action # "defer" => r.index \in Nat
         /\ r.action = "mutate" => <<id, r.index>> \in DOMAIN payloads
         /\ kind = "SendPayload" => r.action # "defer"
<1> DEFINE rows == RowsOf(payloads, id)
           open == {k \in rows : IsOpen(payloads[k])}
           unsent == {k \in rows : ~IsSent(payloads[k])}
           sameTx == {k \in rows : tx # Null /\ payloads[k].sentTx = tx}
           hinted == {k \in rows : k[2] = hint}
           Found == {Mutate(K) : K \in {L \in {sameTx, hinted, unsent, open \cap unsent, open} : L # {}}}
<1>1. r \in Found \cup {Create(rows), Defer}
  BY DEF ResolvePayloadKey
<1>2. kind = "SendPayload" => r \in Found \cup {Create(rows)}
  BY DEF ResolvePayloadKey
<1>3. \A f \in Found : /\ f.action = "mutate" /\ f.index \in Nat
                       /\ <<id, f.index>> \in DOMAIN payloads
  BY MutateAndCreate
<1>4. Create(rows).action = "create" /\ Create(rows).index \in Nat
  BY MutateAndCreate
<1>5. Defer.action = "defer"
  BY DEF Defer
<1> HIDE DEF Found
<1> QED BY <1>1, <1>2, <1>3, <1>4, <1>5

-----------------------------------------------------------------------------
(* Databases that the handlers keep *)

Databases ==
  [messages: MessageTables, payloads: PayloadTables, participations: SUBSET Participations,
   messageQueue: SUBSET MessageReceives, payloadQueue: SUBSET PayloadReceives,
   poolAdapters: Tables(Pools \X Adapters, PoolAdapterRow)]

Finite(d) ==
  /\ Bounded(DOMAIN d.messages) /\ Bounded(DOMAIN d.payloads)
  /\ IsFiniteSet(d.participations)
  /\ IsFiniteSet(d.messageQueue) /\ IsFiniteSet(d.payloadQueue)

\* Every status fits the facts of its row.
Consistent(d) ==
  /\ \A k \in DOMAIN d.messages : MessageConsistent(d.messages[k])
  /\ \A k \in DOMAIN d.payloads : d.payloads[k].status = PayloadStatus(d.payloads[k])

\* Handles are booked on rows that were sent, completed rows were sent and handled.
Carried(d) ==
  /\ \A q \in d.participations :
       q.side = "HANDLE" => q.payload \in DOMAIN d.payloads /\ IsSent(d.payloads[q.payload])
  /\ \A k \in DOMAIN d.payloads : ~IsOpen(d.payloads[k]) =>
       /\ IsSent(d.payloads[k])
       /\ ParticipationsOf(d, k, "SEND") # {} /\ ParticipationsOf(d, k, "HANDLE") # {}

Good == {d \in Databases : Finite(d) /\ Consistent(d) /\ Carried(d)}

-----------------------------------------------------------------------------
(* One table is written *)

LEMMA WriteMessages ==
  ASSUME NEW d \in Good, NEW t \in MessageTables, Bounded(DOMAIN t),
         \A k \in DOMAIN t : MessageConsistent(t[k])
  PROVE  [d EXCEPT !.messages = t] \in Good
<1> DEFINE e == [d EXCEPT !.messages = t]
<1>1. e \in Databases
  BY DEF Good, Databases
<1>2. /\ e.messages = t /\ e.payloads = d.payloads /\ e.participations = d.participations
      /\ e.messageQueue = d.messageQueue /\ e.payloadQueue = d.payloadQueue
  BY DEF Good, Databases
<1> HIDE DEF e
<1>3. Finite(e) /\ Consistent(e)
  BY <1>2 DEF Good, Finite, Consistent
<1>4. Carried(e)
  BY <1>2 DEF Good, Carried, ParticipationsOf
<1> QED BY <1>1, <1>3, <1>4 DEF Good, e

\* Rows of payloads are added or gain facts; a row that is completed now was
\* completed before.
LEMMA WritePayloads ==
  ASSUME NEW d \in Good, NEW t \in PayloadTables, Bounded(DOMAIN t),
         \A k \in DOMAIN t : t[k].status = PayloadStatus(t[k]),
         DOMAIN d.payloads \subseteq DOMAIN t,
         \A k \in DOMAIN d.payloads : IsSent(d.payloads[k]) => IsSent(t[k]),
         \A k \in DOMAIN t : ~IsOpen(t[k]) => k \in DOMAIN d.payloads /\ ~IsOpen(d.payloads[k])
  PROVE  [d EXCEPT !.payloads = t] \in Good
<1> DEFINE e == [d EXCEPT !.payloads = t]
<1>1. e \in Databases
  BY DEF Good, Databases
<1>2. /\ e.payloads = t /\ e.messages = d.messages /\ e.participations = d.participations
      /\ e.messageQueue = d.messageQueue /\ e.payloadQueue = d.payloadQueue
  BY DEF Good, Databases
<1> HIDE DEF e
<1>3. Finite(e) /\ Consistent(e)
  BY <1>2 DEF Good, Finite, Consistent
<1>4. Carried(e)
  BY <1>2 DEF Good, Carried, ParticipationsOf
<1> QED BY <1>1, <1>3, <1>4 DEF Good, e

LEMMA WriteParticipation ==
  ASSUME NEW d \in Good, NEW q \in Participations,
         q.side = "HANDLE" => q.payload \in DOMAIN d.payloads /\ IsSent(d.payloads[q.payload])
  PROVE  [d EXCEPT !.participations = @ \cup {q}] \in Good
<1> DEFINE e == [d EXCEPT !.participations = @ \cup {q}]
<1>1. e \in Databases
  BY DEF Good, Databases
<1>2. /\ e.payloads = d.payloads /\ e.messages = d.messages
      /\ e.participations = d.participations \cup {q}
      /\ e.messageQueue = d.messageQueue /\ e.payloadQueue = d.payloadQueue
  BY DEF Good, Databases
<1> HIDE DEF e
<1>3. IsFiniteSet(e.participations)
  <2>1. IsFiniteSet(d.participations)
    BY DEF Good, Finite
  <2>2. IsFiniteSet(d.participations \cup {q})
    BY <2>1, FS_AddElement
  <2> QED BY <1>2, <2>2
<1>4. Finite(e) /\ Consistent(e)
  BY <1>2, <1>3 DEF Good, Finite, Consistent
<1>5. Carried(e)
  BY <1>2 DEF Good, Carried, ParticipationsOf
<1> QED BY <1>1, <1>4, <1>5 DEF Good, e

LEMMA WritePoolAdapters ==
  ASSUME NEW d \in Good, NEW t \in Tables(Pools \X Adapters, PoolAdapterRow)
  PROVE  [d EXCEPT !.poolAdapters = t] \in Good
<1> DEFINE e == [d EXCEPT !.poolAdapters = t]
<1>1. e \in Databases
  BY DEF Good, Databases
<1>2. /\ e.payloads = d.payloads /\ e.messages = d.messages /\ e.participations = d.participations
      /\ e.messageQueue = d.messageQueue /\ e.payloadQueue = d.payloadQueue
  BY DEF Good, Databases
<1> HIDE DEF e
<1>3. Finite(e) /\ Consistent(e) /\ Carried(e)
  BY <1>2 DEF Good, Finite, Consistent, Carried, ParticipationsOf
<1> QED BY <1>1, <1>3 DEF Good, e

LEMMA WriteMessageQueue ==
  ASSUME NEW d \in Good, NEW q, q \subseteq MessageReceives, IsFiniteSet(q)
  PROVE  [d EXCEPT !.messageQueue = q] \in Good
<1> DEFINE e == [d EXCEPT !.messageQueue = q]
<1>1. e \in Databases
  BY DEF Good, Databases
<1>2. /\ e.payloads = d.payloads /\ e.messages = d.messages /\ e.participations = d.participations
      /\ e.messageQueue = q /\ e.payloadQueue = d.payloadQueue
  BY DEF Good, Databases
<1> HIDE DEF e
<1>3. Finite(e) /\ Consistent(e) /\ Carried(e)
  BY <1>2 DEF Good, Finite, Consistent, Carried, ParticipationsOf
<1> QED BY <1>1, <1>3 DEF Good, e

LEMMA WritePayloadQueue ==
  ASSUME NEW d \in Good, NEW q, q \subseteq PayloadReceives, IsFiniteSet(q)
  PROVE  [d EXCEPT !.payloadQueue = q] \in Good
<1> DEFINE e == [d EXCEPT !.payloadQueue = q]
<1>1. e \in Databases
  BY DEF Good, Databases
<1>2. /\ e.payloads = d.payloads /\ e.messages = d.messages /\ e.participations = d.participations
      /\ e.messageQueue = d.messageQueue /\ e.payloadQueue = q
  BY DEF Good, Databases
<1> HIDE DEF e
<1>3. Finite(e) /\ Consistent(e) /\ Carried(e)
  BY <1>2 DEF Good, Finite, Consistent, Carried, ParticipationsOf
<1> QED BY <1>1, <1>3 DEF Good, e

-----------------------------------------------------------------------------
(* The upserts and the aggregate update *)

LEMMA GoodTables ==
  ASSUME NEW d \in Good
  PROVE  /\ d.messages \in MessageTables /\ d.payloads \in PayloadTables
         /\ DOMAIN d.messages \subseteq MessageKeys /\ DOMAIN d.payloads \subseteq PayloadKeys
         /\ d.messages \in [DOMAIN d.messages -> MessageRow]
         /\ d.payloads \in [DOMAIN d.payloads -> PayloadRow]
<1>1. d.messages \in MessageTables /\ d.payloads \in PayloadTables
  BY DEF Good, Databases
<1> QED BY <1>1, TableIsFunction DEF MessageTables, PayloadTables

LEMMA UpsertMessagesGood ==
  ASSUME NEW d \in Good, NEW K, K \subseteq MessageKeys, Bounded(K), NEW facts \in MessageRow,
         \A k \in K \ DOMAIN d.messages : MessageConsistent(facts),
         \A k \in K \cap DOMAIN d.messages :
           facts.failedAt # Null => d.messages[k].executedAt = Null /\ facts.executedAt = Null
  PROVE  [d EXCEPT !.messages = UpsertMessages(@, K, facts)] \in Good
<1> DEFINE t == UpsertMessages(d.messages, K, facts)
<1>1. t \in MessageTables /\ DOMAIN t = DOMAIN d.messages \cup K
  BY GoodTables, UpsertMessagesTable
<1>2. \A k \in DOMAIN d.messages : MessageConsistent(d.messages[k])
  BY DEF Good, Consistent
<1>3. \A k \in DOMAIN t : MessageConsistent(t[k])
  BY <1>2, GoodTables, UpsertMessagesConsistent
<1>4. Bounded(DOMAIN d.messages) /\ DOMAIN d.messages \subseteq MessageIds \X Nat
      /\ K \subseteq MessageIds \X Nat
  BY GoodTables DEF Good, Finite, MessageKeys
<1>. HIDE DEF t
<1>5. Bounded(DOMAIN d.messages \cup K)
  BY <1>4, BoundedUnion
<1>6. [d EXCEPT !.messages = t] \in Good
  <2>1. Bounded(DOMAIN t)
    BY <1>1, <1>5
  <2> QED BY <1>1, <1>3, <2>1, WriteMessages
<1> QED BY <1>6 DEF t

LEMMA UpsertPayloadGood ==
  ASSUME NEW d \in Good, NEW key \in PayloadKeys, NEW facts \in PayloadRow,
         facts.completedAt = Null
  PROVE  [d EXCEPT !.payloads = UpsertPayload(@, key, facts)] \in Good
<1> DEFINE t == UpsertPayload(d.payloads, key, facts)
<1>1. \A k \in DOMAIN d.payloads : d.payloads[k].status = PayloadStatus(d.payloads[k])
  BY DEF Good, Consistent
<1>2. /\ t \in PayloadTables
      /\ DOMAIN t = DOMAIN d.payloads \cup {key}
      /\ \A k \in DOMAIN t : t[k].status = PayloadStatus(t[k])
      /\ \A k \in DOMAIN d.payloads : /\ IsSent(d.payloads[k]) => IsSent(t[k])
                                      /\ t[k].completedAt = d.payloads[k].completedAt
      /\ key \notin DOMAIN d.payloads => t[key].completedAt = Null
  <2>1. t = UpsertPayload(d.payloads, key, facts)
    OBVIOUS
  <2>2. d.payloads \in PayloadTables
    BY GoodTables
  <2> HIDE DEF t
  <2> QED BY <1>1, <2>1, <2>2, UpsertPayloadTable, SMTT(60)
<1>3. /\ Bounded(DOMAIN d.payloads) /\ DOMAIN d.payloads \subseteq PayloadIds \X Nat
      /\ key \in PayloadIds \X Nat
  BY GoodTables DEF Good, Finite, PayloadKeys
<1>4. Bounded({key}) /\ {key} \subseteq PayloadIds \X Nat
  BY <1>3, BoundedKey
<1>5. Bounded(DOMAIN t)
  BY <1>2, <1>3, <1>4, BoundedUnion
<1>6. \A k \in DOMAIN t : ~IsOpen(t[k]) => k \in DOMAIN d.payloads /\ ~IsOpen(d.payloads[k])
  BY <1>2 DEF IsOpen
<1> HIDE DEF t
<1>7. [d EXCEPT !.payloads = t] \in Good
  BY <1>2, <1>5, <1>6, WritePayloads
<1> QED BY <1>7 DEF t

\* When the votes agree in number and some adapter sent, some adapter handled.
LEMMA AdaptersDoneHandled ==
  ASSUME NEW d \in Good, NEW key, AdaptersDone(d, key)
  PROVE  /\ ParticipationsOf(d, key, "SEND") # {}
         /\ ParticipationsOf(d, key, "HANDLE") # {}
<1> DEFINE send == ParticipationsOf(d, key, "SEND")
           handle == ParticipationsOf(d, key, "HANDLE")
<1>1. IsFiniteSet(d.participations) /\ send \subseteq d.participations
      /\ handle \subseteq d.participations
  BY DEF Good, Finite, ParticipationsOf
<1>2. IsFiniteSet(send) /\ IsFiniteSet(handle)
  BY <1>1, FS_Subset
<1>3. send # {} /\ Cardinality(send) = Cardinality(handle)
  BY DEF AdaptersDone
<1>4. Cardinality(send) # 0
  BY <1>2, <1>3, FS_EmptySet
<1>5. handle # {}
  BY <1>3, <1>4, FS_EmptySet
<1> QED BY <1>3, <1>5

\* The aggregate update completes a row only when the row was sent and handled.
LEMMA RefreshPayloadGood ==
  ASSUME NEW d \in Good, NEW key, NEW time \in Nat, NEW setDelivered \in BOOLEAN
  PROVE  RefreshPayload(d, key, time, setDelivered) \in Good
<1>1. CASE key \notin DOMAIN d.payloads
  BY <1>1 DEF RefreshPayload
<1>2. CASE key \in DOMAIN d.payloads
  <2> DEFINE row == d.payloads[key]
             delivered == IF setDelivered THEN Coalesce(row.deliveredAt, time) ELSE row.deliveredAt
             partially == IF delivered # Null /\ SomeFailed(d, key) THEN time ELSE Null
             completed == IF AdaptersDone(d, key) /\ AllExecuted(d, key) THEN time ELSE Null
             new == [row EXCEPT !.deliveredAt = delivered,
                                !.partiallyFailedAt = Coalesce(@, partially),
                                !.completedAt = Coalesce(@, completed)]
             r == WithPayloadStatus(new)
             t == [d.payloads EXCEPT ![key] = r]
             e == [d EXCEPT !.payloads = t]
  <2>1. row \in PayloadRow
    BY <1>2, GoodTables
  <2>2. delivered \in Nat /\ partially \in Nat /\ completed \in Nat
    <3>1. row.deliveredAt \in Nat
      BY <2>1 DEF PayloadRow
    <3> QED BY <3>1, MergeEarliestType DEF Null
  <2>3. /\ new \in PayloadRow /\ new.sentAt = row.sentAt
        /\ new.completedAt # Null => row.completedAt # Null \/ completed # Null
    <3> HIDE DEF delivered, partially, completed, row
    <3>1. Coalesce(row.partiallyFailedAt, partially) \in Nat /\ Coalesce(row.completedAt, completed) \in Nat
      BY <2>1, <2>2 DEF PayloadRow, Coalesce
    <3>2. row.completedAt = Null /\ completed = Null => Coalesce(row.completedAt, completed) = Null
      BY DEF Coalesce
    <3> HIDE DEF Coalesce
    <3> QED BY <2>1, <2>2, <3>1, <3>2 DEF PayloadRow
  <2>4. /\ r \in PayloadRow /\ r.status = PayloadStatus(r)
        /\ IsSent(row) => IsSent(r)
        /\ ~IsOpen(r) => ~IsOpen(row) \/ AdaptersDone(d, key)
    <3> HIDE DEF new, row
    <3> QED BY <2>3, PayloadStatusType DEF IsSent, IsOpen
  <2>5. RefreshPayload(d, key, time, setDelivered) = e
    BY <1>2 DEF RefreshPayload
  <2> HIDE DEF r, new, delivered, partially, completed
  <2>6. t \in PayloadTables /\ DOMAIN t = DOMAIN d.payloads
    <3>1. t \in [DOMAIN d.payloads -> PayloadRow] /\ DOMAIN d.payloads \subseteq PayloadKeys
      BY <2>4, GoodTables
    <3> QED BY <3>1, FunctionIsTable DEF PayloadTables
  <2>7. /\ t[key] = r
        /\ \A k \in DOMAIN t : k # key => t[k] = d.payloads[k]
    BY <1>2
  <2> HIDE DEF t
  <2>8. e \in Databases
    BY <2>6 DEF Good, Databases
  <2>9. /\ e.payloads = t /\ e.messages = d.messages /\ e.participations = d.participations
        /\ e.messageQueue = d.messageQueue /\ e.payloadQueue = d.payloadQueue
    BY DEF Good, Databases
  <2> HIDE DEF e
  <2>10. Finite(e) /\ Consistent(e)
    BY <2>4, <2>6, <2>7, <2>9 DEF Good, Finite, Consistent
  <2>11. Carried(e)
    <3>1. \A q \in e.participations : q.side = "HANDLE" =>
            q.payload \in DOMAIN e.payloads /\ IsSent(e.payloads[q.payload])
      BY <2>4, <2>6, <2>7, <2>9 DEF Good, Carried
    <3>2. \A k, side : ParticipationsOf(e, k, side) = ParticipationsOf(d, k, side)
      BY <2>9 DEF ParticipationsOf
    <3>3. ASSUME NEW k \in DOMAIN e.payloads, ~IsOpen(e.payloads[k])
          PROVE  /\ IsSent(e.payloads[k]) /\ ParticipationsOf(e, k, "SEND") # {}
                 /\ ParticipationsOf(e, k, "HANDLE") # {}
      <4>1. CASE k = key /\ AdaptersDone(d, key)
        <5>1. /\ ParticipationsOf(d, key, "SEND") # {} /\ ParticipationsOf(d, key, "HANDLE") # {}
          BY <4>1, AdaptersDoneHandled
        <5>2. PICK q \in ParticipationsOf(d, key, "HANDLE") : TRUE
          BY <5>1
        <5>3. q \in e.participations /\ q.side = "HANDLE" /\ q.payload = key
          BY <5>2, <2>9 DEF ParticipationsOf
        <5> QED BY <4>1, <5>1, <5>3, <3>1, <3>2
      <4>2. CASE k = key /\ ~AdaptersDone(d, key)
        BY <4>2, <3>2, <3>3, <2>4, <2>6, <2>7, <2>9 DEF Good, Carried
      <4>3. CASE k # key
        BY <4>3, <3>2, <3>3, <2>6, <2>7, <2>9 DEF Good, Carried
      <4> QED BY <4>1, <4>2, <4>3
    <3> QED BY <3>1, <3>3 DEF Carried
  <2>12. e \in Good
    BY <2>8, <2>10, <2>11 DEF Good
  <2> QED BY <2>5, <2>12
<1> QED BY <1>1, <1>2

-----------------------------------------------------------------------------
(* One receive *)

LEMMA ReceiveFactsType ==
  ASSUME NEW e \in MessageReceives
  PROVE  /\ ReceiveFacts(e) \in MessageRow
         /\ ReceiveFacts(e).failedAt # Null => ReceiveFacts(e).executedAt = Null
<1>1. e.time \in Nat /\ e.pos \in Nat
  BY DEF MessageReceives, Times
<1>2. NoMessageFacts \in MessageRow /\ NoMessageFacts.failedAt = Null /\ NoMessageFacts.executedAt = Null
  BY DEF NoMessageFacts, MessageRow, MessageStatuses, Null
<1>3. CASE e.status = "execute"
  <2>1. ReceiveFacts(e) = [NoMessageFacts EXCEPT !.executedAt = e.time, !.executedLog = e.pos]
    BY <1>3 DEF ReceiveFacts
  <2> QED BY <1>1, <1>2, <2>1 DEF MessageRow
<1>4. CASE e.status # "execute"
  <2>1. ReceiveFacts(e) = [NoMessageFacts EXCEPT !.failedAt = e.time]
    BY <1>4 DEF ReceiveFacts
  <2> QED BY <1>1, <1>2, <2>1 DEF MessageRow
<1> QED BY <1>3, <1>4

LEMMA ClearInProgressGood ==
  ASSUME NEW d \in Good, NEW pool
  PROVE  ClearInProgress(d, pool) \in Good
<1> DEFINE t == [k \in DOMAIN d.poolAdapters |->
                   IF k[1] = pool THEN [d.poolAdapters[k] EXCEPT !.inProgress = "None"]
                   ELSE d.poolAdapters[k]]
<1>1. d.poolAdapters \in Tables(Pools \X Adapters, PoolAdapterRow)
  BY DEF Good, Databases
<1>2. /\ DOMAIN d.poolAdapters \subseteq Pools \X Adapters
      /\ d.poolAdapters \in [DOMAIN d.poolAdapters -> PoolAdapterRow]
  BY <1>1, TableIsFunction
<1>3. t \in [DOMAIN d.poolAdapters -> PoolAdapterRow]
  BY <1>2 DEF PoolAdapterRow
<1>4. t \in Tables(Pools \X Adapters, PoolAdapterRow)
  BY <1>2, <1>3, FunctionIsTable
<1>5. ClearInProgress(d, pool) = [d EXCEPT !.poolAdapters = t]
  BY DEF ClearInProgress
<1> QED BY <1>4, <1>5, WritePoolAdapters

LEMMA WriteMessageReceiveGood ==
  ASSUME NEW d \in Good, NEW e \in MessageReceives, NEW key \in DOMAIN d.messages,
         d.messages[key].executedAt = Null
  PROVE  WriteMessageReceive(d, e, key) \in Good
<1> DEFINE facts == ReceiveFacts(e)
           written == [d EXCEPT !.messages = UpsertMessages(@, {key}, facts)]
           cleared == IF e.status = "fail" /\ IsSetPoolAdapters(e.id)
                      THEN ClearInProgress(written, PoolOf[e.id]) ELSE written
<1>1. facts \in MessageRow /\ (facts.failedAt # Null => facts.executedAt = Null)
  BY ReceiveFactsType
<1>2. key \in MessageIds \X Nat
  BY GoodTables DEF MessageKeys
<1>3. {key} \subseteq MessageKeys /\ Bounded({key})
  BY <1>2, BoundedKey DEF MessageKeys
<1> HIDE DEF facts
<1>4. written \in Good
  BY <1>1, <1>3, UpsertMessagesGood
<1> HIDE DEF written
<1>5. cleared \in Good
  BY <1>4, ClearInProgressGood
<1>6. e.time \in Nat
  BY DEF MessageReceives, Times
<1>7. WriteMessageReceive(d, e, key) = RefreshPayload(cleared, d.messages[key].payload, e.time, TRUE)
  BY DEF WriteMessageReceive, written, facts
<1> HIDE DEF cleared
<1> QED BY <1>5, <1>6, <1>7, RefreshPayloadGood

LEMMA OutcomeType ==
  ASSUME NEW d
  PROVE  /\ Applied(d).db = d /\ Applied(d).applied \in BOOLEAN
         /\ Waiting(d).db = d /\ Waiting(d).applied \in BOOLEAN
BY DEF Applied, Waiting

\* A message receive is applied or waits; either way the tables stay well-formed.
LEMMA TryMessageReceiveGood ==
  ASSUME NEW d \in Good, NEW e \in MessageReceives
  PROVE  /\ TryMessageReceive(d, e).db \in Good
         /\ TryMessageReceive(d, e).applied \in BOOLEAN
<1> DEFINE targets == SendTargets(d.messages, d.payloads, e.id, e.status)
           key == Lowest(targets)
<1>1. targets \subseteq RowsOf(d.messages, e.id) /\ \A k \in targets : d.messages[k].executedAt = Null
  BY SendTargetsOpen
<1>2. targets \subseteq DOMAIN d.messages /\ targets \subseteq MessageIds \X Nat
  BY <1>1, GoodTables DEF RowsOf, MessageKeys
<1> HIDE DEF targets
<1>3. targets # {} => key \in targets
  BY <1>2, LowestIsLowest
<1>4. targets # {} => WriteMessageReceive(d, e, key) \in Good
  BY <1>1, <1>2, <1>3, WriteMessageReceiveGood
<1>5. \/ TryMessageReceive(d, e) = Waiting(d)
      \/ TryMessageReceive(d, e) = Applied(d)
      \/ targets # {} /\ TryMessageReceive(d, e) = Applied(WriteMessageReceive(d, e, key))
  BY DEF TryMessageReceive, targets
<1> HIDE DEF key
<1> QED BY <1>4, <1>5, OutcomeType

LEMMA WritePayloadReceiveGood ==
  ASSUME NEW d \in Good, NEW e \in PayloadReceives, NEW key \in DOMAIN d.payloads,
         IsSent(d.payloads[key])
  PROVE  WritePayloadReceive(d, e, key) \in Good
<1> DEFINE handled == [payload |-> key, adapter |-> e.adapter, side |-> "HANDLE", type |-> e.type]
           delivered == [NoPayloadFacts EXCEPT !.deliveredAt = e.time]
           booked == [d EXCEPT !.participations = @ \cup {handled}]
           stamped == [booked EXCEPT !.payloads = UpsertPayload(@, key, delivered)]
           written == IF d.payloads[key].deliveredAt = Null THEN stamped ELSE booked
<1>1. key \in PayloadKeys
  BY GoodTables
<1>2. handled \in Participations
  BY <1>1 DEF Participations, PayloadReceives
<1>3. booked \in Good
  BY <1>2, WriteParticipation
<1>4. e.time \in Nat
  BY DEF PayloadReceives, Times
<1>5. delivered \in PayloadRow /\ delivered.completedAt = Null
  BY <1>4 DEF NoPayloadFacts, PayloadRow, PayloadStatuses, Null
<1>6. booked.payloads = d.payloads
  BY DEF Good, Databases
<1>7. [d EXCEPT !.participations = @ \cup {handled},
                !.payloads = IF @[key].deliveredAt = Null THEN UpsertPayload(@, key, delivered) ELSE @]
        = written
  BY <1>6 DEF Good, Databases
<1>8. WritePayloadReceive(d, e, key) = RefreshPayload(written, key, e.time, FALSE)
  BY <1>7 DEF WritePayloadReceive
<1> HIDE DEF booked, delivered
<1>9. written \in Good
  BY <1>1, <1>3, <1>5, UpsertPayloadGood
<1> HIDE DEF written
<1> QED BY <1>4, <1>8, <1>9, RefreshPayloadGood

LEMMA TryPayloadReceiveGood ==
  ASSUME NEW d \in Good, NEW e \in PayloadReceives
  PROVE  /\ TryPayloadReceive(d, e).db \in Good
         /\ TryPayloadReceive(d, e).applied \in BOOLEAN
<1> DEFINE targets == HandleTargets(d.payloads, e.id, SentBy(d, e), LinkedIndices(d, e.id), e.time)
           key == Lowest(targets)
<1>1. targets \subseteq {k \in RowsOf(d.payloads, e.id) : IsSent(d.payloads[k])}
  BY HandleTargetsSent
<1>2. /\ targets \subseteq DOMAIN d.payloads /\ targets \subseteq PayloadIds \X Nat
      /\ \A k \in targets : IsSent(d.payloads[k])
  BY <1>1, GoodTables DEF RowsOf, PayloadKeys
<1> HIDE DEF targets
<1>3. targets # {} => key \in targets
  BY <1>2, LowestIsLowest
<1>4. targets # {} => WritePayloadReceive(d, e, key) \in Good
  BY <1>2, <1>3, WritePayloadReceiveGood
<1>5. \/ TryPayloadReceive(d, e) = Waiting(d)
      \/ targets # {} /\ TryPayloadReceive(d, e) = Applied(WritePayloadReceive(d, e, key))
  BY DEF TryPayloadReceive, targets
<1> HIDE DEF key
<1> QED BY <1>4, <1>5, OutcomeType

-----------------------------------------------------------------------------
(* The work lists *)

\* A log of a chain has a time and a position.
IsLogs(T) == \A e \in T : e.time \in Nat /\ e.pos \in Nat

LEMMA EarliestThere ==
  ASSUME NEW T, IsLogs(T), T # {}
  PROVE  Earliest(T) \subseteq T /\ Earliest(T) # {}
<1> DEFINE I == {e.time : e \in T}
<1>1. I \subseteq Nat /\ I # {}
  BY DEF IsLogs
<1>2. PICK i \in I : \A j \in I : i <= j
  BY <1>1, LeastNatural
<1>3. PICK e \in T : e.time = i
  OBVIOUS
<1>4. \A f \in T : e.time <= f.time
  BY <1>2, <1>3
<1> QED BY <1>3, <1>4 DEF Earliest

LEMMA PreferThere ==
  ASSUME NEW T, NEW P, T # {}
  PROVE  Prefer(T, P) \subseteq T /\ Prefer(T, P) # {}
BY DEF Prefer

LEMMA FirstLoggedThere ==
  ASSUME NEW T, IsLogs(T), T # {}
  PROVE  FirstLogged(T) \in T
<1> DEFINE I == {e.pos : e \in T}
<1>1. I \subseteq Nat /\ I # {}
  BY DEF IsLogs
<1>2. PICK i \in I : \A j \in I : i <= j
  BY <1>1, LeastNatural
<1>3. PICK e \in T : e.pos = i
  OBVIOUS
<1>4. \A f \in T : e.pos <= f.pos
  BY <1>2, <1>3
<1> QED BY <1>3, <1>4 DEF FirstLogged

\* The next receive of a work list is one of it.
LEMMA NextReceiveThere ==
  ASSUME NEW T, IsLogs(T), T # {}, NEW incoming
  PROVE  NextMessageReceive(T, incoming) \in T /\ NextPayloadReceive(T, incoming) \in T
<1> DEFINE fails == {e \in T : e.status = "fail"}
           first == Earliest(T)
           preferred == Prefer(first, fails)
<1>1. first \subseteq T /\ first # {}
  BY EarliestThere
<1> HIDE DEF first
<1>2. preferred \subseteq T /\ preferred # {}
  BY <1>1, PreferThere
<1> HIDE DEF preferred
<1>3. /\ Prefer(preferred, incoming) \subseteq T /\ Prefer(preferred, incoming) # {}
      /\ Prefer(first, incoming) \subseteq T /\ Prefer(first, incoming) # {}
  BY <1>1, <1>2, PreferThere
<1>4. IsLogs(Prefer(preferred, incoming)) /\ IsLogs(Prefer(first, incoming))
  BY <1>3 DEF IsLogs
<1>5. FirstLogged(Prefer(preferred, incoming)) \in T /\ FirstLogged(Prefer(first, incoming)) \in T
  BY <1>3, <1>4, FirstLoggedThere
<1> QED BY <1>5 DEF NextMessageReceive, NextPayloadReceive, preferred, first

-----------------------------------------------------------------------------
(* The loops: a set of databases that a receive and a write of its queue do  *)
(* not leave is not left by draining that queue                              *)

KeepsMessageReceives(S) ==
  /\ S \subseteq Good
  /\ \A d \in S, e \in MessageReceives : TryMessageReceive(d, e).db \in S
  /\ \A d \in S, q \in SUBSET MessageReceives :
       IsFiniteSet(q) => [d EXCEPT !.messageQueue = q] \in S

KeepsPayloadReceives(S) ==
  /\ S \subseteq Good
  /\ \A d \in S, e \in PayloadReceives : TryPayloadReceive(d, e).db \in S
  /\ \A d \in S, q \in SUBSET PayloadReceives :
       IsFiniteSet(q) => [d EXCEPT !.payloadQueue = q] \in S

(* What a turn keeps of the tables and the work list together is kept until *)
(* the list is empty                                                        *)

MessageWork == Good \X SUBSET MessageReceives
PayloadWork == Good \X SUBSET PayloadReceives

\* From any pair in R, one turn leads to a pair in R.
KeepsMessageTurns(R, incoming) ==
  /\ R \subseteq MessageWork
  /\ \A s : <<s.db, s.todo>> \in R /\ IsFiniteSet(s.todo) /\ s.todo # {} =>
       <<MessageTurn(s, incoming).db, MessageTurn(s, incoming).todo>> \in R

KeepsPayloadTurns(R, incoming) ==
  /\ R \subseteq PayloadWork
  /\ \A s : <<s.db, s.todo>> \in R /\ IsFiniteSet(s.todo) /\ s.todo # {} =>
       <<PayloadTurn(s, incoming).db, PayloadTurn(s, incoming).todo>> \in R

\* A loop has a run of every length.
LEMMA MessageRun ==
  ASSUME NEW start, NEW incoming, NEW N \in Nat
  PROVE  \E run : run = [i \in 0..N |-> IF i = 0 THEN start ELSE MessageTurn(run[i - 1], incoming)]
<1> DEFINE IsRun(run, n) ==
             run = [i \in 0..n |-> IF i = 0 THEN start ELSE MessageTurn(run[i - 1], incoming)]
           T == {n \in Nat : \E run : IsRun(run, n)}
<1>1. 0 \in T
  <2> DEFINE one == [i \in 0..0 |-> start]
  <2>1. IsRun(one, 0)
    OBVIOUS
  <2> QED BY <2>1
<1>2. ASSUME NEW n \in Nat, n \in T PROVE n + 1 \in T
  <2>1. PICK run : IsRun(run, n)
    BY <1>2
  <2> DEFINE more == [i \in 0..(n + 1) |-> IF i = n + 1 THEN MessageTurn(run[n], incoming) ELSE run[i]]
  <2>2. /\ more[0] = start
        /\ \A i \in 1..n : more[i] = MessageTurn(more[i - 1], incoming)
        /\ more[n + 1] = MessageTurn(more[n], incoming)
    BY <2>1
  <2>3. \A i \in 0..(n + 1) : more[i] = IF i = 0 THEN start ELSE MessageTurn(more[i - 1], incoming)
    <3> TAKE i \in 0..(n + 1)
    <3>1. i = 0 \/ i \in 1..n \/ i = n + 1
      OBVIOUS
    <3>2. n + 1 - 1 = n
      OBVIOUS
    <3> HIDE DEF more
    <3> QED BY <2>2, <3>1, <3>2
  <2>4. more = [i \in 0..(n + 1) |-> more[i]]
    OBVIOUS
  <2> HIDE DEF more
  <2>5. IsRun(more, n + 1)
    BY <2>3, <2>4
  <2> QED BY <2>5
<1>3. Nat \subseteq T
  <2> HIDE DEF T
  <2> QED BY <1>1, <1>2, SetInduction
<1> QED BY <1>3

\* One turn takes one receive off the work list.
LEMMA MessageTurnKeeps ==
  ASSUME NEW S, KeepsMessageReceives(S), NEW s, NEW incoming, s.db \in S, s.todo \subseteq MessageReceives,
         IsFiniteSet(s.todo), s.todo # {}
  PROVE  LET next == MessageTurn(s, incoming)
         IN  /\ next.db \in S
             /\ next.todo \subseteq MessageReceives /\ IsFiniteSet(next.todo)
             /\ Cardinality(next.todo) = Cardinality(s.todo) - 1
<1> DEFINE e == NextMessageReceive(s.todo, incoming)
           loaded == IF e.id \in s.dirty THEN {e.id} ELSE s.loaded
           result == IF e.id \in loaded THEN TryMessageReceive(s.db, e) ELSE Waiting(s.db)
           queue == IF result.applied THEN result.db.messageQueue \ {e}
                                      ELSE result.db.messageQueue \cup {e}
           next == MessageTurn(s, incoming)
<1>1. IsLogs(s.todo)
  BY DEF IsLogs, MessageReceives, Times
<1>2. e \in s.todo /\ e \in MessageReceives
  BY <1>1, NextReceiveThere
<1>3. next.todo = s.todo \ {e} /\ next.db = [result.db EXCEPT !.messageQueue = queue]
  BY DEF MessageTurn
<1> HIDE DEF e, loaded, next
<1>4. result.db \in S
  BY <1>2, OutcomeType DEF KeepsMessageReceives
<1> HIDE DEF result
<1>5. result.db.messageQueue \subseteq MessageReceives /\ IsFiniteSet(result.db.messageQueue)
  BY <1>4 DEF KeepsMessageReceives, Good, Databases, Finite
<1>6. queue \subseteq MessageReceives /\ IsFiniteSet(queue)
  BY <1>2, <1>5, FS_AddElement, FS_RemoveElement
<1> HIDE DEF queue
<1>7. next.db \in S
  BY <1>3, <1>4, <1>6 DEF KeepsMessageReceives
<1>8. IsFiniteSet(next.todo) /\ Cardinality(next.todo) = Cardinality(s.todo) - 1
  BY <1>2, <1>3, FS_RemoveElement
<1> QED BY <1>3, <1>7, <1>8 DEF next

LEMMA MessageTodo ==
  ASSUME NEW s, NEW incoming, s.todo \subseteq MessageReceives, IsFiniteSet(s.todo), s.todo # {}
  PROVE  LET e    == NextMessageReceive(s.todo, incoming)
             next == MessageTurn(s, incoming)
         IN  /\ e \in s.todo /\ next.todo = s.todo \ {e}
             /\ IsFiniteSet(next.todo) /\ Cardinality(next.todo) = Cardinality(s.todo) - 1
<1> DEFINE e == NextMessageReceive(s.todo, incoming)
           next == MessageTurn(s, incoming)
<1>1. IsLogs(s.todo)  BY DEF IsLogs, MessageReceives, Times
<1>2. e \in s.todo  BY <1>1, NextReceiveThere
<1>3. next.todo = s.todo \ {e}  BY DEF MessageTurn
<1> HIDE DEF e, next
<1>4. IsFiniteSet(next.todo) /\ Cardinality(next.todo) = Cardinality(s.todo) - 1
  BY <1>2, <1>3, FS_RemoveElement
<1> QED BY <1>2, <1>3, <1>4 DEF e, next

LEMMA MessagesDrained ==
  ASSUME NEW R, NEW incoming, KeepsMessageTurns(R, incoming), incoming \subseteq MessageReceives,
         IsFiniteSet(incoming), NEW d \in Good, NEW ids,
         <<d, incoming \cup {e \in d.messageQueue : e.id \in ids}>> \in R
  PROVE  <<ReconcileMessages(d, ids, incoming), {}>> \in R
<1> DEFINE queued == {e \in d.messageQueue : e.id \in ids}
           work == incoming \cup queued
           N == Cardinality(work)
           start == [db |-> d, todo |-> work, loaded |-> ids, dirty |-> {}]
           run == CHOOSE run : run = [i \in 0..N |->
                    IF i = 0 THEN start ELSE MessageTurn(run[i - 1], incoming)]
<1>1. work \subseteq MessageReceives /\ IsFiniteSet(work)
  <2>1. IsFiniteSet(d.messageQueue) /\ d.messageQueue \subseteq MessageReceives
    BY DEF Good, Databases, Finite
  <2>2. IsFiniteSet(queued)  BY <2>1, FS_Subset
  <2> QED BY <2>1, <2>2, FS_Union
<1>2. ReconcileMessages(d, ids, incoming) = run[N].db  BY DEF ReconcileMessages
<1>3. start.db = d /\ start.todo = work  OBVIOUS
<1>4. N \in Nat  BY <1>1, FS_CardinalityType
<1>5. <<start.db, start.todo>> \in R  BY <1>3
<1> HIDE DEF work, start, N
<1>6. run = [i \in 0..N |-> IF i = 0 THEN start ELSE MessageTurn(run[i - 1], incoming)]
  BY <1>4, MessageRun
<1> HIDE DEF run
<1>7. /\ run[0] = start
      /\ \A j \in 0..N : j # 0 => run[j] = MessageTurn(run[j - 1], incoming)
  <2>1. \A j \in 0..N : run[j] = IF j = 0 THEN start ELSE MessageTurn(run[j - 1], incoming)
    BY <1>6
  <2> QED BY <1>4, <2>1
<1> DEFINE At(i) == /\ <<run[i].db, run[i].todo>> \in R
                    /\ IsFiniteSet(run[i].todo) /\ Cardinality(run[i].todo) = N - i
           T == {i \in Nat : i <= N => At(i)}
<1>8. 0 \in T
  <2>1. Cardinality(work) = N - 0  BY <1>4 DEF N
  <2> QED BY <2>1, <1>1, <1>3, <1>5, <1>7
<1>9. ASSUME NEW i \in Nat, i \in T PROVE i + 1 \in T
  <2>1. SUFFICES ASSUME i + 1 <= N PROVE At(i + 1)
    OBVIOUS
  <2>2. run[i + 1] = MessageTurn(run[i], incoming)
    <3>1. i + 1 \in 0..N /\ i + 1 # 0 /\ i + 1 - 1 = i  BY <1>4, <2>1
    <3> QED BY <3>1, <1>7
  <2>3. At(i)  BY <1>4, <1>9, <2>1
  <2>4. run[i].todo # {}
    <3>1. Cardinality(run[i].todo) # 0  BY <2>3, <2>1, <1>4
    <3> QED BY <3>1, FS_EmptySet
  <2>5. run[i].todo \subseteq MessageReceives  BY <2>3 DEF KeepsMessageTurns, MessageWork
  <2>6. /\ IsFiniteSet(run[i + 1].todo)
        /\ Cardinality(run[i + 1].todo) = Cardinality(run[i].todo) - 1
    BY <2>2, <2>3, <2>4, <2>5, MessageTodo
  <2>7. <<run[i + 1].db, run[i + 1].todo>> \in R  BY <2>2, <2>3, <2>4 DEF KeepsMessageTurns
  <2> QED BY <2>3, <2>6, <2>7, <1>4
<1>10. Nat \subseteq T
  <2> HIDE DEF T
  <2> QED BY <1>8, <1>9, SetInduction
<1>11. At(N)  BY <1>4, <1>10
<1>12. run[N].todo = {}
  <2>1. Cardinality(run[N].todo) = 0  BY <1>4, <1>11
  <2> QED BY <2>1, <1>11, FS_EmptySet
<1> QED BY <1>2, <1>11, <1>12

LEMMA ReconcileMessagesKeeps ==
  ASSUME NEW S, KeepsMessageReceives(S), NEW d \in S, NEW ids, NEW incoming, incoming \subseteq MessageReceives,
         IsFiniteSet(incoming)
  PROVE  ReconcileMessages(d, ids, incoming) \in S
<1> DEFINE R == S \X SUBSET MessageReceives
           work == incoming \cup {e \in d.messageQueue : e.id \in ids}
<1>1. KeepsMessageTurns(R, incoming)
  <2>1. R \subseteq MessageWork  BY DEF KeepsMessageReceives, MessageWork
  <2>2. ASSUME NEW s, <<s.db, s.todo>> \in R, IsFiniteSet(s.todo), s.todo # {}
        PROVE  <<MessageTurn(s, incoming).db, MessageTurn(s, incoming).todo>> \in R
    <3>1. s.db \in S /\ s.todo \subseteq MessageReceives  BY <2>2
    <3>2. MessageTurn(s, incoming).db \in S /\ MessageTurn(s, incoming).todo \subseteq MessageReceives
      BY <2>2, <3>1, MessageTurnKeeps
    <3> QED BY <3>2
  <2> HIDE DEF R
  <2> QED BY <2>1, <2>2 DEF KeepsMessageTurns
<1>2. d \in Good /\ work \subseteq MessageReceives  BY DEF KeepsMessageReceives, Good, Databases
<1>3. <<d, work>> \in R  BY <1>2
<1> HIDE DEF R
<1>4. <<ReconcileMessages(d, ids, incoming), {}>> \in R  BY <1>1, <1>2, <1>3, MessagesDrained
<1> QED BY <1>4 DEF R

\* The payload queue: the same argument.
LEMMA PayloadRun ==
  ASSUME NEW start, NEW incoming, NEW N \in Nat
  PROVE  \E run : run = [i \in 0..N |-> IF i = 0 THEN start ELSE PayloadTurn(run[i - 1], incoming)]
<1> DEFINE IsRun(run, n) ==
             run = [i \in 0..n |-> IF i = 0 THEN start ELSE PayloadTurn(run[i - 1], incoming)]
           T == {n \in Nat : \E run : IsRun(run, n)}
<1>1. 0 \in T
  <2> DEFINE one == [i \in 0..0 |-> start]
  <2>1. IsRun(one, 0)
    OBVIOUS
  <2> QED BY <2>1
<1>2. ASSUME NEW n \in Nat, n \in T PROVE n + 1 \in T
  <2>1. PICK run : IsRun(run, n)
    BY <1>2
  <2> DEFINE more == [i \in 0..(n + 1) |-> IF i = n + 1 THEN PayloadTurn(run[n], incoming) ELSE run[i]]
  <2>2. /\ more[0] = start
        /\ \A i \in 1..n : more[i] = PayloadTurn(more[i - 1], incoming)
        /\ more[n + 1] = PayloadTurn(more[n], incoming)
    BY <2>1
  <2>3. \A i \in 0..(n + 1) : more[i] = IF i = 0 THEN start ELSE PayloadTurn(more[i - 1], incoming)
    <3> TAKE i \in 0..(n + 1)
    <3>1. i = 0 \/ i \in 1..n \/ i = n + 1
      OBVIOUS
    <3>2. n + 1 - 1 = n
      OBVIOUS
    <3> HIDE DEF more
    <3> QED BY <2>2, <3>1, <3>2
  <2>4. more = [i \in 0..(n + 1) |-> more[i]]
    OBVIOUS
  <2> HIDE DEF more
  <2>5. IsRun(more, n + 1)
    BY <2>3, <2>4
  <2> QED BY <2>5
<1>3. Nat \subseteq T
  <2> HIDE DEF T
  <2> QED BY <1>1, <1>2, SetInduction
<1> QED BY <1>3

LEMMA PayloadTurnKeeps ==
  ASSUME NEW S, KeepsPayloadReceives(S), NEW s, NEW incoming, s.db \in S, s.todo \subseteq PayloadReceives,
         IsFiniteSet(s.todo), s.todo # {}
  PROVE  LET next == PayloadTurn(s, incoming)
         IN  /\ next.db \in S
             /\ next.todo \subseteq PayloadReceives /\ IsFiniteSet(next.todo)
             /\ Cardinality(next.todo) = Cardinality(s.todo) - 1
<1> DEFINE e == NextPayloadReceive(s.todo, incoming)
           result == TryPayloadReceive(s.db, e)
           queue == IF result.applied THEN result.db.payloadQueue \ {e}
                                      ELSE result.db.payloadQueue \cup {e}
           next == PayloadTurn(s, incoming)
<1>1. IsLogs(s.todo)
  BY DEF IsLogs, PayloadReceives, Times
<1>2. e \in s.todo /\ e \in PayloadReceives
  BY <1>1, NextReceiveThere
<1>3. next.todo = s.todo \ {e} /\ next.db = [result.db EXCEPT !.payloadQueue = queue]
  BY DEF PayloadTurn
<1> HIDE DEF e, next
<1>4. result.db \in S
  BY <1>2 DEF KeepsPayloadReceives
<1> HIDE DEF result
<1>5. result.db.payloadQueue \subseteq PayloadReceives /\ IsFiniteSet(result.db.payloadQueue)
  BY <1>4 DEF KeepsPayloadReceives, Good, Databases, Finite
<1>6. queue \subseteq PayloadReceives /\ IsFiniteSet(queue)
  BY <1>2, <1>5, FS_AddElement, FS_RemoveElement
<1> HIDE DEF queue
<1>7. next.db \in S
  BY <1>3, <1>4, <1>6 DEF KeepsPayloadReceives
<1>8. IsFiniteSet(next.todo) /\ Cardinality(next.todo) = Cardinality(s.todo) - 1
  BY <1>2, <1>3, FS_RemoveElement
<1> QED BY <1>3, <1>7, <1>8 DEF next

LEMMA PayloadTodo ==
  ASSUME NEW s, NEW incoming, s.todo \subseteq PayloadReceives, IsFiniteSet(s.todo), s.todo # {}
  PROVE  LET e    == NextPayloadReceive(s.todo, incoming)
             next == PayloadTurn(s, incoming)
         IN  /\ e \in s.todo /\ next.todo = s.todo \ {e}
             /\ IsFiniteSet(next.todo) /\ Cardinality(next.todo) = Cardinality(s.todo) - 1
<1> DEFINE e == NextPayloadReceive(s.todo, incoming)
           next == PayloadTurn(s, incoming)
<1>1. IsLogs(s.todo)  BY DEF IsLogs, PayloadReceives, Times
<1>2. e \in s.todo  BY <1>1, NextReceiveThere
<1>3. next.todo = s.todo \ {e}  BY DEF PayloadTurn
<1> HIDE DEF e, next
<1>4. IsFiniteSet(next.todo) /\ Cardinality(next.todo) = Cardinality(s.todo) - 1
  BY <1>2, <1>3, FS_RemoveElement
<1> QED BY <1>2, <1>3, <1>4 DEF e, next

LEMMA PayloadsDrained ==
  ASSUME NEW R, NEW incoming, KeepsPayloadTurns(R, incoming), incoming \subseteq PayloadReceives,
         IsFiniteSet(incoming), NEW d \in Good, NEW ids,
         <<d, incoming \cup {e \in d.payloadQueue : e.id \in ids}>> \in R
  PROVE  <<ReconcilePayloads(d, ids, incoming), {}>> \in R
<1> DEFINE queued == {e \in d.payloadQueue : e.id \in ids}
           work == incoming \cup queued
           N == Cardinality(work)
           start == [db |-> d, todo |-> work]
           run == CHOOSE run : run = [i \in 0..N |->
                    IF i = 0 THEN start ELSE PayloadTurn(run[i - 1], incoming)]
<1>1. work \subseteq PayloadReceives /\ IsFiniteSet(work)
  <2>1. IsFiniteSet(d.payloadQueue) /\ d.payloadQueue \subseteq PayloadReceives
    BY DEF Good, Databases, Finite
  <2>2. IsFiniteSet(queued)  BY <2>1, FS_Subset
  <2> QED BY <2>1, <2>2, FS_Union
<1>2. ReconcilePayloads(d, ids, incoming) = run[N].db  BY DEF ReconcilePayloads
<1>3. start.db = d /\ start.todo = work  OBVIOUS
<1>4. N \in Nat  BY <1>1, FS_CardinalityType
<1>5. <<start.db, start.todo>> \in R  BY <1>3
<1> HIDE DEF work, start, N
<1>6. run = [i \in 0..N |-> IF i = 0 THEN start ELSE PayloadTurn(run[i - 1], incoming)]
  BY <1>4, PayloadRun
<1> HIDE DEF run
<1>7. /\ run[0] = start
      /\ \A j \in 0..N : j # 0 => run[j] = PayloadTurn(run[j - 1], incoming)
  <2>1. \A j \in 0..N : run[j] = IF j = 0 THEN start ELSE PayloadTurn(run[j - 1], incoming)
    BY <1>6
  <2> QED BY <1>4, <2>1
<1> DEFINE At(i) == /\ <<run[i].db, run[i].todo>> \in R
                    /\ IsFiniteSet(run[i].todo) /\ Cardinality(run[i].todo) = N - i
           T == {i \in Nat : i <= N => At(i)}
<1>8. 0 \in T
  <2>1. Cardinality(work) = N - 0  BY <1>4 DEF N
  <2> QED BY <2>1, <1>1, <1>3, <1>5, <1>7
<1>9. ASSUME NEW i \in Nat, i \in T PROVE i + 1 \in T
  <2>1. SUFFICES ASSUME i + 1 <= N PROVE At(i + 1)
    OBVIOUS
  <2>2. run[i + 1] = PayloadTurn(run[i], incoming)
    <3>1. i + 1 \in 0..N /\ i + 1 # 0 /\ i + 1 - 1 = i  BY <1>4, <2>1
    <3> QED BY <3>1, <1>7
  <2>3. At(i)  BY <1>4, <1>9, <2>1
  <2>4. run[i].todo # {}
    <3>1. Cardinality(run[i].todo) # 0  BY <2>3, <2>1, <1>4
    <3> QED BY <3>1, FS_EmptySet
  <2>5. run[i].todo \subseteq PayloadReceives  BY <2>3 DEF KeepsPayloadTurns, PayloadWork
  <2>6. /\ IsFiniteSet(run[i + 1].todo)
        /\ Cardinality(run[i + 1].todo) = Cardinality(run[i].todo) - 1
    BY <2>2, <2>3, <2>4, <2>5, PayloadTodo
  <2>7. <<run[i + 1].db, run[i + 1].todo>> \in R  BY <2>2, <2>3, <2>4 DEF KeepsPayloadTurns
  <2> QED BY <2>3, <2>6, <2>7, <1>4
<1>10. Nat \subseteq T
  <2> HIDE DEF T
  <2> QED BY <1>8, <1>9, SetInduction
<1>11. At(N)  BY <1>4, <1>10
<1>12. run[N].todo = {}
  <2>1. Cardinality(run[N].todo) = 0  BY <1>4, <1>11
  <2> QED BY <2>1, <1>11, FS_EmptySet
<1> QED BY <1>2, <1>11, <1>12

LEMMA ReconcilePayloadsKeeps ==
  ASSUME NEW S, KeepsPayloadReceives(S), NEW d \in S, NEW ids, NEW incoming, incoming \subseteq PayloadReceives,
         IsFiniteSet(incoming)
  PROVE  ReconcilePayloads(d, ids, incoming) \in S
<1> DEFINE R == S \X SUBSET PayloadReceives
           work == incoming \cup {e \in d.payloadQueue : e.id \in ids}
<1>1. KeepsPayloadTurns(R, incoming)
  <2>1. R \subseteq PayloadWork  BY DEF KeepsPayloadReceives, PayloadWork
  <2>2. ASSUME NEW s, <<s.db, s.todo>> \in R, IsFiniteSet(s.todo), s.todo # {}
        PROVE  <<PayloadTurn(s, incoming).db, PayloadTurn(s, incoming).todo>> \in R
    <3>1. s.db \in S /\ s.todo \subseteq PayloadReceives  BY <2>2
    <3>2. PayloadTurn(s, incoming).db \in S /\ PayloadTurn(s, incoming).todo \subseteq PayloadReceives
      BY <2>2, <3>1, PayloadTurnKeeps
    <3> QED BY <3>2
  <2> HIDE DEF R
  <2> QED BY <2>1, <2>2 DEF KeepsPayloadTurns
<1>2. d \in Good /\ work \subseteq PayloadReceives  BY DEF KeepsPayloadReceives, Good, Databases
<1>3. <<d, work>> \in R  BY <1>2
<1> HIDE DEF R
<1>4. <<ReconcilePayloads(d, ids, incoming), {}>> \in R  BY <1>1, <1>2, <1>3, PayloadsDrained
<1> QED BY <1>4 DEF R

LEMMA ReconcileKeeps ==
  ASSUME NEW S, KeepsMessageReceives(S), KeepsPayloadReceives(S), NEW d \in S,
         NEW messageIds, NEW payloadIds
  PROVE  Reconcile(d, messageIds, payloadIds) \in S
<1>1. ReconcileMessages(d, messageIds, {}) \in S
  BY ReconcileMessagesKeeps, FS_EmptySet
<1>2. ReconcilePayloads(ReconcileMessages(d, messageIds, {}), payloadIds, {}) \in S
  BY <1>1, ReconcilePayloadsKeeps, FS_EmptySet
<1> QED BY <1>2 DEF Reconcile

LEMMA GoodKeepsReceives == KeepsMessageReceives(Good) /\ KeepsPayloadReceives(Good)
<1>1. \A d \in Good, e \in MessageReceives : TryMessageReceive(d, e).db \in Good
  BY TryMessageReceiveGood
<1>2. \A d \in Good, e \in PayloadReceives : TryPayloadReceive(d, e).db \in Good
  BY TryPayloadReceiveGood
<1>3. \A d \in Good, q \in SUBSET MessageReceives :
        IsFiniteSet(q) => [d EXCEPT !.messageQueue = q] \in Good
  BY WriteMessageQueue
<1>4. \A d \in Good, q \in SUBSET PayloadReceives :
        IsFiniteSet(q) => [d EXCEPT !.payloadQueue = q] \in Good
  BY WritePayloadQueue
<1> QED BY <1>1, <1>2, <1>3, <1>4 DEF KeepsMessageReceives, KeepsPayloadReceives

\* Draining the queues leads from a good database to a good one.
LEMMA ReconcileGood ==
  ASSUME NEW d \in Good, NEW messageIds, NEW payloadIds
  PROVE  Reconcile(d, messageIds, payloadIds) \in Good
BY GoodKeepsReceives, ReconcileKeeps

-----------------------------------------------------------------------------
(* The order of two upserts *)

LEMMA EarliestCommutes ==
  ASSUME NEW a \in Nat, NEW b \in Nat, NEW c \in Nat
  PROVE  /\ MergeEarliest(MergeEarliest(a, b), c) = MergeEarliest(MergeEarliest(a, c), b)
         /\ MergeEarliest(MergeEarliest(a, b), b) = MergeEarliest(a, b)
  BY DEF MergeEarliest, Null

LEMMA CoalesceCommutes ==
  ASSUME NEW a \in Nat, NEW b \in Nat, NEW c \in Nat
  PROVE  /\ b = Null \/ c = Null \/ b = c
              => Coalesce(Coalesce(a, b), c) = Coalesce(Coalesce(a, c), b)
         /\ Coalesce(Coalesce(a, b), b) = Coalesce(a, b)
         /\ Coalesce(b, Coalesce(b, a)) = Coalesce(b, a)
  BY DEF Coalesce, Null

\* The times and the transaction of a payload row, without its status.
SameTimes(r, s) ==
  /\ r.underpaidAt = s.underpaidAt /\ r.sentAt = s.sentAt /\ r.sentTx = s.sentTx
  /\ r.deliveredAt = s.deliveredAt /\ r.partiallyFailedAt = s.partiallyFailedAt
  /\ r.completedAt = s.completedAt

LEMMA TimesDecide ==
  ASSUME NEW r \in PayloadRow, NEW s \in PayloadRow, SameTimes(r, s),
         r.status = PayloadStatus(r), s.status = PayloadStatus(s)
  PROVE  r = s
<1>1. r.status = s.status  BY DEF SameTimes, PayloadStatus
<1> QED BY <1>1 DEF SameTimes, PayloadRow

LEMMA MergedTimes ==
  ASSUME NEW row \in PayloadRow, NEW f \in PayloadRow, NEW e, e = MergePayload(row, f)
  PROVE  /\ e.underpaidAt = MergeEarliest(row.underpaidAt, f.underpaidAt)
         /\ e.sentAt = MergeEarliest(row.sentAt, f.sentAt)
         /\ e.sentTx = Coalesce(row.sentTx, f.sentTx)
         /\ e.deliveredAt = MergeEarliest(row.deliveredAt, f.deliveredAt)
         /\ e.partiallyFailedAt = MergeEarliest(row.partiallyFailedAt, f.partiallyFailedAt)
         /\ e.completedAt = MergeEarliest(row.completedAt, f.completedAt)
  BY DEF MergePayload, WithPayloadStatus

\* CrosschainPayloadService.ts upserts: whichever chain's facts are written first, a payload
\* row ends the same, and facts that are written again change nothing; two sends must be
\* of one transaction, as the hash that was first is kept.
THEOREM PayloadMergesCommute ==
  ASSUME NEW row \in PayloadRow, NEW f \in PayloadRow, NEW g \in PayloadRow
  PROVE  /\ f.sentTx = Null \/ g.sentTx = Null \/ f.sentTx = g.sentTx
              => MergePayload(MergePayload(row, f), g) = MergePayload(MergePayload(row, g), f)
         /\ MergePayload(MergePayload(row, f), f) = MergePayload(row, f)
<1> DEFINE a == MergePayload(row, f)
           b == MergePayload(row, g)
           ag == MergePayload(a, g)
           bf == MergePayload(b, f)
           af == MergePayload(a, f)
<1>1. a \in PayloadRow /\ b \in PayloadRow /\ a.status = PayloadStatus(a)  BY MergePayloadRow
<1> HIDE DEF a, b
<1>2. /\ ag \in PayloadRow /\ ag.status = PayloadStatus(ag) /\ bf \in PayloadRow /\ bf.status = PayloadStatus(bf)
      /\ af \in PayloadRow /\ af.status = PayloadStatus(af)
  BY <1>1, MergePayloadRow
<1> HIDE DEF ag, bf, af
<1>3. SameTimes(af, a)
  <2>1. /\ a.underpaidAt = MergeEarliest(row.underpaidAt, f.underpaidAt)
        /\ a.sentAt = MergeEarliest(row.sentAt, f.sentAt)
        /\ a.sentTx = Coalesce(row.sentTx, f.sentTx)
        /\ a.deliveredAt = MergeEarliest(row.deliveredAt, f.deliveredAt)
        /\ a.partiallyFailedAt = MergeEarliest(row.partiallyFailedAt, f.partiallyFailedAt)
        /\ a.completedAt = MergeEarliest(row.completedAt, f.completedAt)
    BY MergedTimes DEF a
  <2>2. /\ af.underpaidAt = MergeEarliest(a.underpaidAt, f.underpaidAt)
        /\ af.sentAt = MergeEarliest(a.sentAt, f.sentAt)
        /\ af.sentTx = Coalesce(a.sentTx, f.sentTx)
        /\ af.deliveredAt = MergeEarliest(a.deliveredAt, f.deliveredAt)
        /\ af.partiallyFailedAt = MergeEarliest(a.partiallyFailedAt, f.partiallyFailedAt)
        /\ af.completedAt = MergeEarliest(a.completedAt, f.completedAt)
    BY <1>1, MergedTimes DEF af
  <2> QED BY <2>1, <2>2, EarliestCommutes, CoalesceCommutes DEF SameTimes, PayloadRow
<1>4. ASSUME f.sentTx = Null \/ g.sentTx = Null \/ f.sentTx = g.sentTx PROVE SameTimes(ag, bf)
  <2>1. /\ ag.underpaidAt = MergeEarliest(MergeEarliest(row.underpaidAt, f.underpaidAt), g.underpaidAt)
        /\ ag.sentAt = MergeEarliest(MergeEarliest(row.sentAt, f.sentAt), g.sentAt)
        /\ ag.sentTx = Coalesce(Coalesce(row.sentTx, f.sentTx), g.sentTx)
        /\ ag.deliveredAt = MergeEarliest(MergeEarliest(row.deliveredAt, f.deliveredAt), g.deliveredAt)
        /\ ag.partiallyFailedAt = MergeEarliest(MergeEarliest(row.partiallyFailedAt, f.partiallyFailedAt), g.partiallyFailedAt)
        /\ ag.completedAt = MergeEarliest(MergeEarliest(row.completedAt, f.completedAt), g.completedAt)
    BY <1>1, MergedTimes DEF a, ag
  <2>2. /\ bf.underpaidAt = MergeEarliest(MergeEarliest(row.underpaidAt, g.underpaidAt), f.underpaidAt)
        /\ bf.sentAt = MergeEarliest(MergeEarliest(row.sentAt, g.sentAt), f.sentAt)
        /\ bf.sentTx = Coalesce(Coalesce(row.sentTx, g.sentTx), f.sentTx)
        /\ bf.deliveredAt = MergeEarliest(MergeEarliest(row.deliveredAt, g.deliveredAt), f.deliveredAt)
        /\ bf.partiallyFailedAt = MergeEarliest(MergeEarliest(row.partiallyFailedAt, g.partiallyFailedAt), f.partiallyFailedAt)
        /\ bf.completedAt = MergeEarliest(MergeEarliest(row.completedAt, g.completedAt), f.completedAt)
    BY <1>1, MergedTimes DEF b, bf
  <2>3. Coalesce(Coalesce(row.sentTx, f.sentTx), g.sentTx) = Coalesce(Coalesce(row.sentTx, g.sentTx), f.sentTx)
    BY <1>4, CoalesceCommutes DEF PayloadRow
  <2> QED BY <2>1, <2>2, <2>3, EarliestCommutes DEF SameTimes, PayloadRow
<1>5. af = a  BY <1>1, <1>2, <1>3, TimesDecide
<1>6. SameTimes(ag, bf) => ag = bf  BY <1>2, TimesDecide
<1> QED BY <1>4, <1>5, <1>6 DEF a, b, ag, bf, af

IsReceive(facts) == facts.failedAt # Null \/ facts.executedAt # Null \/ facts.executedLog # Null

\* CrosschainMessageService.ts upserts: the preparation, the link to a payload and one
\* receive may be written in any order, and each may be written again.  Two receives may
\* not be swapped: an execution takes back the failure it retries.
THEOREM MessageMergesCommute ==
  ASSUME NEW row \in MessageRow, NEW f \in MessageRow, NEW g \in MessageRow
  PROVE  /\ ~(IsReceive(f) /\ IsReceive(g)) /\ (f.payload = NoPayload \/ g.payload = NoPayload)
              => MergeMessage(MergeMessage(row, f), g) = MergeMessage(MergeMessage(row, g), f)
         /\ MergeMessage(MergeMessage(row, f), f) = MergeMessage(row, f)
<1> DEFINE a == MergeMessage(row, f)
           b == MergeMessage(row, g)
           ag == MergeMessage(a, g)
           bf == MergeMessage(b, f)
           af == MergeMessage(a, f)
<1>0. a \in MessageRow /\ b \in MessageRow  BY MergeMessageType
<1>1. ag.preparedAt = MergeEarliest(MergeEarliest(row.preparedAt, f.preparedAt), g.preparedAt)
      /\ ag.executedAt = MergeEarliest(MergeEarliest(row.executedAt, f.executedAt), g.executedAt)
      /\ ag.executedLog = Coalesce(Coalesce(row.executedLog, f.executedLog), g.executedLog)
  BY DEF MergeMessage
<1>2. bf.preparedAt = MergeEarliest(MergeEarliest(row.preparedAt, g.preparedAt), f.preparedAt)
      /\ bf.executedAt = MergeEarliest(MergeEarliest(row.executedAt, g.executedAt), f.executedAt)
      /\ bf.executedLog = Coalesce(Coalesce(row.executedLog, g.executedLog), f.executedLog)
  BY DEF MergeMessage
<1>3. af.preparedAt = MergeEarliest(MergeEarliest(row.preparedAt, f.preparedAt), f.preparedAt)
      /\ af.executedAt = MergeEarliest(MergeEarliest(row.executedAt, f.executedAt), f.executedAt)
      /\ af.executedLog = Coalesce(Coalesce(row.executedLog, f.executedLog), f.executedLog)
  BY DEF MergeMessage
<1>4. af.preparedAt = a.preparedAt /\ af.executedAt = a.executedAt /\ af.executedLog = a.executedLog
  BY <1>3, EarliestCommutes, CoalesceCommutes DEF MergeMessage, MessageRow
<1>5. af.failedAt = a.failedAt /\ af.payload = a.payload /\ af.status = a.status
  BY DEF MergeMessage, MergeEarliest, Coalesce, Null, MessageRow
<1>6. af = a  BY <1>0, <1>4, <1>5, MergeMessageType DEF MessageRow
<1>7. ASSUME ~(IsReceive(f) /\ IsReceive(g)), f.payload = NoPayload \/ g.payload = NoPayload
      PROVE  ag = bf
  <2>1. ag.preparedAt = bf.preparedAt /\ ag.executedAt = bf.executedAt
    BY <1>1, <1>2, EarliestCommutes DEF MessageRow
  <2>2. ag.executedLog = bf.executedLog  BY <1>1, <1>2, <1>7, CoalesceCommutes DEF MessageRow, IsReceive
  <2>3. ag.failedAt = bf.failedAt  BY <1>7 DEF MergeMessage, Coalesce, Null, MessageRow, IsReceive
  <2>4. ag.payload = bf.payload  BY <1>7 DEF MergeMessage
  <2>5. ag.status = bf.status
    BY <1>7 DEF MergeMessage, MergeEarliest, Coalesce, Null, MessageRow, IsReceive
  <2>6. ag \in MessageRow /\ bf \in MessageRow  BY <1>0, MergeMessageType
  <2> HIDE DEF ag, bf
  <2> QED BY <2>1, <2>2, <2>3, <2>4, <2>5, <2>6 DEF MessageRow
<1> QED BY <1>6, <1>7

-----------------------------------------------------------------------------
(* The facts the send handlers write *)

LEMMA SendFactsType ==
  ASSUME NEW key \in PayloadKeys, NEW time \in Nat, NEW tx \in Nat
  PROVE  /\ LinkFacts(key) \in MessageRow /\ MessageConsistent(LinkFacts(key))
         /\ LinkFacts(key).failedAt = Null
         /\ [NoMessageFacts EXCEPT !.preparedAt = time] \in MessageRow
         /\ MessageConsistent([NoMessageFacts EXCEPT !.preparedAt = time])
         /\ [NoMessageFacts EXCEPT !.preparedAt = time].failedAt = Null
         /\ NoPayloadFacts \in PayloadRow /\ NoPayloadFacts.completedAt = Null
         /\ [NoPayloadFacts EXCEPT !.underpaidAt = time] \in PayloadRow
         /\ [NoPayloadFacts EXCEPT !.underpaidAt = time].completedAt = Null
         /\ [NoPayloadFacts EXCEPT !.sentAt = time, !.sentTx = tx] \in PayloadRow
         /\ [NoPayloadFacts EXCEPT !.sentAt = time, !.sentTx = tx].completedAt = Null
<1>1. /\ LinkFacts(key) \in MessageRow /\ MessageConsistent(LinkFacts(key))
      /\ LinkFacts(key).failedAt = Null
  BY DEF LinkFacts, NoMessageFacts, MessageRow, MessageConsistent, MessageStatuses, Null
<1>2. /\ [NoMessageFacts EXCEPT !.preparedAt = time] \in MessageRow
      /\ MessageConsistent([NoMessageFacts EXCEPT !.preparedAt = time])
      /\ [NoMessageFacts EXCEPT !.preparedAt = time].failedAt = Null
  BY DEF NoMessageFacts, MessageRow, MessageConsistent, MessageStatuses, Null
<1>3. /\ NoPayloadFacts \in PayloadRow /\ NoPayloadFacts.completedAt = Null
      /\ [NoPayloadFacts EXCEPT !.underpaidAt = time] \in PayloadRow
      /\ [NoPayloadFacts EXCEPT !.underpaidAt = time].completedAt = Null
      /\ [NoPayloadFacts EXCEPT !.sentAt = time, !.sentTx = tx] \in PayloadRow
      /\ [NoPayloadFacts EXCEPT !.sentAt = time, !.sentTx = tx].completedAt = Null
  BY DEF NoPayloadFacts, PayloadRow, PayloadStatuses, Null
<1> QED BY <1>1, <1>2, <1>3

\* A row is linked to a payload, or a row that holds the link only is added.
LEMMA LinkGood ==
  ASSUME NEW d \in Good, NEW K, K \subseteq MessageKeys, Bounded(K), NEW key \in PayloadKeys
  PROVE  [d EXCEPT !.messages = UpsertMessages(@, K, LinkFacts(key))] \in Good
<1>1. /\ LinkFacts(key) \in MessageRow /\ MessageConsistent(LinkFacts(key))
      /\ LinkFacts(key).failedAt = Null
  <2>1. 0 \in Nat
    OBVIOUS
  <2> QED BY <2>1, SendFactsType
<1> QED BY <1>1, UpsertMessagesGood

\* The payload row of a send event.
LEMMA KeyOfType ==
  ASSUME NEW d \in Good, NEW kind, NEW p \in PayloadIds, NEW tx
  PROVE  LET target == KeyOf(d, kind, p, tx)
         IN  /\ target.action # "defer" => <<p, target.index>> \in PayloadKeys
             /\ kind = "SendPayload" => target.action # "defer"
<1> DEFINE target == KeyOf(d, kind, p, tx)
<1>1. d.payloads \in PayloadTables /\ Bounded(DOMAIN d.payloads)
  BY GoodTables DEF Good, Finite
<1>2. target = ResolvePayloadKey(kind, d.payloads, p, PayloadIndexHint(d.messages, MessagesOf(p)),
                    HasUnlinkedAwaiting(d.messages, MessagesOf(p)), tx)
  BY DEF KeyOf
<1> HIDE DEF target
<1>3. /\ target.action # "defer" => target.index \in Nat
      /\ kind = "SendPayload" => target.action # "defer"
  BY <1>1, <1>2, ResolvePayloadKeyType
<1> QED BY <1>3 DEF target, PayloadKeys

-----------------------------------------------------------------------------
(* Gateway *)

LEMMA MarkInProgressGood ==
  ASSUME NEW d \in Good, NEW m \in MessageIds, IsSetPoolAdapters(m)
  PROVE  MarkInProgress(d, m) \in Good
<1> DEFINE pool == PoolOf[m]
           known == PoolAdaptersOf(d, pool)
           K == DOMAIN d.poolAdapters \cup {<<pool, a>> : a \in AdapterSetOf[m]}
           t == [k \in K |->
                  IF k \notin known
                  THEN IF k \in DOMAIN d.poolAdapters THEN d.poolAdapters[k]
                       ELSE [isEnabled |-> FALSE, inProgress |-> "Enabled"]
                  ELSE [d.poolAdapters[k] EXCEPT !.inProgress =
                          IF k[2] \in AdapterSetOf[m] THEN "Enabled" ELSE "Disabled"]]
<1>1. d.poolAdapters \in Tables(Pools \X Adapters, PoolAdapterRow)
  BY DEF Good, Databases
<1>2. /\ DOMAIN d.poolAdapters \subseteq Pools \X Adapters
      /\ d.poolAdapters \in [DOMAIN d.poolAdapters -> PoolAdapterRow]
  BY <1>1, TableIsFunction
<1>3. K \subseteq Pools \X Adapters
  BY <1>2, PoolOfType, AdapterSetOfType DEF IsSetPoolAdapters
<1>4. known \subseteq DOMAIN d.poolAdapters
  BY DEF PoolAdaptersOf
<1>5. t \in [K -> PoolAdapterRow]
  BY <1>2, <1>4 DEF PoolAdapterRow
<1>6. t \in Tables(Pools \X Adapters, PoolAdapterRow)
  BY <1>3, <1>5, FunctionIsTable
<1>7. MarkInProgress(d, m) = [d EXCEPT !.poolAdapters = t]
  BY DEF MarkInProgress
<1> QED BY <1>6, <1>7, WritePoolAdapters

LEMMA PrepareMessageGood ==
  ASSUME NEW d \in Good, NEW m \in MessageIds, NEW time \in Nat, NEW live
  PROVE  OnPrepareMessage(d, m, time, live) \in Good
<1> DEFINE before == Reconcile(d, {m}, {})
           rows == RowsOf(before.messages, m)
           key == <<m, NextIndex(rows)>>
           facts == [NoMessageFacts EXCEPT !.preparedAt = time]
           prepared == [before EXCEPT !.messages = UpsertMessages(@, {key}, facts)]
           marked == IF IsSetPoolAdapters(m) /\ live THEN MarkInProgress(prepared, m) ELSE prepared
<1>1. OnPrepareMessage(d, m, time, live) = d \/
      OnPrepareMessage(d, m, time, live) = Reconcile(marked, {m}, {})
  BY DEF OnPrepareMessage
<1>2. before \in Good
  BY ReconcileGood
<1> HIDE DEF before
<1>3. key \in MessageIds \X Nat
  <2>1. rows \subseteq MessageIds \X Nat /\ rows \subseteq DOMAIN before.messages
    BY <1>2, GoodTables DEF RowsOf, MessageKeys
  <2>2. Bounded(rows)
    BY <1>2, <2>1, BoundedSubset DEF Good, Finite
  <2> HIDE DEF rows
  <2> QED BY <2>1, <2>2, NextIndexIsNext
<1> HIDE DEF key
<1>4. {key} \subseteq MessageKeys /\ Bounded({key})
  BY <1>3, BoundedKey DEF MessageKeys
<1>5. facts \in MessageRow /\ MessageConsistent(facts) /\ facts.failedAt = Null
  BY DEF NoMessageFacts, MessageRow, MessageConsistent, MessageStatuses, Null
<1> HIDE DEF facts
<1>6. prepared \in Good
  BY <1>2, <1>4, <1>5, UpsertMessagesGood
<1> HIDE DEF prepared
<1>7. marked \in Good
  BY <1>6, MarkInProgressGood
<1> HIDE DEF marked
<1> QED BY <1>1, <1>7, ReconcileGood

\* The rows an underpaid batch links: prepared rows, and rows it adds at the
\* positions of the batch.
LEMMA LinkUnderpaidGood ==
  ASSUME NEW d \in Good, NEW p \in PayloadIds, NEW key \in PayloadKeys
  PROVE  [d EXCEPT !.messages = LinkUnderpaid(d.messages, p, key).messages] \in Good
<1> DEFINE waiting(m) == {k \in RowsOf(d.messages, m) : IsUnlinkedAwaiting(d.messages[k])}
           positions == {i \in DOMAIN Batch[p] :
                          waiting(Batch[p][i]) # {} \/ Batch[p][i] \notin Undecodable}
           rowAt(i) == IF waiting(Batch[p][i]) # {} THEN Lowest(waiting(Batch[p][i]))
                       ELSE <<Batch[p][i], i - 1>>
           K == {rowAt(i) : i \in positions}
           added == {<<Batch[p][i], i - 1>> : i \in positions}
<1>1. LinkUnderpaid(d.messages, p, key).messages = UpsertMessages(d.messages, K, LinkFacts(key))
  BY DEF LinkUnderpaid
<1>2. /\ DOMAIN d.messages \subseteq MessageIds \X Nat
      /\ Bounded(DOMAIN d.messages)
  BY GoodTables DEF Good, Finite, MessageKeys
<1>3. \A m : waiting(m) # {} => Lowest(waiting(m)) \in DOMAIN d.messages
  <2> TAKE m
  <2>1. waiting(m) \subseteq DOMAIN d.messages /\ waiting(m) \subseteq MessageIds \X Nat
    BY <1>2 DEF RowsOf
  <2> HIDE DEF waiting
  <2> QED BY <2>1, LowestIsLowest
<1>4. /\ added \subseteq MessageIds \X Nat
      /\ Bounded(added)
  <2>1. Batch[p] \in Seq(MessageIds)
    BY BatchType
  <2>2. PICK n \in Nat : DOMAIN Batch[p] = 1..n
    BY <2>1
  <2>3. \A i \in positions : Batch[p][i] \in MessageIds /\ i \in 1..n
    BY <2>1, <2>2
  <2> HIDE DEF positions
  <2>4. \A k \in added : k \in MessageIds \X Nat /\ k[2] < n
    BY <2>2, <2>3
  <2> QED BY <2>4 DEF Bounded
<1>5. K \subseteq DOMAIN d.messages \cup added
  <2> HIDE DEF waiting, positions
  <2> QED BY <1>3
<1> HIDE DEF K, added
<1>6. Bounded(DOMAIN d.messages \cup added)
  BY <1>2, <1>4, BoundedUnion
<1>7. K \subseteq MessageKeys /\ Bounded(K)
  BY <1>2, <1>4, <1>5, <1>6, BoundedSubset DEF MessageKeys
<1>8. [d EXCEPT !.messages = UpsertMessages(@, K, LinkFacts(key))] \in Good
  BY <1>7, LinkGood
<1> QED BY <1>1, <1>8

LEMMA UnderpaidBatchGood ==
  ASSUME NEW d \in Good, NEW p \in PayloadIds, NEW time \in Nat
  PROVE  OnUnderpaidBatch(d, p, time) \in Good
<1> DEFINE before == Reconcile(d, MessagesOf(p), {p})
           target == KeyOf(before, "UnderpaidBatch", p, Null)
           key == <<p, target.index>>
           linked == LinkUnderpaid(before.messages, p, key)
           facts == [NoPayloadFacts EXCEPT !.underpaidAt = time]
           withLinks == [before EXCEPT !.messages = linked.messages]
           withRow == [withLinks EXCEPT !.payloads = UpsertPayload(@, key, facts)]
           body == [before EXCEPT !.messages = linked.messages,
                                  !.payloads = IF Cardinality(linked.pools) > 1 THEN @
                                               ELSE UpsertPayload(@, key, facts)]
<1>1. OnUnderpaidBatch(d, p, time) =
        Reconcile(IF target.action = "defer" THEN before ELSE body, MessagesOf(p), {p})
  BY DEF OnUnderpaidBatch
<1>2. before \in Good
  BY ReconcileGood
<1> HIDE DEF before
<1>3. target.action # "defer" => key \in PayloadKeys
  BY <1>2, KeyOfType
<1>4. facts \in PayloadRow /\ facts.completedAt = Null
  BY DEF NoPayloadFacts, PayloadRow, PayloadStatuses, Null
<1> HIDE DEF facts, key
<1>5. key \in PayloadKeys => withLinks \in Good
  BY <1>2, LinkUnderpaidGood
<1>6. key \in PayloadKeys => withRow \in Good
  <2> HIDE DEF withLinks
  <2> QED BY <1>4, <1>5, UpsertPayloadGood
<1>7. body = withLinks \/ body = withRow
  BY <1>2 DEF Good, Databases
<1> HIDE DEF body, withRow, withLinks, target
<1>8. (IF target.action = "defer" THEN before ELSE body) \in Good
  BY <1>2, <1>3, <1>5, <1>6, <1>7
<1> QED BY <1>1, <1>8, ReconcileGood

LEMMA RepayBatchGood ==
  ASSUME NEW d \in Good, NEW p \in PayloadIds, NEW tx
  PROVE  OnRepayBatch(d, p, tx) \in Good
<1> DEFINE before == Reconcile(d, MessagesOf(p), {p})
           target == KeyOf(before, "RepayBatch", p, tx)
           key == <<p, target.index>>
           body == [before EXCEPT !.payloads = UpsertPayload(@, key, NoPayloadFacts)]
<1>1. OnRepayBatch(d, p, tx) =
        Reconcile(IF target.action # "mutate" THEN before ELSE body, MessagesOf(p), {p})
  BY DEF OnRepayBatch
<1>2. before \in Good
  BY ReconcileGood
<1> HIDE DEF before
<1>3. target.action # "defer" => key \in PayloadKeys
  BY <1>2, KeyOfType
<1>4. NoPayloadFacts \in PayloadRow /\ NoPayloadFacts.completedAt = Null
  BY DEF NoPayloadFacts, PayloadRow, PayloadStatuses, Null
<1> HIDE DEF key
<1>5. key \in PayloadKeys => body \in Good
  BY <1>2, <1>4, UpsertPayloadGood
<1> HIDE DEF body, target
<1>6. (IF target.action # "mutate" THEN before ELSE body) \in Good
  BY <1>2, <1>3, <1>5
<1> QED BY <1>1, <1>6, ReconcileGood

\* The message receives, whose queue is drained for the id of the log.
LEMMA MessageReceiveGood ==
  ASSUME NEW d \in Good, NEW e \in MessageReceives
  PROVE  OnMessageReceive(d, e) \in Good
<1>1. IsFiniteSet({e})
  BY FS_Singleton
<1> QED BY <1>1, GoodKeepsReceives, ReconcileMessagesKeeps DEF OnMessageReceive

-----------------------------------------------------------------------------
(* MultiAdapter *)

LEMMA SendPayloadGood ==
  ASSUME NEW d \in Good, NEW p \in PayloadIds, NEW a \in Adapters, NEW time \in Nat, NEW tx \in Nat
  PROVE  OnSendPayload(d, p, a, time, tx) \in Good
<1> DEFINE before == Reconcile(d, MessagesOf(p), {p})
           key == <<p, KeyOf(before, "SendPayload", p, tx).index>>
           sent == [NoPayloadFacts EXCEPT !.sentAt = time, !.sentTx = tx]
           vote == Participation(key, a, "SEND", "PAYLOAD")
           withLinks == [before EXCEPT !.messages = LinkMessages(@, p, key)]
           withRow == [withLinks EXCEPT !.payloads = UpsertPayload(@, key, sent)]
           body == [withRow EXCEPT !.participations = @ \cup {vote}]
<1>1. before \in Good
  BY ReconcileGood
<1> HIDE DEF before
<1>2. OnSendPayload(d, p, a, time, tx) = Reconcile(body, MessagesOf(p), {p})
  <2>1. body = [before EXCEPT !.messages = LinkMessages(@, p, key),
                              !.payloads = UpsertPayload(@, key, sent),
                              !.participations = @ \cup {vote}]
    BY <1>1 DEF Good, Databases
  <2> QED BY <2>1 DEF OnSendPayload, before
<1>3. key \in PayloadKeys
  BY <1>1, KeyOfType
<1>4. sent \in PayloadRow /\ sent.completedAt = Null
  BY DEF NoPayloadFacts, PayloadRow, PayloadStatuses, Null
<1> HIDE DEF key, sent
<1>5. vote \in Participations /\ vote.side = "SEND"
  BY <1>3 DEF Participation, Participations
<1> HIDE DEF vote
<1>6. withLinks \in Good
  <2>1. PICK K : /\ K \subseteq DOMAIN before.messages
                 /\ LinkMessages(before.messages, p, key) = UpsertMessages(before.messages, K, LinkFacts(key))
    BY DEF LinkMessages
  <2>2. K \subseteq MessageKeys /\ Bounded(K)
    BY <1>1, <2>1, GoodTables, BoundedSubset DEF Good, Finite
  <2>3. [before EXCEPT !.messages = UpsertMessages(@, K, LinkFacts(key))] \in Good
    BY <1>1, <1>3, <2>2, LinkGood
  <2> QED BY <2>1, <2>3
<1> HIDE DEF withLinks
<1>7. withRow \in Good
  BY <1>3, <1>4, <1>6, UpsertPayloadGood
<1> HIDE DEF withRow
<1>8. body \in Good
  BY <1>5, <1>7, WriteParticipation
<1> HIDE DEF body
<1> QED BY <1>2, <1>8, ReconcileGood

LEMMA SendProofGood ==
  ASSUME NEW d \in Good, NEW p \in PayloadIds, NEW a \in Adapters
  PROVE  OnSendProof(d, p, a) \in Good
<1> DEFINE before == Reconcile(d, {}, {p})
           open == {k \in RowsOf(before.payloads, p) : IsOpen(before.payloads[k])}
           vote == Participation(Lowest(open), a, "SEND", "PROOF")
           body == [before EXCEPT !.participations = @ \cup {vote}]
           written == IF open = {} THEN before ELSE body
<1>1. before \in Good
  BY ReconcileGood
<1>2. OnSendProof(d, p, a) = d \/ OnSendProof(d, p, a) = Reconcile(written, {}, {p})
  BY DEF OnSendProof
<1> HIDE DEF before
<1>3. open \subseteq PayloadIds \X Nat
  BY <1>1, GoodTables DEF RowsOf, PayloadKeys
<1> HIDE DEF open
<1>4. open # {} => vote \in Participations /\ vote.side = "SEND"
  <2>1. open # {} => Lowest(open) \in PayloadKeys
    BY <1>3, LowestIsLowest DEF PayloadKeys
  <2> QED BY <2>1 DEF Participation, Participations
<1> HIDE DEF vote
<1>5. open # {} => body \in Good
  BY <1>1, <1>4, WriteParticipation
<1> HIDE DEF body
<1>6. written \in Good
  BY <1>1, <1>5
<1> HIDE DEF written
<1> QED BY <1>2, <1>6, ReconcileGood

LEMMA PayloadReceiveGood ==
  ASSUME NEW d \in Good, NEW e \in PayloadReceives
  PROVE  OnPayloadReceive(d, e) \in Good
<1>1. IsFiniteSet({e})
  BY FS_Singleton
<1>2. ReconcilePayloads(d, {e.id}, {e}) \in Good
  BY <1>1, GoodKeepsReceives, ReconcilePayloadsKeeps
<1> QED BY <1>2 DEF OnPayloadReceive

LEMMA SetAdaptersGood ==
  ASSUME NEW d \in Good, NEW pool \in Pools, NEW adapters, adapters \subseteq Adapters
  PROVE  OnSetAdapters(d, pool, adapters) \in Good
<1> DEFINE K == DOMAIN d.poolAdapters \cup {<<pool, a>> : a \in adapters}
           t == [k \in K |-> IF k[1] = pool THEN [isEnabled |-> k[2] \in adapters, inProgress |-> "None"]
                             ELSE d.poolAdapters[k]]
<1>1. d.poolAdapters \in Tables(Pools \X Adapters, PoolAdapterRow)
  BY DEF Good, Databases
<1>2. /\ DOMAIN d.poolAdapters \subseteq Pools \X Adapters
      /\ d.poolAdapters \in [DOMAIN d.poolAdapters -> PoolAdapterRow]
  BY <1>1, TableIsFunction
<1>3. K \subseteq Pools \X Adapters
  BY <1>2
<1>4. t \in [K -> PoolAdapterRow]
  <2> SUFFICES ASSUME NEW k \in K PROVE t[k] \in PoolAdapterRow
    OBVIOUS
  <2>1. CASE k[1] = pool
    <3>1. (k[2] \in adapters) \in BOOLEAN
      OBVIOUS
    <3> QED BY <2>1, <3>1 DEF PoolAdapterRow
  <2>2. CASE k[1] # pool
    <3>1. k \in DOMAIN d.poolAdapters
      BY <2>2
    <3> QED BY <1>2, <2>2, <3>1
  <2> QED BY <2>1, <2>2
<1>5. t \in Tables(Pools \X Adapters, PoolAdapterRow)
  BY <1>3, <1>4, FunctionIsTable
<1>6. OnSetAdapters(d, pool, adapters) = [d EXCEPT !.poolAdapters = t]
  BY DEF OnSetAdapters
<1> QED BY <1>5, <1>6, WritePoolAdapters

-----------------------------------------------------------------------------
(* The inductive invariant and the theorems *)

LEMMA EmptyDatabaseGood == EmptyDatabase \in Good
<1> DEFINE d == EmptyDatabase
<1>1. /\ d.messages = <<>> /\ d.payloads = <<>> /\ d.participations = {}
      /\ d.messageQueue = {} /\ d.payloadQueue = {} /\ d.poolAdapters = <<>>
      /\ d = [messages |-> d.messages, payloads |-> d.payloads, participations |-> d.participations,
              messageQueue |-> d.messageQueue, payloadQueue |-> d.payloadQueue,
              poolAdapters |-> d.poolAdapters]
  BY DEF EmptyDatabase
<1>2. DOMAIN <<>> = {}
  OBVIOUS
<1>3. ASSUME NEW Keys, NEW Row PROVE <<>> \in Tables(Keys, Row)
  <2>1. <<>> \in [{} -> Row]
    OBVIOUS
  <2> QED BY <2>1, FunctionIsTable
<1>4. d \in Databases
  <2> HIDE DEF d
  <2> QED BY <1>1, <1>3 DEF Databases, MessageTables, PayloadTables
<1>5. Finite(d)
  <2>1. Bounded({}) /\ IsFiniteSet({})
    <3>1. 0 \in Nat
      OBVIOUS
    <3> QED BY <3>1, FS_EmptySet DEF Bounded
  <2> HIDE DEF d
  <2> QED BY <1>1, <1>2, <2>1 DEF Finite
<1>6. Consistent(d) /\ Carried(d)
  <2> HIDE DEF d
  <2> QED BY <1>1, <1>2 DEF Consistent, Carried
<1> QED BY <1>4, <1>5, <1>6 DEF Good

Inductive ==
  /\ db \in Good
  /\ clock \in [Chains -> Times]
  /\ indexed \in [Chains -> Nat]
  /\ executions \subseteq MessageReceives

LEMMA InitInductive == Init => Inductive
<1> SUFFICES ASSUME Init PROVE Inductive
  OBVIOUS
<1>1. db \in Good
  BY EmptyDatabaseGood DEF Init
<1> QED BY <1>1 DEF Init, Inductive, Times

\* A handler of either chain leads from a good database to a good one.
LEMMA NextInductive == Inductive /\ [Next]_vars => Inductive'
<1> SUFFICES ASSUME Inductive, [Next]_vars PROVE Inductive'
  OBVIOUS
<1>1. CASE UNCHANGED vars
  BY <1>1 DEF vars, Inductive
<1>2. CASE Next
  <2>1. PICK t \in Times : Step(t)  BY <1>2 DEF Next
  <2>2. t \in Nat /\ t \in Times /\ db \in Good /\ indexed["destination"] + 1 \in Nat
    BY DEF Inductive, Times, Chains
  <2>3. ASSUME NEW chain \in Chains, Indexes(chain, t)
        PROVE  clock' \in [Chains -> Times] /\ indexed' \in [Chains -> Nat]
    BY <2>2, <2>3 DEF Indexes, Inductive
  <2>4. ASSUME NEW m \in MessageIds
        PROVE  /\ MessageLog(m, "execute", t) \in MessageReceives
               /\ MessageLog(m, "fail", t) \in MessageReceives
    BY <2>2 DEF MessageLog, MessageReceives
  <2>5. ASSUME NEW p \in PayloadIds, NEW a \in Adapters
        PROVE  /\ PayloadLog(p, a, "PAYLOAD", t) \in PayloadReceives
               /\ PayloadLog(p, a, "PROOF", t) \in PayloadReceives
    BY <2>2 DEF PayloadLog, PayloadReceives
  <2>6. ASSUME NEW m \in MessageIds, NEW live \in BOOLEAN, PrepareMessage(m, t, live)
        PROVE  Inductive'
    <3>1. db' \in Good
      BY <2>2, <2>6, PrepareMessageGood DEF PrepareMessage
    <3> QED BY <2>3, <2>6, <3>1 DEF PrepareMessage, Inductive, Chains
  <2>7. ASSUME NEW m \in MessageIds, ExecuteMessage(m, t)
        PROVE  Inductive'
    <3>1. db' \in Good
      BY <2>2, <2>4, <2>7, MessageReceiveGood DEF ExecuteMessage
    <3> QED BY <2>3, <2>4, <2>7, <3>1 DEF ExecuteMessage, Inductive, Chains
  <2>8. ASSUME NEW m \in MessageIds, FailMessage(m, t)
        PROVE  Inductive'
    <3>1. db' \in Good
      BY <2>2, <2>4, <2>8, MessageReceiveGood DEF FailMessage
    <3> QED BY <2>3, <2>8, <3>1 DEF FailMessage, Inductive, Chains
  <2>9. ASSUME NEW p \in PayloadIds, UnderpaidBatch(p, t) \/ RepayBatch(p, t)
        PROVE  Inductive'
    <3>1. db' \in Good
      BY <2>2, <2>9, UnderpaidBatchGood, RepayBatchGood DEF UnderpaidBatch, RepayBatch
    <3> QED BY <2>3, <2>9, <3>1 DEF UnderpaidBatch, RepayBatch, Inductive, Chains
  <2>10. ASSUME NEW p \in PayloadIds, NEW a \in Adapters, SendPayload(p, a, t) \/ SendProof(p, a, t)
         PROVE  Inductive'
    <3>1. db' \in Good
      BY <2>2, <2>10, SendPayloadGood, SendProofGood DEF SendPayload, SendProof
    <3> QED BY <2>3, <2>10, <3>1 DEF SendPayload, SendProof, Inductive, Chains
  <2>11. ASSUME NEW p \in PayloadIds, NEW a \in Adapters, HandlePayload(p, a, t) \/ HandleProof(p, a, t)
         PROVE  Inductive'
    <3>1. db' \in Good
      BY <2>2, <2>5, <2>11, PayloadReceiveGood DEF HandlePayload, HandleProof
    <3> QED BY <2>3, <2>11, <3>1 DEF HandlePayload, HandleProof, Inductive, Chains
  <2>12. ASSUME NEW pool \in Pools, NEW adapters \in SUBSET Adapters, SetAdapters(pool, adapters, t)
         PROVE  Inductive'
    <3>1. db' \in Good
      BY <2>2, <2>12, SetAdaptersGood DEF SetAdapters
    <3> QED BY <2>3, <2>12, <3>1 DEF SetAdapters, Inductive, Chains
  <2> QED BY <2>1, <2>6, <2>7, <2>8, <2>9, <2>10, <2>11, <2>12 DEF Step
<1> QED BY <1>1, <1>2

\* Whatever the two chains log and in whatever order it is indexed, the tables
\* stay in the set of good databases.
THEOREM AlwaysInductive == Spec => []Inductive
BY InitInductive, NextInductive, PTL DEF Spec

LEMMA InductiveImplies ==
  ASSUME Inductive
  PROVE  TypeOK /\ StatusMatchesFacts /\ HandledRowsWereSent /\ CompletedRowsWereCarried
<1>1. db \in Good
  BY DEF Inductive
<1>2. TypeOK
  <2>1. db \in Databases
    BY <1>1 DEF Good
  <2>2. /\ IsTable(db.messages, MessageKeys, MessageRow)
        /\ IsTable(db.payloads, PayloadKeys, PayloadRow)
        /\ IsTable(db.poolAdapters, Pools \X Adapters, PoolAdapterRow)
    BY <2>1, TableIsFunction DEF Databases, MessageTables, PayloadTables
  <2> QED BY <2>1, <2>2 DEF TypeOK, Inductive, Databases
<1>3. StatusMatchesFacts
  BY <1>1 DEF StatusMatchesFacts, Good, Consistent, MessageConsistent
<1>4. HandledRowsWereSent /\ CompletedRowsWereCarried
  BY <1>1 DEF HandledRowsWereSent, CompletedRowsWereCarried, Good, Carried
<1> QED BY <1>2, <1>3, <1>4

\* Every row a handler of gatewayHandlers.ts or multiAdapterHandlers.ts leaves in
\* the tables has the columns and the values of its table.
THEOREM TypeCorrect == Spec => []TypeOK
BY AlwaysInductive, InductiveImplies, PTL

\* The status column never disagrees with the timestamps of its row, whichever of
\* the insert, the ON CONFLICT clause and the aggregate UPDATE wrote it last.
THEOREM StatusAlwaysMatches == Spec => []StatusMatchesFacts
BY AlwaysInductive, InductiveImplies, PTL

\* A handle is never booked on an instance of a payload that was not sent,
\* however many instances there are and however the chains interleave.
THEOREM HandlesFollowSends == Spec => []HandledRowsWereSent
BY AlwaysInductive, InductiveImplies, PTL

\* No payload row is completed before it was sent and before some adapter sent
\* and some adapter handled it.
THEOREM CompletionIsCarried == Spec => []CompletedRowsWereCarried
BY AlwaysInductive, InductiveImplies, PTL

-----------------------------------------------------------------------------
(***************************************************************************)
(* Every step: the facts of a row are final, and the statuses only advance,*)
(* so that the indexer implements CrosschainLifecycle.                     *)
(*                                                                         *)
(* `Later` is the order on databases that carries it.  A merge keeps the   *)
(* earliest of two times, so a time that is there stays only if a later log*)
(* never brings an earlier one: `Dated` adds that the send times in the    *)
(* tables are not after the last block of the source chain.                *)
(***************************************************************************)

Dated(d, n) ==
  \A k \in DOMAIN d.payloads : d.payloads[k].sentAt <= n /\ d.payloads[k].underpaidAt <= n

Later(d, e, n) == Grows(d, e) /\ (Dated(d, n) => Dated(e, n))

\* The good databases later than d.
Future(d, n) == {e \in Good : Later(d, e, n)}

-----------------------------------------------------------------------------
(* Rows *)

LEMMA KeptOrder ==
  /\ \A a : MessageKept(a, a) /\ PayloadKept(a, a)
  /\ \A a, b, c : MessageKept(a, b) /\ MessageKept(b, c) => MessageKept(a, c)
  /\ \A a, b, c : PayloadKept(a, b) /\ PayloadKept(b, c) => PayloadKept(a, c)
BY DEF MessageKept, PayloadKept, Kept

LEMMA LaterOrder ==
  ASSUME NEW n
  PROVE  /\ \A d : Later(d, d, n)
         /\ \A d, e, f : Later(d, e, n) /\ Later(e, f, n) => Later(d, f, n)
<1>1. \A d : Grows(d, d)
  BY KeptOrder DEF Grows
<1>2. \A d, e, f : Grows(d, e) /\ Grows(e, f) => Grows(d, f)
  BY KeptOrder DEF Grows
<1> QED BY <1>1, <1>2 DEF Later

\* A merge that brings no second time of a kind keeps the row.
LEMMA MergeMessageKept ==
  ASSUME NEW row \in MessageRow, NEW facts \in MessageRow,
         facts.preparedAt # Null => row.preparedAt = Null,
         facts.executedAt # Null => row.executedAt = Null,
         facts.failedAt # Null => row.failedAt = Null
  PROVE  MessageKept(row, MergeMessage(row, facts))
BY DEF MergeMessage, MergeEarliest, Coalesce, MessageKept, Kept, MessageRow, Null

\* A send time comes from a log that is not before the one that set it.
Fits(row, facts) ==
  /\ facts.sentAt # Null => row.sentAt <= facts.sentAt
  /\ facts.underpaidAt # Null => row.underpaidAt <= facts.underpaidAt
  /\ facts.deliveredAt # Null => row.deliveredAt = Null
  /\ facts.partiallyFailedAt = Null /\ facts.completedAt = Null

LEMMA MergePayloadKept ==
  ASSUME NEW row \in PayloadRow, NEW facts \in PayloadRow, Fits(row, facts)
  PROVE  PayloadKept(row, MergePayload(row, facts))
<1>1. /\ MergePayload(row, facts).underpaidAt = MergeEarliest(row.underpaidAt, facts.underpaidAt)
      /\ MergePayload(row, facts).sentAt = MergeEarliest(row.sentAt, facts.sentAt)
      /\ MergePayload(row, facts).sentTx = Coalesce(row.sentTx, facts.sentTx)
      /\ MergePayload(row, facts).deliveredAt = MergeEarliest(row.deliveredAt, facts.deliveredAt)
      /\ MergePayload(row, facts).partiallyFailedAt
           = MergeEarliest(row.partiallyFailedAt, facts.partiallyFailedAt)
      /\ MergePayload(row, facts).completedAt = MergeEarliest(row.completedAt, facts.completedAt)
  BY DEF MergePayload, WithPayloadStatus
<1>2. /\ row.underpaidAt \in Nat /\ row.sentAt \in Nat /\ facts.underpaidAt \in Nat /\ facts.sentAt \in Nat
  BY DEF PayloadRow
<1>3. /\ Kept(row.underpaidAt, MergeEarliest(row.underpaidAt, facts.underpaidAt), Null)
      /\ Kept(row.sentAt, MergeEarliest(row.sentAt, facts.sentAt), Null)
      /\ Kept(row.sentTx, Coalesce(row.sentTx, facts.sentTx), Null)
      /\ Kept(row.deliveredAt, MergeEarliest(row.deliveredAt, facts.deliveredAt), Null)
      /\ Kept(row.partiallyFailedAt, MergeEarliest(row.partiallyFailedAt, facts.partiallyFailedAt), Null)
      /\ Kept(row.completedAt, MergeEarliest(row.completedAt, facts.completedAt), Null)
  BY <1>2 DEF MergeEarliest, Coalesce, Kept, Fits, Null
<1> QED BY <1>1, <1>3 DEF PayloadKept

-----------------------------------------------------------------------------
(* Tables *)

LEMMA OtherTablesLater ==
  ASSUME NEW n, NEW d, NEW e, e.messages = d.messages, e.payloads = d.payloads
  PROVE  Later(d, e, n)
<1>1. Grows(d, e)
  BY KeptOrder DEF Grows
<1> QED BY <1>1 DEF Later, Dated

LEMMA MessagesLater ==
  ASSUME NEW n, NEW d \in Good, NEW t, DOMAIN d.messages \subseteq DOMAIN t,
         \A k \in DOMAIN d.messages : MessageKept(d.messages[k], t[k])
  PROVE  Later(d, [d EXCEPT !.messages = t], n)
<1> DEFINE e == [d EXCEPT !.messages = t]
<1>1. e.messages = t /\ e.payloads = d.payloads
  BY DEF Good, Databases
<1> HIDE DEF e
<1>2. Grows(d, e)
  BY <1>1, KeptOrder DEF Grows
<1>3. Later(d, e, n)
  BY <1>1, <1>2 DEF Later, Dated
<1> QED BY <1>3 DEF e

LEMMA PayloadsLater ==
  ASSUME NEW n, NEW d \in Good, NEW t, DOMAIN d.payloads \subseteq DOMAIN t,
         \A k \in DOMAIN d.payloads : PayloadKept(d.payloads[k], t[k]),
         Dated(d, n) => \A k \in DOMAIN t : t[k].sentAt <= n /\ t[k].underpaidAt <= n
  PROVE  Later(d, [d EXCEPT !.payloads = t], n)
<1> DEFINE e == [d EXCEPT !.payloads = t]
<1>1. e.payloads = t /\ e.messages = d.messages
  BY DEF Good, Databases
<1> HIDE DEF e
<1>2. Grows(d, e)
  BY <1>1, KeptOrder DEF Grows
<1>3. Later(d, e, n)
  BY <1>1, <1>2 DEF Later, Dated
<1> QED BY <1>3 DEF e

LEMMA UpsertMessagesLater ==
  ASSUME NEW n, NEW d \in Good, NEW K, NEW facts \in MessageRow,
         \A k \in K \cap DOMAIN d.messages :
           /\ facts.preparedAt # Null => d.messages[k].preparedAt = Null
           /\ facts.executedAt # Null => d.messages[k].executedAt = Null
           /\ facts.failedAt # Null => d.messages[k].failedAt = Null
  PROVE  Later(d, [d EXCEPT !.messages = UpsertMessages(@, K, facts)], n)
<1> DEFINE t == UpsertMessages(d.messages, K, facts)
<1>1. DOMAIN t = DOMAIN d.messages \cup K
  BY DEF UpsertMessages
<1>2. ASSUME NEW k \in DOMAIN d.messages PROVE MessageKept(d.messages[k], t[k])
  <2>1. t[k] = IF k \notin K THEN d.messages[k] ELSE MergeMessage(d.messages[k], facts)
    BY DEF UpsertMessages
  <2>2. d.messages[k] \in MessageRow
    BY GoodTables
  <2> HIDE DEF t
  <2>3. CASE k \in K
    BY <2>1, <2>2, <2>3, MergeMessageKept
  <2>4. CASE k \notin K
    BY <2>1, <2>4, KeptOrder
  <2> QED BY <2>3, <2>4
<1> HIDE DEF t
<1>3. Later(d, [d EXCEPT !.messages = t], n)
  BY <1>1, <1>2, MessagesLater
<1> QED BY <1>3 DEF t

LEMMA UpsertPayloadLater ==
  ASSUME NEW n \in Nat, NEW d \in Good, NEW key, NEW facts \in PayloadRow,
         key \in DOMAIN d.payloads => Fits(d.payloads[key], facts),
         facts.sentAt <= n, facts.underpaidAt <= n
  PROVE  Later(d, [d EXCEPT !.payloads = UpsertPayload(@, key, facts)], n)
<1> DEFINE t == UpsertPayload(d.payloads, key, facts)
<1>1. /\ DOMAIN t = DOMAIN d.payloads \cup {key}
      /\ \A k \in DOMAIN d.payloads : k # key => t[k] = d.payloads[k]
      /\ key \in DOMAIN d.payloads => t[key] = MergePayload(d.payloads[key], facts)
      /\ key \notin DOMAIN d.payloads => t[key] = WithPayloadStatus(facts)
  BY DEF UpsertPayload
<1>2. d.payloads \in [DOMAIN d.payloads -> PayloadRow]
  BY GoodTables
<1> HIDE DEF t
<1>3. ASSUME NEW k \in DOMAIN d.payloads PROVE PayloadKept(d.payloads[k], t[k])
  <2>1. CASE k = key
    BY <1>1, <1>2, <2>1, MergePayloadKept
  <2>2. CASE k # key
    BY <1>1, <2>2, KeptOrder
  <2> QED BY <2>1, <2>2
<1>4. ASSUME Dated(d, n) PROVE \A k \in DOMAIN t : t[k].sentAt <= n /\ t[k].underpaidAt <= n
  <2>1. WithPayloadStatus(facts).sentAt <= n /\ WithPayloadStatus(facts).underpaidAt <= n
    BY DEF WithPayloadStatus, PayloadRow
  <2>2. ASSUME key \in DOMAIN d.payloads
        PROVE  /\ MergePayload(d.payloads[key], facts).sentAt <= n
               /\ MergePayload(d.payloads[key], facts).underpaidAt <= n
    <3> DEFINE row == d.payloads[key]
    <3>1. row.sentAt <= n /\ row.underpaidAt <= n
      BY <1>4, <2>2 DEF Dated
    <3>2. /\ MergePayload(row, facts).sentAt = MergeEarliest(row.sentAt, facts.sentAt)
          /\ MergePayload(row, facts).underpaidAt = MergeEarliest(row.underpaidAt, facts.underpaidAt)
      BY DEF MergePayload, WithPayloadStatus
    <3> HIDE DEF row
    <3> QED BY <3>1, <3>2 DEF MergeEarliest, row
  <2>3. \A k \in DOMAIN d.payloads : d.payloads[k].sentAt <= n /\ d.payloads[k].underpaidAt <= n
    BY <1>4 DEF Dated
  <2> QED BY <1>1, <2>1, <2>2, <2>3
<1>5. Later(d, [d EXCEPT !.payloads = t], n)
  BY <1>1, <1>3, <1>4, PayloadsLater
<1> QED BY <1>5 DEF t

\* The aggregate update never moves a time that is there.
LEMMA RefreshPayloadLater ==
  ASSUME NEW n, NEW d \in Good, NEW key, NEW time, NEW setDelivered
  PROVE  Later(d, RefreshPayload(d, key, time, setDelivered), n)
<1>1. CASE key \notin DOMAIN d.payloads
  BY <1>1, LaterOrder DEF RefreshPayload
<1>2. CASE key \in DOMAIN d.payloads
  <2> DEFINE row == d.payloads[key]
             delivered == IF setDelivered THEN Coalesce(row.deliveredAt, time) ELSE row.deliveredAt
             partially == IF delivered # Null /\ SomeFailed(d, key) THEN time ELSE Null
             completed == IF AdaptersDone(d, key) /\ AllExecuted(d, key) THEN time ELSE Null
             new == [row EXCEPT !.deliveredAt = delivered,
                                !.partiallyFailedAt = Coalesce(@, partially),
                                !.completedAt = Coalesce(@, completed)]
             r == WithPayloadStatus(new)
             t == [d.payloads EXCEPT ![key] = r]
  <2>1. row \in PayloadRow /\ d.payloads \in [DOMAIN d.payloads -> PayloadRow]
    BY <1>2, GoodTables
  <2>2. /\ Kept(row.deliveredAt, delivered, Null)
        /\ Kept(row.partiallyFailedAt, Coalesce(row.partiallyFailedAt, partially), Null)
        /\ Kept(row.completedAt, Coalesce(row.completedAt, completed), Null)
    BY DEF Coalesce, Kept
  <2>3. RefreshPayload(d, key, time, setDelivered) = [d EXCEPT !.payloads = t]
    BY <1>2 DEF RefreshPayload
  <2>4. /\ r.underpaidAt = row.underpaidAt /\ r.sentAt = row.sentAt /\ r.sentTx = row.sentTx
        /\ r.deliveredAt = delivered
        /\ r.partiallyFailedAt = Coalesce(row.partiallyFailedAt, partially)
        /\ r.completedAt = Coalesce(row.completedAt, completed)
    <3> HIDE DEF row, delivered, partially, completed
    <3> QED BY <2>1 DEF WithPayloadStatus, PayloadRow
  <2> HIDE DEF delivered, partially, completed, r
  <2>5. PayloadKept(row, r)
    BY <2>2, <2>4 DEF PayloadKept, Kept
  <2>6. /\ DOMAIN t = DOMAIN d.payloads /\ t[key] = r
        /\ \A k \in DOMAIN t : k # key => t[k] = d.payloads[k]
    BY <1>2
  <2> HIDE DEF t
  <2>7. \A k \in DOMAIN d.payloads : PayloadKept(d.payloads[k], t[k])
    BY <2>5, <2>6, KeptOrder
  <2>8. Dated(d, n) => \A k \in DOMAIN t : t[k].sentAt <= n /\ t[k].underpaidAt <= n
    BY <2>4, <2>6 DEF Dated
  <2>9. Later(d, [d EXCEPT !.payloads = t], n)
    BY <2>6, <2>7, <2>8, PayloadsLater
  <2> QED BY <2>3, <2>9
<1> QED BY <1>1, <1>2

-----------------------------------------------------------------------------
(* Receives *)

LEMMA WriteMessageReceiveLater ==
  ASSUME NEW n, NEW d \in Good, NEW e \in MessageReceives, NEW key \in DOMAIN d.messages,
         d.messages[key].executedAt = Null,
         e.status = "fail" => d.messages[key].failedAt = Null
  PROVE  Later(d, WriteMessageReceive(d, e, key), n)
<1> DEFINE facts == ReceiveFacts(e)
           written == [d EXCEPT !.messages = UpsertMessages(@, {key}, facts)]
           cleared == IF e.status = "fail" /\ IsSetPoolAdapters(e.id)
                      THEN ClearInProgress(written, PoolOf[e.id]) ELSE written
<1>1. facts \in MessageRow /\ (facts.failedAt # Null => facts.executedAt = Null)
  BY ReceiveFactsType
<1>2. facts.preparedAt = Null /\ (facts.failedAt # Null => e.status = "fail")
  <2>1. e.status = "fail" \/ e.status = "execute"
    BY DEF MessageReceives
  <2> QED BY <2>1 DEF ReceiveFacts, NoMessageFacts, Null
<1>3. key \in MessageIds \X Nat
  BY GoodTables DEF MessageKeys
<1>4. {key} \subseteq MessageKeys /\ Bounded({key})
  BY <1>3, BoundedKey DEF MessageKeys
<1> HIDE DEF facts
<1>5. written \in Good
  BY <1>1, <1>4, UpsertMessagesGood
<1>6. Later(d, written, n)
  BY <1>1, <1>2, UpsertMessagesLater
<1> HIDE DEF written
<1>7. cleared \in Good
  BY <1>5, ClearInProgressGood
<1>8. Later(written, cleared, n)
  <2>1. /\ ClearInProgress(written, PoolOf[e.id]).messages = written.messages
        /\ ClearInProgress(written, PoolOf[e.id]).payloads = written.payloads
    BY <1>5 DEF ClearInProgress, Good, Databases
  <2>2. cleared.messages = written.messages /\ cleared.payloads = written.payloads
    BY <2>1
  <2> QED BY <2>2, OtherTablesLater
<1>9. WriteMessageReceive(d, e, key) = RefreshPayload(cleared, d.messages[key].payload, e.time, TRUE)
  BY DEF WriteMessageReceive, written, facts
<1> HIDE DEF cleared
<1>10. Later(cleared, WriteMessageReceive(d, e, key), n)
  BY <1>7, <1>9, RefreshPayloadLater
<1> QED BY <1>6, <1>8, <1>10, LaterOrder

\* A receive lands on a row that was not executed, and a fail on one that did not
\* fail: nothing that is there is overwritten.
LEMMA TryMessageReceiveLater ==
  ASSUME NEW n, NEW d \in Good, NEW e \in MessageReceives
  PROVE  Later(d, TryMessageReceive(d, e).db, n)
<1> DEFINE targets == SendTargets(d.messages, d.payloads, e.id, e.status)
           key == Lowest(targets)
<1>1. targets \subseteq RowsOf(d.messages, e.id) /\ \A k \in targets : d.messages[k].executedAt = Null
  BY SendTargetsOpen
<1>2. targets \subseteq DOMAIN d.messages /\ targets \subseteq MessageIds \X Nat
  BY <1>1, GoodTables DEF RowsOf, MessageKeys
<1>3. \/ TryMessageReceive(d, e) = Waiting(d)
      \/ TryMessageReceive(d, e) = Applied(d)
      \/ /\ targets # {} /\ (e.status = "fail" => d.messages[key].failedAt = Null)
         /\ TryMessageReceive(d, e) = Applied(WriteMessageReceive(d, e, key))
  BY DEF TryMessageReceive
<1> HIDE DEF targets
<1>4. targets # {} => key \in targets
  BY <1>2, LowestIsLowest
<1> HIDE DEF key
<1>5. CASE TryMessageReceive(d, e) = Waiting(d) \/ TryMessageReceive(d, e) = Applied(d)
  BY <1>5, OutcomeType, LaterOrder
<1>6. CASE /\ targets # {} /\ (e.status = "fail" => d.messages[key].failedAt = Null)
           /\ TryMessageReceive(d, e) = Applied(WriteMessageReceive(d, e, key))
  <2>1. Later(d, WriteMessageReceive(d, e, key), n)
    BY <1>1, <1>2, <1>4, <1>6, WriteMessageReceiveLater
  <2> QED BY <1>6, <2>1, OutcomeType
<1> QED BY <1>3, <1>5, <1>6

LEMMA WritePayloadReceiveLater ==
  ASSUME NEW n \in Nat, NEW d \in Good, NEW e \in PayloadReceives, NEW key \in DOMAIN d.payloads,
         IsSent(d.payloads[key])
  PROVE  Later(d, WritePayloadReceive(d, e, key), n)
<1> DEFINE handled == [payload |-> key, adapter |-> e.adapter, side |-> "HANDLE", type |-> e.type]
           delivered == [NoPayloadFacts EXCEPT !.deliveredAt = e.time]
           booked == [d EXCEPT !.participations = @ \cup {handled}]
           stamped == [booked EXCEPT !.payloads = UpsertPayload(@, key, delivered)]
           written == IF d.payloads[key].deliveredAt = Null THEN stamped ELSE booked
<1>1. key \in PayloadKeys
  BY GoodTables
<1>2. handled \in Participations
  BY <1>1 DEF Participations, PayloadReceives
<1>3. booked \in Good /\ booked.payloads = d.payloads /\ booked.messages = d.messages
  BY <1>2, WriteParticipation DEF Good, Databases
<1>4. e.time \in Nat
  BY DEF PayloadReceives, Times
<1>5. /\ delivered \in PayloadRow /\ delivered.completedAt = Null /\ delivered.sentAt = 0
      /\ delivered.underpaidAt = 0 /\ delivered.partiallyFailedAt = Null
  BY <1>4 DEF NoPayloadFacts, PayloadRow, PayloadStatuses, Null
<1>6. [d EXCEPT !.participations = @ \cup {handled},
                !.payloads = IF @[key].deliveredAt = Null THEN UpsertPayload(@, key, delivered) ELSE @]
        = written
  BY <1>3 DEF Good, Databases
<1>7. WritePayloadReceive(d, e, key) = RefreshPayload(written, key, e.time, FALSE)
  BY <1>6 DEF WritePayloadReceive
<1> HIDE DEF booked, delivered
<1>8. stamped \in Good
  BY <1>1, <1>3, <1>5, UpsertPayloadGood
<1>9. Later(d, booked, n)
  BY <1>3, OtherTablesLater
<1>10. d.payloads[key].deliveredAt = Null => Later(booked, stamped, n)
  <2>1. d.payloads[key].deliveredAt = Null => Fits(booked.payloads[key], delivered)
    BY <1>3, <1>5 DEF Fits, Null
  <2>2. delivered.sentAt <= n /\ delivered.underpaidAt <= n
    BY <1>5
  <2> QED BY <1>3, <1>5, <2>1, <2>2, UpsertPayloadLater
<1> HIDE DEF stamped
<1>11. written \in Good /\ Later(d, written, n)
  BY <1>3, <1>8, <1>9, <1>10, LaterOrder
<1> HIDE DEF written
<1>12. Later(written, WritePayloadReceive(d, e, key), n)
  BY <1>7, <1>11, RefreshPayloadLater
<1> QED BY <1>11, <1>12, LaterOrder

LEMMA TryPayloadReceiveLater ==
  ASSUME NEW n \in Nat, NEW d \in Good, NEW e \in PayloadReceives
  PROVE  Later(d, TryPayloadReceive(d, e).db, n)
<1> DEFINE targets == HandleTargets(d.payloads, e.id, SentBy(d, e), LinkedIndices(d, e.id), e.time)
           key == Lowest(targets)
<1>1. targets \subseteq {k \in RowsOf(d.payloads, e.id) : IsSent(d.payloads[k])}
  BY HandleTargetsSent
<1>2. /\ targets \subseteq DOMAIN d.payloads /\ targets \subseteq PayloadIds \X Nat
      /\ \A k \in targets : IsSent(d.payloads[k])
  BY <1>1, GoodTables DEF RowsOf, PayloadKeys
<1>3. \/ TryPayloadReceive(d, e) = Waiting(d)
      \/ targets # {} /\ TryPayloadReceive(d, e) = Applied(WritePayloadReceive(d, e, key))
  BY DEF TryPayloadReceive
<1> HIDE DEF targets
<1>4. targets # {} => key \in targets
  BY <1>2, LowestIsLowest
<1> HIDE DEF key
<1>5. targets # {} => Later(d, WritePayloadReceive(d, e, key), n)
  BY <1>2, <1>4, WritePayloadReceiveLater
<1> QED BY <1>3, <1>5, OutcomeType, LaterOrder

\* Draining the queues only goes forward.
LEMMA FutureKeepsReceives ==
  ASSUME NEW n \in Nat, NEW d
  PROVE  KeepsMessageReceives(Future(d, n)) /\ KeepsPayloadReceives(Future(d, n))
<1>1. ASSUME NEW b \in Future(d, n), NEW e \in MessageReceives
      PROVE  TryMessageReceive(b, e).db \in Future(d, n)
  <2>1. b \in Good /\ Later(d, b, n)
    BY DEF Future
  <2>2. Later(b, TryMessageReceive(b, e).db, n) /\ TryMessageReceive(b, e).db \in Good
    BY <2>1, TryMessageReceiveLater, TryMessageReceiveGood
  <2> QED BY <2>1, <2>2, LaterOrder DEF Future
<1>2. ASSUME NEW b \in Future(d, n), NEW e \in PayloadReceives
      PROVE  TryPayloadReceive(b, e).db \in Future(d, n)
  <2>1. b \in Good /\ Later(d, b, n)
    BY DEF Future
  <2>2. Later(b, TryPayloadReceive(b, e).db, n) /\ TryPayloadReceive(b, e).db \in Good
    BY <2>1, TryPayloadReceiveLater, TryPayloadReceiveGood
  <2> QED BY <2>1, <2>2, LaterOrder DEF Future
<1>3. ASSUME NEW b \in Future(d, n), NEW q \in SUBSET MessageReceives, IsFiniteSet(q)
      PROVE  [b EXCEPT !.messageQueue = q] \in Future(d, n)
  <2> DEFINE f == [b EXCEPT !.messageQueue = q]
  <2>1. b \in Good /\ Later(d, b, n)
    BY DEF Future
  <2>2. f \in Good /\ f.messages = b.messages /\ f.payloads = b.payloads
    BY <1>3, <2>1, WriteMessageQueue DEF Good, Databases
  <2> HIDE DEF f
  <2>3. Later(b, f, n)
    BY <2>2, OtherTablesLater
  <2>4. f \in Future(d, n)
    BY <2>1, <2>2, <2>3, LaterOrder DEF Future
  <2> QED BY <2>4 DEF f
<1>4. ASSUME NEW b \in Future(d, n), NEW q \in SUBSET PayloadReceives, IsFiniteSet(q)
      PROVE  [b EXCEPT !.payloadQueue = q] \in Future(d, n)
  <2> DEFINE f == [b EXCEPT !.payloadQueue = q]
  <2>1. b \in Good /\ Later(d, b, n)
    BY DEF Future
  <2>2. f \in Good /\ f.messages = b.messages /\ f.payloads = b.payloads
    BY <1>4, <2>1, WritePayloadQueue DEF Good, Databases
  <2> HIDE DEF f
  <2>3. Later(b, f, n)
    BY <2>2, OtherTablesLater
  <2>4. f \in Future(d, n)
    BY <2>1, <2>2, <2>3, LaterOrder DEF Future
  <2> QED BY <2>4 DEF f
<1>5. Future(d, n) \subseteq Good
  BY DEF Future
<1> QED BY <1>1, <1>2, <1>3, <1>4, <1>5 DEF KeepsMessageReceives, KeepsPayloadReceives

LEMMA ReconcileFuture ==
  ASSUME NEW n \in Nat, NEW d, NEW e \in Future(d, n), NEW messageIds, NEW payloadIds
  PROVE  Reconcile(e, messageIds, payloadIds) \in Future(d, n)
BY FutureKeepsReceives, ReconcileKeeps

LEMMA FutureStart ==
  ASSUME NEW n, NEW d \in Good
  PROVE  d \in Future(d, n)
BY LaterOrder DEF Future

LEMMA FutureFuture ==
  ASSUME NEW n, NEW d, NEW e \in Future(d, n), NEW f \in Good, Later(e, f, n)
  PROVE  f \in Future(d, n)
BY LaterOrder DEF Future

-----------------------------------------------------------------------------
(* Handlers of the source chain *)

LEMMA LinkLater ==
  ASSUME NEW n, NEW d \in Good, NEW K, NEW key \in PayloadKeys
  PROVE  Later(d, [d EXCEPT !.messages = UpsertMessages(@, K, LinkFacts(key))], n)
<1>1. /\ LinkFacts(key) \in MessageRow /\ LinkFacts(key).preparedAt = Null
      /\ LinkFacts(key).executedAt = Null /\ LinkFacts(key).failedAt = Null
  BY DEF LinkFacts, NoMessageFacts, MessageRow, MessageStatuses, Null
<1> QED BY <1>1, UpsertMessagesLater

\* A prepared message gets a row of its own.
LEMMA PrepareMessageLater ==
  ASSUME NEW n \in Nat, NEW d \in Good, NEW m \in MessageIds, NEW time \in Nat, NEW live
  PROVE  OnPrepareMessage(d, m, time, live) \in Future(d, n)
<1> DEFINE before == Reconcile(d, {m}, {})
           rows == RowsOf(before.messages, m)
           key == <<m, NextIndex(rows)>>
           facts == [NoMessageFacts EXCEPT !.preparedAt = time]
           prepared == [before EXCEPT !.messages = UpsertMessages(@, {key}, facts)]
           marked == IF IsSetPoolAdapters(m) /\ live THEN MarkInProgress(prepared, m) ELSE prepared
<1>1. OnPrepareMessage(d, m, time, live) = d \/
      OnPrepareMessage(d, m, time, live) = Reconcile(marked, {m}, {})
  BY DEF OnPrepareMessage
<1>2. before \in Good /\ before \in Future(d, n)
  BY FutureStart, ReconcileFuture, ReconcileGood
<1> HIDE DEF before
<1>3. key \in MessageIds \X Nat /\ key \notin DOMAIN before.messages
  <2>1. rows \subseteq MessageIds \X Nat /\ rows \subseteq DOMAIN before.messages
    BY <1>2, GoodTables DEF RowsOf, MessageKeys
  <2>2. Bounded(rows)
    BY <1>2, <2>1, BoundedSubset DEF Good, Finite
  <2>3. NextIndex(rows) \in Nat /\ \A k \in rows : k[2] < NextIndex(rows)
    <3> HIDE DEF rows
    <3> QED BY <2>1, <2>2, NextIndexIsNext
  <2>4. key \notin rows
    <3> HIDE DEF rows
    <3> QED BY <2>3
  <2> QED BY <2>3, <2>4 DEF RowsOf
<1> HIDE DEF key
<1>4. {key} \subseteq MessageKeys /\ Bounded({key})
  BY <1>3, BoundedKey DEF MessageKeys
<1>5. facts \in MessageRow /\ MessageConsistent(facts) /\ facts.failedAt = Null
  BY DEF NoMessageFacts, MessageRow, MessageConsistent, MessageStatuses, Null
<1> HIDE DEF facts
<1>6. prepared \in Good
  BY <1>2, <1>4, <1>5, UpsertMessagesGood
<1>7. Later(before, prepared, n)
  BY <1>2, <1>3, <1>5, UpsertMessagesLater
<1> HIDE DEF prepared
<1>8. IsSetPoolAdapters(m) => /\ MarkInProgress(prepared, m).messages = prepared.messages
                              /\ MarkInProgress(prepared, m).payloads = prepared.payloads
  BY <1>6 DEF MarkInProgress, Good, Databases
<1>9. marked \in Good /\ Later(prepared, marked, n)
  BY <1>6, <1>8, MarkInProgressGood, OtherTablesLater, LaterOrder
<1> HIDE DEF marked
<1>10. marked \in Future(d, n)
  BY <1>2, <1>7, <1>9, LaterOrder, FutureFuture
<1> QED BY <1>1, <1>10, FutureStart, ReconcileFuture

\* The log of a batch is not before any send time in the tables.
LEMMA UnderpaidBatchLater ==
  ASSUME NEW d \in Good, NEW p \in PayloadIds, NEW time \in Nat, Dated(d, time)
  PROVE  OnUnderpaidBatch(d, p, time) \in Future(d, time)
<1> DEFINE before == Reconcile(d, MessagesOf(p), {p})
           target == KeyOf(before, "UnderpaidBatch", p, Null)
           key == <<p, target.index>>
           linked == LinkUnderpaid(before.messages, p, key)
           facts == [NoPayloadFacts EXCEPT !.underpaidAt = time]
           withLinks == [before EXCEPT !.messages = linked.messages]
           withRow == [withLinks EXCEPT !.payloads = UpsertPayload(@, key, facts)]
           body == [before EXCEPT !.messages = linked.messages,
                                  !.payloads = IF Cardinality(linked.pools) > 1 THEN @
                                               ELSE UpsertPayload(@, key, facts)]
<1>1. OnUnderpaidBatch(d, p, time) =
        Reconcile(IF target.action = "defer" THEN before ELSE body, MessagesOf(p), {p})
  BY DEF OnUnderpaidBatch
<1>2. before \in Good /\ before \in Future(d, time)
  BY FutureStart, ReconcileFuture, ReconcileGood
<1> HIDE DEF before
<1>3. target.action # "defer" => key \in PayloadKeys
  BY <1>2, KeyOfType
<1>4. /\ facts \in PayloadRow /\ facts.completedAt = Null /\ facts.sentAt = 0
      /\ facts.underpaidAt = time /\ facts.deliveredAt = Null /\ facts.partiallyFailedAt = Null
  BY DEF NoPayloadFacts, PayloadRow, PayloadStatuses, Null
<1> HIDE DEF facts, key
<1>5. key \in PayloadKeys => withLinks \in Good
  BY <1>2, LinkUnderpaidGood
<1>6. ASSUME key \in PayloadKeys PROVE Later(before, withLinks, time)
  <2>1. PICK K : linked.messages = UpsertMessages(before.messages, K, LinkFacts(key))
    BY DEF LinkUnderpaid
  <2>2. Later(before, [before EXCEPT !.messages = UpsertMessages(@, K, LinkFacts(key))], time)
    BY <1>2, <1>6, LinkLater
  <2> QED BY <2>1, <2>2
<1>7. body = withLinks \/ body = withRow
  BY <1>2 DEF Good, Databases
<1> HIDE DEF withLinks
<1>8. key \in PayloadKeys => withRow \in Good
  BY <1>4, <1>5, UpsertPayloadGood
<1>9. ASSUME key \in PayloadKeys PROVE Later(withLinks, withRow, time)
  <2>1. Dated(withLinks, time)
    BY <1>2, <1>6, <1>9 DEF Future, Later
  <2>2. key \in DOMAIN withLinks.payloads => Fits(withLinks.payloads[key], facts)
    BY <1>4, <2>1 DEF Fits, Dated, Null
  <2>3. facts.sentAt <= time /\ facts.underpaidAt <= time
    BY <1>4
  <2> QED BY <1>4, <1>5, <1>9, <2>2, <2>3, UpsertPayloadLater
<1> HIDE DEF withRow
<1>10. key \in PayloadKeys => withLinks \in Future(d, time) /\ withRow \in Future(d, time)
  BY <1>2, <1>5, <1>6, <1>8, <1>9, FutureFuture
<1> HIDE DEF body, target
<1>11. (IF target.action = "defer" THEN before ELSE body) \in Future(d, time)
  BY <1>2, <1>3, <1>7, <1>10
<1> QED BY <1>1, <1>11, ReconcileFuture

LEMMA RepayBatchLater ==
  ASSUME NEW n \in Nat, NEW d \in Good, NEW p \in PayloadIds, NEW tx
  PROVE  OnRepayBatch(d, p, tx) \in Future(d, n)
<1> DEFINE before == Reconcile(d, MessagesOf(p), {p})
           target == KeyOf(before, "RepayBatch", p, tx)
           key == <<p, target.index>>
           body == [before EXCEPT !.payloads = UpsertPayload(@, key, NoPayloadFacts)]
<1>1. OnRepayBatch(d, p, tx) =
        Reconcile(IF target.action # "mutate" THEN before ELSE body, MessagesOf(p), {p})
  BY DEF OnRepayBatch
<1>2. before \in Good /\ before \in Future(d, n)
  BY FutureStart, ReconcileFuture, ReconcileGood
<1> HIDE DEF before
<1>3. target.action # "defer" => key \in PayloadKeys
  BY <1>2, KeyOfType
<1>4. /\ NoPayloadFacts \in PayloadRow /\ NoPayloadFacts.completedAt = Null
      /\ NoPayloadFacts.sentAt = 0 /\ NoPayloadFacts.underpaidAt = 0
      /\ NoPayloadFacts.deliveredAt = Null /\ NoPayloadFacts.partiallyFailedAt = Null
  BY DEF NoPayloadFacts, PayloadRow, PayloadStatuses, Null
<1> HIDE DEF key
<1>5. key \in PayloadKeys => body \in Good
  BY <1>2, <1>4, UpsertPayloadGood
<1>6. Later(before, body, n)
  <2>1. key \in DOMAIN before.payloads => Fits(before.payloads[key], NoPayloadFacts)
    BY <1>4 DEF Fits, Null
  <2>2. NoPayloadFacts.sentAt <= n /\ NoPayloadFacts.underpaidAt <= n
    BY <1>4
  <2> QED BY <1>2, <1>4, <2>1, <2>2, UpsertPayloadLater
<1> HIDE DEF body, target
<1>7. (IF target.action # "mutate" THEN before ELSE body) \in Future(d, n)
  BY <1>2, <1>3, <1>5, <1>6, FutureFuture
<1> QED BY <1>1, <1>7, ReconcileFuture

LEMMA SendPayloadLater ==
  ASSUME NEW d \in Good, NEW p \in PayloadIds, NEW a \in Adapters, NEW time \in Nat, NEW tx \in Nat,
         Dated(d, time)
  PROVE  OnSendPayload(d, p, a, time, tx) \in Future(d, time)
<1> DEFINE before == Reconcile(d, MessagesOf(p), {p})
           key == <<p, KeyOf(before, "SendPayload", p, tx).index>>
           sent == [NoPayloadFacts EXCEPT !.sentAt = time, !.sentTx = tx]
           vote == Participation(key, a, "SEND", "PAYLOAD")
           withLinks == [before EXCEPT !.messages = LinkMessages(@, p, key)]
           withRow == [withLinks EXCEPT !.payloads = UpsertPayload(@, key, sent)]
           body == [withRow EXCEPT !.participations = @ \cup {vote}]
<1>1. before \in Good /\ before \in Future(d, time)
  BY FutureStart, ReconcileFuture, ReconcileGood
<1> HIDE DEF before
<1>2. OnSendPayload(d, p, a, time, tx) = Reconcile(body, MessagesOf(p), {p})
  <2>1. body = [before EXCEPT !.messages = LinkMessages(@, p, key),
                              !.payloads = UpsertPayload(@, key, sent),
                              !.participations = @ \cup {vote}]
    BY <1>1 DEF Good, Databases
  <2> QED BY <2>1 DEF OnSendPayload, before
<1>3. key \in PayloadKeys
  BY <1>1, KeyOfType
<1>4. /\ sent \in PayloadRow /\ sent.completedAt = Null /\ sent.sentAt = time /\ sent.underpaidAt = 0
      /\ sent.deliveredAt = Null /\ sent.partiallyFailedAt = Null
  BY DEF NoPayloadFacts, PayloadRow, PayloadStatuses, Null
<1> HIDE DEF key, sent
<1>5. vote \in Participations /\ vote.side = "SEND"
  BY <1>3 DEF Participation, Participations
<1> HIDE DEF vote
<1>6. withLinks \in Good /\ Later(before, withLinks, time)
  <2>1. PICK K : /\ K \subseteq DOMAIN before.messages
                 /\ LinkMessages(before.messages, p, key) = UpsertMessages(before.messages, K, LinkFacts(key))
    BY DEF LinkMessages
  <2>2. K \subseteq MessageKeys /\ Bounded(K)
    BY <1>1, <2>1, GoodTables, BoundedSubset DEF Good, Finite
  <2>3. [before EXCEPT !.messages = UpsertMessages(@, K, LinkFacts(key))] \in Good
    BY <1>1, <1>3, <2>2, LinkGood
  <2>4. Later(before, [before EXCEPT !.messages = UpsertMessages(@, K, LinkFacts(key))], time)
    BY <1>1, <1>3, LinkLater
  <2> QED BY <2>1, <2>3, <2>4
<1> HIDE DEF withLinks
<1>7. withRow \in Good
  BY <1>3, <1>4, <1>6, UpsertPayloadGood
<1>8. Later(withLinks, withRow, time)
  <2>1. Dated(withLinks, time)
    BY <1>1, <1>6 DEF Future, Later
  <2>2. key \in DOMAIN withLinks.payloads => Fits(withLinks.payloads[key], sent)
    BY <1>4, <2>1 DEF Fits, Dated, Null
  <2>3. sent.sentAt <= time /\ sent.underpaidAt <= time
    BY <1>4
  <2> QED BY <1>4, <1>6, <2>2, <2>3, UpsertPayloadLater
<1> HIDE DEF withRow
<1>9. body \in Good /\ body.messages = withRow.messages /\ body.payloads = withRow.payloads
  BY <1>5, <1>7, WriteParticipation DEF Good, Databases
<1> HIDE DEF body
<1>10. Later(withRow, body, time)
  BY <1>9, OtherTablesLater
<1>11. body \in Future(d, time)
  BY <1>1, <1>6, <1>7, <1>8, <1>9, <1>10, FutureFuture
<1> QED BY <1>2, <1>11, ReconcileFuture

LEMMA SendProofLater ==
  ASSUME NEW n \in Nat, NEW d \in Good, NEW p \in PayloadIds, NEW a \in Adapters
  PROVE  OnSendProof(d, p, a) \in Future(d, n)
<1> DEFINE before == Reconcile(d, {}, {p})
           open == {k \in RowsOf(before.payloads, p) : IsOpen(before.payloads[k])}
           vote == Participation(Lowest(open), a, "SEND", "PROOF")
           body == [before EXCEPT !.participations = @ \cup {vote}]
           written == IF open = {} THEN before ELSE body
<1>1. before \in Good /\ before \in Future(d, n)
  BY FutureStart, ReconcileFuture, ReconcileGood
<1>2. OnSendProof(d, p, a) = d \/ OnSendProof(d, p, a) = Reconcile(written, {}, {p})
  BY DEF OnSendProof
<1> HIDE DEF before
<1>3. open \subseteq PayloadIds \X Nat
  BY <1>1, GoodTables DEF RowsOf, PayloadKeys
<1> HIDE DEF open
<1>4. open # {} => vote \in Participations /\ vote.side = "SEND"
  <2>1. open # {} => Lowest(open) \in PayloadKeys
    BY <1>3, LowestIsLowest DEF PayloadKeys
  <2> QED BY <2>1 DEF Participation, Participations
<1> HIDE DEF vote
<1>5. open # {} => body \in Good
  BY <1>1, <1>4, WriteParticipation
<1>6. body.messages = before.messages /\ body.payloads = before.payloads
  BY <1>1 DEF Good, Databases
<1> HIDE DEF body
<1>7. written \in Future(d, n)
  BY <1>1, <1>5, <1>6, OtherTablesLater, FutureFuture
<1> HIDE DEF written
<1> QED BY <1>2, <1>7, FutureStart, ReconcileFuture

-----------------------------------------------------------------------------
(* Handlers of the destination chain *)

LEMMA MessageReceiveLater ==
  ASSUME NEW n \in Nat, NEW d \in Good, NEW e \in MessageReceives
  PROVE  OnMessageReceive(d, e) \in Future(d, n)
<1>1. IsFiniteSet({e}) /\ d \in Future(d, n) /\ KeepsMessageReceives(Future(d, n))
  BY FS_Singleton, FutureStart, FutureKeepsReceives
<1> QED BY <1>1, ReconcileMessagesKeeps DEF OnMessageReceive

LEMMA PayloadReceiveLater ==
  ASSUME NEW n \in Nat, NEW d \in Good, NEW e \in PayloadReceives
  PROVE  OnPayloadReceive(d, e) \in Future(d, n)
<1>1. IsFiniteSet({e}) /\ d \in Future(d, n) /\ KeepsPayloadReceives(Future(d, n))
  BY FS_Singleton, FutureStart, FutureKeepsReceives
<1>2. ReconcilePayloads(d, {e.id}, {e}) \in Future(d, n)
  BY <1>1, ReconcilePayloadsKeeps
<1> QED BY <1>1, <1>2 DEF OnPayloadReceive

LEMMA SetAdaptersLater ==
  ASSUME NEW n, NEW d \in Good, NEW pool \in Pools, NEW adapters, adapters \subseteq Adapters
  PROVE  OnSetAdapters(d, pool, adapters) \in Future(d, n)
<1>1. /\ OnSetAdapters(d, pool, adapters).messages = d.messages
      /\ OnSetAdapters(d, pool, adapters).payloads = d.payloads
  BY DEF OnSetAdapters, Good, Databases
<1>2. OnSetAdapters(d, pool, adapters) \in Good
  BY SetAdaptersGood
<1> QED BY <1>1, <1>2, OtherTablesLater DEF Future

-----------------------------------------------------------------------------
(* Steps *)

SendsAreDated == Dated(db, clock["source"])

LEMMA StepsGrow ==
  ASSUME Inductive, SendsAreDated, [Next]_vars
  PROVE  Grows(db, db') /\ SendsAreDated'
<1>1. CASE UNCHANGED vars
  <2>1. db' = db /\ clock' = clock
    BY <1>1 DEF vars
  <2> QED BY <2>1, LaterOrder DEF SendsAreDated, Later
<1>2. CASE Next
  <2>1. PICK t \in Times : Step(t)  BY <1>2 DEF Next
  <2> DEFINE now == clock["source"]
  <2>2. t \in Nat /\ t \in Times /\ db \in Good /\ indexed["destination"] + 1 \in Nat /\ now \in Nat
    BY DEF Inductive, Times, Chains
  <2>3. Dated(db, now)
    BY DEF SendsAreDated
  <2>4. ASSUME Indexes("source", t)
        PROVE  clock'["source"] = t /\ now <= t /\ Dated(db, t)
    <3>1. now <= t /\ clock'["source"] = t
      BY <2>4 DEF Indexes, Inductive, Chains
    <3>2. ASSUME NEW k \in DOMAIN db.payloads
          PROVE  db.payloads[k].sentAt <= t /\ db.payloads[k].underpaidAt <= t
      <4>1. db.payloads[k].sentAt \in Nat /\ db.payloads[k].underpaidAt \in Nat
        <5>1. db.payloads[k] \in PayloadRow
          BY <2>2, GoodTables
        <5> QED BY <5>1 DEF PayloadRow
      <4>2. db.payloads[k].sentAt <= now /\ db.payloads[k].underpaidAt <= now
        BY <2>3 DEF Dated
      <4> HIDE DEF now
      <4> QED BY <2>2, <3>1, <4>1, <4>2
    <3> QED BY <3>1, <3>2 DEF Dated
  <2>5. ASSUME Indexes("destination", t)
        PROVE  clock'["source"] = now
    BY <2>5 DEF Indexes, Inductive, Chains
  <2>6. ASSUME NEW n, db' \in Future(db, n), Dated(db, n), clock'["source"] = n
        PROVE  Grows(db, db') /\ SendsAreDated'
    BY <2>6 DEF Future, Later, SendsAreDated
  <2>7. ASSUME NEW m \in MessageIds, NEW live \in BOOLEAN, PrepareMessage(m, t, live)
        PROVE  Grows(db, db') /\ SendsAreDated'
    BY <2>2, <2>4, <2>6, <2>7, PrepareMessageLater DEF PrepareMessage
  <2>8. ASSUME NEW p \in PayloadIds, UnderpaidBatch(p, t)
        PROVE  Grows(db, db') /\ SendsAreDated'
    BY <2>2, <2>4, <2>6, <2>8, UnderpaidBatchLater DEF UnderpaidBatch
  <2>9. ASSUME NEW p \in PayloadIds, RepayBatch(p, t)
        PROVE  Grows(db, db') /\ SendsAreDated'
    BY <2>2, <2>4, <2>6, <2>9, RepayBatchLater DEF RepayBatch
  <2>10. ASSUME NEW p \in PayloadIds, NEW a \in Adapters, SendPayload(p, a, t)
         PROVE  Grows(db, db') /\ SendsAreDated'
    BY <2>2, <2>4, <2>6, <2>10, SendPayloadLater DEF SendPayload
  <2>11. ASSUME NEW p \in PayloadIds, NEW a \in Adapters, SendProof(p, a, t)
         PROVE  Grows(db, db') /\ SendsAreDated'
    BY <2>2, <2>4, <2>6, <2>11, SendProofLater DEF SendProof
  <2>12. ASSUME NEW m \in MessageIds, ExecuteMessage(m, t) \/ FailMessage(m, t)
         PROVE  Grows(db, db') /\ SendsAreDated'
    <3>1. /\ MessageLog(m, "execute", t) \in MessageReceives
          /\ MessageLog(m, "fail", t) \in MessageReceives
      BY <2>2 DEF MessageLog, MessageReceives
    <3> HIDE DEF now
    <3> QED BY <2>2, <2>3, <2>5, <2>6, <2>12, <3>1, MessageReceiveLater DEF ExecuteMessage, FailMessage
  <2>13. ASSUME NEW p \in PayloadIds, NEW a \in Adapters, HandlePayload(p, a, t) \/ HandleProof(p, a, t)
         PROVE  Grows(db, db') /\ SendsAreDated'
    <3>1. /\ PayloadLog(p, a, "PAYLOAD", t) \in PayloadReceives
          /\ PayloadLog(p, a, "PROOF", t) \in PayloadReceives
      BY <2>2 DEF PayloadLog, PayloadReceives
    <3> HIDE DEF now
    <3> QED BY <2>2, <2>3, <2>5, <2>6, <2>13, <3>1, PayloadReceiveLater DEF HandlePayload, HandleProof
  <2>14. ASSUME NEW pool \in Pools, NEW adapters \in SUBSET Adapters, SetAdapters(pool, adapters, t)
         PROVE  Grows(db, db') /\ SendsAreDated'
    <3> HIDE DEF now
    <3> QED BY <2>2, <2>3, <2>5, <2>6, <2>14, SetAdaptersLater DEF SetAdapters
  <2> QED BY <2>1, <2>7, <2>8, <2>9, <2>10, <2>11, <2>12, <2>13, <2>14 DEF Step
<1> QED BY <1>1, <1>2

LEMMA InitDated == Init => SendsAreDated
<1>1. EmptyDatabase.payloads = <<>> /\ DOMAIN <<>> = {}
  BY DEF EmptyDatabase
<1> QED BY <1>1 DEF Init, SendsAreDated, Dated

THEOREM AlwaysDated == Spec => []SendsAreDated
<1>1. Inductive /\ SendsAreDated /\ [Next]_vars => SendsAreDated'
  BY StepsGrow
<1> QED BY <1>1, InitDated, AlwaysInductive, PTL DEF Spec

\* No later log and no late chain takes back a time, a link or a row.
THEOREM FactsStay == Spec => FactsAreFinal
<1>1. Inductive /\ SendsAreDated /\ [Next]_vars => [Grows(db, db')]_vars
  BY StepsGrow
<1> QED BY <1>1, AlwaysInductive, AlwaysDated, PTL DEF Spec, FactsAreFinal

-----------------------------------------------------------------------------
(* The lifecycle of the rows *)

LEMMA MessageAdvances ==
  ASSUME NEW old \in MessageRow, NEW new \in MessageRow, MessageConsistent(old),
         MessageConsistent(new), MessageKept(old, new)
  PROVE  Lifecycle!MessageStage[old.status] <= Lifecycle!MessageStage[new.status]
<1>1. old.status \in MessageStatuses /\ new.status \in MessageStatuses
  BY DEF MessageRow
<1>2. /\ old.status = "Executed" => new.status = "Executed"
      /\ old.status = "Failed" => new.status \in {"Failed", "Executed"}
  BY DEF MessageConsistent, MessageKept, Kept
<1> QED BY <1>1, <1>2 DEF MessageStatuses, Lifecycle!MessageStage

LEMMA PayloadAdvances ==
  ASSUME NEW old \in PayloadRow, NEW new \in PayloadRow, old.status = PayloadStatus(old),
         new.status = PayloadStatus(new), PayloadKept(old, new)
  PROVE  Lifecycle!PayloadStage[old.status] <= Lifecycle!PayloadStage[new.status]
<1>1. /\ old.sentAt # Null => new.sentAt # Null
      /\ old.deliveredAt # Null => new.deliveredAt # Null
      /\ old.partiallyFailedAt # Null => new.partiallyFailedAt # Null
      /\ old.completedAt # Null => new.completedAt # Null
  BY DEF PayloadKept, Kept
<1> QED BY <1>1 DEF PayloadStatus, Lifecycle!PayloadStage

LEMMA GrowingAdvances ==
  ASSUME NEW d \in Good, NEW e \in Good, Grows(d, e)
  PROVE  /\ Lifecycle!Advances(StatusOf(d.messages), StatusOf(e.messages), Lifecycle!MessageStage)
         /\ Lifecycle!Advances(StatusOf(d.payloads), StatusOf(e.payloads), Lifecycle!PayloadStage)
<1>1. ASSUME NEW k \in DOMAIN d.messages
      PROVE  /\ k \in DOMAIN e.messages
             /\ Lifecycle!MessageStage[d.messages[k].status]
                  <= Lifecycle!MessageStage[e.messages[k].status]
  <2>1. k \in DOMAIN e.messages /\ MessageKept(d.messages[k], e.messages[k])
    BY DEF Grows
  <2>2. d.messages[k] \in MessageRow /\ e.messages[k] \in MessageRow
    BY <2>1, GoodTables
  <2>3. MessageConsistent(d.messages[k]) /\ MessageConsistent(e.messages[k])
    BY <2>1 DEF Good, Consistent
  <2> QED BY <2>1, <2>2, <2>3, MessageAdvances
<1>2. ASSUME NEW k \in DOMAIN d.payloads
      PROVE  /\ k \in DOMAIN e.payloads
             /\ Lifecycle!PayloadStage[d.payloads[k].status]
                  <= Lifecycle!PayloadStage[e.payloads[k].status]
  <2>1. k \in DOMAIN e.payloads /\ PayloadKept(d.payloads[k], e.payloads[k])
    BY DEF Grows
  <2>2. d.payloads[k] \in PayloadRow /\ e.payloads[k] \in PayloadRow
    BY <2>1, GoodTables
  <2>3. /\ d.payloads[k].status = PayloadStatus(d.payloads[k])
        /\ e.payloads[k].status = PayloadStatus(e.payloads[k])
    BY <2>1 DEF Good, Consistent
  <2> QED BY <2>1, <2>2, <2>3, PayloadAdvances
<1> QED BY <1>1, <1>2 DEF Lifecycle!Advances, StatusOf

\* The rows of the tables, seen through their statuses alone, live as
\* CrosschainLifecycle promises: none disappears and none goes back a stage.
THEOREM LifecycleImplemented == Spec => ImplementsLifecycle
<1>1. Init => Lifecycle!LifecycleInit
  <2>1. DOMAIN StatusOf(<<>>) = {}
    BY DEF StatusOf
  <2> QED BY <2>1 DEF Init, EmptyDatabase, Lifecycle!LifecycleInit
<1>2. Inductive /\ Inductive' /\ SendsAreDated /\ [Next]_vars
        => [Lifecycle!LifecycleNext]_<<StatusOf(db.messages), StatusOf(db.payloads)>>
  <2> SUFFICES ASSUME Inductive, Inductive', SendsAreDated, [Next]_vars
               PROVE  Lifecycle!LifecycleNext
    OBVIOUS
  <2>1. Grows(db, db')
    BY StepsGrow
  <2>2. db \in Good /\ db' \in Good
    BY DEF Inductive
  <2> QED BY <2>1, <2>2, GrowingAdvances DEF Lifecycle!LifecycleNext
<1> QED BY <1>1, <1>2, AlwaysInductive, AlwaysDated, PTL
        DEF Spec, ImplementsLifecycle, Lifecycle!LifecycleSpec

-----------------------------------------------------------------------------
(* The handlers of the source chain: each drains the queues, writes the rows *)
(* of one payload and drains again.  A set of databases that such writes and *)
(* drains do not leave is not left by the handlers                          *)

KeepsVotes(S, p) ==
  /\ S \subseteq Good
  /\ \A d \in S, vote \in Participations :
       vote.side = "SEND" /\ vote.payload[1] = p => [d EXCEPT !.participations = @ \cup {vote}] \in S

KeepsWrites(S, p, F) ==
  /\ KeepsVotes(S, p)
  /\ \A d \in S, K \in SUBSET MessageKeys, key \in PayloadKeys :
       Bounded(K) /\ key[1] = p => [d EXCEPT !.messages = UpsertMessages(@, K, LinkFacts(key))] \in S
  /\ \A d \in S, key \in PayloadKeys, facts \in F :
       key[1] = p => [d EXCEPT !.payloads = UpsertPayload(@, key, facts)] \in S

KeepsSends(S, p, F) ==
  /\ KeepsWrites(S, p, F)
  /\ \A d \in S : \A ids : Reconcile(d, ids, {p}) \in S

\* The facts the send handlers write at a time, and what each of them ends with.
SendFactsIn(F, time) ==
  /\ NoPayloadFacts \in F
  /\ [NoPayloadFacts EXCEPT !.underpaidAt = time] \in F
  /\ [NoPayloadFacts EXCEPT !.sentAt = time, !.sentTx = time] \in F

Drained(f, S, p) == \E body \in S : \E ids : f = Reconcile(body, ids, {p})

LEMMA LinkUnderpaidRows ==
  ASSUME NEW d \in Good, NEW p \in PayloadIds, NEW key \in PayloadKeys
  PROVE  \E K \in SUBSET MessageKeys :
           Bounded(K) /\ LinkUnderpaid(d.messages, p, key).messages = UpsertMessages(d.messages, K, LinkFacts(key))
<1> DEFINE waiting(m) == {k \in RowsOf(d.messages, m) : IsUnlinkedAwaiting(d.messages[k])}
           positions == {i \in DOMAIN Batch[p] :
                          waiting(Batch[p][i]) # {} \/ Batch[p][i] \notin Undecodable}
           rowAt(i) == IF waiting(Batch[p][i]) # {} THEN Lowest(waiting(Batch[p][i]))
                       ELSE <<Batch[p][i], i - 1>>
           K == {rowAt(i) : i \in positions}
           added == {<<Batch[p][i], i - 1>> : i \in positions}
<1>1. LinkUnderpaid(d.messages, p, key).messages = UpsertMessages(d.messages, K, LinkFacts(key))
  BY DEF LinkUnderpaid
<1>2. /\ DOMAIN d.messages \subseteq MessageIds \X Nat
      /\ Bounded(DOMAIN d.messages)
  BY GoodTables DEF Good, Finite, MessageKeys
<1>3. \A m : waiting(m) # {} => Lowest(waiting(m)) \in DOMAIN d.messages
  <2> TAKE m
  <2>1. waiting(m) \subseteq DOMAIN d.messages /\ waiting(m) \subseteq MessageIds \X Nat
    BY <1>2 DEF RowsOf
  <2> HIDE DEF waiting
  <2> QED BY <2>1, LowestIsLowest
<1>4. /\ added \subseteq MessageIds \X Nat
      /\ Bounded(added)
  <2>1. Batch[p] \in Seq(MessageIds)
    BY BatchType
  <2>2. PICK n \in Nat : DOMAIN Batch[p] = 1..n
    BY <2>1
  <2>3. \A i \in positions : Batch[p][i] \in MessageIds /\ i \in 1..n
    BY <2>1, <2>2
  <2> HIDE DEF positions
  <2>4. \A k \in added : k \in MessageIds \X Nat /\ k[2] < n
    BY <2>2, <2>3
  <2> QED BY <2>4 DEF Bounded
<1>5. K \subseteq DOMAIN d.messages \cup added
  <2> HIDE DEF waiting, positions
  <2> QED BY <1>3
<1> HIDE DEF K, added
<1>6. Bounded(DOMAIN d.messages \cup added)
  BY <1>2, <1>4, BoundedUnion
<1>7. K \subseteq MessageKeys /\ Bounded(K)
  BY <1>2, <1>4, <1>5, <1>6, BoundedSubset DEF MessageKeys
<1> QED BY <1>1, <1>7

LEMMA UnderpaidBatchKeeps ==
  ASSUME NEW S, NEW p \in PayloadIds, NEW F, KeepsWrites(S, p, F), NEW d, NEW time, SendFactsIn(F, time),
         Reconcile(d, MessagesOf(p), {p}) \in S
  PROVE  Drained(OnUnderpaidBatch(d, p, time), S, p)
<1> DEFINE before == Reconcile(d, MessagesOf(p), {p})
           target == KeyOf(before, "UnderpaidBatch", p, Null)
           key == <<p, target.index>>
           linked == LinkUnderpaid(before.messages, p, key)
           facts == [NoPayloadFacts EXCEPT !.underpaidAt = time]
           withLinks == [before EXCEPT !.messages = linked.messages]
           withRow == [withLinks EXCEPT !.payloads = UpsertPayload(@, key, facts)]
           body == [before EXCEPT !.messages = linked.messages,
                                  !.payloads = IF Cardinality(linked.pools) > 1 THEN @
                                               ELSE UpsertPayload(@, key, facts)]
<1>1. OnUnderpaidBatch(d, p, time) =
        Reconcile(IF target.action = "defer" THEN before ELSE body, MessagesOf(p), {p})
  BY DEF OnUnderpaidBatch
<1>2. before \in S /\ before \in Good  BY DEF KeepsWrites, KeepsVotes
<1> HIDE DEF before
<1>3. target.action # "defer" => key \in PayloadKeys  BY <1>2, KeyOfType
<1>4. key[1] = p /\ facts \in F  BY DEF SendFactsIn
<1> HIDE DEF facts, key
<1>5. key \in PayloadKeys => withLinks \in S
  <2> SUFFICES ASSUME key \in PayloadKeys PROVE withLinks \in S
    OBVIOUS
  <2>1. PICK K \in SUBSET MessageKeys :
          Bounded(K) /\ linked.messages = UpsertMessages(before.messages, K, LinkFacts(key))
    BY <1>2, LinkUnderpaidRows
  <2> HIDE DEF linked
  <2>2. [before EXCEPT !.messages = UpsertMessages(@, K, LinkFacts(key))] \in S
    BY <1>2, <1>4, <2>1 DEF KeepsWrites, KeepsVotes
  <2> QED BY <2>1, <2>2
<1>6. key \in PayloadKeys => withRow \in S
  <2> HIDE DEF withLinks
  <2> QED BY <1>4, <1>5 DEF KeepsWrites, KeepsVotes
<1>7. body = withLinks \/ body = withRow
  BY <1>2 DEF Good, Databases
<1> HIDE DEF body, withRow, withLinks, target
<1>8. (IF target.action = "defer" THEN before ELSE body) \in S
  BY <1>2, <1>3, <1>5, <1>6, <1>7
<1> QED BY <1>1, <1>8 DEF Drained

LEMMA RepayBatchKeeps ==
  ASSUME NEW S, NEW p \in PayloadIds, NEW F, KeepsWrites(S, p, F), NEW d, NEW time, SendFactsIn(F, time),
         Reconcile(d, MessagesOf(p), {p}) \in S
  PROVE  Drained(OnRepayBatch(d, p, time), S, p)
<1> DEFINE before == Reconcile(d, MessagesOf(p), {p})
           target == KeyOf(before, "RepayBatch", p, time)
           key == <<p, target.index>>
           body == [before EXCEPT !.payloads = UpsertPayload(@, key, NoPayloadFacts)]
<1>1. OnRepayBatch(d, p, time) =
        Reconcile(IF target.action # "mutate" THEN before ELSE body, MessagesOf(p), {p})
  BY DEF OnRepayBatch
<1>2. before \in S /\ before \in Good  BY DEF KeepsWrites, KeepsVotes
<1> HIDE DEF before
<1>3. target.action # "defer" => key \in PayloadKeys  BY <1>2, KeyOfType
<1>4. key[1] = p  OBVIOUS
<1> HIDE DEF key
<1>5. key \in PayloadKeys => body \in S  BY <1>2, <1>4 DEF KeepsWrites, KeepsVotes, SendFactsIn
<1> HIDE DEF body, target
<1>6. (IF target.action # "mutate" THEN before ELSE body) \in S  BY <1>2, <1>3, <1>5
<1> QED BY <1>1, <1>6 DEF Drained

LEMMA SendPayloadKeeps ==
  ASSUME NEW S, NEW p \in PayloadIds, NEW F, KeepsWrites(S, p, F), NEW d, NEW a \in Adapters, NEW time,
         SendFactsIn(F, time), Reconcile(d, MessagesOf(p), {p}) \in S
  PROVE  Drained(OnSendPayload(d, p, a, time, time), S, p)
<1> DEFINE before == Reconcile(d, MessagesOf(p), {p})
           key == <<p, KeyOf(before, "SendPayload", p, time).index>>
           sent == [NoPayloadFacts EXCEPT !.sentAt = time, !.sentTx = time]
           vote == Participation(key, a, "SEND", "PAYLOAD")
           withLinks == [before EXCEPT !.messages = LinkMessages(@, p, key)]
           withRow == [withLinks EXCEPT !.payloads = UpsertPayload(@, key, sent)]
           body == [withRow EXCEPT !.participations = @ \cup {vote}]
<1>1. before \in S /\ before \in Good  BY DEF KeepsWrites, KeepsVotes
<1> HIDE DEF before
<1>2. OnSendPayload(d, p, a, time, time) = Reconcile(body, MessagesOf(p), {p})
  <2>1. body = [before EXCEPT !.messages = LinkMessages(@, p, key),
                              !.payloads = UpsertPayload(@, key, sent),
                              !.participations = @ \cup {vote}]
    BY <1>1 DEF Good, Databases
  <2> QED BY <2>1 DEF OnSendPayload, before
<1>3. key \in PayloadKeys /\ key[1] = p  BY <1>1, KeyOfType
<1>4. sent \in F  BY DEF SendFactsIn
<1> HIDE DEF key, sent
<1>5. vote \in Participations /\ vote.side = "SEND" /\ vote.payload[1] = p
  BY <1>3 DEF Participation, Participations
<1> HIDE DEF vote
<1>6. withLinks \in S
  <2>1. PICK K : /\ K \subseteq DOMAIN before.messages
                 /\ LinkMessages(before.messages, p, key) = UpsertMessages(before.messages, K, LinkFacts(key))
    BY DEF LinkMessages
  <2>2. K \in SUBSET MessageKeys /\ Bounded(K)
    BY <1>1, <2>1, GoodTables, BoundedSubset DEF Good, Finite
  <2>3. [before EXCEPT !.messages = UpsertMessages(@, K, LinkFacts(key))] \in S
    BY <1>1, <1>3, <2>2 DEF KeepsWrites, KeepsVotes
  <2> QED BY <2>1, <2>3
<1> HIDE DEF withLinks
<1>7. withRow \in S  BY <1>3, <1>4, <1>6 DEF KeepsWrites, KeepsVotes
<1> HIDE DEF withRow
<1>8. body \in S  BY <1>5, <1>7 DEF KeepsWrites, KeepsVotes
<1> HIDE DEF body
<1> QED BY <1>2, <1>8 DEF Drained

LEMMA SendProofKeeps ==
  ASSUME NEW S, NEW p \in PayloadIds, KeepsVotes(S, p), NEW d, NEW a \in Adapters,
         Reconcile(d, {}, {p}) \in S
  PROVE  OnSendProof(d, p, a) = d \/ Drained(OnSendProof(d, p, a), S, p)
<1> DEFINE before == Reconcile(d, {}, {p})
           open == {k \in RowsOf(before.payloads, p) : IsOpen(before.payloads[k])}
           vote == Participation(Lowest(open), a, "SEND", "PROOF")
           body == [before EXCEPT !.participations = @ \cup {vote}]
           written == IF open = {} THEN before ELSE body
<1>1. before \in S /\ before \in Good  BY DEF KeepsVotes
<1>2. OnSendProof(d, p, a) = d \/ OnSendProof(d, p, a) = Reconcile(written, {}, {p})
  BY DEF OnSendProof
<1> HIDE DEF before
<1>3. open \subseteq PayloadIds \X Nat /\ \A k \in open : k[1] = p
  BY <1>1, GoodTables DEF RowsOf, PayloadKeys
<1> HIDE DEF open
<1>4. open # {} => vote \in Participations /\ vote.side = "SEND" /\ vote.payload[1] = p
  <2>1. open # {} => Lowest(open) \in PayloadKeys /\ Lowest(open)[1] = p
    BY <1>3, LowestIsLowest DEF PayloadKeys
  <2> QED BY <2>1 DEF Participation, Participations
<1> HIDE DEF vote
<1>5. open # {} => body \in S  BY <1>1, <1>4 DEF KeepsVotes
<1> HIDE DEF body
<1>6. written \in S  BY <1>1, <1>5
<1> HIDE DEF written
<1> QED BY <1>2, <1>6 DEF Drained

\* A handler of the source chain either changes nothing or ends with draining a
\* database of S.
Sends(S, p, d, time) ==
  /\ Drained(OnUnderpaidBatch(d, p, time), S, p)
  /\ Drained(OnRepayBatch(d, p, time), S, p)
  /\ \A a \in Adapters : /\ Drained(OnSendPayload(d, p, a, time, time), S, p)
                         /\ OnSendProof(d, p, a) = d \/ Drained(OnSendProof(d, p, a), S, p)

LEMMA SendsKeep ==
  ASSUME NEW S, NEW p \in PayloadIds, NEW F, KeepsSends(S, p, F), NEW d \in S, NEW time,
         SendFactsIn(F, time)
  PROVE  Sends(S, p, d, time)
BY UnderpaidBatchKeeps, RepayBatchKeeps, SendPayloadKeeps, SendProofKeeps DEF Sends, KeepsSends, KeepsWrites

\* A message is prepared on a row of its own.
KeepsPrepares(S, m) ==
  /\ S \subseteq Good
  /\ \A d \in S : Reconcile(d, {m}, {}) \in S
  /\ \A d \in S, key \in MessageKeys, time \in Nat :
       [d EXCEPT !.messages = UpsertMessages(@, {key}, [NoMessageFacts EXCEPT !.preparedAt = time])] \in S
  /\ \A d \in S, t \in Tables(Pools \X Adapters, PoolAdapterRow) : [d EXCEPT !.poolAdapters = t] \in S

LEMMA PrepareMessageKeeps ==
  ASSUME NEW S, NEW m \in MessageIds, KeepsPrepares(S, m), NEW d \in S, NEW time \in Nat, NEW live
  PROVE  OnPrepareMessage(d, m, time, live) \in S
<1> DEFINE before == Reconcile(d, {m}, {})
           rows == RowsOf(before.messages, m)
           key == <<m, NextIndex(rows)>>
           facts == [NoMessageFacts EXCEPT !.preparedAt = time]
           prepared == [before EXCEPT !.messages = UpsertMessages(@, {key}, facts)]
           marked == IF IsSetPoolAdapters(m) /\ live THEN MarkInProgress(prepared, m) ELSE prepared
<1>1. OnPrepareMessage(d, m, time, live) = d \/
      OnPrepareMessage(d, m, time, live) = Reconcile(marked, {m}, {})
  BY DEF OnPrepareMessage
<1>2. before \in S /\ before \in Good  BY DEF KeepsPrepares
<1> HIDE DEF before
<1>3. key \in MessageKeys
  <2>1. rows \subseteq MessageIds \X Nat /\ rows \subseteq DOMAIN before.messages
    BY <1>2, GoodTables DEF RowsOf, MessageKeys
  <2>2. Bounded(rows)  BY <1>2, <2>1, BoundedSubset DEF Good, Finite
  <2> HIDE DEF rows
  <2> QED BY <2>1, <2>2, NextIndexIsNext DEF MessageKeys
<1> HIDE DEF key
<1>4. prepared \in S  BY <1>2, <1>3 DEF KeepsPrepares
<1> HIDE DEF prepared
<1>5. IsSetPoolAdapters(m) => MarkInProgress(prepared, m) \in S
  <2> SUFFICES ASSUME IsSetPoolAdapters(m) PROVE MarkInProgress(prepared, m) \in S
    OBVIOUS
  <2>1. prepared \in Good /\ MarkInProgress(prepared, m) \in Good
    BY <1>4, MarkInProgressGood DEF KeepsPrepares
  <2>2. PICK t : MarkInProgress(prepared, m) = [prepared EXCEPT !.poolAdapters = t]  BY DEF MarkInProgress
  <2>3. [prepared EXCEPT !.poolAdapters = t].poolAdapters = t  BY <2>1 DEF Good, Databases
  <2>4. t \in Tables(Pools \X Adapters, PoolAdapterRow)  BY <2>1, <2>2, <2>3 DEF Good, Databases
  <2> QED BY <1>4, <2>2, <2>4 DEF KeepsPrepares
<1>6. marked \in S  BY <1>4, <1>5
<1> HIDE DEF marked
<1> QED BY <1>1, <1>6 DEF KeepsPrepares

-----------------------------------------------------------------------------
(* Executions: each is waiting or recorded on one row                       *)

RecordedIn(t, e) == {k \in DOMAIN t : t[k].executedLog = e.pos}

\* X are the logs of executions so far, U those that wait, fails included.
Conserved(t, X, U) ==
  /\ \A e \in U : e.status = "execute" => e \in X
  /\ \A e \in X : IF e \in U THEN RecordedIn(t, e) = {} ELSE \E k \in RowsOf(t, e.id) : RecordedIn(t, e) = {k}
  /\ \A k \in DOMAIN t : t[k].executedAt = Null => t[k].executedLog = Null
  /\ \A k \in DOMAIN t : t[k].executedAt # Null =>
       \E e \in X : e.pos = t[k].executedLog /\ e.time = t[k].executedAt /\ e.id = k[1]

\* Logs of executions have positions of their own.
AreExecutions(X) ==
  /\ \A e \in X : e \in MessageReceives /\ e.status = "execute" /\ e.pos # Null
  /\ \A e, f \in X : e.pos = f.pos => e = f

\* A write that executes no row.
LEMMA SentConserves ==
  ASSUME NEW t, NEW X, NEW U, Conserved(t, X, U), AreExecutions(X), NEW K, NEW facts,
         facts.executedAt = Null, facts.executedLog = Null
  PROVE  Conserved(UpsertMessages(t, K, facts), X, U)
<1> DEFINE u == UpsertMessages(t, K, facts)
<1>1. DOMAIN u = DOMAIN t \cup K  BY DEF UpsertMessages
<1>2. \A k \in DOMAIN u \ DOMAIN t : u[k] = facts  BY DEF UpsertMessages
<1>3. \A k \in DOMAIN t : u[k].executedAt = t[k].executedAt /\ u[k].executedLog = t[k].executedLog
  <2> SUFFICES ASSUME NEW k \in DOMAIN t
               PROVE  u[k].executedAt = t[k].executedAt /\ u[k].executedLog = t[k].executedLog
    OBVIOUS
  <2>1. CASE k \notin K  BY <2>1 DEF UpsertMessages
  <2>2. CASE k \in K
    <3>1. u[k] = MergeMessage(t[k], facts)  BY <2>2 DEF UpsertMessages
    <3>2. /\ u[k].executedAt = MergeEarliest(t[k].executedAt, Null)
          /\ u[k].executedLog = Coalesce(t[k].executedLog, Null)
      BY <3>1 DEF MergeMessage
    <3> QED BY <3>2 DEF MergeEarliest, Coalesce
  <2> QED BY <2>1, <2>2
<1> HIDE DEF u
<1>4. \A e \in X : e.pos # Null  BY DEF AreExecutions
<1>5. \A e \in X : RecordedIn(u, e) = RecordedIn(t, e)  BY <1>1, <1>2, <1>3, <1>4 DEF RecordedIn
<1>6. \A id : RowsOf(t, id) \subseteq RowsOf(u, id)  BY <1>1 DEF RowsOf
<1>7. \A e \in X : IF e \in U THEN RecordedIn(u, e) = {} ELSE \E k \in RowsOf(u, e.id) : RecordedIn(u, e) = {k}
  BY <1>5, <1>6 DEF Conserved
<1>8. \A k \in DOMAIN u : u[k].executedAt = Null => u[k].executedLog = Null
  BY <1>1, <1>2, <1>3 DEF Conserved
<1>9. \A k \in DOMAIN u : u[k].executedAt # Null =>
        \E e \in X : e.pos = u[k].executedLog /\ e.time = u[k].executedAt /\ e.id = k[1]
  BY <1>1, <1>2, <1>3 DEF Conserved
<1>10. \A e \in U : e.status = "execute" => e \in X  BY DEF Conserved
<1> QED BY <1>7, <1>8, <1>9, <1>10 DEF Conserved, u

\* A receive that is applied to an open row of its message waits no longer.
LEMMA ReceivedConserves ==
  ASSUME NEW t, NEW X, NEW U, Conserved(t, X, U), AreExecutions(X), NEW e \in U, e \in MessageReceives,
         NEW key \in RowsOf(t, e.id), t[key].executedAt = Null
  PROVE  Conserved(UpsertMessages(t, {key}, ReceiveFacts(e)), X, U \ {e})
<1> DEFINE u == UpsertMessages(t, {key}, ReceiveFacts(e))
<1>1. key \in DOMAIN t /\ key[1] = e.id  BY DEF RowsOf
<1>2. DOMAIN u = DOMAIN t /\ \A k \in DOMAIN t : k # key => u[k] = t[k]
  BY <1>1 DEF UpsertMessages
<1>3. u[key] = MergeMessage(t[key], ReceiveFacts(e))  BY <1>1 DEF UpsertMessages
<1>4. t[key].executedLog = Null  BY <1>1 DEF Conserved
<1>5. /\ u[key].executedAt = MergeEarliest(Null, ReceiveFacts(e).executedAt)
      /\ u[key].executedLog = Coalesce(Null, ReceiveFacts(e).executedLog)
  BY <1>3, <1>4 DEF MergeMessage
<1> HIDE DEF u
<1>6. CASE e.status # "execute"
  <2>1. ReceiveFacts(e).executedAt = Null /\ ReceiveFacts(e).executedLog = Null
    BY <1>6 DEF ReceiveFacts, NoMessageFacts
  <2>2. u[key].executedAt = Null /\ u[key].executedLog = Null
    BY <1>5, <2>1 DEF MergeEarliest, Coalesce
  <2>3. \A k \in DOMAIN t : u[k].executedAt = t[k].executedAt /\ u[k].executedLog = t[k].executedLog
    BY <1>2, <1>4, <2>2
  <2>4. \A f : RecordedIn(u, f) = RecordedIn(t, f)  BY <1>2, <2>3 DEF RecordedIn
  <2>5. \A id : RowsOf(u, id) = RowsOf(t, id)  BY <1>2 DEF RowsOf
  <2>6. e \notin X  BY <1>6 DEF AreExecutions
  <2>7. \A f \in X : IF f \in U \ {e} THEN RecordedIn(u, f) = {}
                     ELSE \E k \in RowsOf(u, f.id) : RecordedIn(u, f) = {k}
    BY <2>4, <2>5, <2>6 DEF Conserved
  <2>8. \A k \in DOMAIN u : u[k].executedAt = Null => u[k].executedLog = Null
    BY <1>2, <2>3 DEF Conserved
  <2>9. \A k \in DOMAIN u : u[k].executedAt # Null =>
          \E f \in X : f.pos = u[k].executedLog /\ f.time = u[k].executedAt /\ f.id = k[1]
    BY <1>2, <2>3 DEF Conserved
  <2>10. \A f \in U \ {e} : f.status = "execute" => f \in X  BY DEF Conserved
  <2> QED BY <2>7, <2>8, <2>9, <2>10 DEF Conserved, u
<1>7. CASE e.status = "execute"
  <2>1. ReceiveFacts(e).executedAt = e.time /\ ReceiveFacts(e).executedLog = e.pos
    BY <1>7 DEF ReceiveFacts, NoMessageFacts
  <2>2. e \in X /\ e.pos # Null /\ e.time # Null
    BY <1>7 DEF Conserved, AreExecutions, MessageReceives, Times, Null
  <2>3. u[key].executedAt = e.time /\ u[key].executedLog = e.pos
    BY <1>5, <2>1 DEF MergeEarliest, Coalesce
  <2>4. RecordedIn(t, e) = {}  BY <2>2 DEF Conserved
  <2>5. RecordedIn(u, e) = {key}  BY <1>1, <1>2, <2>3, <2>4 DEF RecordedIn
  <2>6. ASSUME NEW f \in X, f # e PROVE RecordedIn(u, f) = RecordedIn(t, f)
    <3>1. f.pos # e.pos /\ f.pos # Null  BY <2>2, <2>6 DEF AreExecutions
    <3> QED BY <1>1, <1>2, <1>4, <2>3, <3>1 DEF RecordedIn
  <2>7. \A id : RowsOf(u, id) = RowsOf(t, id)  BY <1>2 DEF RowsOf
  <2>8. \A f \in X : IF f \in U \ {e} THEN RecordedIn(u, f) = {}
                     ELSE \E k \in RowsOf(u, f.id) : RecordedIn(u, f) = {k}
    <3> TAKE f \in X
    <3>1. CASE f = e  BY <3>1, <2>5, <2>7
    <3>2. CASE f # e  BY <3>2, <2>6, <2>7 DEF Conserved
    <3> QED BY <3>1, <3>2
  <2>9. \A k \in DOMAIN u : u[k].executedAt = Null => u[k].executedLog = Null
    BY <1>2, <2>2, <2>3 DEF Conserved
  <2>10. \A k \in DOMAIN u : u[k].executedAt # Null =>
           \E f \in X : f.pos = u[k].executedLog /\ f.time = u[k].executedAt /\ f.id = k[1]
    <3> TAKE k \in DOMAIN u
    <3>1. CASE k = key  BY <3>1, <1>1, <2>2, <2>3
    <3>2. CASE k # key  BY <3>2, <1>2 DEF Conserved
    <3> QED BY <3>1, <3>2
  <2>11. \A f \in U \ {e} : f.status = "execute" => f \in X  BY DEF Conserved
  <2> QED BY <2>8, <2>9, <2>10, <2>11 DEF Conserved, u
<1> QED BY <1>6, <1>7

\* What a receive does to the payload rows: they gain deliveries and complete.
Delivers(t, u) ==
  /\ DOMAIN u = DOMAIN t
  /\ \A k \in DOMAIN t : u[k].sentAt = t[k].sentAt /\ (IsOpen(u[k]) => IsOpen(t[k]))

LEMMA RefreshDelivers ==
  ASSUME NEW d \in Good, NEW key, NEW time, NEW delivered, NEW e, e = RefreshPayload(d, key, time, delivered)
  PROVE  Delivers(d.payloads, e.payloads)
<1>1. CASE key \notin DOMAIN d.payloads
  BY <1>1 DEF RefreshPayload, Delivers
<1>2. CASE key \in DOMAIN d.payloads
  <2>1. PICK at, partially, completed : e.payloads = [d.payloads EXCEPT ![key] = WithPayloadStatus(
          [d.payloads[key] EXCEPT !.deliveredAt = at, !.partiallyFailedAt = Coalesce(@, partially),
                                  !.completedAt = Coalesce(@, completed)])]
    BY <1>2 DEF RefreshPayload, Good, Databases
  <2> DEFINE row == d.payloads[key]
             a == [row EXCEPT !.deliveredAt = at]
             b == [a EXCEPT !.partiallyFailedAt = Coalesce(@, partially)]
             c == [b EXCEPT !.completedAt = Coalesce(@, completed)]
             new == WithPayloadStatus(c)
  <2>2. row \in PayloadRow /\ d.payloads = [k \in DOMAIN d.payloads |-> d.payloads[k]]
    BY <1>2, GoodTables
  <2>3. a.sentAt = row.sentAt /\ a.completedAt = row.completedAt /\ DOMAIN a = DOMAIN row  BY <2>2 DEF PayloadRow
  <2>4. b.sentAt = a.sentAt /\ b.completedAt = a.completedAt /\ DOMAIN b = DOMAIN a  BY <2>2 DEF PayloadRow
  <2>5. c.sentAt = b.sentAt /\ c.completedAt = Coalesce(b.completedAt, completed) /\ DOMAIN c = DOMAIN b
    BY <2>2, <2>3, <2>4 DEF PayloadRow
  <2>6. new.sentAt = c.sentAt /\ new.completedAt = c.completedAt
    BY <2>2, <2>3, <2>4, <2>5 DEF WithPayloadStatus, PayloadRow
  <2>7. e.payloads = [d.payloads EXCEPT ![key] = new]  BY <2>1
  <2> HIDE DEF new, c, b, a
  <2>8. IsOpen(new) => IsOpen(row)  BY <2>3, <2>4, <2>5, <2>6 DEF IsOpen, Coalesce
  <2>9. new.sentAt = row.sentAt  BY <2>3, <2>4, <2>5, <2>6
  <2> QED BY <1>2, <2>2, <2>7, <2>8, <2>9 DEF Delivers
<1> QED BY <1>1, <1>2

\* The aggregate update, and the pool adapters, change neither messages nor queues.
LEMMA RefreshKeepsMessages ==
  ASSUME NEW d \in Good, NEW key, NEW time, NEW delivered, NEW e, e = RefreshPayload(d, key, time, delivered)
  PROVE  /\ e.messages = d.messages /\ e.messageQueue = d.messageQueue
         /\ e.payloadQueue = d.payloadQueue /\ e.participations = d.participations
  BY DEF RefreshPayload, Good, Databases

LEMMA ClearKeepsMessages ==
  ASSUME NEW d \in Good, NEW pool, NEW e, e = ClearInProgress(d, pool)
  PROVE  /\ e.messages = d.messages /\ e.messageQueue = d.messageQueue
         /\ e.payloadQueue = d.payloadQueue /\ e.participations = d.participations /\ e.payloads = d.payloads
  BY DEF ClearInProgress, Good, Databases

\* What a message receive does to the messages, the queues and the votes.
ReceiveEffect(d, e, after, applied) ==
  /\ after.messageQueue = d.messageQueue /\ after.payloadQueue = d.payloadQueue
  /\ after.participations = d.participations /\ Delivers(d.payloads, after.payloads)
  /\ IF applied /\ e.status = "execute"
     THEN \E key \in RowsOf(d.messages, e.id) :
            /\ d.messages[key].executedAt = Null
            /\ after.messages = UpsertMessages(d.messages, {key}, ReceiveFacts(e))
     ELSE \/ after.messages = d.messages
          \/ /\ applied
             /\ \E key \in RowsOf(d.messages, e.id) :
                  /\ d.messages[key].executedAt = Null
                  /\ after.messages = UpsertMessages(d.messages, {key}, ReceiveFacts(e))

LEMMA WriteEffect ==
  ASSUME NEW d \in Good, NEW e \in MessageReceives, NEW key \in RowsOf(d.messages, e.id),
         d.messages[key].executedAt = Null, NEW applied, applied = TRUE
  PROVE  ReceiveEffect(d, e, WriteMessageReceive(d, e, key), applied)
<1> DEFINE written == [d EXCEPT !.messages = UpsertMessages(@, {key}, ReceiveFacts(e))]
           cleared == IF e.status = "fail" /\ IsSetPoolAdapters(e.id)
                      THEN ClearInProgress(written, PoolOf[e.id]) ELSE written
           after == WriteMessageReceive(d, e, key)
<1>1. after = RefreshPayload(cleared, d.messages[key].payload, e.time, TRUE)
  BY DEF WriteMessageReceive
<1>2. written \in Good
  <2>1. key \in MessageIds \X Nat  BY GoodTables DEF RowsOf, MessageKeys
  <2>2. {key} \subseteq MessageKeys /\ Bounded({key})  BY <2>1, BoundedKey DEF MessageKeys
  <2> DEFINE facts == ReceiveFacts(e)
  <2>3. facts \in MessageRow /\ (facts.failedAt # Null => facts.executedAt = Null)  BY ReceiveFactsType
  <2>4. {key} \ DOMAIN d.messages = {}  BY DEF RowsOf
  <2> HIDE DEF facts
  <2>5. [d EXCEPT !.messages = UpsertMessages(@, {key}, facts)] \in Good
    BY <2>2, <2>3, <2>4, UpsertMessagesGood
  <2> QED BY <2>5 DEF facts
<1>3. /\ written.messages = UpsertMessages(d.messages, {key}, ReceiveFacts(e))
      /\ written.messageQueue = d.messageQueue /\ written.payloadQueue = d.payloadQueue
      /\ written.participations = d.participations /\ written.payloads = d.payloads
  BY DEF Good, Databases
<1> HIDE DEF written
<1>4. /\ cleared \in Good /\ cleared.messages = written.messages
      /\ cleared.messageQueue = written.messageQueue /\ cleared.payloadQueue = written.payloadQueue
      /\ cleared.participations = written.participations /\ cleared.payloads = written.payloads
  BY <1>2, ClearInProgressGood, ClearKeepsMessages
<1> HIDE DEF cleared
<1>5. /\ after.messages = cleared.messages
      /\ after.messageQueue = cleared.messageQueue /\ after.payloadQueue = cleared.payloadQueue
      /\ after.participations = cleared.participations /\ Delivers(cleared.payloads, after.payloads)
  <2> DEFINE link == d.messages[key].payload
             delivered == TRUE
  <2>1. after = RefreshPayload(cleared, link, e.time, delivered)  BY <1>1
  <2> HIDE DEF link, delivered, after
  <2> QED BY <1>4, <2>1, RefreshKeepsMessages, RefreshDelivers
<1> HIDE DEF after
<1> QED BY <1>3, <1>4, <1>5 DEF ReceiveEffect, after

LEMMA MessageReceiveEffect ==
  ASSUME NEW d \in Good, NEW e \in MessageReceives
  PROVE  ReceiveEffect(d, e, TryMessageReceive(d, e).db, TryMessageReceive(d, e).applied)
<1> DEFINE targets == SendTargets(d.messages, d.payloads, e.id, e.status)
           key == Lowest(targets)
<1>1. targets \subseteq RowsOf(d.messages, e.id) /\ \A k \in targets : d.messages[k].executedAt = Null
  BY SendTargetsOpen
<1>2. targets \subseteq DOMAIN d.messages /\ targets \subseteq MessageIds \X Nat
  BY <1>1, GoodTables DEF RowsOf, MessageKeys
<1>3. \/ TryMessageReceive(d, e) = Waiting(d)
      \/ e.status = "fail" /\ TryMessageReceive(d, e) = Applied(d)
      \/ targets # {} /\ TryMessageReceive(d, e) = Applied(WriteMessageReceive(d, e, key))
  BY DEF TryMessageReceive, targets
<1> HIDE DEF targets
<1>4. targets # {} => key \in targets  BY <1>2, LowestIsLowest
<1> HIDE DEF key
<1>5. CASE TryMessageReceive(d, e) = Waiting(d)  BY <1>5 DEF Waiting, ReceiveEffect, Delivers
<1>6. CASE e.status = "fail" /\ TryMessageReceive(d, e) = Applied(d)
  BY <1>6 DEF Applied, ReceiveEffect, Delivers
<1>7. CASE targets # {} /\ TryMessageReceive(d, e) = Applied(WriteMessageReceive(d, e, key))
  <2>1. ReceiveEffect(d, e, WriteMessageReceive(d, e, key), TRUE)
    BY <1>1, <1>4, <1>7, WriteEffect
  <2> DEFINE after == WriteMessageReceive(d, e, key)
             r == Applied(after)
  <2>2. r.db = after /\ r.applied = TRUE  BY DEF Applied
  <2> HIDE DEF r, after
  <2>3. ReceiveEffect(d, e, r.db, r.applied)  BY <2>1, <2>2 DEF after
  <2> QED BY ONLY <1>7, <2>3 DEF r, after
<1> QED BY <1>3, <1>5, <1>6, <1>7

LEMMA DroppedConserves ==
  ASSUME NEW t, NEW X, NEW U, Conserved(t, X, U), AreExecutions(X), NEW e, e.status # "execute"
  PROVE  Conserved(t, X, U \ {e})
<1>1. e \notin X  BY DEF AreExecutions
<1> QED BY <1>1 DEF Conserved

\* The databases in which every execution of X waits in the queue or is recorded, and
\* the same of a work list.
Conserving(X) == {d \in Good : Conserved(d.messages, X, d.messageQueue)}
ConservingWork(X) == {w \in MessageWork : Conserved(w[1].messages, X, w[1].messageQueue \cup w[2])}

LEMMA MessageTurnConserves ==
  ASSUME NEW X, AreExecutions(X), NEW incoming
  PROVE  KeepsMessageTurns(ConservingWork(X), incoming)
<1> SUFFICES ASSUME NEW s, <<s.db, s.todo>> \in ConservingWork(X), IsFiniteSet(s.todo), s.todo # {}
             PROVE  <<MessageTurn(s, incoming).db, MessageTurn(s, incoming).todo>> \in ConservingWork(X)
  BY DEF KeepsMessageTurns, ConservingWork
<1> DEFINE d == s.db
           e == NextMessageReceive(s.todo, incoming)
           loaded == IF e.id \in s.dirty THEN {e.id} ELSE s.loaded
           result == IF e.id \in loaded THEN TryMessageReceive(d, e) ELSE Waiting(d)
           after == result.db
           queue == IF result.applied THEN after.messageQueue \ {e} ELSE after.messageQueue \cup {e}
           next == MessageTurn(s, incoming)
           U == d.messageQueue \cup s.todo
<1>1. d \in Good /\ s.todo \subseteq MessageReceives /\ Conserved(d.messages, X, U)
  <2> DEFINE w == <<s.db, s.todo>>
  <2>1. w[1] = d /\ w[2] = s.todo  OBVIOUS
  <2>2. w \in Good \X SUBSET MessageReceives /\ Conserved(w[1].messages, X, w[1].messageQueue \cup w[2])
    BY DEF ConservingWork, MessageWork
  <2> HIDE DEF w
  <2> QED BY <2>1, <2>2
<1>2. next.db \in Good /\ next.todo \subseteq MessageReceives
  BY <1>1, GoodKeepsReceives, MessageTurnKeeps
<1>3. e \in s.todo /\ e \in MessageReceives  BY <1>1, MessageTodo
<1>4. next.todo = s.todo \ {e} /\ next.db = [after EXCEPT !.messageQueue = queue]
  BY DEF MessageTurn
<1>5. after \in Good /\ result.applied \in BOOLEAN
  BY <1>1, <1>3, TryMessageReceiveGood, OutcomeType
<1>6. ReceiveEffect(d, e, after, result.applied)
  <2>1. CASE e.id \in loaded  BY <2>1, <1>1, <1>3, MessageReceiveEffect
  <2>2. CASE e.id \notin loaded  BY <2>2 DEF Waiting, ReceiveEffect, Delivers
  <2> QED BY <2>1, <2>2
<1> HIDE DEF next, result, e
<1>7. next.db.messages = after.messages /\ next.db.messageQueue = queue
  BY <1>4, <1>5 DEF Good, Databases
<1>8. after.messageQueue = d.messageQueue  BY <1>6 DEF ReceiveEffect
<1>9. Conserved(after.messages, X, IF result.applied THEN U \ {e} ELSE U)
  <2>1. CASE ~result.applied
    <3>1. after.messages = d.messages  BY <1>6, <2>1 DEF ReceiveEffect
    <3> QED BY <1>1, <2>1, <3>1
  <2>2. CASE result.applied /\ e.status # "execute" /\ after.messages = d.messages
    BY <1>1, <2>2, DroppedConserves
  <2>3. CASE result.applied /\ (e.status # "execute" => after.messages # d.messages)
    <3>1. PICK key \in RowsOf(d.messages, e.id) :
            /\ d.messages[key].executedAt = Null
            /\ after.messages = UpsertMessages(d.messages, {key}, ReceiveFacts(e))
      BY <1>6, <2>3 DEF ReceiveEffect
    <3>2. e \in U  BY <1>3
    <3> HIDE DEF U
    <3>3. Conserved(UpsertMessages(d.messages, {key}, ReceiveFacts(e)), X, U \ {e})
      BY <1>1, <1>3, <3>1, <3>2, ReceivedConserves
    <3> QED BY <2>3, <3>1, <3>3
  <2> QED BY <1>5, <2>1, <2>2, <2>3
<1>10. queue \cup next.todo = IF result.applied THEN U \ {e} ELSE U
  BY <1>3, <1>4, <1>8
<1>11. Conserved(next.db.messages, X, next.db.messageQueue \cup next.todo)
  BY <1>7, <1>9, <1>10
<1> HIDE DEF queue, U
<1>12. <<next.db, next.todo>> \in ConservingWork(X)
  <2> DEFINE w == <<next.db, next.todo>>
  <2>1. w[1] = next.db /\ w[2] = next.todo /\ w \in MessageWork  BY <1>2 DEF MessageWork
  <2> HIDE DEF w
  <2>2. w \in ConservingWork(X)  BY <1>11, <2>1 DEF ConservingWork
  <2> QED BY <2>2 DEF w
<1> QED BY <1>12 DEF next

LEMMA MessageDrainConserves ==
  ASSUME NEW X, AreExecutions(X), NEW d \in Good, NEW ids, NEW incoming, incoming \subseteq MessageReceives,
         IsFiniteSet(incoming), Conserved(d.messages, X, d.messageQueue \cup incoming)
  PROVE  ReconcileMessages(d, ids, incoming) \in Conserving(X)
<1> DEFINE work == incoming \cup {e \in d.messageQueue : e.id \in ids}
           w == <<d, work>>
           after == ReconcileMessages(d, ids, incoming)
           v == <<after, {}>>
<1>1. w[1] = d /\ w[2] = work /\ v[1] = after /\ v[2] = {}  OBVIOUS
<1>2. work \subseteq MessageReceives /\ d.messageQueue \cup work = d.messageQueue \cup incoming
  BY DEF Good, Databases
<1>3. w \in MessageWork  BY <1>2 DEF MessageWork
<1>4. Conserved(w[1].messages, X, w[1].messageQueue \cup w[2])  BY <1>1, <1>2
<1>5. w \in ConservingWork(X)
  <2> HIDE DEF w
  <2> QED BY <1>3, <1>4 DEF ConservingWork
<1>6. v \in ConservingWork(X)  BY <1>5, MessageTurnConserves, MessagesDrained
<1>7. after \in Good  BY <1>6 DEF ConservingWork, MessageWork
<1> HIDE DEF w, v, after
<1>8. Conserved(after.messages, X, after.messageQueue \cup {})  BY <1>1, <1>6 DEF ConservingWork
<1>9. after.messageQueue \cup {} = after.messageQueue  OBVIOUS
<1> QED BY <1>7, <1>8, <1>9 DEF Conserving, after

\* Draining the handles touches neither the messages nor their queue.
LEMMA PayloadDrainKeepsMessages ==
  ASSUME NEW d \in Good, NEW ids, NEW incoming, incoming \subseteq PayloadReceives, IsFiniteSet(incoming),
         NEW f, f = ReconcilePayloads(d, ids, incoming)
  PROVE  f \in Good /\ f.messages = d.messages /\ f.messageQueue = d.messageQueue
<1> DEFINE S == {g \in Good : g.messages = d.messages /\ g.messageQueue = d.messageQueue}
<1>1. ASSUME NEW g \in S, NEW e \in PayloadReceives
      PROVE  TryPayloadReceive(g, e).db \in S
  <2> DEFINE r == TryPayloadReceive(g, e)
             targets == HandleTargets(g.payloads, e.id, SentBy(g, e), LinkedIndices(g, e.id), e.time)
             key == Lowest(targets)
             after == WritePayloadReceive(g, e, key)
             handled == [payload |-> key, adapter |-> e.adapter, side |-> "HANDLE", type |-> e.type]
             delivered == [NoPayloadFacts EXCEPT !.deliveredAt = e.time]
             written == [g EXCEPT !.participations = @ \cup {handled},
                                  !.payloads = IF @[key].deliveredAt = Null
                                               THEN UpsertPayload(@, key, delivered) ELSE @]
  <2>1. r.db \in Good  BY TryPayloadReceiveGood
  <2>2. r = Waiting(g) \/ r = Applied(after)  BY DEF TryPayloadReceive
  <2>3. r.db = g \/ r.db = after
    <3> HIDE DEF after, r
    <3> QED BY <2>2, OutcomeType
  <2>4. after = RefreshPayload(written, key, e.time, FALSE)  BY DEF WritePayloadReceive
  <2>5. written.messages = g.messages /\ written.messageQueue = g.messageQueue  BY DEF Good, Databases
  <2>6. DOMAIN written = DOMAIN g  OBVIOUS
  <2> HIDE DEF written, key
  <2>7. after.messages = written.messages /\ after.messageQueue = written.messageQueue
    BY <2>4, <2>6 DEF RefreshPayload, Good, Databases
  <2> HIDE DEF r, after
  <2> QED BY <2>1, <2>3, <2>5, <2>7 DEF r
<1>2. ASSUME NEW g \in S, NEW q \in SUBSET PayloadReceives, IsFiniteSet(q)
      PROVE  [g EXCEPT !.payloadQueue = q] \in S
  <2>1. [g EXCEPT !.payloadQueue = q] \in Good  BY <1>2, WritePayloadQueue
  <2>2. /\ [g EXCEPT !.payloadQueue = q].messages = g.messages
        /\ [g EXCEPT !.payloadQueue = q].messageQueue = g.messageQueue
    BY DEF Good, Databases
  <2> QED BY <2>1, <2>2
<1>3. KeepsPayloadReceives(S)
  <2>1. S \subseteq Good  OBVIOUS
  <2> HIDE DEF S
  <2> QED BY <1>1, <1>2, <2>1 DEF KeepsPayloadReceives
<1>4. d \in S  OBVIOUS
<1>5. f \in S
  <2> HIDE DEF S
  <2> QED BY <1>3, <1>4, ReconcilePayloadsKeeps
<1> QED BY <1>5

LEMMA ReconcileConserves ==
  ASSUME NEW X, AreExecutions(X), NEW d \in Conserving(X), NEW messageIds, NEW payloadIds
  PROVE  Reconcile(d, messageIds, payloadIds) \in Conserving(X)
<1> DEFINE none == {}
           b == ReconcileMessages(d, messageIds, none)
           c == ReconcilePayloads(b, payloadIds, none)
<1>1. none \subseteq MessageReceives /\ none \subseteq PayloadReceives /\ IsFiniteSet(none)
      /\ d.messageQueue \cup none = d.messageQueue
  BY FS_EmptySet
<1>2. Reconcile(d, messageIds, payloadIds) = c  BY DEF Reconcile
<1> HIDE DEF none
<1>3. d \in Good /\ Conserved(d.messages, X, d.messageQueue)  BY DEF Conserving
<1>4. b \in Conserving(X)  BY <1>1, <1>3, MessageDrainConserves
<1> HIDE DEF b
<1>5. b \in Good /\ Conserved(b.messages, X, b.messageQueue)  BY <1>4 DEF Conserving
<1>6. c \in Good /\ c.messages = b.messages /\ c.messageQueue = b.messageQueue
  BY <1>1, <1>5, PayloadDrainKeepsMessages
<1> HIDE DEF c
<1> QED BY <1>2, <1>5, <1>6 DEF Conserving

\* The facts of payload rows that the send handlers write.
SendFacts == {facts \in PayloadRow : facts.completedAt = Null}

LEMMA ConservingKeepsSends ==
  ASSUME NEW X, AreExecutions(X), NEW p \in PayloadIds
  PROVE  KeepsSends(Conserving(X), p, SendFacts)
<1>1. ASSUME NEW d \in Conserving(X), NEW K \in SUBSET MessageKeys, NEW key \in PayloadKeys, Bounded(K)
      PROVE  [d EXCEPT !.messages = UpsertMessages(@, K, LinkFacts(key))] \in Conserving(X)
  <2> DEFINE f == [d EXCEPT !.messages = UpsertMessages(@, K, LinkFacts(key))]
  <2>1. d \in Good /\ Conserved(d.messages, X, d.messageQueue)  BY DEF Conserving
  <2>2. f \in Good  BY <1>1, <2>1, LinkGood
  <2>3. f.messages = UpsertMessages(d.messages, K, LinkFacts(key)) /\ f.messageQueue = d.messageQueue
    BY <2>1 DEF Good, Databases
  <2>4. LinkFacts(key).executedAt = Null /\ LinkFacts(key).executedLog = Null
    BY DEF LinkFacts, NoMessageFacts
  <2>5. Conserved(UpsertMessages(d.messages, K, LinkFacts(key)), X, d.messageQueue)
    BY <2>1, <2>4, SentConserves
  <2> HIDE DEF f
  <2>6. f \in Conserving(X)  BY <2>2, <2>3, <2>5 DEF Conserving
  <2> QED BY <2>6 DEF f
<1>2. ASSUME NEW d \in Conserving(X), NEW key \in PayloadKeys, NEW facts \in SendFacts
      PROVE  [d EXCEPT !.payloads = UpsertPayload(@, key, facts)] \in Conserving(X)
  <2> DEFINE f == [d EXCEPT !.payloads = UpsertPayload(@, key, facts)]
  <2>1. d \in Good /\ Conserved(d.messages, X, d.messageQueue)  BY DEF Conserving
  <2>2. f \in Good  BY <2>1, UpsertPayloadGood DEF SendFacts
  <2>3. f.messages = d.messages /\ f.messageQueue = d.messageQueue  BY <2>1 DEF Good, Databases
  <2> HIDE DEF f
  <2>4. f \in Conserving(X)  BY <2>1, <2>2, <2>3 DEF Conserving
  <2> QED BY <2>4 DEF f
<1>3. ASSUME NEW d \in Conserving(X), NEW vote \in Participations, vote.side = "SEND"
      PROVE  [d EXCEPT !.participations = @ \cup {vote}] \in Conserving(X)
  <2> DEFINE f == [d EXCEPT !.participations = @ \cup {vote}]
  <2>1. d \in Good /\ Conserved(d.messages, X, d.messageQueue)  BY DEF Conserving
  <2>2. f \in Good  BY <1>3, <2>1, WriteParticipation
  <2>3. f.messages = d.messages /\ f.messageQueue = d.messageQueue  BY <2>1 DEF Good, Databases
  <2> HIDE DEF f
  <2>4. f \in Conserving(X)  BY <2>1, <2>2, <2>3 DEF Conserving
  <2> QED BY <2>4 DEF f
<1>4. \A d \in Conserving(X) : \A ids : Reconcile(d, ids, {p}) \in Conserving(X)
  BY ReconcileConserves
<1>5. Conserving(X) \subseteq Good  BY DEF Conserving
<1> QED BY <1>1, <1>2, <1>3, <1>4, <1>5 DEF KeepsSends, KeepsWrites, KeepsVotes

LEMMA ConservingKeepsPrepares ==
  ASSUME NEW X, AreExecutions(X), NEW m \in MessageIds
  PROVE  KeepsPrepares(Conserving(X), m)
<1>1. ASSUME NEW d \in Conserving(X), NEW key \in MessageKeys, NEW time \in Nat
      PROVE  [d EXCEPT !.messages = UpsertMessages(@, {key}, [NoMessageFacts EXCEPT !.preparedAt = time])] \in Conserving(X)
  <2> DEFINE facts == [NoMessageFacts EXCEPT !.preparedAt = time]
             f == [d EXCEPT !.messages = UpsertMessages(@, {key}, facts)]
  <2>1. d \in Good /\ Conserved(d.messages, X, d.messageQueue)  BY DEF Conserving
  <2>2. facts \in MessageRow /\ MessageConsistent(facts) /\ facts.failedAt = Null
        /\ facts.executedAt = Null /\ facts.executedLog = Null
    BY DEF NoMessageFacts, MessageRow, MessageConsistent, MessageStatuses, Null
  <2> HIDE DEF facts
  <2>3. {key} \subseteq MessageKeys /\ Bounded({key})
    BY BoundedKey DEF MessageKeys
  <2>4. f \in Good  BY <2>1, <2>2, <2>3, UpsertMessagesGood
  <2>5. f.messages = UpsertMessages(d.messages, {key}, facts) /\ f.messageQueue = d.messageQueue
    BY <2>1 DEF Good, Databases
  <2>6. Conserved(UpsertMessages(d.messages, {key}, facts), X, d.messageQueue)
    BY <2>1, <2>2, SentConserves
  <2> HIDE DEF f
  <2>7. f \in Conserving(X)  BY <2>4, <2>5, <2>6 DEF Conserving
  <2> QED BY <2>7 DEF f, facts
<1>2. ASSUME NEW d \in Conserving(X), NEW t \in Tables(Pools \X Adapters, PoolAdapterRow)
      PROVE  [d EXCEPT !.poolAdapters = t] \in Conserving(X)
  <2> DEFINE f == [d EXCEPT !.poolAdapters = t]
  <2>1. d \in Good /\ Conserved(d.messages, X, d.messageQueue)  BY DEF Conserving
  <2>2. f \in Good  BY <2>1, WritePoolAdapters
  <2>3. f.messages = d.messages /\ f.messageQueue = d.messageQueue  BY <2>1 DEF Good, Databases
  <2> HIDE DEF f
  <2>4. f \in Conserving(X)  BY <2>1, <2>2, <2>3 DEF Conserving
  <2> QED BY <2>4 DEF f
<1>3. \A d \in Conserving(X) : Reconcile(d, {m}, {}) \in Conserving(X)
  BY ReconcileConserves
<1>4. Conserving(X) \subseteq Good  BY DEF Conserving
<1> QED BY <1>1, <1>2, <1>3, <1>4 DEF KeepsPrepares

\* Every send handler conserves the executions.
LEMMA SendsConserve ==
  ASSUME NEW X, AreExecutions(X), NEW p \in PayloadIds, NEW d \in Conserving(X), NEW time \in Nat
  PROVE  /\ OnUnderpaidBatch(d, p, time) \in Conserving(X)
         /\ OnRepayBatch(d, p, time) \in Conserving(X)
         /\ \A a \in Adapters : /\ OnSendPayload(d, p, a, time, time) \in Conserving(X)
                                /\ OnSendProof(d, p, a) \in Conserving(X)
<1>1. SendFactsIn(SendFacts, time)
  BY DEF SendFactsIn, SendFacts, NoPayloadFacts, PayloadRow, PayloadStatuses, Null
<1>2. KeepsSends(Conserving(X), p, SendFacts)  BY ConservingKeepsSends
<1>3. \A f : Drained(f, Conserving(X), p) => f \in Conserving(X)
  BY ReconcileConserves DEF Drained
<1>4. Sends(Conserving(X), p, d, time)  BY <1>1, <1>2, SendsKeep
<1> QED BY <1>3, <1>4 DEF Sends

LEMMA FailAwaits ==
  ASSUME NEW t, NEW X, NEW U, Conserved(t, X, U), AreExecutions(X), NEW e, e.status # "execute"
  PROVE  Conserved(t, X, U \cup {e})
<1>1. e \notin X  BY DEF AreExecutions
<1> QED BY <1>1 DEF Conserved

\* Positions of the executions so far.
Before(X, n) == \A e \in X : e.pos <= n

LEMMA ExecutionAwaits ==
  ASSUME NEW t, NEW X, NEW U, Conserved(t, X, U), AreExecutions(X), NEW n \in Nat, Before(X, n),
         NEW e \in MessageReceives, e.status = "execute", e.pos = n + 1
  PROVE  /\ Conserved(t, X \cup {e}, U \cup {e})
         /\ AreExecutions(X \cup {e}) /\ Before(X \cup {e}, n + 1)
<1>1. e.pos \in Nat /\ e.pos > n /\ e.pos # Null  BY DEF Null
<1>2. \A f \in X : f.pos \in Nat /\ f.pos < e.pos  BY <1>1 DEF Before, AreExecutions, MessageReceives
<1>3. RecordedIn(t, e) = {}
  <2>1. \A k \in DOMAIN t : t[k].executedLog = Null \/ \E f \in X : f.pos = t[k].executedLog
    BY DEF Conserved
  <2> QED BY <1>1, <1>2, <2>1 DEF RecordedIn
<1>4. e \notin X  BY <1>2
<1>5. AreExecutions(X \cup {e})
  <2>1. \A f \in X \cup {e} : f \in MessageReceives /\ f.status = "execute" /\ f.pos # Null
    BY <1>1 DEF AreExecutions
  <2>2. \A f, g \in X \cup {e} : f.pos = g.pos => f = g
    BY <1>2 DEF AreExecutions
  <2> QED BY <2>1, <2>2 DEF AreExecutions
<1>6. Before(X \cup {e}, n + 1)
  <2>1. \A f \in X : f.pos <= n + 1  BY <1>2
  <2> QED BY <2>1 DEF Before
<1>7. Conserved(t, X \cup {e}, U \cup {e})
  <2>1. \A f \in U \cup {e} : f.status = "execute" => f \in X \cup {e}  BY DEF Conserved
  <2>2. \A f \in X \cup {e} : IF f \in U \cup {e} THEN RecordedIn(t, f) = {}
                              ELSE \E k \in RowsOf(t, f.id) : RecordedIn(t, f) = {k}
    BY <1>3, <1>4 DEF Conserved
  <2> QED BY <2>1, <2>2 DEF Conserved
<1> QED BY <1>5, <1>6, <1>7

ExecutionsInv ==
  /\ AreExecutions(executions)
  /\ Conserved(db.messages, executions, db.messageQueue)
  /\ Before(executions, indexed["destination"])

LEMMA InitExecutions == Init => ExecutionsInv
<1>1. /\ EmptyDatabase.messages = <<>> /\ EmptyDatabase.messageQueue = {} /\ DOMAIN <<>> = {}
  BY DEF EmptyDatabase
<1> QED BY <1>1 DEF Init, ExecutionsInv, AreExecutions, Conserved, Before

LEMMA StepsConserve ==
  ASSUME Inductive, ExecutionsInv, [Next]_vars
  PROVE  ExecutionsInv'
<1> DEFINE X == executions
           n == indexed["destination"]
<1>1. db \in Good /\ db \in Conserving(X) /\ AreExecutions(X) /\ Before(X, n) /\ n \in Nat
      /\ Conserved(db.messages, X, db.messageQueue)
  BY DEF Inductive, ExecutionsInv, Conserving, Chains
<1>2. CASE UNCHANGED vars  BY <1>2 DEF vars, ExecutionsInv
<1>3. ASSUME db' \in Conserving(X), executions' = X, indexed'["destination"] \in {n, n + 1}
      PROVE  ExecutionsInv'
  <2>1. indexed'["destination"] \in Nat /\ indexed'["destination"] >= n  BY <1>1, <1>3
  <2>2. \A e \in X : e.pos \in Nat  BY <1>1 DEF AreExecutions, MessageReceives
  <2>3. Before(X, indexed'["destination"])
    <3> DEFINE later == indexed'["destination"]
    <3> HIDE DEF later, n
    <3> QED BY <1>1, <2>1, <2>2 DEF Before, later
  <2>4. Conserved(db'.messages, X, db'.messageQueue)  BY <1>3 DEF Conserving
  <2> QED BY <1>1, <1>3, <2>3, <2>4 DEF ExecutionsInv
<1>4. CASE Next
  <2>1. PICK t \in Times : Step(t)  BY <1>4 DEF Next
  <2>2. t \in Nat /\ t \in Times  BY DEF Times
  <2>3. Indexes("source", t) => indexed'["destination"] = n
    BY DEF Indexes, Inductive, Chains
  <2>4. Indexes("destination", t) => indexed'["destination"] = n + 1
    BY DEF Indexes, Inductive, Chains
  <2>5. ASSUME NEW m \in MessageIds, NEW status \in {"execute", "fail"}
        PROVE  MessageLog(m, status, t) \in MessageReceives
    BY <1>1, <2>2 DEF MessageLog, MessageReceives
  <2> HIDE DEF n, X
  <2>6. ASSUME NEW m \in MessageIds, NEW live \in BOOLEAN, PrepareMessage(m, t, live)
        PROVE  ExecutionsInv'
    <3>1. KeepsPrepares(Conserving(X), m)  BY <1>1, ConservingKeepsPrepares
    <3>2. OnPrepareMessage(db, m, t, live) \in Conserving(X)  BY <1>1, <2>2, <3>1, PrepareMessageKeeps
    <3> QED BY <1>3, <2>3, <2>6, <3>2 DEF PrepareMessage, X
  <2>7. ASSUME NEW p \in PayloadIds, UnderpaidBatch(p, t) \/ RepayBatch(p, t)
               \/ \E a \in Adapters : SendPayload(p, a, t) \/ SendProof(p, a, t)
        PROVE  ExecutionsInv'
    <3>1. /\ OnUnderpaidBatch(db, p, t) \in Conserving(X)
          /\ OnRepayBatch(db, p, t) \in Conserving(X)
          /\ \A a \in Adapters : /\ OnSendPayload(db, p, a, t, t) \in Conserving(X)
                                 /\ OnSendProof(db, p, a) \in Conserving(X)
      BY <1>1, <2>2, SendsConserve
    <3> QED BY <1>3, <2>3, <2>7, <3>1 DEF UnderpaidBatch, RepayBatch, SendPayload, SendProof, X
  <2>8. ASSUME NEW m \in MessageIds, ExecuteMessage(m, t)
        PROVE  ExecutionsInv'
    <3> DEFINE e == MessageLog(m, "execute", t)
    <3>1. e \in MessageReceives /\ e.status = "execute" /\ e.pos = n + 1
      BY <2>5 DEF MessageLog, n
    <3>2. db' = ReconcileMessages(db, {e.id}, {e}) /\ executions' = X \cup {e} /\ indexed'["destination"] = n + 1
      BY <2>4, <2>8 DEF ExecuteMessage, OnMessageReceive, X
    <3> HIDE DEF e
    <3>3. /\ Conserved(db.messages, X \cup {e}, db.messageQueue \cup {e})
          /\ AreExecutions(X \cup {e}) /\ Before(X \cup {e}, n + 1)
      BY <1>1, <3>1, ExecutionAwaits
    <3>4. IsFiniteSet({e}) /\ {e} \subseteq MessageReceives  BY <3>1, FS_Singleton
    <3>5. db' \in Conserving(X \cup {e})  BY <1>1, <3>2, <3>3, <3>4, MessageDrainConserves
    <3>6. Conserved(db'.messages, X \cup {e}, db'.messageQueue)  BY <3>5 DEF Conserving
    <3> QED BY <3>2, <3>3, <3>6 DEF ExecutionsInv
  <2>9. ASSUME NEW m \in MessageIds, FailMessage(m, t)
        PROVE  ExecutionsInv'
    <3> DEFINE e == MessageLog(m, "fail", t)
    <3>1. e \in MessageReceives /\ e.status # "execute"  BY <2>5 DEF MessageLog
    <3>2. db' = ReconcileMessages(db, {e.id}, {e}) /\ executions' = X /\ indexed'["destination"] = n + 1
      BY <2>4, <2>9 DEF FailMessage, OnMessageReceive, X
    <3> HIDE DEF e
    <3>3. Conserved(db.messages, X, db.messageQueue \cup {e})  BY <1>1, <3>1, FailAwaits
    <3>4. IsFiniteSet({e}) /\ {e} \subseteq MessageReceives  BY <3>1, FS_Singleton
    <3>5. db' \in Conserving(X)  BY <1>1, <3>2, <3>3, <3>4, MessageDrainConserves
    <3> QED BY <1>3, <3>2, <3>5
  <2>10. ASSUME NEW p \in PayloadIds, NEW a \in Adapters, HandlePayload(p, a, t) \/ HandleProof(p, a, t)
         PROVE  ExecutionsInv'
    <3>1. PICK type \in {"PAYLOAD", "PROOF"} :
            /\ db' = OnPayloadReceive(db, PayloadLog(p, a, type, t)) /\ executions' = X
            /\ indexed'["destination"] = n + 1
      BY <2>4, <2>10 DEF HandlePayload, HandleProof, X
    <3> DEFINE e == PayloadLog(p, a, type, t)
    <3>2. e \in PayloadReceives  BY <1>1, <2>2 DEF PayloadLog, PayloadReceives, n
    <3>3. db' = db \/ db' = ReconcilePayloads(db, {e.id}, {e})  BY <3>1 DEF OnPayloadReceive
    <3> HIDE DEF e
    <3>4. IsFiniteSet({e}) /\ {e} \subseteq PayloadReceives  BY <3>2, FS_Singleton
    <3>5. db' \in Good /\ db'.messages = db.messages /\ db'.messageQueue = db.messageQueue
      BY <1>1, <3>3, <3>4, PayloadDrainKeepsMessages
    <3>6. db' \in Conserving(X)  BY <1>1, <3>5 DEF Conserving
    <3> QED BY <1>3, <3>1, <3>6
  <2>11. ASSUME NEW pool \in Pools, NEW adapters \in SUBSET Adapters, SetAdapters(pool, adapters, t)
         PROVE  ExecutionsInv'
    <3>1. db' = OnSetAdapters(db, pool, adapters) /\ executions' = X /\ indexed'["destination"] = n + 1
      BY <2>4, <2>11 DEF SetAdapters, X
    <3>2. db' \in Good  BY <1>1, <3>1, SetAdaptersGood
    <3>3. db'.messages = db.messages /\ db'.messageQueue = db.messageQueue
      BY <1>1, <3>1 DEF OnSetAdapters, Good, Databases
    <3>4. db' \in Conserving(X)  BY <1>1, <3>2, <3>3 DEF Conserving
    <3> QED BY <1>3, <3>1, <3>4
  <2> QED BY <2>1, <2>6, <2>7, <2>8, <2>9, <2>10, <2>11 DEF Step
<1> QED BY <1>2, <1>4

\* No interleaving of the chains loses an execution or records it twice: every
\* ExecuteMessage log is in the queue or on one row of its message.
THEOREM NoExecutionIsLost == Spec => []ExecutionsConserved
<1>1. Inductive /\ ExecutionsInv /\ [Next]_vars => ExecutionsInv'
  BY StepsConserve
<1>2. ExecutionsInv => ExecutionsConserved
  BY DEF ExecutionsInv, ExecutionsConserved, Conserved, RecordedIn, RecordedOn
<1> QED BY <1>1, <1>2, InitExecutions, AlwaysInductive, PTL DEF Spec

-----------------------------------------------------------------------------
(* Handles: one that waits is kept waiting by everything but a send of its   *)
(* own payload                                                               *)

SentRows(d, p) == {k \in RowsOf(d.payloads, p) : IsSent(d.payloads[k])}
SendVotes(d, p) == {q \in d.participations : q.side = "SEND" /\ q.payload[1] = p}
Pointed(d, p, I) == {k \in SentRows(d, p) : I = {k[2]}}
SentLater(d, e, k) == ~(d.payloads[k].sentAt <= e.time)
LowestIn(I, k) == k[2] \in I /\ \A i \in I : k[2] <= i

\* The row the adapter or the messages point at was sent later; with no such row,
\* every row that was not sent later is complete, and is not the lowest linked one.
Blocked(d, e) ==
  LET sentBy == Pointed(d, e.id, SentBy(d, e))
      linked == Pointed(d, e.id, LinkedIndices(d, e.id))
  IN  IF sentBy # {} THEN \A k \in sentBy : SentLater(d, e, k)
      ELSE IF linked # {} THEN \A k \in linked : SentLater(d, e, k)
      ELSE \A k \in SentRows(d, e.id) :
             IsOpen(d.payloads[k]) \/ LowestIn(LinkedIndices(d, e.id), k) => SentLater(d, e, k)

\* What the handles of payload p depend on: the rows may gain deliveries and complete.
Calm(d, f, p) ==
  /\ SentRows(f, p) = SentRows(d, p)
  /\ \A k \in SentRows(d, p) : /\ f.payloads[k].sentAt = d.payloads[k].sentAt
                               /\ IsOpen(f.payloads[k]) => IsOpen(d.payloads[k])
  /\ SendVotes(f, p) = SendVotes(d, p)
  /\ LinkedIndices(f, p) = LinkedIndices(d, p)

LEMMA BlockedCalm ==
  ASSUME NEW d, NEW f, NEW e, Calm(d, f, e.id), Blocked(d, e)
  PROVE  Blocked(f, e)
<1>1. SentBy(f, e) = SentBy(d, e)
  <2> DEFINE votes(g) == {q \in SendVotes(g, e.id) : q.adapter = e.adapter /\ q.type = e.type}
  <2>1. \A g : SentBy(g, e) = {q.payload[2] : q \in votes(g)}  BY DEF SentBy, SendVotes
  <2>2. votes(f) = votes(d)  BY DEF Calm
  <2> HIDE DEF votes
  <2> QED BY <2>1, <2>2
<1>2. LinkedIndices(f, e.id) = LinkedIndices(d, e.id) /\ SentRows(f, e.id) = SentRows(d, e.id)
  BY DEF Calm
<1>3. \A I : Pointed(f, e.id, I) = Pointed(d, e.id, I)  BY <1>2 DEF Pointed
<1>4. \A k \in SentRows(d, e.id) : SentLater(f, e, k) <=> SentLater(d, e, k)  BY DEF Calm, SentLater
<1>5. \A I : Pointed(d, e.id, I) \subseteq SentRows(d, e.id)  BY DEF Pointed
<1>6. \A k \in SentRows(d, e.id) : IsOpen(f.payloads[k]) => IsOpen(d.payloads[k])  BY DEF Calm
<1> QED BY <1>1, <1>2, <1>3, <1>4, <1>5, <1>6 DEF Blocked

LEMMA CalmOrder ==
  /\ \A d, p : Calm(d, d, p)
  /\ \A d, f, g, p : Calm(d, f, p) /\ Calm(f, g, p) => Calm(d, g, p)
BY DEF Calm

\* A handle waits exactly when it is blocked.
LEMMA WaitsWhenBlocked ==
  ASSUME NEW d \in Good, NEW e \in PayloadReceives
  PROVE  TryPayloadReceive(d, e).applied <=> ~Blocked(d, e)
<1> DEFINE p == e.id
           sent == SentRows(d, p)
           I == SentBy(d, e)
           J == LinkedIndices(d, p)
           causal == {k \in sent : d.payloads[k].sentAt <= e.time}
           fifo == {k \in IF causal # {} THEN causal ELSE sent : IsOpen(d.payloads[k])}
           fresh == {k \in fifo : d.payloads[k].deliveredAt = Null}
           last == {k \in sent : LowestIn(J, k)}
           targets == HandleTargets(d.payloads, p, I, J, e.time)
           key == Lowest(targets)
           OnTime(k) == ~SentLater(d, e, k)
           r == TryPayloadReceive(d, e)
<1>1. targets = IF Pointed(d, p, I) # {} THEN Pointed(d, p, I)
                ELSE IF Pointed(d, p, J) # {} THEN Pointed(d, p, J)
                ELSE IF fresh # {} THEN fresh
                ELSE IF fifo # {} THEN fifo
                ELSE last
  BY DEF HandleTargets, Pointed, SentRows, LowestIn
<1>2. sent \subseteq PayloadIds \X Nat /\ \A k \in sent : k[1] = p /\ IsSent(d.payloads[k])
  BY GoodTables DEF SentRows, RowsOf, PayloadKeys
<1>3. \A k \in sent : PassesCausalOrder(e.time, PayloadAnchor(d.payloads[k])) <=> OnTime(k)
  <2> TAKE k \in sent
  <2>1. d.payloads[k].sentAt # Null  BY <1>2 DEF IsSent
  <2>2. d.payloads[k].sentAt \in Nat /\ e.time \in Nat
    <3>1. d.payloads[k] \in PayloadRow  BY GoodTables DEF SentRows, RowsOf
    <3> QED BY <3>1 DEF PayloadRow, PayloadReceives, Times
  <2>3. PayloadAnchor(d.payloads[k]) = d.payloads[k].sentAt  BY <2>1 DEF PayloadAnchor, Coalesce
  <2> QED BY <2>1, <2>2, <2>3 DEF PassesCausalOrder, SentLater
<1>4. r.applied <=> targets # {} /\ PassesCausalOrder(e.time, PayloadAnchor(d.payloads[key]))
  BY DEF TryPayloadReceive, Applied, Waiting
<1>5. causal = {k \in sent : OnTime(k)}  BY DEF SentLater
<1>6. targets \subseteq sent
  BY <1>1 DEF Pointed
<1> HIDE DEF targets, OnTime, causal
<1>7. targets # {} => key \in targets  BY <1>2, <1>6, LowestIsLowest
<1> HIDE DEF key, r
<1>8. r.applied <=> targets # {} /\ OnTime(key)  BY <1>3, <1>4, <1>6, <1>7
<1>9. \A K : \A k, j \in Pointed(d, p, K) : k = j
  <2> TAKE K
  <2> TAKE k, j \in Pointed(d, p, K)
  <2>1. k \in sent /\ j \in sent /\ k[2] = j[2]  BY DEF Pointed
  <2>2. k = <<k[1], k[2]>> /\ j = <<j[1], j[2]>> /\ k[1] = j[1]  BY <1>2, <2>1
  <2> QED BY <2>1, <2>2
<1>10. CASE Pointed(d, p, I) # {}
  <2>1. r.applied <=> \E k \in Pointed(d, p, I) : OnTime(k)  BY <1>1, <1>7, <1>8, <1>9, <1>10
  <2>2. Blocked(d, e) <=> \A k \in Pointed(d, p, I) : SentLater(d, e, k)  BY <1>10 DEF Blocked
  <2> QED BY <2>1, <2>2 DEF OnTime, r
<1>11. CASE Pointed(d, p, I) = {} /\ Pointed(d, p, J) # {}
  <2>1. r.applied <=> \E k \in Pointed(d, p, J) : OnTime(k)  BY <1>1, <1>7, <1>8, <1>9, <1>11
  <2>2. Blocked(d, e) <=> \A k \in Pointed(d, p, J) : SentLater(d, e, k)  BY <1>11 DEF Blocked
  <2> QED BY <2>1, <2>2 DEF OnTime, r
<1>12. CASE Pointed(d, p, I) = {} /\ Pointed(d, p, J) = {}
  <2> DEFINE blocked == \A k \in sent : IsOpen(d.payloads[k]) \/ LowestIn(J, k) => ~OnTime(k)
  <2>1. Blocked(d, e) <=> blocked
    BY <1>12 DEF Blocked, OnTime
  <2>2. CASE \E k \in causal : IsOpen(d.payloads[k])
    <3>1. fifo # {} /\ \A k \in fifo : OnTime(k)  BY <2>2, <1>5
    <3>2. targets # {} /\ targets \subseteq fifo  BY <1>1, <1>12, <3>1
    <3>3. r.applied  BY <1>7, <1>8, <3>1, <3>2
    <3>4. ~blocked  BY <2>2, <1>5
    <3> QED BY <2>1, <3>3, <3>4 DEF r
  <2>3. CASE causal = {}
    <3>1. \A k \in sent : ~OnTime(k)  BY <2>3, <1>5
    <3>2. ~r.applied  BY <1>6, <1>7, <1>8, <3>1
    <3> QED BY <2>1, <3>1, <3>2 DEF r
  <2>4. CASE causal # {} /\ \A k \in causal : ~IsOpen(d.payloads[k])
    <3>1. fifo = {}  BY <2>4
    <3>2. targets = last  BY <1>1, <1>12, <3>1
    <3>3. \A k, j \in last : k = j
      <4> TAKE k, j \in last
      <4>1. k[2] \in Nat /\ j[2] \in Nat /\ k[2] <= j[2] /\ j[2] <= k[2]  BY <1>2 DEF LowestIn
      <4>2. k[2] = j[2]  BY <4>1
      <4>3. k = <<k[1], k[2]>> /\ j = <<j[1], j[2]>> /\ k[1] = j[1]  BY <1>2
      <4> QED BY <4>2, <4>3
    <3>4. r.applied <=> \E k \in last : OnTime(k)  BY <1>7, <1>8, <3>2, <3>3
    <3>5. blocked <=> \A k \in last : ~OnTime(k)  BY <2>4, <1>5
    <3> QED BY <2>1, <3>4, <3>5 DEF r
  <2> QED BY <2>2, <2>3, <2>4
<1> QED BY <1>10, <1>11, <1>12

LinkedRows(t, p) == {k \in DOMAIN t : t[k].payload # NoPayload /\ t[k].payload[1] = p}

\* A write of messages that links none to p.
LEMMA LinksKept ==
  ASSUME NEW d, NEW f, NEW K, NEW facts, NEW p, f.messages = UpsertMessages(d.messages, K, facts),
         facts.payload = NoPayload \/ facts.payload[1] # p
  PROVE  LinkedIndices(f, p) = LinkedIndices(d, p)
<1> DEFINE t == d.messages
           u == f.messages
<1>1. DOMAIN u = DOMAIN t \cup K  BY DEF UpsertMessages
<1>2. \A k \in DOMAIN u \ DOMAIN t : u[k].payload = facts.payload  BY DEF UpsertMessages
<1>3. \A k \in DOMAIN t : u[k].payload = t[k].payload \/ (t[k].payload = NoPayload /\ u[k].payload = facts.payload)
  BY DEF UpsertMessages, MergeMessage
<1> HIDE DEF u, t
<1>4. LinkedRows(u, p) = LinkedRows(t, p) /\ \A k \in LinkedRows(t, p) : u[k].payload = t[k].payload
  BY <1>1, <1>2, <1>3 DEF LinkedRows
<1>5. /\ LinkedIndices(d, p) = {t[k].payload[2] : k \in LinkedRows(t, p)}
      /\ LinkedIndices(f, p) = {u[k].payload[2] : k \in LinkedRows(u, p)}
  BY DEF LinkedIndices, LinkedRows, t, u
<1> QED BY <1>4, <1>5

\* Rows that gain deliveries, with the votes and the links they had, are calm.
LEMMA DeliversCalm ==
  ASSUME NEW d, NEW f, Delivers(d.payloads, f.payloads), NEW p, SendVotes(f, p) = SendVotes(d, p),
         LinkedIndices(f, p) = LinkedIndices(d, p)
  PROVE  Calm(d, f, p)
<1>1. RowsOf(f.payloads, p) = RowsOf(d.payloads, p)  BY DEF RowsOf, Delivers
<1>2. \A k \in RowsOf(d.payloads, p) : /\ f.payloads[k].sentAt = d.payloads[k].sentAt
                                       /\ IsOpen(f.payloads[k]) => IsOpen(d.payloads[k])
  BY DEF RowsOf, Delivers
<1>3. SentRows(f, p) = SentRows(d, p)  BY <1>1, <1>2 DEF SentRows, IsSent
<1> QED BY <1>2, <1>3 DEF Calm, SentRows

CalmAfter(d) == {f \in Good : f.payloadQueue = d.payloadQueue /\ \A p : Calm(d, f, p)}

LEMMA CalmAfterCalm ==
  ASSUME NEW d, NEW f \in CalmAfter(d)
  PROVE  \A g \in CalmAfter(f) : g \in CalmAfter(d)
BY CalmOrder DEF CalmAfter

LEMMA MessageReceiveCalm ==
  ASSUME NEW d \in Good, NEW e \in MessageReceives
  PROVE  TryMessageReceive(d, e).db \in CalmAfter(d)
<1> DEFINE f == TryMessageReceive(d, e).db
<1>1. f \in Good  BY TryMessageReceiveGood
<1>2. ReceiveEffect(d, e, f, TryMessageReceive(d, e).applied)  BY MessageReceiveEffect
<1>3. ReceiveFacts(e).payload = NoPayload  BY DEF ReceiveFacts, NoMessageFacts
<1> HIDE DEF f
<1>4. \/ f.messages = d.messages
      \/ \E key : f.messages = UpsertMessages(d.messages, {key}, ReceiveFacts(e))
  BY <1>2 DEF ReceiveEffect
<1>5. \A p : LinkedIndices(f, p) = LinkedIndices(d, p)
  <2>1. CASE f.messages = d.messages  BY <2>1 DEF LinkedIndices
  <2>2. CASE \E key : f.messages = UpsertMessages(d.messages, {key}, ReceiveFacts(e))
    BY <1>3, <2>2, LinksKept
  <2> QED BY <1>4, <2>1, <2>2
<1>6. \A p : SendVotes(f, p) = SendVotes(d, p)  BY <1>2 DEF ReceiveEffect, SendVotes
<1>7. Delivers(d.payloads, f.payloads) /\ f.payloadQueue = d.payloadQueue  BY <1>2 DEF ReceiveEffect
<1> QED BY <1>1, <1>5, <1>6, <1>7, DeliversCalm DEF CalmAfter, f

LEMMA CalmAfterStart ==
  ASSUME NEW d \in Good
  PROVE  d \in CalmAfter(d)
BY CalmOrder DEF CalmAfter

LEMMA MessageQueueCalm ==
  ASSUME NEW d \in Good, NEW q \in SUBSET MessageReceives, IsFiniteSet(q)
  PROVE  [d EXCEPT !.messageQueue = q] \in CalmAfter(d)
<1> DEFINE f == [d EXCEPT !.messageQueue = q]
<1>1. f \in Good  BY WriteMessageQueue
<1>2. /\ f.messages = d.messages /\ f.payloads = d.payloads /\ f.participations = d.participations
      /\ f.payloadQueue = d.payloadQueue
  BY DEF Good, Databases
<1> HIDE DEF f
<1>3. \A p : LinkedIndices(f, p) = LinkedIndices(d, p) /\ SendVotes(f, p) = SendVotes(d, p)
  BY <1>2 DEF LinkedIndices, SendVotes
<1>4. Delivers(d.payloads, f.payloads)  BY <1>2 DEF Delivers
<1>5. f \in CalmAfter(d)  BY <1>1, <1>2, <1>3, <1>4, DeliversCalm DEF CalmAfter
<1> QED BY <1>5 DEF f

\* Draining the messages leaves every waiting handle as it was.
LEMMA MessageDrainCalm ==
  ASSUME NEW d \in Good, NEW ids, NEW incoming, incoming \subseteq MessageReceives, IsFiniteSet(incoming)
  PROVE  ReconcileMessages(d, ids, incoming) \in CalmAfter(d)
<1> DEFINE S == CalmAfter(d)
<1>1. \A f \in S, e \in MessageReceives : TryMessageReceive(f, e).db \in S
  <2> TAKE f \in S, e \in MessageReceives
  <2>1. f \in Good  BY DEF CalmAfter
  <2>2. TryMessageReceive(f, e).db \in CalmAfter(f)  BY <2>1, MessageReceiveCalm
  <2> QED BY <2>2, CalmAfterCalm
<1>2. \A f \in S, q \in SUBSET MessageReceives : IsFiniteSet(q) => [f EXCEPT !.messageQueue = q] \in S
  <2> TAKE f \in S, q \in SUBSET MessageReceives
  <2>1. f \in Good  BY DEF CalmAfter
  <2>2. IsFiniteSet(q) => [f EXCEPT !.messageQueue = q] \in CalmAfter(f)  BY <2>1, MessageQueueCalm
  <2> QED BY <2>2, CalmAfterCalm
<1>3. S \subseteq Good /\ d \in S  BY CalmAfterStart DEF CalmAfter
<1> HIDE DEF S
<1>4. KeepsMessageReceives(S)  BY <1>1, <1>2, <1>3 DEF KeepsMessageReceives
<1>5. ReconcileMessages(d, ids, incoming) \in S  BY <1>3, <1>4, ReconcileMessagesKeeps
<1> QED BY <1>5 DEF S

LEMMA DeliversOrder ==
  ASSUME NEW t, NEW u, NEW v, Delivers(t, u), Delivers(u, v)
  PROVE  Delivers(t, v)
BY DEF Delivers

\* The delivery time is a fact that changes neither a send nor a completion.
LEMMA DeliveredDelivers ==
  ASSUME NEW t, NEW key \in DOMAIN t, NEW facts, facts.sentAt = Null, facts.completedAt = Null
  PROVE  Delivers(t, UpsertPayload(t, key, facts))
<1> DEFINE row == t[key]
           merged == [underpaidAt       |-> MergeEarliest(row.underpaidAt, facts.underpaidAt),
                      sentAt            |-> MergeEarliest(row.sentAt, facts.sentAt),
                      sentTx            |-> Coalesce(row.sentTx, facts.sentTx),
                      deliveredAt       |-> MergeEarliest(row.deliveredAt, facts.deliveredAt),
                      partiallyFailedAt |-> MergeEarliest(row.partiallyFailedAt, facts.partiallyFailedAt),
                      completedAt       |-> MergeEarliest(row.completedAt, facts.completedAt),
                      status            |-> row.status]
           u == UpsertPayload(t, key, facts)
<1>1. merged.sentAt = row.sentAt /\ merged.completedAt = row.completedAt
  BY DEF MergeEarliest, Null
<1>2. u[key] = WithPayloadStatus(merged)  BY DEF UpsertPayload, MergePayload
<1>3. DOMAIN merged = {"underpaidAt", "sentAt", "sentTx", "deliveredAt", "partiallyFailedAt", "completedAt", "status"}
  OBVIOUS
<1>4. DOMAIN u = DOMAIN t /\ \A k \in DOMAIN t : k # key => u[k] = t[k]  BY DEF UpsertPayload
<1> HIDE DEF merged, u
<1>5. u[key].sentAt = merged.sentAt /\ u[key].completedAt = merged.completedAt
  BY <1>2, <1>3 DEF WithPayloadStatus
<1>6. u[key].sentAt = t[key].sentAt /\ u[key].completedAt = t[key].completedAt  BY <1>1, <1>5
<1> QED BY <1>4, <1>6 DEF Delivers, IsOpen, u

LEMMA PayloadReceiveCalm ==
  ASSUME NEW d \in Good, NEW e \in PayloadReceives
  PROVE  TryPayloadReceive(d, e).db \in CalmAfter(d)
<1> DEFINE targets == HandleTargets(d.payloads, e.id, SentBy(d, e), LinkedIndices(d, e.id), e.time)
           key == Lowest(targets)
           f == TryPayloadReceive(d, e).db
<1>1. targets \subseteq {k \in RowsOf(d.payloads, e.id) : IsSent(d.payloads[k])}
  BY HandleTargetsSent
<1>2. targets \subseteq DOMAIN d.payloads /\ targets \subseteq PayloadIds \X Nat
  BY <1>1, GoodTables DEF RowsOf, PayloadKeys
<1>3. \/ TryPayloadReceive(d, e) = Waiting(d)
      \/ targets # {} /\ TryPayloadReceive(d, e) = Applied(WritePayloadReceive(d, e, key))
  BY DEF TryPayloadReceive, targets
<1>4. f \in Good  BY TryPayloadReceiveGood
<1> HIDE DEF targets
<1>5. targets # {} => key \in targets  BY <1>2, LowestIsLowest
<1> HIDE DEF key
<1>6. CASE TryPayloadReceive(d, e) = Waiting(d)
  <2>1. f = d  BY <1>6, OutcomeType
  <2> QED BY <2>1, CalmAfterStart
<1>7. CASE targets # {} /\ TryPayloadReceive(d, e) = Applied(WritePayloadReceive(d, e, key))
  <2> DEFINE handled == [payload |-> key, adapter |-> e.adapter, side |-> "HANDLE", type |-> e.type]
             delivered == [NoPayloadFacts EXCEPT !.deliveredAt = e.time]
             booked == [d EXCEPT !.participations = @ \cup {handled}]
             stamped == [booked EXCEPT !.payloads = UpsertPayload(@, key, delivered)]
             written == IF d.payloads[key].deliveredAt = Null THEN stamped ELSE booked
             refresh == FALSE
  <2>1. key \in DOMAIN d.payloads /\ key \in PayloadKeys /\ IsSent(d.payloads[key])
    BY <1>1, <1>2, <1>5, <1>7, GoodTables
  <2>2. handled \in Participations /\ handled.side # "SEND"
    BY <2>1 DEF Participations, PayloadReceives
  <2>3. e.time \in Nat  BY DEF PayloadReceives, Times
  <2>4. delivered \in PayloadRow /\ delivered.completedAt = Null /\ delivered.sentAt = Null
    BY <2>3 DEF NoPayloadFacts, PayloadRow, PayloadStatuses, Null
  <2>5. /\ booked.payloads = d.payloads /\ booked.messages = d.messages
        /\ booked.participations = d.participations \cup {handled} /\ booked.payloadQueue = d.payloadQueue
    BY DEF Good, Databases
  <2>6. booked \in Good  BY <2>1, <2>2, WriteParticipation
  <2>7. [d EXCEPT !.participations = @ \cup {handled},
                  !.payloads = IF @[key].deliveredAt = Null THEN UpsertPayload(@, key, delivered) ELSE @]
          = written
    BY <2>5 DEF Good, Databases
  <2>8. f = RefreshPayload(written, key, e.time, refresh)
    <3> DEFINE g == WritePayloadReceive(d, e, key)
    <3>1. g = RefreshPayload(written, key, e.time, refresh)  BY <2>7 DEF WritePayloadReceive
    <3> HIDE DEF g, written, refresh
    <3>2. f = g  BY <1>7, OutcomeType DEF g
    <3> QED BY <3>1, <3>2
  <2> HIDE DEF handled, delivered, refresh
  <2>10. stamped \in Good  BY <2>1, <2>4, <2>6, UpsertPayloadGood DEF booked
  <2>11. /\ stamped.payloads = UpsertPayload(d.payloads, key, delivered) /\ stamped.messages = d.messages
         /\ stamped.participations = booked.participations /\ stamped.payloadQueue = d.payloadQueue
    BY <2>5, <2>6 DEF Good, Databases
  <2> HIDE DEF stamped, booked
  <2>12. Delivers(d.payloads, stamped.payloads)  BY <2>1, <2>4, <2>11, DeliveredDelivers
  <2>13. Delivers(d.payloads, booked.payloads)  BY <2>5 DEF Delivers
  <2>14. /\ written \in Good /\ Delivers(d.payloads, written.payloads) /\ written.messages = d.messages
         /\ written.participations = d.participations \cup {handled} /\ written.payloadQueue = d.payloadQueue
    BY <2>5, <2>6, <2>10, <2>11, <2>12, <2>13
  <2> HIDE DEF written, f
  <2>15. /\ f.messages = written.messages /\ f.payloadQueue = written.payloadQueue
         /\ f.participations = written.participations /\ Delivers(written.payloads, f.payloads)
    BY <2>8, <2>14, RefreshKeepsMessages, RefreshDelivers
  <2>16. Delivers(d.payloads, f.payloads)  BY <2>14, <2>15, DeliversOrder
  <2>17. f.participations = d.participations \cup {handled}  BY <2>14, <2>15
  <2>18. \A p : SendVotes(f, p) = SendVotes(d, p)  BY <2>2, <2>17 DEF SendVotes
  <2>19. f.messages = d.messages /\ f.payloadQueue = d.payloadQueue  BY <2>14, <2>15
  <2>20. \A p : LinkedIndices(f, p) = LinkedIndices(d, p)  BY <2>19 DEF LinkedIndices
  <2>21. f \in CalmAfter(d)  BY <1>4, <2>16, <2>18, <2>19, <2>20, DeliversCalm DEF CalmAfter, f
  <2> QED BY <2>21 DEF f
<1> QED BY <1>3, <1>6, <1>7

\* The same write of the queue.
LEMMA PayloadQueueCalm ==
  ASSUME NEW d, NEW g \in CalmAfter(d), NEW q \in SUBSET PayloadReceives, IsFiniteSet(q),
         NEW f, f = [g EXCEPT !.payloadQueue = q]
  PROVE  f \in Good /\ f.payloadQueue = q /\ \A p : Calm(d, f, p)
<1>1. g \in Good /\ \A p : Calm(d, g, p)  BY DEF CalmAfter
<1>2. f \in Good  BY <1>1, WritePayloadQueue
<1>3. /\ f.messages = g.messages /\ f.payloads = g.payloads /\ f.participations = g.participations
      /\ f.payloadQueue = q
  BY <1>1 DEF Good, Databases
<1>4. \A p : LinkedIndices(f, p) = LinkedIndices(g, p) /\ SendVotes(f, p) = SendVotes(g, p)
  BY <1>3 DEF LinkedIndices, SendVotes
<1>5. Delivers(g.payloads, f.payloads)  BY <1>3 DEF Delivers
<1>6. \A p : Calm(g, f, p)  BY <1>4, <1>5, DeliversCalm
<1> QED BY <1>1, <1>2, <1>3, <1>6, CalmOrder

\* Every handle in T is blocked.
AllBlocked(d, T) == \A e \in T : Blocked(d, e)
AwaitingWork == {w \in PayloadWork : AllBlocked(w[1], w[1].payloadQueue \ w[2])}

LEMMA PayloadTurnAwaits ==
  ASSUME NEW incoming
  PROVE  KeepsPayloadTurns(AwaitingWork, incoming)
<1> SUFFICES ASSUME NEW s, <<s.db, s.todo>> \in AwaitingWork, IsFiniteSet(s.todo), s.todo # {}
             PROVE  <<PayloadTurn(s, incoming).db, PayloadTurn(s, incoming).todo>> \in AwaitingWork
  BY DEF KeepsPayloadTurns, AwaitingWork
<1> DEFINE d == s.db
           e == NextPayloadReceive(s.todo, incoming)
           result == TryPayloadReceive(d, e)
           after == result.db
           queue == IF result.applied THEN after.payloadQueue \ {e} ELSE after.payloadQueue \cup {e}
           next == PayloadTurn(s, incoming)
<1>1. d \in Good /\ s.todo \subseteq PayloadReceives /\ AllBlocked(d, d.payloadQueue \ s.todo)
  <2> DEFINE w == <<s.db, s.todo>>
  <2>1. w[1] = d /\ w[2] = s.todo  OBVIOUS
  <2>2. w \in Good \X SUBSET PayloadReceives /\ AllBlocked(w[1], w[1].payloadQueue \ w[2])
    BY DEF AwaitingWork, PayloadWork
  <2> HIDE DEF w
  <2> QED BY <2>1, <2>2
<1>2. next.db \in Good /\ next.todo \subseteq PayloadReceives
  BY <1>1, GoodKeepsReceives, PayloadTurnKeeps
<1>3. e \in s.todo /\ e \in PayloadReceives  BY <1>1, PayloadTodo
<1>4. next.todo = s.todo \ {e} /\ next.db = [after EXCEPT !.payloadQueue = queue]
  BY DEF PayloadTurn
<1>5. after \in CalmAfter(d) /\ result.applied \in BOOLEAN
  BY <1>1, <1>3, PayloadReceiveCalm, TryPayloadReceiveGood
<1>6. ~result.applied => Blocked(d, e)  BY <1>1, <1>3, WaitsWhenBlocked
<1> HIDE DEF next, result, e
<1>7. queue \in SUBSET PayloadReceives /\ IsFiniteSet(queue) /\ after.payloadQueue = d.payloadQueue
  <2>1. after.payloadQueue = d.payloadQueue /\ after \in Good  BY <1>5 DEF CalmAfter
  <2>2. after.payloadQueue \subseteq PayloadReceives /\ IsFiniteSet(after.payloadQueue)
    BY <2>1 DEF Good, Databases, Finite
  <2> QED BY <1>3, <2>1, <2>2, FS_AddElement, FS_RemoveElement
<1>8. /\ queue \ next.todo \subseteq (d.payloadQueue \ s.todo) \cup {e}
      /\ result.applied => queue \ next.todo \subseteq d.payloadQueue \ s.todo
  BY <1>3, <1>4, <1>7
<1>9. \A f \in queue \ next.todo : Blocked(d, f)
  BY <1>1, <1>5, <1>6, <1>8 DEF AllBlocked
<1> HIDE DEF queue, after
<1>10. next.db.payloadQueue = queue /\ \A p : Calm(d, next.db, p)
  BY <1>4, <1>5, <1>7, PayloadQueueCalm
<1>11. AllBlocked(next.db, next.db.payloadQueue \ next.todo)
  BY <1>9, <1>10, BlockedCalm DEF AllBlocked
<1>12. <<next.db, next.todo>> \in AwaitingWork
  <2> DEFINE w == <<next.db, next.todo>>
  <2>1. w[1] = next.db /\ w[2] = next.todo /\ w \in PayloadWork  BY <1>2 DEF PayloadWork
  <2> HIDE DEF w
  <2>2. w \in AwaitingWork  BY <1>11, <2>1 DEF AwaitingWork
  <2> QED BY <2>2 DEF w
<1> QED BY <1>12 DEF next

\* The databases in which every waiting handle of a payload outside `ids` is blocked.
Awaiting(ids) == {d \in Good : AllBlocked(d, {e \in d.payloadQueue : e.id \notin ids})}

\* Draining the handles of some payloads leaves none of theirs that could be applied.
LEMMA PayloadDrainAwaits ==
  ASSUME NEW ids, NEW d \in Awaiting(ids), NEW incoming, incoming \subseteq PayloadReceives, IsFiniteSet(incoming)
  PROVE  ReconcilePayloads(d, ids, incoming) \in Awaiting({})
<1> DEFINE work == incoming \cup {e \in d.payloadQueue : e.id \in ids}
           w == <<d, work>>
           after == ReconcilePayloads(d, ids, incoming)
           v == <<after, {}>>
<1>1. w[1] = d /\ w[2] = work /\ v[1] = after /\ v[2] = {}  OBVIOUS
<1>2. d \in Good /\ AllBlocked(d, {e \in d.payloadQueue : e.id \notin ids})  BY DEF Awaiting
<1>3. work \subseteq PayloadReceives /\ d.payloadQueue \ work \subseteq {e \in d.payloadQueue : e.id \notin ids}
  BY <1>2 DEF Good, Databases
<1>4. w \in PayloadWork  BY <1>2, <1>3 DEF PayloadWork
<1>5. AllBlocked(w[1], w[1].payloadQueue \ w[2])  BY <1>1, <1>2, <1>3 DEF AllBlocked
<1>6. w \in AwaitingWork
  <2> HIDE DEF w
  <2> QED BY <1>4, <1>5 DEF AwaitingWork
<1>7. v \in AwaitingWork  BY <1>2, <1>6, PayloadTurnAwaits, PayloadsDrained
<1>8. after \in Good  BY <1>7 DEF AwaitingWork, PayloadWork
<1> HIDE DEF w, v, after
<1>9. AllBlocked(after, after.payloadQueue \ {})  BY <1>1, <1>7 DEF AwaitingWork
<1>10. \A e \in {f \in after.payloadQueue : f.id \notin {}} : Blocked(after, e)  BY <1>9 DEF AllBlocked
<1>11. AllBlocked(after, {f \in after.payloadQueue : f.id \notin {}})  BY <1>10 DEF AllBlocked
<1> QED BY <1>8, <1>11 DEF Awaiting, after

LEMMA CalmAwaits ==
  ASSUME NEW ids, NEW d \in Awaiting(ids), NEW f \in Good, f.payloadQueue = d.payloadQueue,
         \A p : p \notin ids => Calm(d, f, p)
  PROVE  f \in Awaiting(ids)
<1>1. AllBlocked(d, {e \in d.payloadQueue : e.id \notin ids})  BY DEF Awaiting
<1>2. AllBlocked(f, {e \in f.payloadQueue : e.id \notin ids})  BY <1>1, BlockedCalm DEF AllBlocked
<1> QED BY <1>2 DEF Awaiting

LEMMA AwaitingMore ==
  ASSUME NEW ids
  PROVE  Awaiting({}) \subseteq Awaiting(ids)
<1> SUFFICES ASSUME NEW d \in Awaiting({}) PROVE d \in Awaiting(ids)
  OBVIOUS
<1>1. d \in Good /\ AllBlocked(d, {e \in d.payloadQueue : e.id \notin {}})  BY DEF Awaiting
<1>2. \A e \in d.payloadQueue : Blocked(d, e)  BY <1>1 DEF AllBlocked
<1>3. AllBlocked(d, {e \in d.payloadQueue : e.id \notin ids})  BY <1>2 DEF AllBlocked
<1> QED BY <1>1, <1>3 DEF Awaiting

LEMMA MessageDrainAwaits ==
  ASSUME NEW ids, NEW d \in Awaiting(ids), NEW messageIds, NEW incoming, incoming \subseteq MessageReceives,
         IsFiniteSet(incoming)
  PROVE  ReconcileMessages(d, messageIds, incoming) \in Awaiting(ids)
<1> DEFINE f == ReconcileMessages(d, messageIds, incoming)
<1>1. d \in Good  BY DEF Awaiting
<1>2. f \in CalmAfter(d)  BY <1>1, MessageDrainCalm
<1> HIDE DEF f
<1>3. f \in Good /\ f.payloadQueue = d.payloadQueue /\ \A p : Calm(d, f, p)  BY <1>2 DEF CalmAfter
<1>4. f \in Awaiting(ids)  BY <1>3, CalmAwaits
<1> QED BY <1>4 DEF f

LEMMA ReconcileAwaits ==
  ASSUME NEW ids, NEW d \in Awaiting(ids), NEW messageIds
  PROVE  Reconcile(d, messageIds, ids) \in Awaiting({})
<1> DEFINE none == {}
           b == ReconcileMessages(d, messageIds, none)
<1>1. none \subseteq MessageReceives /\ none \subseteq PayloadReceives /\ IsFiniteSet(none)  BY FS_EmptySet
<1>2. Reconcile(d, messageIds, ids) = ReconcilePayloads(b, ids, none)  BY DEF Reconcile
<1> HIDE DEF none
<1>3. b \in Awaiting(ids)  BY <1>1, MessageDrainAwaits
<1> HIDE DEF b
<1> QED BY <1>1, <1>2, <1>3, PayloadDrainAwaits

LEMMA SendsAwait ==
  ASSUME NEW p \in PayloadIds
  PROVE  KeepsSends(Awaiting({p}), p, SendFacts)
<1> DEFINE S == Awaiting({p})
<1>1. ASSUME NEW d \in S, NEW K \in SUBSET MessageKeys, NEW key \in PayloadKeys, Bounded(K), key[1] = p
      PROVE  [d EXCEPT !.messages = UpsertMessages(@, K, LinkFacts(key))] \in S
  <2> DEFINE f == [d EXCEPT !.messages = UpsertMessages(@, K, LinkFacts(key))]
  <2>1. d \in Good  BY DEF Awaiting
  <2>2. f \in Good  BY <1>1, <2>1, LinkGood
  <2>3. /\ f.messages = UpsertMessages(d.messages, K, LinkFacts(key)) /\ f.payloads = d.payloads
        /\ f.participations = d.participations /\ f.payloadQueue = d.payloadQueue
    BY <2>1 DEF Good, Databases
  <2>4. LinkFacts(key).payload = key  BY DEF LinkFacts, NoMessageFacts
  <2> HIDE DEF f
  <2>5. \A i : i \notin {p} => LinkedIndices(f, i) = LinkedIndices(d, i)  BY <1>1, <2>3, <2>4, LinksKept
  <2>6. \A i : SendVotes(f, i) = SendVotes(d, i)  BY <2>3 DEF SendVotes
  <2>7. Delivers(d.payloads, f.payloads)  BY <2>3 DEF Delivers
  <2>8. \A i : i \notin {p} => Calm(d, f, i)  BY <2>5, <2>6, <2>7, DeliversCalm
  <2>9. f \in S  BY <2>2, <2>3, <2>8, CalmAwaits
  <2> QED BY <2>9 DEF f
<1>2. ASSUME NEW d \in S, NEW key \in PayloadKeys, NEW facts \in SendFacts, key[1] = p
      PROVE  [d EXCEPT !.payloads = UpsertPayload(@, key, facts)] \in S
  <2> DEFINE f == [d EXCEPT !.payloads = UpsertPayload(@, key, facts)]
  <2>1. d \in Good  BY DEF Awaiting
  <2>2. f \in Good  BY <2>1, UpsertPayloadGood DEF SendFacts
  <2>3. /\ f.payloads = UpsertPayload(d.payloads, key, facts) /\ f.messages = d.messages
        /\ f.participations = d.participations /\ f.payloadQueue = d.payloadQueue
    BY <2>1 DEF Good, Databases
  <2> HIDE DEF f
  <2>4. ASSUME NEW i, i # p PROVE Calm(d, f, i)
    <3>1. /\ DOMAIN f.payloads = DOMAIN d.payloads \cup {key}
          /\ \A k \in DOMAIN d.payloads : k # key => f.payloads[k] = d.payloads[k]
      BY <2>3 DEF UpsertPayload
    <3>2. RowsOf(f.payloads, i) = RowsOf(d.payloads, i)
          /\ \A k \in RowsOf(d.payloads, i) : f.payloads[k] = d.payloads[k]
      BY <1>2, <2>4, <3>1 DEF RowsOf
    <3>3. SentRows(f, i) = SentRows(d, i) /\ \A k \in SentRows(d, i) : f.payloads[k] = d.payloads[k]
      BY <3>2 DEF SentRows
    <3>4. SendVotes(f, i) = SendVotes(d, i) /\ LinkedIndices(f, i) = LinkedIndices(d, i)
      BY <2>3 DEF SendVotes, LinkedIndices
    <3> QED BY <3>3, <3>4 DEF Calm
  <2>5. f \in S  BY <2>2, <2>3, <2>4, CalmAwaits
  <2> QED BY <2>5 DEF f
<1>3. ASSUME NEW d \in S, NEW vote \in Participations, vote.side = "SEND", vote.payload[1] = p
      PROVE  [d EXCEPT !.participations = @ \cup {vote}] \in S
  <2> DEFINE f == [d EXCEPT !.participations = @ \cup {vote}]
  <2>1. d \in Good  BY DEF Awaiting
  <2>2. f \in Good  BY <1>3, <2>1, WriteParticipation
  <2>3. /\ f.payloads = d.payloads /\ f.messages = d.messages
        /\ f.participations = d.participations \cup {vote} /\ f.payloadQueue = d.payloadQueue
    BY <2>1 DEF Good, Databases
  <2> HIDE DEF f
  <2>4. \A i : i \notin {p} => SendVotes(f, i) = SendVotes(d, i)  BY <1>3, <2>3 DEF SendVotes
  <2>5. \A i : LinkedIndices(f, i) = LinkedIndices(d, i)  BY <2>3 DEF LinkedIndices
  <2>6. Delivers(d.payloads, f.payloads)  BY <2>3 DEF Delivers
  <2>7. \A i : i \notin {p} => Calm(d, f, i)  BY <2>4, <2>5, <2>6, DeliversCalm
  <2>8. f \in S  BY <2>2, <2>3, <2>7, CalmAwaits
  <2> QED BY <2>8 DEF f
<1>4. \A d \in S : \A ids : Reconcile(d, ids, {p}) \in S
  BY ReconcileAwaits, AwaitingMore
<1>5. S \subseteq Good  BY DEF Awaiting
<1> QED BY <1>1, <1>2, <1>3, <1>4, <1>5 DEF KeepsSends, KeepsWrites, KeepsVotes

LEMMA PreparesAwait ==
  ASSUME NEW m \in MessageIds
  PROVE  KeepsPrepares(Awaiting({}), m)
<1> DEFINE S == Awaiting({})
<1>1. ASSUME NEW d \in S, NEW key \in MessageKeys, NEW time \in Nat
      PROVE  [d EXCEPT !.messages = UpsertMessages(@, {key}, [NoMessageFacts EXCEPT !.preparedAt = time])] \in S
  <2> DEFINE facts == [NoMessageFacts EXCEPT !.preparedAt = time]
             f == [d EXCEPT !.messages = UpsertMessages(@, {key}, facts)]
  <2>1. d \in Good  BY DEF Awaiting
  <2>2. facts \in MessageRow /\ MessageConsistent(facts) /\ facts.failedAt = Null /\ facts.payload = NoPayload
    BY DEF NoMessageFacts, MessageRow, MessageConsistent, MessageStatuses, Null
  <2> HIDE DEF facts
  <2>3. {key} \subseteq MessageKeys /\ Bounded({key})
    BY BoundedKey DEF MessageKeys
  <2>4. f \in Good  BY <2>1, <2>2, <2>3, UpsertMessagesGood
  <2>5. /\ f.messages = UpsertMessages(d.messages, {key}, facts) /\ f.payloads = d.payloads
        /\ f.participations = d.participations /\ f.payloadQueue = d.payloadQueue
    BY <2>1 DEF Good, Databases
  <2> HIDE DEF f
  <2>6. \A i : LinkedIndices(f, i) = LinkedIndices(d, i)  BY <2>2, <2>5, LinksKept
  <2>7. \A i : SendVotes(f, i) = SendVotes(d, i)  BY <2>5 DEF SendVotes
  <2>8. Delivers(d.payloads, f.payloads)  BY <2>5 DEF Delivers
  <2>9. \A i : Calm(d, f, i)  BY <2>6, <2>7, <2>8, DeliversCalm
  <2>10. f \in S  BY <2>4, <2>5, <2>9, CalmAwaits
  <2> QED BY <2>10 DEF f, facts
<1>2. ASSUME NEW d \in S, NEW t \in Tables(Pools \X Adapters, PoolAdapterRow)
      PROVE  [d EXCEPT !.poolAdapters = t] \in S
  <2> DEFINE f == [d EXCEPT !.poolAdapters = t]
  <2>1. d \in Good  BY DEF Awaiting
  <2>2. f \in Good  BY <2>1, WritePoolAdapters
  <2>3. /\ f.payloads = d.payloads /\ f.messages = d.messages
        /\ f.participations = d.participations /\ f.payloadQueue = d.payloadQueue
    BY <2>1 DEF Good, Databases
  <2> HIDE DEF f
  <2>4. \A i : LinkedIndices(f, i) = LinkedIndices(d, i) /\ SendVotes(f, i) = SendVotes(d, i)
    BY <2>3 DEF LinkedIndices, SendVotes
  <2>5. Delivers(d.payloads, f.payloads)  BY <2>3 DEF Delivers
  <2>6. \A i : Calm(d, f, i)  BY <2>4, <2>5, DeliversCalm
  <2>7. f \in S  BY <2>2, <2>3, <2>6, CalmAwaits
  <2> QED BY <2>7 DEF f
<1>3. \A d \in S : Reconcile(d, {m}, {}) \in S
  BY ReconcileAwaits
<1>4. S \subseteq Good  BY DEF Awaiting
<1> QED BY <1>1, <1>2, <1>3, <1>4 DEF KeepsPrepares

\* The handlers leave no handle that could be applied.
LEMMA HandlersAwait ==
  ASSUME NEW d \in Awaiting({})
  PROVE  /\ \A m \in MessageIds, t \in Nat : \A live : OnPrepareMessage(d, m, t, live) \in Awaiting({})
         /\ \A p \in PayloadIds, t \in Nat : /\ OnUnderpaidBatch(d, p, t) \in Awaiting({})
                                             /\ OnRepayBatch(d, p, t) \in Awaiting({})
                                             /\ \A a \in Adapters : /\ OnSendPayload(d, p, a, t, t) \in Awaiting({})
                                                                    /\ OnSendProof(d, p, a) \in Awaiting({})
         /\ \A e \in MessageReceives : OnMessageReceive(d, e) \in Awaiting({})
         /\ \A e \in PayloadReceives : OnPayloadReceive(d, e) \in Awaiting({})
         /\ \A pool \in Pools, adapters \in SUBSET Adapters : OnSetAdapters(d, pool, adapters) \in Awaiting({})
<1>1. ASSUME NEW m \in MessageIds, NEW t \in Nat, NEW live
      PROVE  OnPrepareMessage(d, m, t, live) \in Awaiting({})
  BY PreparesAwait, PrepareMessageKeeps
<1>2. ASSUME NEW p \in PayloadIds, NEW t \in Nat
      PROVE  /\ OnUnderpaidBatch(d, p, t) \in Awaiting({})
             /\ OnRepayBatch(d, p, t) \in Awaiting({})
             /\ \A a \in Adapters : /\ OnSendPayload(d, p, a, t, t) \in Awaiting({})
                                    /\ OnSendProof(d, p, a) \in Awaiting({})
  <2>1. SendFactsIn(SendFacts, t)
    BY DEF SendFactsIn, SendFacts, NoPayloadFacts, PayloadRow, PayloadStatuses, Null
  <2>2. d \in Awaiting({p})  BY AwaitingMore
  <2>3. Sends(Awaiting({p}), p, d, t)  BY <2>1, <2>2, SendsAwait, SendsKeep
  <2>4. \A f : Drained(f, Awaiting({p}), p) => f \in Awaiting({})  BY ReconcileAwaits DEF Drained
  <2> QED BY <2>3, <2>4 DEF Sends
<1>3. ASSUME NEW e \in MessageReceives PROVE OnMessageReceive(d, e) \in Awaiting({})
  <2>1. IsFiniteSet({e}) /\ {e} \subseteq MessageReceives  BY FS_Singleton
  <2> QED BY <2>1, MessageDrainAwaits DEF OnMessageReceive
<1>4. ASSUME NEW e \in PayloadReceives PROVE OnPayloadReceive(d, e) \in Awaiting({})
  <2>1. IsFiniteSet({e}) /\ {e} \subseteq PayloadReceives  BY FS_Singleton
  <2>2. d \in Awaiting({e.id})  BY AwaitingMore
  <2>3. ReconcilePayloads(d, {e.id}, {e}) \in Awaiting({})  BY <2>1, <2>2, PayloadDrainAwaits
  <2> QED BY <2>3 DEF OnPayloadReceive
<1>5. ASSUME NEW pool \in Pools, NEW adapters \in SUBSET Adapters
      PROVE  OnSetAdapters(d, pool, adapters) \in Awaiting({})
  <2> DEFINE f == OnSetAdapters(d, pool, adapters)
  <2>1. d \in Good  BY DEF Awaiting
  <2>2. f \in Good  BY <2>1, SetAdaptersGood
  <2>3. PICK t : f = [d EXCEPT !.poolAdapters = t]  BY DEF OnSetAdapters
  <2>4. t \in Tables(Pools \X Adapters, PoolAdapterRow)
    <3>1. f.poolAdapters = t  BY <2>1, <2>3 DEF Good, Databases
    <3> QED BY <2>2, <3>1 DEF Good, Databases
  <2> HIDE DEF f
  <2>5. f.payloads = d.payloads /\ f.messages = d.messages
        /\ f.participations = d.participations /\ f.payloadQueue = d.payloadQueue
    BY <2>1, <2>3 DEF Good, Databases
  <2>6. \A i : LinkedIndices(f, i) = LinkedIndices(d, i) /\ SendVotes(f, i) = SendVotes(d, i)
    BY <2>5 DEF LinkedIndices, SendVotes
  <2>7. Delivers(d.payloads, f.payloads)  BY <2>5 DEF Delivers
  <2>8. \A i : Calm(d, f, i)  BY <2>6, <2>7, DeliversCalm
  <2>9. f \in Awaiting({})  BY <2>2, <2>5, <2>8, CalmAwaits
  <2> QED BY <2>9 DEF f
<1> QED BY <1>1, <1>2, <1>3, <1>4, <1>5

LEMMA InitAwaits == Init => db \in Awaiting({})
<1>1. EmptyDatabase.payloadQueue = {}  BY DEF EmptyDatabase
<1> QED BY <1>1, EmptyDatabaseGood DEF Init, Awaiting, AllBlocked

LEMMA StepsAwait ==
  ASSUME Inductive, db \in Awaiting({}), [Next]_vars
  PROVE  db' \in Awaiting({})
<1>1. CASE UNCHANGED vars  BY <1>1 DEF vars
<1>2. CASE Next
  <2>1. PICK t \in Times : Step(t)  BY <1>2 DEF Next
  <2>2. t \in Nat /\ t \in Times /\ indexed["destination"] + 1 \in Nat
    BY DEF Inductive, Times, Chains
  <2>3. \A m \in MessageIds : /\ MessageLog(m, "execute", t) \in MessageReceives
                              /\ MessageLog(m, "fail", t) \in MessageReceives
    BY <2>2 DEF MessageLog, MessageReceives
  <2>4. \A p \in PayloadIds, a \in Adapters : /\ PayloadLog(p, a, "PAYLOAD", t) \in PayloadReceives
                                              /\ PayloadLog(p, a, "PROOF", t) \in PayloadReceives
    BY <2>2 DEF PayloadLog, PayloadReceives
  <2>5. ASSUME NEW m \in MessageIds, (\E live \in BOOLEAN : PrepareMessage(m, t, live))
               \/ ExecuteMessage(m, t) \/ FailMessage(m, t)
        PROVE  db' \in Awaiting({})
    BY <2>2, <2>3, <2>5, HandlersAwait DEF PrepareMessage, ExecuteMessage, FailMessage
  <2>6. ASSUME NEW p \in PayloadIds, UnderpaidBatch(p, t) \/ RepayBatch(p, t)
        PROVE  db' \in Awaiting({})
    BY <2>2, <2>6, HandlersAwait DEF UnderpaidBatch, RepayBatch
  <2>7. ASSUME NEW p \in PayloadIds, NEW a \in Adapters, \/ SendPayload(p, a, t)
                                                        \/ SendProof(p, a, t)
                                                        \/ HandlePayload(p, a, t)
                                                        \/ HandleProof(p, a, t)
        PROVE  db' \in Awaiting({})
    BY <2>2, <2>4, <2>7, HandlersAwait DEF SendPayload, SendProof, HandlePayload, HandleProof
  <2>8. ASSUME NEW pool \in Pools, NEW adapters \in SUBSET Adapters, SetAdapters(pool, adapters, t)
        PROVE  db' \in Awaiting({})
    BY <2>8, HandlersAwait DEF SetAdapters
  <2> QED BY <2>1, <2>5, <2>6, <2>7, <2>8 DEF Step
<1> QED BY <1>1, <1>2

\* Between handlers every handle that waits has to wait: the two drains around a send,
\* each of one payload only, reach every handle a log can make applicable.
THEOREM NoHandleIsForgotten == Spec => []NoHandleLeftBehind
<1>1. Inductive /\ db \in Awaiting({}) /\ [Next]_vars => (db \in Awaiting({}))'
  BY StepsAwait
<1>2. Inductive /\ db \in Awaiting({}) => NoHandleLeftBehind
  <2> SUFFICES ASSUME Inductive, db \in Awaiting({}), NEW e \in db.payloadQueue
               PROVE  ~TryPayloadReceive(db, e).applied
    BY DEF NoHandleLeftBehind
  <2>1. db \in Good /\ AllBlocked(db, {f \in db.payloadQueue : f.id \notin {}})  BY DEF Awaiting
  <2>2. Blocked(db, e)  BY <2>1 DEF AllBlocked
  <2>3. e \in PayloadReceives  BY <2>1 DEF Good, Databases
  <2> QED BY <2>1, <2>2, <2>3, WaitsWhenBlocked
<1> QED BY <1>1, <1>2, InitAwaits, AlwaysInductive, PTL DEF Spec

-----------------------------------------------------------------------------
(***************************************************************************)
(* Completion.  A drain completes a row only when all that is linked to it *)
(* is executed, and changes no link.  Only the writes of a send between its*)
(* two drains link messages, and those complete no row                     *)
(***************************************************************************)

\* The rows of K are linked to the same messages, and those executed stay so.
Executes(t, u, K) ==
  \A k \in K : /\ LinkedTo(u, k) = LinkedTo(t, k)
               /\ \A j \in LinkedTo(t, k) : t[j].executedAt # Null => u[j].executedAt # Null

Settled(d) ==
  {e \in Good : /\ Executes(d.messages, e.messages, PayloadKeys)
                /\ \A k \in Completes(d, e) : AllExecuted(e, k)}

LEMMA UpsertExecutes ==
  ASSUME NEW t, NEW K, NEW facts, NEW u, u = UpsertMessages(t, K, facts), NEW Q \in SUBSET PayloadKeys,
         facts.payload \notin Q
  PROVE  Executes(t, u, Q)
<1>1. DOMAIN u = DOMAIN t \cup K  BY DEF UpsertMessages
<1>2. \A j \in DOMAIN u \ DOMAIN t : u[j].payload = facts.payload  BY DEF UpsertMessages
<1>3. \A j \in DOMAIN t : u[j].payload = t[j].payload \/ (t[j].payload = NoPayload /\ u[j].payload = facts.payload)
  BY DEF UpsertMessages, MergeMessage
<1>4. NoPayload \notin Q  BY NoPayloadIsNoKey DEF PayloadKeys
<1>5. \A k \in Q : LinkedTo(u, k) = LinkedTo(t, k)  BY <1>1, <1>2, <1>3, <1>4 DEF LinkedTo
<1>6. \A j \in DOMAIN t : t[j].executedAt # Null => u[j].executedAt # Null
  <2> SUFFICES ASSUME NEW j \in DOMAIN t, t[j].executedAt # Null PROVE u[j].executedAt # Null
    OBVIOUS
  <2>1. u[j] = t[j] \/ u[j].executedAt = MergeEarliest(t[j].executedAt, facts.executedAt)
    BY DEF UpsertMessages, MergeMessage
  <2> QED BY <2>1 DEF MergeEarliest
<1> QED BY <1>5, <1>6 DEF Executes, LinkedTo

LEMMA ExecutesOrder ==
  ASSUME NEW Q
  PROVE  /\ \A t : Executes(t, t, Q)
         /\ \A t, u, v : Executes(t, u, Q) /\ Executes(u, v, Q) => Executes(t, v, Q)
BY DEF Executes

LEMMA ExecutedStays ==
  ASSUME NEW d, NEW e, NEW Q, Executes(d.messages, e.messages, Q), NEW k \in Q, AllExecuted(d, k)
  PROVE  AllExecuted(e, k)
BY DEF Executes, AllExecuted

LEMMA SettledOrder ==
  ASSUME NEW d \in Good
  PROVE  /\ d \in Settled(d)
         /\ \A e \in Settled(d) : \A f \in Settled(e) : f \in Settled(d)
<1>1. d \in Settled(d)
  <2>1. Completes(d, d) = {}  BY DEF Completes
  <2> QED BY <2>1, ExecutesOrder DEF Settled
<1>2. ASSUME NEW e \in Settled(d), NEW f \in Settled(e) PROVE f \in Settled(d)
  <2>1. f \in Good /\ Executes(d.messages, f.messages, PayloadKeys)  BY ExecutesOrder DEF Settled
  <2>2. ASSUME NEW k \in Completes(d, f) PROVE AllExecuted(f, k)
    <3>1. k \in PayloadKeys  BY <2>1, GoodTables DEF Completes
    <3>2. CASE k \in Completes(e, f)  BY <3>2 DEF Settled
    <3>3. CASE k \notin Completes(e, f)
      <4>1. k \in Completes(d, e)  BY <3>3 DEF Completes
      <4>2. AllExecuted(e, k)  BY <4>1 DEF Settled
      <4>3. Executes(e.messages, f.messages, PayloadKeys)  BY DEF Settled
      <4> QED BY <3>1, <4>2, <4>3, ExecutedStays
    <3> QED BY <3>2, <3>3
  <2> QED BY <2>1, <2>2 DEF Settled
<1> QED BY <1>1, <1>2

\* A write that completes no row, and links no message.
LEMMA QuietlySettled ==
  ASSUME NEW d \in Good, NEW e \in Good, Executes(d.messages, e.messages, PayloadKeys), Completes(d, e) = {}
  PROVE  e \in Settled(d)
BY DEF Settled

LEMMA SameSettled ==
  ASSUME NEW d \in Good, NEW e \in Good, e.messages = d.messages, e.payloads = d.payloads
  PROVE  e \in Settled(d)
<1>1. Completes(d, e) = {}  BY DEF Completes
<1> QED BY <1>1, ExecutesOrder, QuietlySettled

LEMMA UpsertSettled ==
  ASSUME NEW d \in Good, NEW e \in Good, NEW K, NEW facts, facts.payload = NoPayload,
         e.messages = UpsertMessages(d.messages, K, facts), e.payloads = d.payloads
  PROVE  e \in Settled(d)
<1>1. Completes(d, e) = {}  BY DEF Completes
<1>2. NoPayload \notin PayloadKeys  BY NoPayloadIsNoKey DEF PayloadKeys
<1>3. Executes(d.messages, e.messages, PayloadKeys)  BY <1>2, UpsertExecutes
<1> QED BY <1>1, <1>3, QuietlySettled

\* Facts without a completion complete no row.
LEMMA UpsertCompletes ==
  ASSUME NEW t, NEW key, NEW facts, facts.completedAt = Null, NEW u, u = UpsertPayload(t, key, facts),
         NEW k \in DOMAIN u, ~IsOpen(u[k])
  PROVE  k \in DOMAIN t /\ ~IsOpen(t[k])
<1>1. CASE k # key  BY <1>1 DEF UpsertPayload
<1>2. CASE k = key
  <2>1. CASE k \notin DOMAIN t
    <3>1. u[k] = WithPayloadStatus(facts)  BY <1>2, <2>1 DEF UpsertPayload
    <3>2. u[k].completedAt = facts.completedAt  BY <3>1 DEF WithPayloadStatus
    <3> QED BY <3>2 DEF IsOpen
  <2>2. CASE k \in DOMAIN t
    <3> DEFINE row == t[k]
               merged == [underpaidAt       |-> MergeEarliest(row.underpaidAt, facts.underpaidAt),
                          sentAt            |-> MergeEarliest(row.sentAt, facts.sentAt),
                          sentTx            |-> Coalesce(row.sentTx, facts.sentTx),
                          deliveredAt       |-> MergeEarliest(row.deliveredAt, facts.deliveredAt),
                          partiallyFailedAt |-> MergeEarliest(row.partiallyFailedAt, facts.partiallyFailedAt),
                          completedAt       |-> MergeEarliest(row.completedAt, facts.completedAt),
                          status            |-> row.status]
    <3>1. merged.completedAt = row.completedAt  BY DEF MergeEarliest, Null
    <3>2. u[k] = WithPayloadStatus(merged)  BY <1>2, <2>2 DEF UpsertPayload, MergePayload
    <3>3. DOMAIN merged = {"underpaidAt", "sentAt", "sentTx", "deliveredAt", "partiallyFailedAt", "completedAt", "status"}
      OBVIOUS
    <3> HIDE DEF merged
    <3>4. u[k].completedAt = merged.completedAt  BY <3>2, <3>3 DEF WithPayloadStatus
    <3> QED BY <2>2, <3>1, <3>4 DEF IsOpen
  <2> QED BY <2>1, <2>2
<1> QED BY <1>1, <1>2

\* The aggregate update completes a row whose messages are executed.
LEMMA RefreshSettled ==
  ASSUME NEW d \in Good, NEW key, NEW time \in Nat, NEW delivered \in BOOLEAN, NEW e,
         e = RefreshPayload(d, key, time, delivered)
  PROVE  e \in Settled(d)
<1>1. e \in Good /\ e.messages = d.messages  BY RefreshPayloadGood, RefreshKeepsMessages
<1>2. CASE key \notin DOMAIN d.payloads
  <2>1. e = d  BY <1>2 DEF RefreshPayload
  <2> QED BY <2>1, SettledOrder
<1>3. CASE key \in DOMAIN d.payloads
  <2>1. PICK at, partially : e.payloads = [d.payloads EXCEPT ![key] = WithPayloadStatus(
          [d.payloads[key] EXCEPT !.deliveredAt = at, !.partiallyFailedAt = Coalesce(@, partially),
                                  !.completedAt = Coalesce(@, IF AdaptersDone(d, key) /\ AllExecuted(d, key)
                                                              THEN time ELSE Null)])]
    BY <1>3 DEF RefreshPayload, Good, Databases
  <2> DEFINE row == d.payloads[key]
             completed == IF AdaptersDone(d, key) /\ AllExecuted(d, key) THEN time ELSE Null
             a == [row EXCEPT !.deliveredAt = at]
             b == [a EXCEPT !.partiallyFailedAt = Coalesce(@, partially)]
             c == [b EXCEPT !.completedAt = Coalesce(@, completed)]
             new == WithPayloadStatus(c)
  <2>2. row \in PayloadRow /\ d.payloads = [k \in DOMAIN d.payloads |-> d.payloads[k]]
    BY <1>3, GoodTables
  <2>3. a.completedAt = row.completedAt /\ DOMAIN a = DOMAIN row  BY <2>2 DEF PayloadRow
  <2>4. b.completedAt = a.completedAt /\ DOMAIN b = DOMAIN a  BY <2>2 DEF PayloadRow
  <2>5. c.completedAt = Coalesce(b.completedAt, completed) /\ DOMAIN c = DOMAIN b
    BY <2>2, <2>3, <2>4 DEF PayloadRow
  <2>6. new.completedAt = c.completedAt  BY <2>2, <2>3, <2>4, <2>5 DEF WithPayloadStatus, PayloadRow
  <2>7. e.payloads = [d.payloads EXCEPT ![key] = new]  BY <2>1
  <2>8. completed # Null => AllExecuted(d, key)  OBVIOUS
  <2> HIDE DEF new, c, b, a, completed
  <2>9. IsOpen(row) /\ ~IsOpen(new) => AllExecuted(d, key)
    BY <2>3, <2>4, <2>5, <2>6, <2>8 DEF IsOpen, Coalesce
  <2>10. \A k \in Completes(d, e) : k = key /\ IsOpen(row) /\ ~IsOpen(new)
    BY <1>3, <2>2, <2>7 DEF Completes
  <2>11. \A k \in Completes(d, e) : AllExecuted(e, k)  BY <1>1, <2>9, <2>10 DEF AllExecuted
  <2> QED BY <1>1, <2>11, ExecutesOrder DEF Settled
<1> QED BY <1>2, <1>3

LEMMA MessageReceiveSettled ==
  ASSUME NEW d \in Good, NEW e \in MessageReceives
  PROVE  TryMessageReceive(d, e).db \in Settled(d)
<1> DEFINE targets == SendTargets(d.messages, d.payloads, e.id, e.status)
           key == Lowest(targets)
           f == TryMessageReceive(d, e).db
<1>1. targets \subseteq RowsOf(d.messages, e.id) /\ \A k \in targets : d.messages[k].executedAt = Null
  BY SendTargetsOpen
<1>2. targets \subseteq DOMAIN d.messages /\ targets \subseteq MessageIds \X Nat
  BY <1>1, GoodTables DEF RowsOf, MessageKeys
<1>3. \/ TryMessageReceive(d, e) = Waiting(d)
      \/ TryMessageReceive(d, e) = Applied(d)
      \/ targets # {} /\ TryMessageReceive(d, e) = Applied(WriteMessageReceive(d, e, key))
  BY DEF TryMessageReceive, targets
<1> HIDE DEF targets
<1>4. targets # {} => /\ key \in DOMAIN d.messages /\ key \in MessageIds \X Nat
                      /\ d.messages[key].executedAt = Null
  BY <1>1, <1>2, LowestIsLowest
<1> HIDE DEF key
<1>5. f = d \/ (targets # {} /\ f = WriteMessageReceive(d, e, key))
  <2> DEFINE after == WriteMessageReceive(d, e, key)
  <2> HIDE DEF after
  <2> QED BY <1>3, OutcomeType DEF after
<1>6. CASE f = d  BY <1>6, SettledOrder
<1>7. CASE targets # {} /\ f = WriteMessageReceive(d, e, key)
  <2> DEFINE facts == ReceiveFacts(e)
             written == [d EXCEPT !.messages = UpsertMessages(@, {key}, facts)]
             cleared == IF e.status = "fail" /\ IsSetPoolAdapters(e.id)
                        THEN ClearInProgress(written, PoolOf[e.id]) ELSE written
             link == d.messages[key].payload
             delivered == TRUE
  <2>1. f = RefreshPayload(cleared, link, e.time, delivered)  BY <1>7 DEF WriteMessageReceive
  <2>2. {key} \subseteq MessageKeys /\ Bounded({key}) /\ {key} \ DOMAIN d.messages = {}
    BY <1>4, <1>7, BoundedKey DEF MessageKeys
  <2>3. facts \in MessageRow /\ (facts.failedAt # Null => facts.executedAt = Null)  BY ReceiveFactsType
  <2>4. facts.payload = NoPayload  BY DEF ReceiveFacts, NoMessageFacts
  <2> HIDE DEF facts
  <2>5. written \in Good  BY <1>4, <1>7, <2>2, <2>3, UpsertMessagesGood
  <2>6. written.messages = UpsertMessages(d.messages, {key}, facts) /\ written.payloads = d.payloads
    BY DEF Good, Databases
  <2> HIDE DEF written
  <2>7. written \in Settled(d)  BY <2>4, <2>5, <2>6, UpsertSettled
  <2>8. cleared \in Good /\ cleared.messages = written.messages /\ cleared.payloads = written.payloads
    BY <2>5, ClearInProgressGood, ClearKeepsMessages
  <2> HIDE DEF cleared
  <2>9. cleared \in Settled(written)  BY <2>5, <2>8, SameSettled
  <2>10. e.time \in Nat /\ delivered \in BOOLEAN  BY DEF MessageReceives, Times
  <2> HIDE DEF delivered, link, f
  <2>11. f \in Settled(cleared)  BY <2>1, <2>8, <2>10, RefreshSettled
  <2>12. f \in Settled(written)  BY <2>5, <2>9, <2>11, SettledOrder
  <2> QED BY <2>7, <2>12, SettledOrder DEF f
<1> QED BY <1>5, <1>6, <1>7

LEMMA PayloadReceiveSettled ==
  ASSUME NEW d \in Good, NEW e \in PayloadReceives
  PROVE  TryPayloadReceive(d, e).db \in Settled(d)
<1> DEFINE targets == HandleTargets(d.payloads, e.id, SentBy(d, e), LinkedIndices(d, e.id), e.time)
           key == Lowest(targets)
           f == TryPayloadReceive(d, e).db
<1>1. targets \subseteq {k \in RowsOf(d.payloads, e.id) : IsSent(d.payloads[k])}
  BY HandleTargetsSent
<1>2. targets \subseteq DOMAIN d.payloads /\ targets \subseteq PayloadIds \X Nat
  BY <1>1, GoodTables DEF RowsOf, PayloadKeys
<1>3. \/ TryPayloadReceive(d, e) = Waiting(d)
      \/ targets # {} /\ TryPayloadReceive(d, e) = Applied(WritePayloadReceive(d, e, key))
  BY DEF TryPayloadReceive, targets
<1> HIDE DEF targets
<1>5. targets # {} => key \in targets  BY <1>2, LowestIsLowest
<1> HIDE DEF key
<1>6. CASE TryPayloadReceive(d, e) = Waiting(d)
  <2>1. f = d  BY <1>6, OutcomeType
  <2> QED BY <2>1, SettledOrder
<1>7. CASE targets # {} /\ TryPayloadReceive(d, e) = Applied(WritePayloadReceive(d, e, key))
  <2> DEFINE handled == [payload |-> key, adapter |-> e.adapter, side |-> "HANDLE", type |-> e.type]
             delivered == [NoPayloadFacts EXCEPT !.deliveredAt = e.time]
             booked == [d EXCEPT !.participations = @ \cup {handled}]
             stamped == [booked EXCEPT !.payloads = UpsertPayload(@, key, delivered)]
             written == IF d.payloads[key].deliveredAt = Null THEN stamped ELSE booked
             refresh == FALSE
  <2>1. key \in DOMAIN d.payloads /\ key \in PayloadKeys /\ IsSent(d.payloads[key])
    BY <1>1, <1>2, <1>5, <1>7, GoodTables
  <2>2. handled \in Participations
    BY <2>1 DEF Participations, PayloadReceives
  <2>3. e.time \in Nat /\ refresh \in BOOLEAN  BY DEF PayloadReceives, Times
  <2>4. delivered \in PayloadRow /\ delivered.completedAt = Null
    BY <2>3 DEF NoPayloadFacts, PayloadRow, PayloadStatuses, Null
  <2>5. booked.payloads = d.payloads /\ booked.messages = d.messages
    BY DEF Good, Databases
  <2>6. booked \in Good  BY <2>1, <2>2, WriteParticipation
  <2>7. [d EXCEPT !.participations = @ \cup {handled},
                  !.payloads = IF @[key].deliveredAt = Null THEN UpsertPayload(@, key, delivered) ELSE @]
          = written
    BY <2>5 DEF Good, Databases
  <2>8. f = RefreshPayload(written, key, e.time, refresh)
    <3> DEFINE g == WritePayloadReceive(d, e, key)
    <3>1. g = RefreshPayload(written, key, e.time, refresh)  BY <2>7 DEF WritePayloadReceive
    <3> HIDE DEF g, written, refresh
    <3>2. f = g  BY <1>7, OutcomeType DEF g
    <3> QED BY <3>1, <3>2
  <2> HIDE DEF handled, delivered, refresh
  <2>9. stamped \in Good  BY <2>1, <2>4, <2>6, UpsertPayloadGood DEF booked
  <2>10. stamped.payloads = UpsertPayload(d.payloads, key, delivered) /\ stamped.messages = d.messages
    BY <2>5, <2>6 DEF Good, Databases
  <2> HIDE DEF stamped, booked
  <2>11. booked \in Settled(d)  BY <2>5, <2>6, SameSettled
  <2>12. stamped \in Settled(d)
    <3>1. Completes(d, stamped) = {}  BY <2>4, <2>10, UpsertCompletes DEF Completes
    <3> QED BY <2>9, <2>10, <3>1, ExecutesOrder, QuietlySettled
  <2>13. written \in Good /\ written \in Settled(d)  BY <2>6, <2>9, <2>11, <2>12
  <2> HIDE DEF written, f
  <2>14. f \in Settled(written)  BY <2>3, <2>8, <2>13, RefreshSettled
  <2> QED BY <2>13, <2>14, SettledOrder DEF f
<1> QED BY <1>3, <1>6, <1>7

\* Draining settles every row it completes.
LEMMA SettledKeepsReceives ==
  ASSUME NEW d \in Good
  PROVE  KeepsMessageReceives(Settled(d)) /\ KeepsPayloadReceives(Settled(d))
<1>1. ASSUME NEW b \in Settled(d), NEW e \in MessageReceives
      PROVE  TryMessageReceive(b, e).db \in Settled(d)
  <2>1. b \in Good  BY DEF Settled
  <2>2. TryMessageReceive(b, e).db \in Settled(b)  BY <2>1, MessageReceiveSettled
  <2> QED BY <2>2, SettledOrder
<1>2. ASSUME NEW b \in Settled(d), NEW e \in PayloadReceives
      PROVE  TryPayloadReceive(b, e).db \in Settled(d)
  <2>1. b \in Good  BY DEF Settled
  <2>2. TryPayloadReceive(b, e).db \in Settled(b)  BY <2>1, PayloadReceiveSettled
  <2> QED BY <2>2, SettledOrder
<1>3. ASSUME NEW b \in Settled(d), NEW q \in SUBSET MessageReceives, IsFiniteSet(q)
      PROVE  [b EXCEPT !.messageQueue = q] \in Settled(d)
  <2> DEFINE f == [b EXCEPT !.messageQueue = q]
  <2>1. b \in Good  BY DEF Settled
  <2>2. f \in Good /\ f.messages = b.messages /\ f.payloads = b.payloads
    BY <1>3, <2>1, WriteMessageQueue DEF Good, Databases
  <2> HIDE DEF f
  <2>3. f \in Settled(b)  BY <2>1, <2>2, SameSettled
  <2>4. f \in Settled(d)  BY <2>3, SettledOrder
  <2> QED BY <2>4 DEF f
<1>4. ASSUME NEW b \in Settled(d), NEW q \in SUBSET PayloadReceives, IsFiniteSet(q)
      PROVE  [b EXCEPT !.payloadQueue = q] \in Settled(d)
  <2> DEFINE f == [b EXCEPT !.payloadQueue = q]
  <2>1. b \in Good  BY DEF Settled
  <2>2. f \in Good /\ f.messages = b.messages /\ f.payloads = b.payloads
    BY <1>4, <2>1, WritePayloadQueue DEF Good, Databases
  <2> HIDE DEF f
  <2>3. f \in Settled(b)  BY <2>1, <2>2, SameSettled
  <2>4. f \in Settled(d)  BY <2>3, SettledOrder
  <2> QED BY <2>4 DEF f
<1>5. Settled(d) \subseteq Good  BY DEF Settled
<1> QED BY <1>1, <1>2, <1>3, <1>4, <1>5 DEF KeepsMessageReceives, KeepsPayloadReceives

LEMMA ReconcileSettled ==
  ASSUME NEW d \in Good, NEW e \in Settled(d), NEW messageIds, NEW payloadIds
  PROVE  Reconcile(e, messageIds, payloadIds) \in Settled(d)
BY SettledKeepsReceives, ReconcileKeeps

\* A log that links no message.
LEMMA SettledKeepsPrepares ==
  ASSUME NEW d \in Good, NEW m \in MessageIds
  PROVE  KeepsPrepares(Settled(d), m)
<1> DEFINE S == Settled(d)
<1>1. ASSUME NEW b \in S, NEW key \in MessageKeys, NEW time \in Nat
      PROVE  [b EXCEPT !.messages = UpsertMessages(@, {key}, [NoMessageFacts EXCEPT !.preparedAt = time])] \in S
  <2> DEFINE facts == [NoMessageFacts EXCEPT !.preparedAt = time]
             f == [b EXCEPT !.messages = UpsertMessages(@, {key}, facts)]
  <2>1. b \in Good  BY DEF Settled
  <2>2. facts \in MessageRow /\ MessageConsistent(facts) /\ facts.failedAt = Null /\ facts.payload = NoPayload
    BY DEF NoMessageFacts, MessageRow, MessageConsistent, MessageStatuses, Null
  <2> HIDE DEF facts
  <2>3. {key} \subseteq MessageKeys /\ Bounded({key})
    BY BoundedKey DEF MessageKeys
  <2>4. f \in Good  BY <2>1, <2>2, <2>3, UpsertMessagesGood
  <2>5. f.messages = UpsertMessages(b.messages, {key}, facts) /\ f.payloads = b.payloads
    BY <2>1 DEF Good, Databases
  <2> HIDE DEF f
  <2>6. f \in Settled(b)  BY <2>1, <2>2, <2>4, <2>5, UpsertSettled
  <2>7. f \in S  BY <2>6, SettledOrder
  <2> QED BY <2>7 DEF f, facts
<1>2. ASSUME NEW b \in S, NEW t \in Tables(Pools \X Adapters, PoolAdapterRow)
      PROVE  [b EXCEPT !.poolAdapters = t] \in S
  <2> DEFINE f == [b EXCEPT !.poolAdapters = t]
  <2>1. b \in Good  BY DEF Settled
  <2>2. f \in Good  BY <2>1, WritePoolAdapters
  <2>3. f.payloads = b.payloads /\ f.messages = b.messages  BY <2>1 DEF Good, Databases
  <2> HIDE DEF f
  <2>4. f \in Settled(b)  BY <2>1, <2>2, <2>3, SameSettled
  <2>5. f \in S  BY <2>4, SettledOrder
  <2> QED BY <2>5 DEF f
<1>3. \A b \in S : Reconcile(b, {m}, {}) \in S  BY ReconcileSettled
<1>4. S \subseteq Good  BY DEF Settled
<1> QED BY <1>1, <1>2, <1>3, <1>4 DEF KeepsPrepares

LEMMA SettledKeepsVotes ==
  ASSUME NEW d \in Good, NEW p
  PROVE  KeepsVotes(Settled(d), p)
<1>1. ASSUME NEW b \in Settled(d), NEW vote \in Participations, vote.side = "SEND"
      PROVE  [b EXCEPT !.participations = @ \cup {vote}] \in Settled(d)
  <2> DEFINE f == [b EXCEPT !.participations = @ \cup {vote}]
  <2>1. b \in Good  BY DEF Settled
  <2>2. f \in Good  BY <1>1, <2>1, WriteParticipation
  <2>3. f.payloads = b.payloads /\ f.messages = b.messages  BY <2>1 DEF Good, Databases
  <2> HIDE DEF f
  <2>4. f \in Settled(b)  BY <2>1, <2>2, <2>3, SameSettled
  <2>5. f \in Settled(d)  BY <2>4, SettledOrder
  <2> QED BY <2>5 DEF f
<1>2. Settled(d) \subseteq Good  BY DEF Settled
<1> QED BY <1>1, <1>2 DEF KeepsVotes

\* What a send of payload p writes between its drains: it completes no row, and
\* links no message to a row of another payload.
OtherRows(p) == {k \in PayloadKeys : k[1] # p}

Written(b, p) ==
  {e \in Good : /\ Executes(b.messages, e.messages, OtherRows(p))
                /\ Completes(b, e) = {}}

LEMMA WrittenOrder ==
  ASSUME NEW p
  PROVE  /\ \A b \in Good : b \in Written(b, p)
         /\ \A b, e : \A f \in Written(e, p) : e \in Written(b, p) => f \in Written(b, p)
<1>1. \A b : Completes(b, b) = {}  BY DEF Completes
<1>2. \A b, e, f : Completes(b, e) = {} /\ Completes(e, f) = {} => Completes(b, f) = {}  BY DEF Completes
<1> QED BY <1>1, <1>2, ExecutesOrder DEF Written

LEMMA WrittenKeeps ==
  ASSUME NEW b \in Good, NEW p \in PayloadIds
  PROVE  KeepsWrites(Written(b, p), p, SendFacts)
<1> DEFINE S == Written(b, p)
<1>1. ASSUME NEW d \in S, NEW K \in SUBSET MessageKeys, NEW key \in PayloadKeys, Bounded(K), key[1] = p
      PROVE  [d EXCEPT !.messages = UpsertMessages(@, K, LinkFacts(key))] \in S
  <2> DEFINE f == [d EXCEPT !.messages = UpsertMessages(@, K, LinkFacts(key))]
  <2>1. d \in Good  BY DEF Written
  <2>2. f \in Good  BY <1>1, <2>1, LinkGood
  <2>3. f.messages = UpsertMessages(d.messages, K, LinkFacts(key)) /\ f.payloads = d.payloads
    BY <2>1 DEF Good, Databases
  <2>4. LinkFacts(key).payload = key  BY DEF LinkFacts, NoMessageFacts
  <2> HIDE DEF f
  <2>5. LinkFacts(key).payload \notin OtherRows(p) /\ OtherRows(p) \in SUBSET PayloadKeys
    BY <1>1, <2>4 DEF OtherRows
  <2>6. Executes(d.messages, f.messages, OtherRows(p))  BY <2>3, <2>5, UpsertExecutes
  <2>7. Completes(d, f) = {}  BY <2>3 DEF Completes
  <2>8. f \in Written(d, p)  BY <2>2, <2>6, <2>7 DEF Written
  <2>9. f \in S  BY <2>8, WrittenOrder
  <2> QED BY <2>9 DEF f
<1>2. ASSUME NEW d \in S, NEW key \in PayloadKeys, NEW facts \in SendFacts, key[1] = p
      PROVE  [d EXCEPT !.payloads = UpsertPayload(@, key, facts)] \in S
  <2> DEFINE f == [d EXCEPT !.payloads = UpsertPayload(@, key, facts)]
  <2>1. d \in Good  BY DEF Written
  <2>2. f \in Good  BY <2>1, UpsertPayloadGood DEF SendFacts
  <2>3. f.payloads = UpsertPayload(d.payloads, key, facts) /\ f.messages = d.messages
    BY <2>1 DEF Good, Databases
  <2>4. facts.completedAt = Null  BY DEF SendFacts
  <2> HIDE DEF f
  <2>5. Completes(d, f) = {}  BY <2>3, <2>4, UpsertCompletes DEF Completes
  <2>6. f \in Written(d, p)  BY <2>2, <2>3, <2>5, ExecutesOrder DEF Written
  <2>7. f \in S  BY <2>6, WrittenOrder
  <2> QED BY <2>7 DEF f
<1>3. ASSUME NEW d \in S, NEW vote \in Participations, vote.side = "SEND"
      PROVE  [d EXCEPT !.participations = @ \cup {vote}] \in S
  <2> DEFINE f == [d EXCEPT !.participations = @ \cup {vote}]
  <2>1. d \in Good  BY DEF Written
  <2>2. f \in Good  BY <1>3, <2>1, WriteParticipation
  <2>3. f.payloads = d.payloads /\ f.messages = d.messages  BY <2>1 DEF Good, Databases
  <2> HIDE DEF f
  <2>4. Completes(d, f) = {}  BY <2>3 DEF Completes
  <2>5. f \in Written(d, p)  BY <2>2, <2>3, <2>4, ExecutesOrder DEF Written
  <2>6. f \in S  BY <2>5, WrittenOrder
  <2> QED BY <2>6 DEF f
<1>4. S \subseteq Good  BY DEF Written
<1> QED BY <1>1, <1>2, <1>3, <1>4 DEF KeepsWrites, KeepsVotes

\* A row that a send completes is executed after the send, or was when it began.
LEMMA SendSettles ==
  ASSUME NEW d \in Good, NEW p \in PayloadIds, NEW before, before = Reconcile(d, MessagesOf(p), {p}),
         NEW f, Drained(f, Written(before, p), p), NEW k \in Completes(d, f)
  PROVE  AllExecuted(f, k) \/ (k[1] = p /\ AllExecuted(before, k))
<1>1. before \in Settled(d)  BY SettledOrder, ReconcileSettled
<1>2. PICK body \in Written(before, p) : \E ids : f = Reconcile(body, ids, {p})  BY DEF Drained
<1>3. body \in Good  BY DEF Written
<1>4. f \in Settled(body)  BY <1>2, <1>3, SettledOrder, ReconcileSettled
<1>5. CASE k \in Completes(body, f)  BY <1>4, <1>5 DEF Settled
<1>6. CASE k \notin Completes(body, f)
  <2>1. k \in DOMAIN body.payloads /\ ~IsOpen(body.payloads[k])  BY <1>6 DEF Completes
  <2>2. k \in DOMAIN before.payloads /\ ~IsOpen(before.payloads[k])  BY <2>1 DEF Written, Completes
  <2>3. k \in Completes(d, before)  BY <2>2 DEF Completes
  <2>4. AllExecuted(before, k)  BY <1>1, <2>3 DEF Settled
  <2>5. CASE k[1] = p  BY <2>4, <2>5
  <2>6. CASE k[1] # p
    <3>1. k \in PayloadKeys  BY <1>3, <2>1, GoodTables
    <3>2. k \in OtherRows(p)  BY <2>6, <3>1 DEF OtherRows
    <3>3. AllExecuted(body, k)  BY <2>4, <3>2, ExecutedStays DEF Written
    <3>4. AllExecuted(f, k)  BY <1>4, <3>1, <3>3, ExecutedStays DEF Settled
    <3> QED BY <3>4
  <2> QED BY <2>5, <2>6
<1> QED BY <1>5, <1>6

LEMMA HandlersSettle ==
  ASSUME NEW d \in Good
  PROVE  /\ \A m \in MessageIds, t \in Nat : \A live : OnPrepareMessage(d, m, t, live) \in Settled(d)
         /\ \A p \in PayloadIds, a \in Adapters : OnSendProof(d, p, a) \in Settled(d)
         /\ \A e \in MessageReceives : OnMessageReceive(d, e) \in Settled(d)
         /\ \A e \in PayloadReceives : OnPayloadReceive(d, e) \in Settled(d)
         /\ \A pool \in Pools, adapters \in SUBSET Adapters : OnSetAdapters(d, pool, adapters) \in Settled(d)
<1>0. d \in Settled(d)  BY SettledOrder
<1>1. ASSUME NEW m \in MessageIds, NEW t \in Nat, NEW live
      PROVE  OnPrepareMessage(d, m, t, live) \in Settled(d)
  BY <1>0, SettledKeepsPrepares, PrepareMessageKeeps
<1>2. ASSUME NEW p \in PayloadIds, NEW a \in Adapters
      PROVE  OnSendProof(d, p, a) \in Settled(d)
  <2>1. KeepsVotes(Settled(d), p) /\ Reconcile(d, {}, {p}) \in Settled(d)
    BY <1>0, SettledKeepsVotes, ReconcileSettled
  <2>2. OnSendProof(d, p, a) = d \/ Drained(OnSendProof(d, p, a), Settled(d), p)  BY <2>1, SendProofKeeps
  <2>3. \A f : Drained(f, Settled(d), p) => f \in Settled(d)  BY ReconcileSettled DEF Drained
  <2> QED BY <1>0, <2>2, <2>3
<1>3. ASSUME NEW e \in MessageReceives PROVE OnMessageReceive(d, e) \in Settled(d)
  <2>1. IsFiniteSet({e}) /\ {e} \subseteq MessageReceives  BY FS_Singleton
  <2> QED BY <1>0, <2>1, SettledKeepsReceives, ReconcileMessagesKeeps DEF OnMessageReceive
<1>4. ASSUME NEW e \in PayloadReceives PROVE OnPayloadReceive(d, e) \in Settled(d)
  <2>1. IsFiniteSet({e}) /\ {e} \subseteq PayloadReceives  BY FS_Singleton
  <2>2. ReconcilePayloads(d, {e.id}, {e}) \in Settled(d)
    BY <1>0, <2>1, SettledKeepsReceives, ReconcilePayloadsKeeps
  <2> QED BY <1>0, <2>2 DEF OnPayloadReceive
<1>5. ASSUME NEW pool \in Pools, NEW adapters \in SUBSET Adapters
      PROVE  OnSetAdapters(d, pool, adapters) \in Settled(d)
  <2> DEFINE f == OnSetAdapters(d, pool, adapters)
  <2>1. f \in Good  BY SetAdaptersGood
  <2>2. PICK t : f = [d EXCEPT !.poolAdapters = t]  BY DEF OnSetAdapters
  <2> HIDE DEF f
  <2>3. f.payloads = d.payloads /\ f.messages = d.messages  BY <2>2 DEF Good, Databases
  <2>4. f \in Settled(d)  BY <2>1, <2>3, SameSettled
  <2> QED BY <2>4 DEF f
<1> QED BY <1>1, <1>2, <1>3, <1>4, <1>5

LEMMA SendsSettle ==
  ASSUME NEW d \in Good, NEW p \in PayloadIds, NEW t \in Nat, NEW f,
         \/ f = OnUnderpaidBatch(d, p, t)
         \/ f = OnRepayBatch(d, p, t)
         \/ \E a \in Adapters : f = OnSendPayload(d, p, a, t, t),
         NEW k \in Completes(d, f)
  PROVE  AllExecuted(f, k) \/ AllExecuted(Reconcile(d, MessagesOf(k[1]), {k[1]}), k)
<1> DEFINE before == Reconcile(d, MessagesOf(p), {p})
           S == Written(before, p)
<1>1. before \in Good  BY ReconcileGood
<1>2. before = Reconcile(d, MessagesOf(p), {p})  OBVIOUS
<1> HIDE DEF before
<1>3. KeepsWrites(S, p, SendFacts) /\ before \in S  BY <1>1, WrittenKeeps, WrittenOrder
<1>4. SendFactsIn(SendFacts, t)
  BY DEF SendFactsIn, SendFacts, NoPayloadFacts, PayloadRow, PayloadStatuses, Null
<1> HIDE DEF S
<1>5. Drained(f, S, p)
  BY <1>2, <1>3, <1>4, UnderpaidBatchKeeps, RepayBatchKeeps, SendPayloadKeeps
<1>6. AllExecuted(f, k) \/ (k[1] = p /\ AllExecuted(before, k))  BY <1>2, <1>5, SendSettles DEF S
<1> QED BY <1>2, <1>6

LEMMA StepsSettle ==
  ASSUME Inductive, [Next]_vars, NEW k \in Completes(db, db')
  PROVE  \/ AllExecuted(db', k)
         \/ /\ indexed'["source"] > indexed["source"]
            /\ AllExecuted(Reconcile(db, MessagesOf(k[1]), {k[1]}), k)
<1>0. db \in Good  BY DEF Inductive
<1>1. CASE UNCHANGED vars
  <2>1. Completes(db, db') = {}  BY <1>1 DEF vars, Completes
  <2> QED BY <2>1
<1>2. CASE Next
  <2>1. PICK t \in Times : Step(t)  BY <1>2 DEF Next
  <2>2. t \in Nat /\ t \in Times /\ indexed["destination"] + 1 \in Nat
    BY DEF Inductive, Times, Chains
  <2>3. \A m \in MessageIds : /\ MessageLog(m, "execute", t) \in MessageReceives
                              /\ MessageLog(m, "fail", t) \in MessageReceives
    BY <2>2 DEF MessageLog, MessageReceives
  <2>4. \A p \in PayloadIds, a \in Adapters : /\ PayloadLog(p, a, "PAYLOAD", t) \in PayloadReceives
                                              /\ PayloadLog(p, a, "PROOF", t) \in PayloadReceives
    BY <2>2 DEF PayloadLog, PayloadReceives
  <2>5. db' \in Settled(db) => AllExecuted(db', k)  BY DEF Settled
  <2>6. ASSUME NEW m \in MessageIds, (\E live \in BOOLEAN : PrepareMessage(m, t, live))
               \/ ExecuteMessage(m, t) \/ FailMessage(m, t)
        PROVE  db' \in Settled(db)
    BY <1>0, <2>2, <2>3, <2>6, HandlersSettle DEF PrepareMessage, ExecuteMessage, FailMessage
  <2>7. ASSUME NEW p \in PayloadIds, NEW a \in Adapters, \/ SendProof(p, a, t)
                                                        \/ HandlePayload(p, a, t)
                                                        \/ HandleProof(p, a, t)
        PROVE  db' \in Settled(db)
    BY <1>0, <2>2, <2>4, <2>7, HandlersSettle DEF SendProof, HandlePayload, HandleProof
  <2>8. ASSUME NEW pool \in Pools, NEW adapters \in SUBSET Adapters, SetAdapters(pool, adapters, t)
        PROVE  db' \in Settled(db)
    BY <1>0, <2>8, HandlersSettle DEF SetAdapters
  <2>9. ASSUME NEW p \in PayloadIds, \/ UnderpaidBatch(p, t)
                                     \/ RepayBatch(p, t)
                                     \/ \E a \in Adapters : SendPayload(p, a, t)
        PROVE  \/ AllExecuted(db', k)
               \/ /\ indexed'["source"] > indexed["source"]
                  /\ AllExecuted(Reconcile(db, MessagesOf(k[1]), {k[1]}), k)
    <3>1. \/ db' = OnUnderpaidBatch(db, p, t)
          \/ db' = OnRepayBatch(db, p, t)
          \/ \E a \in Adapters : db' = OnSendPayload(db, p, a, t, t)
      BY <2>9 DEF UnderpaidBatch, RepayBatch, SendPayload
    <3>2. indexed' = [indexed EXCEPT !["source"] = @ + 1]
      BY <2>9 DEF UnderpaidBatch, RepayBatch, SendPayload, Indexes
    <3>3. indexed'["source"] > indexed["source"]  BY <3>2 DEF Inductive, Chains
    <3>4. AllExecuted(db', k) \/ AllExecuted(Reconcile(db, MessagesOf(k[1]), {k[1]}), k)
      BY <1>0, <2>2, <3>1, SendsSettle
    <3> QED BY <3>3, <3>4
  <2> QED BY <2>1, <2>5, <2>6, <2>7, <2>8, <2>9 DEF Step
<1> QED BY <1>1, <1>2

\* Whatever is indexed, in whatever order and number: a payload only completes when all
\* messages that were linked to it at that moment are executed.
THEOREM CompletionIsExecuted == Spec => CompletesWhenExecuted
<1>1. Inductive /\ [Next]_vars =>
        [\A k \in Completes(db, db') :
           \/ AllExecuted(db', k)
           \/ /\ indexed'["source"] > indexed["source"]
              /\ AllExecuted(Reconcile(db, MessagesOf(k[1]), {k[1]}), k)]_vars
  BY StepsSettle
<1> QED BY <1>1, AlwaysInductive, PTL DEF Spec, CompletesWhenExecuted

=============================================================================
