------------------------ MODULE CrosschainSystem_proofs -------------------------
(***************************************************************************)
(* Theorems about the indexer on what the contracts emit, for any messages, *)
(* payloads, batches and adapters, and any number of sends, underpaid sends *)
(* and failures.                                                           *)
(*                                                                         *)
(* The logs of both chains are of known kinds, carry the time of their      *)
(* transaction and are ordered by it.  So every step of the composition is  *)
(* a step of CrosschainIndexer, and what holds of the indexer on any logs   *)
(* holds of it here.                                                       *)
(***************************************************************************)
EXTENDS CrosschainSystem, CrosschainIndexer_proofs, SequenceTheorems, FunctionTheorems

-----------------------------------------------------------------------------
(* Logs *)

Entries(log) == {log[i] : i \in DOMAIN log}

LEMMA ConcatEntries ==
  ASSUME NEW S, NEW a \in Seq(S), NEW b \in Seq(S)
  PROVE  a \o b \in Seq(S) /\ Entries(a \o b) = Entries(a) \cup Entries(b)
<1>1. /\ a \o b \in Seq(S) /\ Len(a \o b) = Len(a) + Len(b)
      /\ \A i \in 1..Len(a) + Len(b) : (a \o b)[i] = IF i <= Len(a) THEN a[i] ELSE b[i - Len(a)]
  BY ConcatProperties
<1>2. DOMAIN (a \o b) = 1..Len(a) + Len(b) /\ DOMAIN a = 1..Len(a) /\ DOMAIN b = 1..Len(b)
      /\ Len(a) \in Nat /\ Len(b) \in Nat
  BY <1>1
<1> DEFINE c == a \o b
<1>3. ASSUME NEW i \in DOMAIN c PROVE c[i] \in Entries(a) \cup Entries(b)
  <2>1. i \in DOMAIN a \/ i - Len(a) \in DOMAIN b  BY <1>2
  <2> QED BY <1>1, <1>2, <2>1 DEF Entries
<1>4. ASSUME NEW i \in DOMAIN a PROVE a[i] \in Entries(c)
  <2>1. i \in DOMAIN c /\ c[i] = a[i]  BY <1>1, <1>2
  <2> QED BY <2>1 DEF Entries
<1>5. ASSUME NEW i \in DOMAIN b PROVE b[i] \in Entries(c)
  <2>1. i + Len(a) \in DOMAIN c /\ c[i + Len(a)] = b[i]  BY <1>1, <1>2
  <2> QED BY <2>1 DEF Entries
<1> QED BY <1>1, <1>3, <1>4, <1>5 DEF Entries

\* A flattened sequence has the entries of its parts.
FlattenRun(s, f, n) == f = [i \in 1..n |-> IF i = 1 THEN s[i] ELSE f[i - 1] \o s[i]]

LEMMA FlattenRuns == ASSUME NEW s, NEW N \in Nat PROVE \E f : FlattenRun(s, f, N)
<1> DEFINE T == {n \in Nat : \E f : FlattenRun(s, f, n)}
<1>1. 0 \in T
  <2> DEFINE none == [i \in 1..0 |-> s[i]]
  <2>1. FlattenRun(s, none, 0)  BY DEF FlattenRun
  <2> QED BY <2>1
<1>2. ASSUME NEW n \in Nat, n \in T PROVE n + 1 \in T
  <2>1. PICK f : FlattenRun(s, f, n)  BY <1>2
  <2> DEFINE more == [i \in 1..(n + 1) |-> IF i = 1 THEN s[i]
                                           ELSE IF i = n + 1 THEN f[n] \o s[i] ELSE f[i]]
  <2>2. \A i \in 1..n : f[i] = IF i = 1 THEN s[i] ELSE f[i - 1] \o s[i]  BY <2>1 DEF FlattenRun
  <2>3. \A i \in 1..n : more[i] = f[i]  BY <2>2
  <2>4. more[n + 1] = IF n = 0 THEN s[1] ELSE more[n] \o s[n + 1]
    <3>1. n + 1 \in 1..(n + 1) /\ (n = 0 <=> n + 1 = 1) /\ (n # 0 => n \in 1..n)  OBVIOUS
    <3>2. more[n + 1] = IF n + 1 = 1 THEN s[n + 1] ELSE f[n] \o s[n + 1]  BY <3>1
    <3> HIDE DEF more
    <3> QED BY <2>3, <3>1, <3>2
  <2>5. \A i \in 1..n : i # 1 => i - 1 \in 1..n  OBVIOUS
  <2> HIDE DEF more
  <2>6. \A i \in 1..(n + 1) : more[i] = IF i = 1 THEN s[i] ELSE more[i - 1] \o s[i]
    <3> TAKE i \in 1..(n + 1)
    <3>1. CASE i \in 1..n  BY <2>2, <2>3, <2>5, <3>1
    <3>2. CASE i = n + 1
      <4>1. n = 0 <=> i = 1  BY <3>2
      <4>2. i - 1 = n  BY <3>2
      <4> QED BY <2>4, <3>2, <4>1, <4>2
    <3> QED BY <3>1, <3>2
  <2>7. more = [i \in 1..(n + 1) |-> more[i]]  BY DEF more
  <2>8. FlattenRun(s, more, n + 1)  BY <2>6, <2>7 DEF FlattenRun
  <2> QED BY <2>8
<1>3. Nat \subseteq T
  <2> HIDE DEF T
  <2> QED BY <1>1, <1>2, SetInduction
<1> QED BY <1>3

LEMMA FlattenEntries ==
  ASSUME NEW S, NEW s \in Seq(Seq(S))
  PROVE  /\ Contracts!FlattenSeq(s) \in Seq(S)
         /\ \A i \in DOMAIN s : Entries(s[i]) \subseteq Entries(Contracts!FlattenSeq(s))
<1> DEFINE N == Len(s)
           f == CHOOSE g : FlattenRun(s, g, N)
<1>1. N \in Nat /\ DOMAIN s = 1..N /\ \A i \in 1..N : s[i] \in Seq(S)
  OBVIOUS
<1>2. CASE N = 0
  <2>1. s = <<>>  BY <1>1, <1>2
  <2>2. Contracts!FlattenSeq(s) = s  BY <1>2 DEF Contracts!FlattenSeq
  <2>3. s \in Seq(S) /\ DOMAIN s = {}  BY <2>1
  <2> QED BY <2>2, <2>3
<1>3. CASE N # 0
  <2>1. Contracts!FlattenSeq(s) = f[N]  BY <1>3 DEF Contracts!FlattenSeq, FlattenRun
  <2>2. FlattenRun(s, f, N)  BY <1>1, FlattenRuns
  <2>3. \A i \in 1..N : f[i] = IF i = 1 THEN s[i] ELSE f[i - 1] \o s[i]  BY <2>2 DEF FlattenRun
  <2> HIDE DEF f
  <2> DEFINE Holds(i) == f[i] \in Seq(S) /\ \A j \in 1..i : Entries(s[j]) \subseteq Entries(f[i])
             T == {n \in Nat : n + 1 <= N => Holds(n + 1)}
  <2>4. 0 \in T
    <3>1. f[1] = s[1] /\ 1 \in 1..N  BY <1>1, <1>3, <2>3
    <3>2. 1..1 = {1}  OBVIOUS
    <3>3. Holds(1)  BY <1>1, <3>1, <3>2
    <3>4. 0 + 1 = 1  OBVIOUS
    <3> HIDE DEF Holds
    <3>5. 0 + 1 <= N => Holds(0 + 1)  BY <3>3, <3>4
    <3> QED BY <3>5
  <2>5. ASSUME NEW n \in Nat, n \in T PROVE n + 1 \in T
    <3> SUFFICES ASSUME n + 1 + 1 <= N PROVE Holds(n + 1 + 1)
      OBVIOUS
    <3> DEFINE m == n + 1
    <3>1. m \in Nat /\ m + 1 \in 1..N /\ m + 1 # 1 /\ m + 1 - 1 = m /\ m <= N  BY <1>1
    <3>2. Holds(m)
      <4>1. n + 1 <= N  BY <1>1
      <4> HIDE DEF Holds
      <4> QED BY <2>5, <4>1
    <3>3. n + 1 + 1 = m + 1  OBVIOUS
    <3> HIDE DEF m
    <3>4. s[m + 1] \in Seq(S)  BY <1>1, <3>1
    <3>5. f[m + 1] = f[m] \o s[m + 1]
      <4> DEFINE k == m + 1
      <4>1. k \in 1..N /\ k # 1 /\ k - 1 = m  BY <3>1
      <4> HIDE DEF k
      <4>2. f[k] = f[k - 1] \o s[k]  BY ONLY <2>3, <4>1
      <4> QED BY <4>1, <4>2 DEF k
    <3>6. /\ f[m + 1] \in Seq(S)
          /\ Entries(f[m + 1]) = Entries(f[m]) \cup Entries(s[m + 1])
      BY <3>2, <3>4, <3>5, ConcatEntries
    <3>7. \A j \in 1..(m + 1) : j \in 1..m \/ j = m + 1  BY <3>1
    <3>8. Holds(m + 1)  BY <3>2, <3>6, <3>7
    <3> HIDE DEF Holds
    <3> QED BY <3>3, <3>8
  <2>6. Nat \subseteq T
    <3> HIDE DEF T
    <3> QED BY <2>4, <2>5, SetInduction
  <2>7. N - 1 \in Nat /\ N - 1 + 1 = N  BY <1>1, <1>3
  <2>8. Holds(N)
    <3>1. N - 1 \in T BY <2>6, <2>7
    <3> HIDE DEF Holds
    <3> QED BY <2>7, <3>1
  <2> QED BY <1>1, <2>1, <2>8
<1> QED BY <1>2, <1>3


-----------------------------------------------------------------------------
(* What the transactions log *)

SourceLogs == [kind: {"PrepareMessage"}, id: MessageIds, time: Times]
                \cup [kind: {"UnderpaidBatch", "RepayBatch"}, id: PayloadIds, time: Times]
                \cup [kind: {"SendPayload", "SendProof"}, id: PayloadIds, adapter: Adapters, time: Times]

DestinationLogs == [kind: {"ExecuteMessage", "FailMessage"}, id: MessageIds, time: Times]
                     \cup [kind: {"SetAdapters"}, id: DOMAIN AdapterSetOf, time: Times]
                     \cup [kind: {"HandlePayload", "HandleProof"}, id: PayloadIds, adapter: Adapters, time: Times]

At(L, time) == {e \in L : e.time = time}

\* A log of a chain is ordered by time, and no time is later than the last transaction.
Ordered(log, last) ==
  /\ \A i \in DOMAIN log : log[i].time <= last
  /\ \A i, j \in DOMAIN log : i <= j => log[i].time <= log[j].time

\* No transaction is on both chains.
Apart == \A i \in DOMAIN source, j \in DOMAIN destination : source[i].time # destination[j].time

Chained ==
  /\ now \in Times
  /\ source \in Seq(SourceLogs) /\ Ordered(source, now)
  /\ destination \in Seq(DestinationLogs) /\ Ordered(destination, now)
  /\ Apart

\* A transaction logs on one chain.
Extends(logs, more, L, time) == \E block \in Seq(At(L, time)) : more = logs \o block

LEMMA PrepareLogsType ==
  ASSUME now' \in Times, NEW p \in PayloadIds
  PROVE  Contracts!PrepareLogs(p) \in Seq(At(SourceLogs, now'))
<1>1. Batch[p] \in Seq(MessageIds)  BY BatchType
<1> DEFINE log(i) == [kind |-> "PrepareMessage", id |-> Batch[p][i], time |-> now']
<1>2. Contracts!PrepareLogs(p) = [i \in 1..Len(Batch[p]) |-> log(i)]
  BY <1>1 DEF Contracts!PrepareLogs, Contracts!Log
<1>3. \A i \in 1..Len(Batch[p]) : log(i) \in At(SourceLogs, now')
  BY <1>1 DEF At, SourceLogs
<1> HIDE DEF log
<1> QED BY <1>1, <1>2, <1>3

LEMMA SendLogsType ==
  ASSUME now' \in Times, NEW p \in PayloadIds
  PROVE  Contracts!SendLogs(p) \in Seq(At(SourceLogs, now'))
<1>1. AdapterOrder \in Seq(Adapters)  BY AdapterOrderType
<1> DEFINE log(i) == [kind |-> Contracts!SendKind(i), id |-> p, adapter |-> AdapterOrder[i], time |-> now']
<1>2. Contracts!SendLogs(p) = [i \in 1..Len(AdapterOrder) |-> log(i)]
  BY <1>1 DEF Contracts!SendLogs, Contracts!AdapterLog
<1>3. \A i \in 1..Len(AdapterOrder) : log(i) \in At(SourceLogs, now')
  BY <1>1 DEF At, SourceLogs, Contracts!SendKind
<1> HIDE DEF log
<1> QED BY <1>1, <1>2, <1>3

LEMMA HandleLogType ==
  ASSUME now' \in Times, NEW p \in PayloadIds, NEW i \in DOMAIN AdapterOrder
  PROVE  Contracts!HandleLog(p, i) \in At(DestinationLogs, now')
<1>1. AdapterOrder[i] \in Adapters  BY AdapterOrderType
<1> QED BY <1>1 DEF Contracts!HandleLog, Contracts!HandleKind, Contracts!AdapterLog, At, DestinationLogs

LEMMA ExecutionLogsType ==
  ASSUME now' \in Times, NEW m \in MessageIds
  PROVE  /\ Contracts!ExecutionLogs(m) \in Seq(At(DestinationLogs, now'))
         /\ m \in DOMAIN AdapterSetOf =>
              [kind |-> "SetAdapters", id |-> m, time |-> now'] \in Entries(Contracts!ExecutionLogs(m))
<1> DEFINE set == [kind |-> "SetAdapters", id |-> m, time |-> now']
           execute == [kind |-> "ExecuteMessage", id |-> m, time |-> now']
           L == At(DestinationLogs, now')
<1>1. execute \in L /\ (m \in DOMAIN AdapterSetOf => set \in L)  BY DEF At, DestinationLogs
<1>2. Contracts!ExecutionLogs(m) = (IF m \in DOMAIN AdapterSetOf THEN <<set>> ELSE <<>>) \o <<execute>>
  BY DEF Contracts!ExecutionLogs, Contracts!Log
<1> HIDE DEF set, execute, L
<1>3. <<execute>> \in Seq(L) /\ <<>> \in Seq(L) /\ (m \in DOMAIN AdapterSetOf => <<set>> \in Seq(L))
  BY <1>1
<1>4. set \in Entries(<<set>>)  BY DEF Entries
<1>5. CASE m \in DOMAIN AdapterSetOf
  <2>1. Contracts!ExecutionLogs(m) = <<set>> \o <<execute>>  BY <1>2, <1>5
  <2>2. <<set>> \in Seq(L)  BY <1>3, <1>5
  <2>3. <<set>> \o <<execute>> \in Seq(L)
        /\ Entries(<<set>> \o <<execute>>) = Entries(<<set>>) \cup Entries(<<execute>>)
    BY ONLY <1>3, <2>2, ConcatEntries
  <2>4. Contracts!ExecutionLogs(m) \in Seq(L) /\ set \in Entries(Contracts!ExecutionLogs(m))
    BY <1>4, <2>1, <2>3, Zenon
  <2> QED BY <2>4 DEF set, L
<1>6. CASE m \notin DOMAIN AdapterSetOf
  <2>1. Contracts!ExecutionLogs(m) = <<>> \o <<execute>>  BY <1>2, <1>6
  <2>2. Contracts!ExecutionLogs(m) \in Seq(L)  BY <1>3, <2>1, ConcatEntries
  <2> QED BY <1>6, <2>2 DEF L
<1> QED BY <1>5, <1>6

\* The logs of a batch that runs: the executions of the positions that do not fail.
LEMMA BatchLogsType ==
  ASSUME now' \in Times, NEW p \in PayloadIds, NEW failing \in SUBSET DOMAIN Batch[p]
  PROVE  LET outcome(j) == IF j \in failing THEN <<Contracts!Log("FailMessage", Batch[p][j])>>
                           ELSE Contracts!ExecutionLogs(Batch[p][j])
             logs == Contracts!FlattenSeq([j \in DOMAIN Batch[p] |-> outcome(j)])
         IN  /\ logs \in Seq(At(DestinationLogs, now'))
             /\ \A m \in MessagesOf(p) \cap DOMAIN AdapterSetOf :
                  \/ \E j \in failing : Batch[p][j] = m
                  \/ [kind |-> "SetAdapters", id |-> m, time |-> now'] \in Entries(logs)
<1> DEFINE outcome(j) == IF j \in failing THEN <<Contracts!Log("FailMessage", Batch[p][j])>>
                         ELSE Contracts!ExecutionLogs(Batch[p][j])
           parts == [j \in DOMAIN Batch[p] |-> outcome(j)]
           logs == Contracts!FlattenSeq(parts)
           L == At(DestinationLogs, now')
<1>1. Batch[p] \in Seq(MessageIds)  BY BatchType
<1>2. ASSUME NEW j \in DOMAIN Batch[p] PROVE outcome(j) \in Seq(L)
  <2>1. Batch[p][j] \in MessageIds  BY <1>1
  <2>2. Contracts!Log("FailMessage", Batch[p][j]) \in L
    BY <2>1 DEF Contracts!Log, At, DestinationLogs
  <2>3. Contracts!ExecutionLogs(Batch[p][j]) \in Seq(L)  BY <2>1, ExecutionLogsType
  <2> HIDE DEF L
  <2> QED BY <2>2, <2>3
<1>3. parts \in Seq(Seq(L))
  <2> HIDE DEF outcome, L
  <2>1. DOMAIN Batch[p] = 1..Len(Batch[p]) /\ Len(Batch[p]) \in Nat  BY <1>1
  <2> QED BY <1>2, <2>1
<1>4. logs \in Seq(L) /\ \A j \in DOMAIN parts : Entries(parts[j]) \subseteq Entries(logs)
  <2> HIDE DEF parts, L
  <2> QED BY <1>3, FlattenEntries
<1>5. ASSUME NEW m \in MessagesOf(p) \cap DOMAIN AdapterSetOf, ~ \E j \in failing : Batch[p][j] = m
      PROVE  [kind |-> "SetAdapters", id |-> m, time |-> now'] \in Entries(logs)
  <2>1. PICK j \in DOMAIN Batch[p] : Batch[p][j] = m  BY DEF MessagesOf
  <2>2. j \notin failing  BY <1>5, <2>1
  <2>3. parts[j] = Contracts!ExecutionLogs(m) /\ j \in DOMAIN parts  BY <2>1, <2>2
  <2>4. m \in MessageIds  BY <1>1, <2>1
  <2> HIDE DEF parts, logs
  <2> QED BY <1>4, <2>3, <2>4, ExecutionLogsType
<1> QED BY <1>4, <1>5

-----------------------------------------------------------------------------
(* The chains *)

LEMMA BlockExtends ==
  ASSUME NEW L, \A e \in L : e.time \in Nat,
         NEW logs \in Seq(L), NEW last \in Nat, NEW time \in Nat, last < time, Ordered(logs, last),
         NEW more, Extends(logs, more, L, time)
  PROVE  /\ more \in Seq(L) /\ Len(more) >= Len(logs)
         /\ Ordered(more, time)
         /\ \A i \in DOMAIN logs : i \in DOMAIN more /\ more[i] = logs[i]
         /\ \A i \in DOMAIN more : i \notin DOMAIN logs => i > Len(logs) /\ more[i].time = time
<1>1. PICK block \in Seq(At(L, time)) : more = logs \o block  BY DEF Extends
<1>2. At(L, time) \subseteq L  BY DEF At
<1>3. block \in Seq(L) /\ \A i \in DOMAIN block : block[i].time = time
  <2>1. \A i \in DOMAIN block : block[i] \in At(L, time)  BY <1>1
  <2>2. \A i \in DOMAIN block : block[i] \in L /\ block[i].time = time  BY <2>1 DEF At
  <2>3. Len(block) \in Nat /\ DOMAIN block = 1..Len(block) /\ block = [i \in 1..Len(block) |-> block[i]]
    BY <1>1
  <2>4. block \in [1..Len(block) -> L]  BY ONLY <2>2, <2>3
  <2> QED BY <2>2, <2>3, <2>4
<1>4. /\ more \in Seq(L) /\ Len(more) = Len(logs) + Len(block)
      /\ \A i \in 1..Len(logs) + Len(block) :
           more[i] = IF i <= Len(logs) THEN logs[i] ELSE block[i - Len(logs)]
  BY <1>1, <1>3, ConcatProperties
<1>5. /\ DOMAIN more = 1..Len(logs) + Len(block) /\ DOMAIN logs = 1..Len(logs)
      /\ DOMAIN block = 1..Len(block) /\ Len(logs) \in Nat /\ Len(block) \in Nat
  BY <1>3, <1>4
<1>6. \A i \in DOMAIN logs : i \in DOMAIN more /\ more[i] = logs[i]  BY <1>4, <1>5
<1>7. ASSUME NEW i \in DOMAIN more, i \notin DOMAIN logs
      PROVE  i > Len(logs) /\ more[i].time = time
  <2>1. i > Len(logs) /\ i - Len(logs) \in DOMAIN block  BY <1>5, <1>7
  <2>2. more[i] = block[i - Len(logs)]  BY <1>4, <1>5, <2>1
  <2> QED BY <1>3, <2>1, <2>2
<1>8. \A i \in DOMAIN logs : logs[i].time \in Nat /\ logs[i].time <= last  BY DEF Ordered
<1>9. Ordered(more, time)
  <2>1. \A i \in DOMAIN more : more[i].time \in Nat /\ more[i].time <= time
    BY <1>6, <1>7, <1>8
  <2>2. ASSUME NEW i \in DOMAIN more, NEW j \in DOMAIN more, i <= j PROVE more[i].time <= more[j].time
    <3>1. CASE j \notin DOMAIN logs  BY <1>7, <2>1, <3>1
    <3>2. CASE j \in DOMAIN logs
      <4>1. i \in DOMAIN logs  BY <1>5, <2>2, <3>2
      <4> QED BY <1>6, <2>2, <3>2, <4>1 DEF Ordered
    <3> QED BY <3>1, <3>2
  <2> QED BY <2>1, <2>2 DEF Ordered
<1> QED BY <1>4, <1>5, <1>6, <1>7, <1>9

\* What a transaction does to the chains.
OnOneChain ==
  /\ now' = now + 1
  /\ \/ Extends(source, source', SourceLogs, now') /\ destination' = destination
     \/ Extends(destination, destination', DestinationLogs, now') /\ source' = source

LEMMA Appends ==
  ASSUME NEW L, NEW logs, NEW a \in Seq(L), NEW b \in Seq(L)
  PROVE  a \o b \in Seq(L)
BY ConcatProperties

LEMMA TransactionsExtend == Chained /\ Contracts!ContractsNext => OnOneChain
<1> SUFFICES ASSUME Chained, Contracts!ContractsNext PROVE OnOneChain  OBVIOUS
<1> DEFINE S == At(SourceLogs, now')
           D == At(DestinationLogs, now')
<1>1. \A t \in Times : t + 1 \in Times  BY DEF Times
<1>2. now \in Times  BY DEF Chained
<1>3. ASSUME NEW logs \in Seq(S), Contracts!Transaction, Contracts!OnSource(logs) PROVE OnOneChain
  BY <1>3 DEF Contracts!Transaction, Contracts!OnSource, OnOneChain, Extends
<1>4. ASSUME NEW logs \in Seq(D), Contracts!Transaction, Contracts!OnDestination(logs) PROVE OnOneChain
  BY <1>4 DEF Contracts!Transaction, Contracts!OnDestination, OnOneChain, Extends
<1>5. Contracts!Transaction => now' \in Times  BY <1>1, <1>2 DEF Contracts!Transaction
<1>6. ASSUME now' \in Times, NEW p \in PayloadIds
      PROVE  <<Contracts!Log("UnderpaidBatch", p)>> \in Seq(S) /\ <<Contracts!Log("RepayBatch", p)>> \in Seq(S)
  <2>1. Contracts!Log("UnderpaidBatch", p) \in S /\ Contracts!Log("RepayBatch", p) \in S
    BY <1>6 DEF Contracts!Log, At, SourceLogs
  <2> HIDE DEF S
  <2> QED BY <2>1
<1> HIDE DEF S, D
<1>7. ASSUME NEW p \in PayloadIds, Contracts!Send(p) PROVE OnOneChain
  <2>1. /\ Contracts!Transaction
        /\ Contracts!OnSource(Contracts!PrepareLogs(p) \o Contracts!SendLogs(p))
    BY <1>7 DEF Contracts!Send
  <2>2. Contracts!PrepareLogs(p) \in Seq(S) /\ Contracts!SendLogs(p) \in Seq(S)
    BY <1>5, <2>1, PrepareLogsType, SendLogsType DEF S
  <2> QED BY <1>3, <2>1, <2>2, Appends
<1>8. ASSUME NEW p \in PayloadIds, Contracts!SendUnderpaid(p) PROVE OnOneChain
  <2>1. /\ Contracts!Transaction
        /\ Contracts!OnSource(Contracts!PrepareLogs(p) \o <<Contracts!Log("UnderpaidBatch", p)>>)
    BY <1>8 DEF Contracts!SendUnderpaid
  <2>2. Contracts!PrepareLogs(p) \in Seq(S)  BY <1>5, <2>1, PrepareLogsType DEF S
  <2> QED BY <1>3, <1>5, <1>6, <2>1, <2>2, Appends
<1>9. ASSUME NEW p \in PayloadIds, Contracts!AddUnpaidMessage(p) PROVE OnOneChain
  <2>1. /\ Contracts!Transaction
        /\ Contracts!OnSource(<<Contracts!Log("UnderpaidBatch", p)>>)
    BY <1>9 DEF Contracts!AddUnpaidMessage
  <2> QED BY <1>3, <1>5, <1>6, <2>1
<1>10. ASSUME NEW p \in PayloadIds, Contracts!Repay(p) PROVE OnOneChain
  <2>1. /\ Contracts!Transaction
        /\ Contracts!OnSource(Contracts!SendLogs(p) \o <<Contracts!Log("RepayBatch", p)>>)
    BY <1>10 DEF Contracts!Repay
  <2>2. Contracts!SendLogs(p) \in Seq(S)  BY <1>5, <2>1, SendLogsType DEF S
  <2> QED BY <1>3, <1>5, <1>6, <2>1, <2>2, Appends
<1>11. ASSUME NEW p \in PayloadIds, NEW i \in DOMAIN AdapterOrder, Contracts!Vote(p, i)
       PROVE  OnOneChain
  <2>1. Contracts!Transaction /\ Contracts!OnDestination(<<Contracts!HandleLog(p, i)>>)
    BY <1>11 DEF Contracts!Vote
  <2>2. Contracts!HandleLog(p, i) \in D  BY <1>5, <2>1, HandleLogType DEF D
  <2>3. <<Contracts!HandleLog(p, i)>> \in Seq(D)  BY <2>2
  <2> QED BY <1>4, <2>1, <2>3
<1>12. ASSUME NEW p \in PayloadIds, NEW i \in DOMAIN AdapterOrder,
              NEW failing \in SUBSET DOMAIN Batch[p], Contracts!Deliver(p, i, failing)
       PROVE  OnOneChain
  <2> DEFINE outcome(j) == IF j \in failing THEN <<Contracts!Log("FailMessage", Batch[p][j])>>
                           ELSE Contracts!ExecutionLogs(Batch[p][j])
             logs == Contracts!FlattenSeq([j \in DOMAIN Batch[p] |-> outcome(j)])
  <2>1. Contracts!Transaction /\ Contracts!OnDestination(<<Contracts!HandleLog(p, i)>> \o logs)
    BY <1>12 DEF Contracts!Deliver
  <2>2. logs \in Seq(D)  BY <1>5, <2>1, BatchLogsType DEF D
  <2> HIDE DEF logs
  <2>3. Contracts!HandleLog(p, i) \in D  BY <1>5, <2>1, HandleLogType DEF D
  <2>4. <<Contracts!HandleLog(p, i)>> \in Seq(D)  BY <2>3
  <2> QED BY <1>4, <2>1, <2>2, <2>4, Appends
<1>13. ASSUME NEW m \in MessageIds, Contracts!Retry(m) PROVE OnOneChain
  <2>1. Contracts!Transaction /\ Contracts!OnDestination(Contracts!ExecutionLogs(m))
    BY <1>13 DEF Contracts!Retry
  <2>2. Contracts!ExecutionLogs(m) \in Seq(D)  BY <1>5, <2>1, ExecutionLogsType DEF D
  <2> QED BY <1>4, <2>1, <2>2
<1> QED BY <1>7, <1>8, <1>9, <1>10, <1>11, <1>12, <1>13 DEF Contracts!ContractsNext

LEMMA InitChained == SystemInit => Chained
<1> SUFFICES ASSUME SystemInit PROVE Chained  OBVIOUS
<1>1. now = 1 /\ source = <<>> /\ destination = <<>>
  BY DEF SystemInit, Contracts!ContractsInit
<1>2. DOMAIN source = {} /\ DOMAIN destination = {}  BY <1>1
<1> QED BY <1>1, <1>2 DEF Chained, Ordered, Apart, Times

LEMMA TransactChained == Chained /\ OnOneChain => Chained'
<1> SUFFICES ASSUME Chained, OnOneChain PROVE Chained'  OBVIOUS
<1>1. now \in Nat /\ now' \in Nat /\ now < now' /\ now' \in Times
  BY DEF Chained, OnOneChain, Times
<1>2. (\A e \in SourceLogs : e.time \in Nat) /\ (\A e \in DestinationLogs : e.time \in Nat)
  BY DEF SourceLogs, DestinationLogs, Times
<1>3. CASE Extends(source, source', SourceLogs, now') /\ destination' = destination
  <2>1. /\ source' \in Seq(SourceLogs) /\ Ordered(source', now')
        /\ \A i \in DOMAIN source : i \in DOMAIN source' /\ source'[i] = source[i]
        /\ \A i \in DOMAIN source' : i \notin DOMAIN source => source'[i].time = now'
    BY <1>1, <1>2, <1>3, BlockExtends DEF Chained
  <2>2. \A j \in DOMAIN destination : destination[j].time \in Nat /\ destination[j].time <= now
    BY <1>2 DEF Chained, Ordered
  <2>3. Ordered(destination, now')  BY <1>1, <2>2 DEF Chained, Ordered
  <2>4. Apart'  BY <1>1, <1>3, <2>1, <2>2 DEF Chained, Apart
  <2> QED BY <1>1, <1>3, <2>1, <2>3, <2>4 DEF Chained, Ordered
<1>4. CASE Extends(destination, destination', DestinationLogs, now') /\ source' = source
  <2>1. /\ destination' \in Seq(DestinationLogs) /\ Ordered(destination', now')
        /\ \A i \in DOMAIN destination : i \in DOMAIN destination' /\ destination'[i] = destination[i]
        /\ \A i \in DOMAIN destination' : i \notin DOMAIN destination => destination'[i].time = now'
    BY <1>1, <1>2, <1>4, BlockExtends DEF Chained
  <2>2. \A j \in DOMAIN source : source[j].time \in Nat /\ source[j].time <= now
    BY <1>2 DEF Chained, Ordered
  <2>3. Ordered(source, now')  BY <1>1, <2>2 DEF Chained, Ordered
  <2>4. Apart'  BY <1>1, <1>4, <2>1, <2>2 DEF Chained, Apart
  <2> QED BY <1>1, <1>4, <2>1, <2>3, <2>4 DEF Chained, Ordered
<1> QED BY <1>3, <1>4 DEF OnOneChain

-----------------------------------------------------------------------------
(* The indexer on the chains *)

\* The indexer is somewhere on both chains, each clock at the last log it read.
Located ==
  /\ started \in BOOLEAN
  /\ indexed \in [Chains -> Nat] /\ clock \in [Chains -> Times]
  /\ indexed["source"] <= Len(source) /\ indexed["destination"] <= Len(destination)
  /\ ~started => indexed["source"] = 0 /\ indexed["destination"] = 0
  /\ clock["source"] = IF indexed["source"] = 0 THEN 1 ELSE source[indexed["source"]].time
  /\ clock["destination"] = IF indexed["destination"] = 0 THEN 1
                            ELSE destination[indexed["destination"]].time

Placed == Chained /\ Located

\* The log a read is about.
NextSource == source[indexed["source"] + 1]
NextDestination == destination[indexed["destination"] + 1]

LEMMA SourceRead ==
  ASSUME Placed, NEW live \in BOOLEAN, IndexSource(live)
  PROVE  /\ indexed["source"] + 1 \in DOMAIN source /\ NextSource \in SourceLogs
         /\ started /\ GoesFirst("source", "destination")
         /\ indexed' = [indexed EXCEPT !["source"] = @ + 1]
         /\ clock' = [clock EXCEPT !["source"] = NextSource.time]
         /\ UNCHANGED <<contractVars, started, executions>>
         /\ \/ NextSource.kind = "PrepareMessage" /\ NextSource.id \in MessageIds
               /\ PrepareMessage(NextSource.id, NextSource.time, live)
            \/ NextSource.kind = "UnderpaidBatch" /\ NextSource.id \in PayloadIds
               /\ UnderpaidBatch(NextSource.id, NextSource.time)
            \/ NextSource.kind = "RepayBatch" /\ NextSource.id \in PayloadIds
               /\ RepayBatch(NextSource.id, NextSource.time)
            \/ NextSource.kind = "SendPayload" /\ NextSource.id \in PayloadIds /\ NextSource.adapter \in Adapters
               /\ SendPayload(NextSource.id, NextSource.adapter, NextSource.time)
            \/ NextSource.kind = "SendProof" /\ NextSource.id \in PayloadIds /\ NextSource.adapter \in Adapters
               /\ SendProof(NextSource.id, NextSource.adapter, NextSource.time)
         /\ NextSource.time \in Times /\ Step(NextSource.time)
<1>1. /\ started /\ indexed["source"] < Len(source) /\ GoesFirst("source", "destination")
      /\ indexed' = [indexed EXCEPT !["source"] = @ + 1]
  BY DEF IndexSource, ReadSource, Reads, LogOf
<1>2. source \in Seq(SourceLogs) /\ indexed["source"] \in Nat
  BY DEF Placed, Chained, Located, Chains
<1>3. indexed["source"] + 1 \in DOMAIN source  BY <1>1, <1>2
<1>4. NextSource \in SourceLogs  BY <1>2, <1>3 DEF NextSource
<1>5. /\ NextSource.time \in Times
      /\ NextSource.kind = "PrepareMessage" => NextSource.id \in MessageIds
      /\ NextSource.kind \in {"UnderpaidBatch", "RepayBatch"} => NextSource.id \in PayloadIds
      /\ NextSource.kind \in {"SendPayload", "SendProof"}
           => NextSource.id \in PayloadIds /\ NextSource.adapter \in Adapters
  BY <1>4 DEF SourceLogs
<1>6. UNCHANGED <<contractVars, started>>  BY DEF IndexSource
<1>7. \/ NextSource.kind = "PrepareMessage" /\ PrepareMessage(NextSource.id, NextSource.time, live)
      \/ NextSource.kind = "UnderpaidBatch" /\ UnderpaidBatch(NextSource.id, NextSource.time)
      \/ NextSource.kind = "RepayBatch" /\ RepayBatch(NextSource.id, NextSource.time)
      \/ NextSource.kind = "SendPayload" /\ SendPayload(NextSource.id, NextSource.adapter, NextSource.time)
      \/ NextSource.kind = "SendProof" /\ SendProof(NextSource.id, NextSource.adapter, NextSource.time)
  BY DEF IndexSource, NextSource
<1>8. clock' = [clock EXCEPT !["source"] = NextSource.time] /\ executions' = executions
  BY <1>7 DEF PrepareMessage, UnderpaidBatch, RepayBatch, SendPayload, SendProof, Indexes
<1>9. Step(NextSource.time)  BY <1>5, <1>7 DEF Step
<1> QED BY <1>1, <1>3, <1>4, <1>5, <1>6, <1>7, <1>8, <1>9

LEMMA DestinationRead ==
  ASSUME Placed, IndexDestination
  PROVE  /\ indexed["destination"] + 1 \in DOMAIN destination /\ NextDestination \in DestinationLogs
         /\ started /\ GoesFirst("destination", "source")
         /\ indexed' = [indexed EXCEPT !["destination"] = @ + 1]
         /\ clock' = [clock EXCEPT !["destination"] = NextDestination.time]
         /\ UNCHANGED <<contractVars, started>>
         /\ \/ NextDestination.kind = "ExecuteMessage" /\ NextDestination.id \in MessageIds
               /\ ExecuteMessage(NextDestination.id, NextDestination.time)
            \/ NextDestination.kind = "FailMessage" /\ NextDestination.id \in MessageIds
               /\ FailMessage(NextDestination.id, NextDestination.time)
            \/ NextDestination.kind = "HandlePayload"
               /\ NextDestination.id \in PayloadIds /\ NextDestination.adapter \in Adapters
               /\ HandlePayload(NextDestination.id, NextDestination.adapter, NextDestination.time)
            \/ NextDestination.kind = "HandleProof"
               /\ NextDestination.id \in PayloadIds /\ NextDestination.adapter \in Adapters
               /\ HandleProof(NextDestination.id, NextDestination.adapter, NextDestination.time)
            \/ NextDestination.kind = "SetAdapters" /\ NextDestination.id \in DOMAIN AdapterSetOf
               /\ SetAdapters(PoolOf[NextDestination.id], AdapterSetOf[NextDestination.id],
                              NextDestination.time)
         /\ NextDestination.time \in Times /\ Step(NextDestination.time)
<1>1. /\ started /\ indexed["destination"] < Len(destination) /\ GoesFirst("destination", "source")
      /\ indexed' = [indexed EXCEPT !["destination"] = @ + 1]
  BY DEF IndexDestination, ReadDestination, Reads, LogOf
<1>2. destination \in Seq(DestinationLogs) /\ indexed["destination"] \in Nat
  BY DEF Placed, Chained, Located, Chains
<1>3. indexed["destination"] + 1 \in DOMAIN destination  BY <1>1, <1>2
<1>4. NextDestination \in DestinationLogs  BY <1>2, <1>3 DEF NextDestination
<1>5. /\ NextDestination.time \in Times
      /\ NextDestination.kind \in {"ExecuteMessage", "FailMessage"} => NextDestination.id \in MessageIds
      /\ NextDestination.kind = "SetAdapters" => NextDestination.id \in DOMAIN AdapterSetOf
      /\ NextDestination.kind \in {"HandlePayload", "HandleProof"}
           => NextDestination.id \in PayloadIds /\ NextDestination.adapter \in Adapters
  BY <1>4 DEF DestinationLogs
<1>6. UNCHANGED <<contractVars, started>>  BY DEF IndexDestination
<1>7. \/ /\ NextDestination.kind = "ExecuteMessage"
         /\ ExecuteMessage(NextDestination.id, NextDestination.time)
      \/ /\ NextDestination.kind = "FailMessage"
         /\ FailMessage(NextDestination.id, NextDestination.time)
      \/ /\ NextDestination.kind = "HandlePayload"
         /\ HandlePayload(NextDestination.id, NextDestination.adapter, NextDestination.time)
      \/ /\ NextDestination.kind = "HandleProof"
         /\ HandleProof(NextDestination.id, NextDestination.adapter, NextDestination.time)
      \/ /\ NextDestination.kind = "SetAdapters"
         /\ SetAdapters(PoolOf[NextDestination.id], AdapterSetOf[NextDestination.id], NextDestination.time)
  BY DEF IndexDestination, NextDestination
<1>8. clock' = [clock EXCEPT !["destination"] = NextDestination.time]
  BY <1>7 DEF ExecuteMessage, FailMessage, HandlePayload, HandleProof, SetAdapters, Indexes
<1>9. Step(NextDestination.time)
  <2>1. NextDestination.kind = "SetAdapters" =>
          /\ PoolOf[NextDestination.id] \in Pools
          /\ AdapterSetOf[NextDestination.id] \in SUBSET Adapters
    BY <1>5, PoolOfType, AdapterSetOfType
  <2> QED BY <1>5, <1>7, <2>1 DEF Step
<1> QED BY <1>1, <1>3, <1>4, <1>5, <1>6, <1>7, <1>8, <1>9

LEMMA InitLocated == SystemInit => Located
<1> SUFFICES ASSUME SystemInit PROVE Located  OBVIOUS
<1>1. source = <<>> /\ destination = <<>> /\ started = FALSE /\ Init
  BY DEF SystemInit, Contracts!ContractsInit
<1>2. /\ indexed \in [Chains -> Nat] /\ clock \in [Chains -> Times]
      /\ \A c \in Chains : indexed[c] = 0 /\ clock[c] = 1
  BY <1>1 DEF Init, Times
<1>3. Len(source) = 0 /\ Len(destination) = 0  BY <1>1
<1>4. /\ indexed["source"] = 0 /\ indexed["destination"] = 0
      /\ clock["source"] = 1 /\ clock["destination"] = 1
  BY <1>2 DEF Chains
<1>5. started \in BOOLEAN  BY <1>1
<1>6. 0 <= Len(source) /\ 0 <= Len(destination)  BY <1>3
<1> QED BY ONLY <1>2, <1>4, <1>5, <1>6 DEF Located

LEMMA StepsPlaced == Placed /\ [SystemNext]_systemVars => Placed'
<1> SUFFICES ASSUME Placed, [SystemNext]_systemVars PROVE Placed'  OBVIOUS
<1> USE DEF Placed
<1>1. CASE Transact
  <2>1. Contracts!ContractsNext /\ ~started /\ UNCHANGED <<started, vars>>  BY <1>1 DEF Transact
  <2>2. OnOneChain  BY <2>1, TransactionsExtend
  <2>3. Chained'  BY <2>2, TransactChained
  <2>4. Len(source') \in Nat /\ Len(destination') \in Nat  BY <2>3 DEF Chained
  <2> QED BY <2>1, <2>3, <2>4 DEF Located, vars
<1>2. CASE Start
  BY <1>2 DEF Start, contractVars, vars, Chained, Apart, Located
<1>3. CASE \E live \in BOOLEAN : IndexSource(live)
  <2>1. PICK live \in BOOLEAN : IndexSource(live)  BY <1>3
  <2>2. /\ indexed["source"] + 1 \in DOMAIN source /\ NextSource.time \in Times /\ started
        /\ indexed' = [indexed EXCEPT !["source"] = @ + 1]
        /\ clock' = [clock EXCEPT !["source"] = NextSource.time]
        /\ UNCHANGED <<contractVars, started>>
    BY <2>1, SourceRead
  <2>3. Chained'  BY <2>2 DEF Chained, Apart, contractVars
  <2>4. Located'
    <3>1. Len(source) \in Nat /\ DOMAIN source = 1..Len(source)  BY DEF Chained
    <3>2. /\ indexed'["source"] = indexed["source"] + 1 /\ indexed'["destination"] = indexed["destination"]
          /\ clock'["source"] = NextSource.time /\ clock'["destination"] = clock["destination"]
          /\ indexed' \in [Chains -> Nat] /\ clock' \in [Chains -> Times]
      BY <2>2 DEF Located, Chains
    <3> QED BY <2>2, <3>1, <3>2 DEF Located, NextSource, contractVars, Chains
  <2> QED BY <2>3, <2>4
<1>4. CASE IndexDestination
  <2>2. /\ indexed["destination"] + 1 \in DOMAIN destination /\ NextDestination.time \in Times /\ started
        /\ indexed' = [indexed EXCEPT !["destination"] = @ + 1]
        /\ clock' = [clock EXCEPT !["destination"] = NextDestination.time]
        /\ UNCHANGED <<contractVars, started>>
    BY <1>4, DestinationRead
  <2>3. Chained'  BY <2>2 DEF Chained, Apart, contractVars
  <2>4. Located'
    <3>1. Len(destination) \in Nat /\ DOMAIN destination = 1..Len(destination)  BY DEF Chained
    <3>2. /\ indexed'["destination"] = indexed["destination"] + 1 /\ indexed'["source"] = indexed["source"]
          /\ clock'["destination"] = NextDestination.time /\ clock'["source"] = clock["source"]
          /\ indexed' \in [Chains -> Nat] /\ clock' \in [Chains -> Times]
      BY <2>2 DEF Located, Chains
    <3> QED BY <2>2, <3>1, <3>2 DEF Located, NextDestination, contractVars, Chains
  <2> QED BY <2>3, <2>4
<1>5. CASE UNCHANGED systemVars
  BY <1>5 DEF systemVars, contractVars, vars, Chained, Apart, Located
<1> QED BY <1>1, <1>2, <1>3, <1>4, <1>5 DEF SystemNext

LEMMA AlwaysPlaced == SystemSpec => []Placed
<1>1. SystemInit => Placed  BY InitChained, InitLocated DEF Placed
<1> QED BY <1>1, StepsPlaced, PTL DEF SystemSpec

\* Every step of the composition is a step of the indexer or none of it.
THEOREM ImplementsIndexer == SystemSpec => Spec
<1>1. SystemInit => Init  BY DEF SystemInit
<1>2. Placed /\ [SystemNext]_systemVars => [Next]_vars
  <2> SUFFICES ASSUME Placed, [SystemNext]_systemVars PROVE [Next]_vars  OBVIOUS
  <2>1. CASE Transact  BY <2>1 DEF Transact
  <2>2. CASE Start  BY <2>2 DEF Start
  <2>3. ASSUME NEW live \in BOOLEAN, IndexSource(live) PROVE [Next]_vars
    <3>1. NextSource.time \in Times /\ Step(NextSource.time)  BY <2>3, SourceRead
    <3> QED BY <3>1 DEF Next
  <2>4. CASE IndexDestination
    <3>1. NextDestination.time \in Times /\ Step(NextDestination.time)  BY <2>4, DestinationRead
    <3> QED BY <3>1 DEF Next
  <2>5. CASE UNCHANGED systemVars  BY <2>5 DEF systemVars
  <2> QED BY <2>1, <2>2, <2>3, <2>4, <2>5 DEF SystemNext
<1> QED BY <1>1, <1>2, AlwaysPlaced, PTL DEF SystemSpec, Spec

\* So what the indexer keeps on any logs, it keeps on those of the contracts.
THEOREM IndexerGuarantees ==
  SystemSpec => /\ [](TypeOK /\ StatusMatchesFacts /\ HandledRowsWereSent /\ CompletedRowsWereCarried)
                /\ [](ExecutionsConserved /\ NoHandleLeftBehind)
                /\ FactsAreFinal /\ CompletesWhenExecuted /\ ImplementsLifecycle
BY ImplementsIndexer, TypeCorrect, StatusAlwaysMatches, HandlesFollowSends, CompletionIsCarried,
   NoExecutionIsLost, NoHandleIsForgotten, FactsStay, CompletionIsExecuted, LifecycleImplemented, PTL

-----------------------------------------------------------------------------
(* Executions: the indexer has seen those the destination logged *)

LEMMA SameSize ==
  ASSUME NEW S, NEW T, IsFiniteSet(T), NEW f \in [S -> T],
         \A a, b \in S : f[a] = f[b] => a = b, \A t \in T : \E s \in S : f[s] = t
  PROVE  Cardinality(S) = Cardinality(T)
<1>1. f \in Bijection(S, T)  BY Fun_IsBij
<1>2. ExistsBijection(T, S)  BY <1>1, Fun_ExistsBij, Fun_ExistsBijSymmetric
<1> QED BY <1>2, FS_Bijection

ExecutionAt(i) == [pos |-> i, time |-> destination[i].time, status |-> "execute", id |-> destination[i].id]

ExecutionsRead ==
  executions = {ExecutionAt(i) : i \in {j \in 1..indexed["destination"] : destination[j].kind = "ExecuteMessage"}}

LEMMA InitExecutionsRead == SystemInit => ExecutionsRead
<1> SUFFICES ASSUME SystemInit PROVE ExecutionsRead  OBVIOUS
<1>1. executions = {} /\ indexed["destination"] = 0  BY DEF SystemInit, Init, Chains
<1>2. 1..0 = {}  OBVIOUS
<1> QED BY <1>1, <1>2 DEF ExecutionsRead

LEMMA StepsReadExecutions == Placed /\ ExecutionsRead /\ [SystemNext]_systemVars => ExecutionsRead'
<1> SUFFICES ASSUME Placed, ExecutionsRead, [SystemNext]_systemVars PROVE ExecutionsRead'
  OBVIOUS
<1> DEFINE n == indexed["destination"]
<1>1. n \in Nat  BY DEF Placed, Located, Chains
<1>2. CASE Transact
  <2>1. executions' = executions /\ indexed' = indexed /\ ~started  BY <1>2 DEF Transact, vars
  <2>2. n = 0 /\ 1..0 = {}  BY <2>1 DEF Placed, Located
  <2> QED BY <2>1, <2>2 DEF ExecutionsRead
<1>3. CASE Start \/ UNCHANGED systemVars
  <2>1. executions' = executions /\ indexed' = indexed /\ destination' = destination
    BY <1>3 DEF Start, systemVars, vars, contractVars
  <2> QED BY <2>1 DEF ExecutionsRead, ExecutionAt
<1>4. ASSUME NEW live \in BOOLEAN, IndexSource(live) PROVE ExecutionsRead'
  <2>1. /\ executions' = executions /\ destination' = destination
        /\ indexed' = [indexed EXCEPT !["source"] = @ + 1]
    BY <1>4, SourceRead DEF contractVars
  <2>2. indexed'["destination"] = n  BY <2>1 DEF Placed, Located, Chains
  <2> QED BY <2>1, <2>2 DEF ExecutionsRead, ExecutionAt
<1>5. CASE IndexDestination
  <2>1. /\ destination' = destination /\ indexed'["destination"] = n + 1
        /\ executions' = IF NextDestination.kind = "ExecuteMessage"
                         THEN executions \cup {MessageLog(NextDestination.id, "execute", NextDestination.time)}
                         ELSE executions
    BY <1>5, DestinationRead
       DEF contractVars, Placed, Located, Chains, ExecuteMessage, FailMessage, HandlePayload, HandleProof,
           SetAdapters
  <2>2. MessageLog(NextDestination.id, "execute", NextDestination.time) = ExecutionAt(n + 1)
    BY DEF MessageLog, ExecutionAt, NextDestination
  <2>3. destination[n + 1].kind = NextDestination.kind  BY DEF NextDestination
  <2>4. 1..(n + 1) = (1..n) \cup {n + 1}  BY <1>1
  <2> HIDE DEF n
  <2>5. \A i : ExecutionAt(i)' = ExecutionAt(i)  BY <2>1 DEF ExecutionAt
  <2>6. executions' = {ExecutionAt(i) : i \in {j \in 1..(n + 1) : destination[j].kind = "ExecuteMessage"}}
    <3>1. CASE NextDestination.kind = "ExecuteMessage"
      <4>1. {j \in 1..(n + 1) : destination[j].kind = "ExecuteMessage"}
              = {j \in 1..n : destination[j].kind = "ExecuteMessage"} \cup {n + 1}
        BY <2>3, <2>4, <3>1
      <4> QED BY <2>1, <2>2, <3>1, <4>1 DEF ExecutionsRead, n
    <3>2. CASE NextDestination.kind # "ExecuteMessage"
      <4>1. {j \in 1..(n + 1) : destination[j].kind = "ExecuteMessage"}
              = {j \in 1..n : destination[j].kind = "ExecuteMessage"}
        BY <2>3, <2>4, <3>2
      <4> QED BY <2>1, <3>2, <4>1 DEF ExecutionsRead, n
    <3> QED BY <3>1, <3>2
  <2> QED BY <2>1, <2>5, <2>6 DEF ExecutionsRead
<1> QED BY <1>2, <1>3, <1>4, <1>5 DEF SystemNext

LEMMA ExecutionsAreCounted ==
  ASSUME Placed, Inductive, ExecutionsInv, ExecutionsRead
  PROVE  ExecutedRows
<1> SUFFICES ASSUME NEW m \in MessageIds
             PROVE  Cardinality({k \in RowsOf(db.messages, m) : db.messages[k].executedAt # Null})
                      + Cardinality({e \in db.messageQueue : e.status = "execute" /\ e.id = m})
                    = Cardinality(IndexedLogs("ExecuteMessage", m))
  BY DEF ExecutedRows
<1> DEFINE A == {k \in RowsOf(db.messages, m) : db.messages[k].executedAt # Null}
           B == {e \in db.messageQueue : e.status = "execute" /\ e.id = m}
           C == IndexedLogs("ExecuteMessage", m)
           n == indexed["destination"]
           PA == {db.messages[k].executedLog : k \in A}
           PB == {e.pos : e \in B}
<1>1. n \in Nat /\ n <= Len(destination) /\ DOMAIN destination = 1..Len(destination)
      /\ Len(destination) \in Nat
  BY DEF Placed, Chained, Located, Chains
<1>2. C = {i \in 1..n : destination[i].kind = "ExecuteMessage" /\ destination[i].id = m}
  BY <1>1 DEF IndexedLogs, Logged
<1>3. IsFiniteSet(1..n) /\ C \subseteq 1..n
  <2>1. C \subseteq 1..n  BY <1>2
  <2> HIDE DEF C, n
  <2> QED BY <1>1, <2>1, FS_Interval
<1>4. IsFiniteSet(C)  BY <1>3, FS_Subset
<1>5. \A e : e \in executions <=> \E i \in 1..n : destination[i].kind = "ExecuteMessage" /\ e = ExecutionAt(i)
  BY DEF ExecutionsRead
<1>6. /\ \A i \in C : ExecutionAt(i) \in executions /\ ExecutionAt(i).id = m /\ ExecutionAt(i).pos = i
      /\ \A e \in executions : e.id = m => e.pos \in C /\ e = ExecutionAt(e.pos)
  BY <1>2, <1>5 DEF ExecutionAt
<1>7. /\ \A e, f \in executions : e.pos = f.pos => e = f
      /\ \A e \in db.messageQueue : e.status = "execute" => e \in executions
      /\ \A e \in executions :
           IF e \in db.messageQueue THEN RecordedIn(db.messages, e) = {}
           ELSE \E k \in RowsOf(db.messages, e.id) : RecordedIn(db.messages, e) = {k}
      /\ \A k \in DOMAIN db.messages : db.messages[k].executedAt # Null =>
           \E e \in executions : /\ e.pos = db.messages[k].executedLog
                                 /\ e.time = db.messages[k].executedAt /\ e.id = k[1]
      /\ \A k \in DOMAIN db.messages : db.messages[k].executedAt = Null => db.messages[k].executedLog = Null
      /\ \A e \in executions : e.pos # Null /\ e.status = "execute"
  BY DEF ExecutionsInv, AreExecutions, Conserved
<1>8. A \subseteq DOMAIN db.messages /\ \A k \in A : k[1] = m  BY DEF RowsOf
<1> HIDE DEF C, n
\* A row stands for the log of its execution, which does not wait.
<1>9. \A k \in A : \E e \in executions : /\ e.pos = db.messages[k].executedLog /\ e.id = m
                                         /\ RecordedIn(db.messages, e) = {k} /\ e \notin db.messageQueue
  <2> SUFFICES ASSUME NEW k \in A
               PROVE  \E e \in executions : /\ e.pos = db.messages[k].executedLog /\ e.id = m
                                            /\ RecordedIn(db.messages, e) = {k} /\ e \notin db.messageQueue
    OBVIOUS
  <2>1. k \in DOMAIN db.messages /\ db.messages[k].executedAt # Null /\ k[1] = m  BY <1>8
  <2>2. PICK e \in executions : e.pos = db.messages[k].executedLog /\ e.id = m  BY <1>7, <2>1
  <2>3. k \in RecordedIn(db.messages, e)  BY <2>1, <2>2 DEF RecordedIn
  <2>4. e \notin db.messageQueue /\ \E j : RecordedIn(db.messages, e) = {j}  BY <1>7, <2>3
  <2> QED BY <2>2, <2>3, <2>4
<1>10. Cardinality(A) = Cardinality(PA) /\ PA \subseteq C
  <2> DEFINE f == [k \in A |-> db.messages[k].executedLog]
  <2>1. PA \subseteq C  BY <1>6, <1>9
  <2>2. IsFiniteSet(PA)  BY <1>4, <2>1, FS_Subset
  <2>3. f \in [A -> PA]  OBVIOUS
  <2>4. ASSUME NEW a \in A, NEW b \in A, f[a] = f[b] PROVE a = b
    <3>1. db.messages[a].executedLog = db.messages[b].executedLog  BY <2>4
    <3>2. PICK e \in executions : e.pos = db.messages[a].executedLog /\ RecordedIn(db.messages, e) = {a}
      BY <1>9
    <3>3. b \in RecordedIn(db.messages, e)  BY <1>8, <3>1, <3>2 DEF RecordedIn
    <3> QED BY <3>2, <3>3
  <2>5. \A t \in PA : \E s \in A : f[s] = t  OBVIOUS
  <2> HIDE DEF f, A, PA
  <2> QED BY <2>1, <2>2, <2>3, <2>4, <2>5, SameSize
<1>11. Cardinality(B) = Cardinality(PB) /\ PB \subseteq C
  <2> DEFINE f == [e \in B |-> e.pos]
  <2>1. \A e \in B : e \in executions /\ e.id = m  BY <1>7
  <2>2. PB \subseteq C  BY <1>6, <2>1
  <2>3. IsFiniteSet(PB)  BY <1>4, <2>2, FS_Subset
  <2>4. f \in [B -> PB]  OBVIOUS
  <2>5. \A a, b \in B : f[a] = f[b] => a = b  BY <1>7, <2>1
  <2>6. \A t \in PB : \E s \in B : f[s] = t  OBVIOUS
  <2> HIDE DEF f, B, PB
  <2> QED BY <2>2, <2>3, <2>4, <2>5, <2>6, SameSize
<1>12. PA \cap PB = {}
  <2> SUFFICES ASSUME NEW k \in A, NEW f \in B, db.messages[k].executedLog = f.pos PROVE FALSE
    OBVIOUS
  <2>1. PICK e \in executions : e.pos = db.messages[k].executedLog /\ e \notin db.messageQueue  BY <1>9
  <2>2. f \in executions /\ f \in db.messageQueue  BY <1>7
  <2> QED BY <1>7, <2>1, <2>2
<1>13. C \subseteq PA \cup PB
  <2> SUFFICES ASSUME NEW i \in C, i \notin PB PROVE i \in PA
    OBVIOUS
  <2> DEFINE e == ExecutionAt(i)
  <2>1. e \in executions /\ e.id = m /\ e.pos = i  BY <1>6
  <2> HIDE DEF e
  <2>2. e \notin db.messageQueue  BY <1>7, <2>1
  <2>3. PICK k \in RowsOf(db.messages, m) : RecordedIn(db.messages, e) = {k}  BY <1>7, <2>1, <2>2
  <2>4. k \in DOMAIN db.messages /\ db.messages[k].executedLog = i  BY <2>1, <2>3 DEF RecordedIn
  <2>5. db.messages[k].executedAt # Null  BY <1>7, <2>1, <2>4
  <2>6. k \in A  BY <2>3, <2>5
  <2> QED BY <2>4, <2>6
<1>14. /\ IsFiniteSet(PA) /\ IsFiniteSet(PB)
       /\ Cardinality(C) = Cardinality(PA) + Cardinality(PB) - Cardinality({})
  <2>1. IsFiniteSet(PA) /\ IsFiniteSet(PB)  BY <1>4, <1>10, <1>11, FS_Subset
  <2>2. C = PA \cup PB  BY <1>10, <1>11, <1>13
  <2> HIDE DEF PA, PB
  <2> QED BY <1>12, <2>1, <2>2, FS_Union
<1>15. Cardinality({}) = 0 /\ Cardinality(PA) \in Nat /\ Cardinality(PB) \in Nat
  BY <1>14, FS_EmptySet, FS_CardinalityType
<1> HIDE DEF A, B, PA, PB
<1>16. Cardinality(A) + Cardinality(B) = Cardinality(C)  BY <1>10, <1>11, <1>14, <1>15
<1> QED BY <1>16 DEF A, B, C

LEMMA AlwaysExecutionsInv == Spec => []ExecutionsInv
<1>1. Inductive /\ ExecutionsInv /\ [Next]_vars => ExecutionsInv'  BY StepsConserve
<1> QED BY <1>1, InitExecutions, AlwaysInductive, PTL DEF Spec

\* However the chains are interleaved, the executed rows of a message and its waiting
\* executions are as many as the executions the destination logged so far.
THEOREM ExecutionsAreRows == SystemSpec => []ExecutedRows
<1>1. Placed /\ Inductive /\ ExecutionsInv /\ ExecutionsRead => ExecutedRows  BY ExecutionsAreCounted
<1>2. SystemSpec => []ExecutionsRead
  BY InitExecutionsRead, StepsReadExecutions, AlwaysPlaced, PTL DEF SystemSpec
<1> QED BY <1>1, <1>2, AlwaysPlaced, ImplementsIndexer, AlwaysInductive, AlwaysExecutionsInv, PTL

-----------------------------------------------------------------------------
(* The pool adapters: receives and sends only take changes out of progress, *)
(* and only a SetAdapters log enables                                       *)

LessInProgress(t, u) ==
  /\ DOMAIN u = DOMAIN t
  /\ \A k \in DOMAIN t : /\ u[k].isEnabled = t[k].isEnabled
                         /\ u[k].inProgress = t[k].inProgress \/ u[k].inProgress = "None"

Quieter(d) == {e \in Good : LessInProgress(d.poolAdapters, e.poolAdapters)}

LEMMA QuieterOrder ==
  /\ \A d \in Good : d \in Quieter(d)
  /\ \A d, e, f : e \in Quieter(d) /\ f \in Quieter(e) => f \in Quieter(d)
  /\ \A d, e : e \in Good /\ e.poolAdapters = d.poolAdapters => e \in Quieter(d)
BY DEF Quieter, LessInProgress

LEMMA MessageReceiveQuieter ==
  ASSUME NEW d \in Good, NEW e \in MessageReceives
  PROVE  TryMessageReceive(d, e).db \in Quieter(d)
<1>0. TryMessageReceive(d, e).db \in Good  BY TryMessageReceiveGood
<1> SUFFICES LessInProgress(d.poolAdapters, TryMessageReceive(d, e).db.poolAdapters)
  BY <1>0 DEF Quieter
<1>1. LessInProgress(d.poolAdapters, d.poolAdapters)  BY DEF LessInProgress
<1>2. ASSUME NEW key PROVE LessInProgress(d.poolAdapters, WriteMessageReceive(d, e, key).poolAdapters)
  <2> DEFINE written == [d EXCEPT !.messages = UpsertMessages(@, {key}, ReceiveFacts(e))]
             cleared == IF e.status = "fail" /\ IsSetPoolAdapters(e.id)
                        THEN ClearInProgress(written, PoolOf[e.id]) ELSE written
             link == d.messages[key].payload
             stamped == TRUE
  <2>1. WriteMessageReceive(d, e, key) = RefreshPayload(cleared, link, e.time, stamped)
    BY DEF WriteMessageReceive
  <2>2. DOMAIN written = DOMAIN d /\ written.poolAdapters = d.poolAdapters /\ "poolAdapters" \in DOMAIN written
    BY DEF Good, Databases
  <2>3. d.poolAdapters \in Tables(Pools \X Adapters, PoolAdapterRow)  BY DEF Good, Databases
  <2>4. d.poolAdapters \in [DOMAIN d.poolAdapters -> PoolAdapterRow]  BY <2>3, TableIsFunction
  <2>5. LessInProgress(d.poolAdapters, ClearInProgress(written, PoolOf[e.id]).poolAdapters)
    <3> HIDE DEF written
    <3> QED BY <2>2, <2>4 DEF ClearInProgress, LessInProgress, PoolAdapterRow
  <2>6. "poolAdapters" \in DOMAIN cleared /\ "payloads" \in DOMAIN cleared
    BY DEF ClearInProgress, Good, Databases
  <2>7. LessInProgress(d.poolAdapters, cleared.poolAdapters)  BY <1>1, <2>2, <2>5
  <2> HIDE DEF cleared, written
  <2>8. RefreshPayload(cleared, link, e.time, stamped).poolAdapters = cleared.poolAdapters
    BY <2>6 DEF RefreshPayload
  <2> QED BY <2>1, <2>7, <2>8
<1>3. \/ TryMessageReceive(d, e).db = d
      \/ \E key : TryMessageReceive(d, e).db = WriteMessageReceive(d, e, key)
  BY DEF TryMessageReceive, Waiting, Applied
<1> QED BY <1>1, <1>2, <1>3

LEMMA PayloadReceiveQuieter ==
  ASSUME NEW d \in Good, NEW e \in PayloadReceives
  PROVE  TryPayloadReceive(d, e).db \in Quieter(d)
<1>0. TryPayloadReceive(d, e).db \in Good  BY TryPayloadReceiveGood
<1>1. ASSUME NEW key PROVE WritePayloadReceive(d, e, key).poolAdapters = d.poolAdapters
  <2> DEFINE vote == [payload |-> key, adapter |-> e.adapter, side |-> "HANDLE", type |-> e.type]
             facts == [NoPayloadFacts EXCEPT !.deliveredAt = e.time]
             written == [d EXCEPT !.participations = @ \cup {vote},
                                    !.payloads = IF @[key].deliveredAt = Null
                                                 THEN UpsertPayload(@, key, facts) ELSE @]
             stamped == FALSE
  <2>1. WritePayloadReceive(d, e, key) = RefreshPayload(written, key, e.time, stamped)
    BY DEF WritePayloadReceive
  <2>2. written.poolAdapters = d.poolAdapters /\ "poolAdapters" \in DOMAIN written
    BY DEF Good, Databases
  <2> HIDE DEF written, stamped
  <2>3. RefreshPayload(written, key, e.time, stamped).poolAdapters = written.poolAdapters
    BY <2>2 DEF RefreshPayload
  <2> QED BY <2>1, <2>2, <2>3
<1>2. \/ TryPayloadReceive(d, e).db = d
      \/ \E key : TryPayloadReceive(d, e).db = WritePayloadReceive(d, e, key)
  BY DEF TryPayloadReceive, Waiting, Applied
<1> QED BY <1>0, <1>1, <1>2, QuieterOrder

LEMMA QuieterKeepsReceives ==
  ASSUME NEW d
  PROVE  KeepsMessageReceives(Quieter(d)) /\ KeepsPayloadReceives(Quieter(d))
<1>0. Quieter(d) \subseteq Good  BY DEF Quieter
<1>1. \A b \in Quieter(d), e \in MessageReceives : TryMessageReceive(b, e).db \in Quieter(d)
  BY <1>0, MessageReceiveQuieter, QuieterOrder
<1>2. \A b \in Quieter(d), e \in PayloadReceives : TryPayloadReceive(b, e).db \in Quieter(d)
  BY <1>0, PayloadReceiveQuieter, QuieterOrder
<1>3. ASSUME NEW b \in Quieter(d), NEW q \in SUBSET MessageReceives, IsFiniteSet(q)
      PROVE  [b EXCEPT !.messageQueue = q] \in Quieter(d)
  <2> DEFINE f == [b EXCEPT !.messageQueue = q]
  <2>1. f \in Good /\ f.poolAdapters = b.poolAdapters
    BY <1>0, <1>3, WriteMessageQueue DEF Good, Databases
  <2> HIDE DEF f
  <2>2. f \in Quieter(d)  BY <2>1, QuieterOrder
  <2> QED BY <2>2 DEF f
<1>4. ASSUME NEW b \in Quieter(d), NEW q \in SUBSET PayloadReceives, IsFiniteSet(q)
      PROVE  [b EXCEPT !.payloadQueue = q] \in Quieter(d)
  <2> DEFINE f == [b EXCEPT !.payloadQueue = q]
  <2>1. f \in Good /\ f.poolAdapters = b.poolAdapters
    BY <1>0, <1>4, WritePayloadQueue DEF Good, Databases
  <2> HIDE DEF f
  <2>2. f \in Quieter(d)  BY <2>1, QuieterOrder
  <2> QED BY <2>2 DEF f
<1> QED BY <1>0, <1>1, <1>2, <1>3, <1>4 DEF KeepsMessageReceives, KeepsPayloadReceives

LEMMA ReconcileQuieter ==
  ASSUME NEW d, NEW e \in Quieter(d), NEW messageIds, NEW payloadIds
  PROVE  Reconcile(e, messageIds, payloadIds) \in Quieter(d)
BY QuieterKeepsReceives, ReconcileKeeps

LEMMA QuieterKeepsSends ==
  ASSUME NEW d, NEW p \in PayloadIds
  PROVE  KeepsSends(Quieter(d), p, SendFacts)
<1>0. Quieter(d) \subseteq Good  BY DEF Quieter
<1>1. ASSUME NEW b \in Quieter(d), NEW K \in SUBSET MessageKeys, NEW key \in PayloadKeys, Bounded(K)
      PROVE  [b EXCEPT !.messages = UpsertMessages(@, K, LinkFacts(key))] \in Quieter(d)
  <2> DEFINE f == [b EXCEPT !.messages = UpsertMessages(@, K, LinkFacts(key))]
  <2>1. f \in Good  BY <1>0, <1>1, LinkGood
  <2>2. f.poolAdapters = b.poolAdapters  BY <1>0 DEF Good, Databases
  <2> HIDE DEF f
  <2>3. f \in Quieter(d)  BY <2>1, <2>2, QuieterOrder
  <2> QED BY <2>3 DEF f
<1>2. ASSUME NEW b \in Quieter(d), NEW key \in PayloadKeys, NEW facts \in SendFacts
      PROVE  [b EXCEPT !.payloads = UpsertPayload(@, key, facts)] \in Quieter(d)
  <2> DEFINE f == [b EXCEPT !.payloads = UpsertPayload(@, key, facts)]
  <2>1. f \in Good  BY <1>0, UpsertPayloadGood DEF SendFacts
  <2>2. f.poolAdapters = b.poolAdapters  BY <1>0 DEF Good, Databases
  <2> HIDE DEF f
  <2>3. f \in Quieter(d)  BY <2>1, <2>2, QuieterOrder
  <2> QED BY <2>3 DEF f
<1>3. ASSUME NEW b \in Quieter(d), NEW vote \in Participations, vote.side = "SEND"
      PROVE  [b EXCEPT !.participations = @ \cup {vote}] \in Quieter(d)
  <2> DEFINE f == [b EXCEPT !.participations = @ \cup {vote}]
  <2>1. f \in Good  BY <1>0, <1>3, WriteParticipation
  <2>2. f.poolAdapters = b.poolAdapters  BY <1>0 DEF Good, Databases
  <2> HIDE DEF f
  <2>3. f \in Quieter(d)  BY <2>1, <2>2, QuieterOrder
  <2> QED BY <2>3 DEF f
<1>4. \A b \in Quieter(d) : \A ids : Reconcile(b, ids, {p}) \in Quieter(d)
  BY ReconcileQuieter
<1> QED BY <1>0, <1>1, <1>2, <1>3, <1>4 DEF KeepsSends, KeepsWrites, KeepsVotes

\* What the announcement of message m leaves of the pool adapters.
Announced(d, m) ==
  Quieter(d) \cup {e \in Good : /\ IsSetPoolAdapters(m)
                               /\ \E b \in Quieter(d) : e \in Quieter(MarkInProgress(b, m))}

LEMMA PrepareQuieter ==
  ASSUME NEW d \in Good, NEW m \in MessageIds, NEW time \in Nat, NEW live
  PROVE  OnPrepareMessage(d, m, time, live) \in Announced(d, m)
<1> DEFINE before == Reconcile(d, {m}, {})
           rows == RowsOf(before.messages, m)
           key == <<m, NextIndex(rows)>>
           facts == [NoMessageFacts EXCEPT !.preparedAt = time]
           prepared == [before EXCEPT !.messages = UpsertMessages(@, {key}, facts)]
           marked == IF IsSetPoolAdapters(m) /\ live THEN MarkInProgress(prepared, m) ELSE prepared
           f == OnPrepareMessage(d, m, time, live)
<1>1. f = d \/ f = Reconcile(marked, {m}, {})  BY DEF OnPrepareMessage
<1>2. before \in Quieter(d) /\ before \in Good  BY QuieterOrder, ReconcileQuieter DEF Quieter
<1>3. f \in Good  BY PrepareMessageGood
<1> HIDE DEF before
<1>4. key \in MessageKeys
  <2>1. rows \subseteq MessageIds \X Nat /\ rows \subseteq DOMAIN before.messages
    BY <1>2, GoodTables DEF RowsOf, MessageKeys
  <2>2. Bounded(rows)  BY <1>2, <2>1, BoundedSubset DEF Good, Finite
  <2> HIDE DEF rows
  <2> QED BY <2>1, <2>2, NextIndexIsNext DEF MessageKeys
<1> HIDE DEF key
<1>5. facts \in MessageRow /\ MessageConsistent(facts) /\ facts.failedAt = Null
  BY DEF NoMessageFacts, MessageRow, MessageConsistent, MessageStatuses, Null
<1> HIDE DEF facts
<1>6. prepared \in Good
  <2>1. {key} \subseteq MessageKeys /\ Bounded({key})  BY <1>4, BoundedKey DEF MessageKeys
  <2> QED BY <1>2, <1>5, <2>1, UpsertMessagesGood
<1>7. prepared.poolAdapters = before.poolAdapters  BY <1>2 DEF Good, Databases
<1> HIDE DEF prepared
<1>8. prepared \in Quieter(d)  BY <1>2, <1>6, <1>7, QuieterOrder
<1>9. CASE f = d  BY <1>9, QuieterOrder DEF Announced
<1>10. CASE f = Reconcile(marked, {m}, {})
  <2>1. CASE IsSetPoolAdapters(m) /\ live
    <3>1. MarkInProgress(prepared, m) \in Good  BY <1>6, <2>1, MarkInProgressGood
    <3>2. f \in Quieter(MarkInProgress(prepared, m))
      BY <1>10, <2>1, <3>1, QuieterOrder, ReconcileQuieter
    <3> HIDE DEF f
    <3>3. \E b \in Quieter(d) : f \in Quieter(MarkInProgress(b, m))  BY <1>8, <3>2
    <3>4. IsSetPoolAdapters(m)  BY <2>1
    <3>5. f \in Announced(d, m)  BY <1>3, <3>3, <3>4 DEF Announced
    <3> QED BY <3>5 DEF f
  <2>2. CASE ~(IsSetPoolAdapters(m) /\ live)
    <3>1. f \in Quieter(d)  BY <1>8, <1>10, <2>2, ReconcileQuieter
    <3> QED BY <3>1 DEF Announced
  <2> QED BY <2>1, <2>2
<1> QED BY <1>1, <1>9, <1>10

\* Every other handler but that of SetAdapters.
LEMMA HandlersQuieter ==
  ASSUME NEW d \in Good
  PROVE  /\ \A p \in PayloadIds, t \in Nat : /\ OnUnderpaidBatch(d, p, t) \in Quieter(d)
                                             /\ OnRepayBatch(d, p, t) \in Quieter(d)
                                             /\ \A a \in Adapters : /\ OnSendPayload(d, p, a, t, t) \in Quieter(d)
                                                                    /\ OnSendProof(d, p, a) \in Quieter(d)
         /\ \A e \in MessageReceives : OnMessageReceive(d, e) \in Quieter(d)
         /\ \A e \in PayloadReceives : OnPayloadReceive(d, e) \in Quieter(d)
<1>0. d \in Quieter(d)  BY QuieterOrder
<1>1. ASSUME NEW p \in PayloadIds, NEW t \in Nat
      PROVE  /\ OnUnderpaidBatch(d, p, t) \in Quieter(d)
             /\ OnRepayBatch(d, p, t) \in Quieter(d)
             /\ \A a \in Adapters : /\ OnSendPayload(d, p, a, t, t) \in Quieter(d)
                                    /\ OnSendProof(d, p, a) \in Quieter(d)
  <2>1. SendFactsIn(SendFacts, t)
    BY DEF SendFactsIn, SendFacts, NoPayloadFacts, PayloadRow, PayloadStatuses, Null
  <2>2. Sends(Quieter(d), p, d, t)  BY <1>0, <2>1, QuieterKeepsSends, SendsKeep
  <2>3. \A f : Drained(f, Quieter(d), p) => f \in Quieter(d)  BY ReconcileQuieter DEF Drained
  <2> QED BY <1>0, <2>2, <2>3 DEF Sends
<1>2. ASSUME NEW e \in MessageReceives PROVE OnMessageReceive(d, e) \in Quieter(d)
  <2>1. IsFiniteSet({e}) /\ {e} \subseteq MessageReceives  BY FS_Singleton
  <2> QED BY <1>0, <2>1, QuieterKeepsReceives, ReconcileMessagesKeeps DEF OnMessageReceive
<1>3. ASSUME NEW e \in PayloadReceives PROVE OnPayloadReceive(d, e) \in Quieter(d)
  <2>1. IsFiniteSet({e}) /\ {e} \subseteq PayloadReceives  BY FS_Singleton
  <2>2. ReconcilePayloads(d, {e.id}, {e}) \in Quieter(d)
    BY <1>0, <2>1, QuieterKeepsReceives, ReconcilePayloadsKeeps
  <2> QED BY <1>0, <2>2 DEF OnPayloadReceive
<1> QED BY <1>1, <1>2, <1>3

-----------------------------------------------------------------------------
(* Announcements: one that was logged is waiting on the chains, or was run   *)
(* since                                                                     *)

Counters ==
  /\ underpaid \in [PayloadIds -> Nat] /\ sent \in [PayloadIds -> Nat] /\ delivered \in [PayloadIds -> Nat]
  /\ failed \in [MessageIds -> Nat]
  /\ \A p \in PayloadIds : delivered[p] <= sent[p]

Pending(m) ==
  \/ failed[m] > 0
  \/ \E p \in PayloadIds : m \in MessagesOf(p) /\ (underpaid[p] > 0 \/ delivered[p] < sent[p])

RunAfter(m, time) ==
  \E e \in Entries(destination) : e.kind = "SetAdapters" /\ e.id = m /\ e.time > time

Announces(e) == e.kind = "PrepareMessage" /\ e.id \in DOMAIN AdapterSetOf

AnnouncementsRun == \A e \in Entries(source) : Announces(e) => Pending(e.id) \/ RunAfter(e.id, e.time)

LEMMA InitAnnounced == SystemInit => Counters /\ AnnouncementsRun
<1> SUFFICES ASSUME SystemInit PROVE Counters /\ AnnouncementsRun  OBVIOUS
<1>1. /\ underpaid = [p \in PayloadIds |-> 0] /\ sent = [p \in PayloadIds |-> 0]
      /\ delivered = [p \in PayloadIds |-> 0] /\ failed = [m \in MessageIds |-> 0] /\ source = <<>>
  BY DEF SystemInit, Contracts!ContractsInit
<1>2. Entries(source) = {}  BY <1>1 DEF Entries
<1> QED BY <1>1, <1>2 DEF Counters, AnnouncementsRun

\* A transaction on the source: what it announces is pending.
LEMMA SourceAnnounces ==
  ASSUME AnnouncementsRun, NEW S, source \in Seq(S), NEW logs \in Seq(S), Contracts!OnSource(logs),
         \A m : Pending(m) => Pending(m)',
         \A e \in Entries(logs) : Announces(e) => Pending(e.id)'
  PROVE  AnnouncementsRun'
<1>1. source' = source \o logs /\ destination' = destination  BY DEF Contracts!OnSource
<1>2. Entries(source') = Entries(source) \cup Entries(logs)  BY <1>1, ConcatEntries
<1>3. \A m, t : RunAfter(m, t) => RunAfter(m, t)'  BY <1>1 DEF RunAfter
<1>4. SUFFICES ASSUME NEW e \in Entries(source'), Announces(e) PROVE Pending(e.id)' \/ RunAfter(e.id, e.time)'
  BY DEF AnnouncementsRun, Announces
<1>5. CASE e \in Entries(source)  BY <1>3, <1>4, <1>5 DEF AnnouncementsRun
<1>6. CASE e \in Entries(logs)  BY <1>4, <1>6
<1> QED BY <1>2, <1>4, <1>5, <1>6

\* A transaction on the destination.
LEMMA DestinationAnnounces ==
  ASSUME AnnouncementsRun, Chained, NEW D, destination \in Seq(D), NEW logs \in Seq(D),
         Contracts!Transaction, Contracts!OnDestination(logs),
         NEW Ran, \A m \in Ran : [kind |-> "SetAdapters", id |-> m, time |-> now'] \in Entries(logs),
         \A m \in DOMAIN AdapterSetOf : m \in Ran \/ (Pending(m) => Pending(m)')
  PROVE  AnnouncementsRun'
<1>1. source' = source /\ destination' = destination \o logs /\ now' = now + 1
  BY DEF Contracts!OnDestination, Contracts!Transaction
<1>2. Entries(destination') = Entries(destination) \cup Entries(logs)  BY <1>1, ConcatEntries
<1>3. \A m, t : RunAfter(m, t) => RunAfter(m, t)'  BY <1>2 DEF RunAfter
<1>4. \A e \in Entries(source) : e.time \in Nat /\ e.time < now'
  <2>1. \A i \in DOMAIN source : source[i] \in SourceLogs /\ source[i].time <= now  BY DEF Chained, Ordered
  <2>2. \A e \in SourceLogs : e.time \in Nat  BY DEF SourceLogs, Times
  <2>3. now \in Nat  BY DEF Chained, Times
  <2> QED BY <1>1, <2>1, <2>2, <2>3 DEF Entries
<1>5. SUFFICES ASSUME NEW e \in Entries(source), Announces(e) PROVE Pending(e.id)' \/ RunAfter(e.id, e.time)'
  BY <1>1 DEF AnnouncementsRun, Announces
<1>6. CASE e.id \in Ran
  <2> DEFINE f == [kind |-> "SetAdapters", id |-> e.id, time |-> now']
  <2>1. f \in Entries(destination')  BY <1>2, <1>6
  <2>2. f.kind = "SetAdapters" /\ f.id = e.id /\ f.time > e.time  BY <1>4
  <2> HIDE DEF f
  <2> QED BY <2>1, <2>2 DEF RunAfter
<1>7. CASE e.id \notin Ran  BY <1>3, <1>5, <1>7 DEF AnnouncementsRun, Announces
<1> QED BY <1>6, <1>7

LEMMA PrepareEntries ==
  ASSUME NEW p \in PayloadIds
  PROVE  /\ \A e \in Entries(Contracts!PrepareLogs(p)) : e.id \in MessagesOf(p)
         /\ \A e \in Entries(Contracts!SendLogs(p)) : ~Announces(e)
<1>1. ASSUME NEW e \in Entries(Contracts!PrepareLogs(p)) PROVE e.id \in MessagesOf(p)
  <2>1. PICK j \in DOMAIN Batch[p] : e = Contracts!Log("PrepareMessage", Batch[p][j])
    BY DEF Entries, Contracts!PrepareLogs
  <2>2. e.id = Batch[p][j]  BY <2>1 DEF Contracts!Log
  <2> QED BY <2>2 DEF MessagesOf
<1>2. \A e \in Entries(Contracts!SendLogs(p)) : e.kind # "PrepareMessage"
  BY DEF Entries, Contracts!SendLogs, Contracts!AdapterLog, Contracts!SendKind
<1> QED BY <1>1, <1>2 DEF Announces

LEMMA SendsAnnounce ==
  ASSUME Chained, Counters, AnnouncementsRun, NEW p \in PayloadIds,
         Contracts!Send(p) \/ Contracts!SendUnderpaid(p) \/ Contracts!AddUnpaidMessage(p) \/ Contracts!Repay(p)
  PROVE  Counters' /\ AnnouncementsRun'
<1> DEFINE S == At(SourceLogs, now')
           paid == Contracts!PrepareLogs(p) \o Contracts!SendLogs(p)
           underpay == <<Contracts!Log("UnderpaidBatch", p)>>
           unpaid == Contracts!PrepareLogs(p) \o underpay
           repay == <<Contracts!Log("RepayBatch", p)>>
           repaid == Contracts!SendLogs(p) \o repay
<1>1. now' \in Times
  BY DEF Chained, Times, Contracts!Send, Contracts!SendUnderpaid, Contracts!AddUnpaidMessage, Contracts!Repay,
         Contracts!Transaction
<1>2. /\ Contracts!PrepareLogs(p) \in Seq(S) /\ Contracts!SendLogs(p) \in Seq(S)
      /\ underpay \in Seq(S) /\ repay \in Seq(S) /\ S \subseteq SourceLogs
  <2>1. Contracts!Log("UnderpaidBatch", p) \in S /\ Contracts!Log("RepayBatch", p) \in S
    BY <1>1 DEF Contracts!Log, At, SourceLogs
  <2>2. S \subseteq SourceLogs  BY DEF At
  <2>3. Contracts!PrepareLogs(p) \in Seq(S) /\ Contracts!SendLogs(p) \in Seq(S)
    BY <1>1, PrepareLogsType, SendLogsType
  <2> HIDE DEF S
  <2> QED BY <2>1, <2>2, <2>3
<1>3. (\A e \in Entries(underpay) : ~Announces(e)) /\ (\A e \in Entries(repay) : ~Announces(e))
  BY DEF Entries, Contracts!Log, Announces
<1> HIDE DEF S, underpay, repay
<1>4. /\ paid \in Seq(SourceLogs) /\ unpaid \in Seq(SourceLogs) /\ repaid \in Seq(SourceLogs)
      /\ underpay \in Seq(SourceLogs)
      /\ \A e \in Entries(paid) \cup Entries(unpaid) : Announces(e) => e.id \in MessagesOf(p)
      /\ \A e \in Entries(repaid) : ~Announces(e)
  <2>1. /\ Contracts!PrepareLogs(p) \in Seq(SourceLogs) /\ Contracts!SendLogs(p) \in Seq(SourceLogs)
        /\ underpay \in Seq(SourceLogs) /\ repay \in Seq(SourceLogs)
    BY <1>2
  <2>2. /\ paid \in Seq(SourceLogs)
        /\ Entries(paid) = Entries(Contracts!PrepareLogs(p)) \cup Entries(Contracts!SendLogs(p))
    BY ONLY <2>1, ConcatEntries
  <2>3. unpaid \in Seq(SourceLogs) /\ Entries(unpaid) = Entries(Contracts!PrepareLogs(p)) \cup Entries(underpay)
    BY ONLY <2>1, ConcatEntries
  <2>4. repaid \in Seq(SourceLogs) /\ Entries(repaid) = Entries(Contracts!SendLogs(p)) \cup Entries(repay)
    BY ONLY <2>1, ConcatEntries
  <2> HIDE DEF paid, unpaid, repaid
  <2> QED BY <1>3, <2>1, <2>2, <2>3, <2>4, PrepareEntries
<1>5. source \in Seq(SourceLogs)  BY DEF Chained
<1> HIDE DEF paid, unpaid, repaid
<1>6. CASE Contracts!Send(p)
  <2>1. /\ Contracts!OnSource(paid) /\ sent' = [sent EXCEPT ![p] = @ + 1]
        /\ UNCHANGED <<underpaid, delivered, failed>>
    BY <1>6 DEF Contracts!Send, paid
  <2>2. Counters'  BY <2>1 DEF Counters
  <2>3. \A q \in PayloadIds : sent'[q] >= sent[q]  BY <2>1 DEF Counters
  <2>4. delivered'[p] < sent'[p]  BY <2>1 DEF Counters
  <2>5. \A m : Pending(m) => Pending(m)'  BY <2>1, <2>2, <2>3 DEF Pending, Counters
  <2>6. \A m \in MessagesOf(p) : Pending(m)'  BY <2>4 DEF Pending
  <2>7. \A e \in Entries(paid) : Announces(e) => Pending(e.id)'  BY <1>4, <2>6
  <2> QED BY <1>4, <1>5, <2>1, <2>2, <2>5, <2>7, SourceAnnounces
<1>7. CASE Contracts!SendUnderpaid(p) \/ Contracts!AddUnpaidMessage(p)
  <2>1. /\ Contracts!OnSource(unpaid) \/ Contracts!OnSource(underpay)
        /\ underpaid' = [underpaid EXCEPT ![p] = @ + 1]
        /\ UNCHANGED <<sent, delivered, failed>>
    BY <1>7 DEF Contracts!SendUnderpaid, Contracts!AddUnpaidMessage, unpaid, underpay
  <2>2. Counters'  BY <2>1 DEF Counters
  <2>3. (\A q \in PayloadIds : underpaid'[q] >= underpaid[q]) /\ underpaid'[p] > 0  BY <2>1 DEF Counters
  <2>4. \A m : Pending(m) => Pending(m)'  BY <2>1, <2>2, <2>3 DEF Pending, Counters
  <2>5. \A m \in MessagesOf(p) : Pending(m)'  BY <2>3 DEF Pending
  <2>6. CASE Contracts!OnSource(unpaid)
    <3>1. \A e \in Entries(unpaid) : Announces(e) => Pending(e.id)'  BY <1>4, <2>5
    <3> QED BY <1>4, <1>5, <2>2, <2>4, <2>6, <3>1, SourceAnnounces
  <2>7. CASE Contracts!OnSource(underpay)
    <3>1. \A e \in Entries(underpay) : Announces(e) => Pending(e.id)'  BY <1>3
    <3> QED BY <1>4, <1>5, <2>2, <2>4, <2>7, <3>1, SourceAnnounces
  <2> QED BY <2>1, <2>6, <2>7
<1>8. CASE Contracts!Repay(p)
  <2>1. /\ Contracts!OnSource(repaid) /\ underpaid[p] > 0
        /\ underpaid' = [underpaid EXCEPT ![p] = @ - 1] /\ sent' = [sent EXCEPT ![p] = @ + 1]
        /\ UNCHANGED <<delivered, failed>>
    BY <1>8 DEF Contracts!Repay, repaid, repay
  <2>2. Counters'  BY <2>1 DEF Counters
  <2>3. /\ \A q \in PayloadIds : sent'[q] >= sent[q] /\ (q # p => underpaid'[q] = underpaid[q])
        /\ delivered'[p] < sent'[p]
    BY <2>1 DEF Counters
  <2>4. \A m : Pending(m) => Pending(m)'  BY <2>1, <2>2, <2>3 DEF Pending, Counters
  <2>5. \A e \in Entries(repaid) : Announces(e) => Pending(e.id)'  BY <1>4
  <2> QED BY <1>4, <1>5, <2>1, <2>2, <2>4, <2>5, SourceAnnounces
<1> QED BY <1>6, <1>7, <1>8

LEMMA VotesAnnounce ==
  ASSUME Chained, Counters, AnnouncementsRun, NEW p \in PayloadIds, NEW i \in DOMAIN AdapterOrder,
         Contracts!Vote(p, i)
  PROVE  Counters' /\ AnnouncementsRun'
<1>1. /\ Contracts!Transaction /\ Contracts!OnDestination(<<Contracts!HandleLog(p, i)>>)
      /\ UNCHANGED <<underpaid, sent, delivered, failed>>
  BY DEF Contracts!Vote
<1>2. now' \in Times  BY <1>1 DEF Contracts!Transaction, Chained, Times
<1>3. Contracts!HandleLog(p, i) \in DestinationLogs  BY <1>2, HandleLogType DEF At
<1>4. <<Contracts!HandleLog(p, i)>> \in Seq(DestinationLogs)  BY <1>3
<1>5. \A m : Pending(m) => Pending(m)'  BY <1>1 DEF Pending
<1>6. destination \in Seq(DestinationLogs)  BY DEF Chained
<1> DEFINE Ran == {m \in MessageIds : FALSE}
<1>7. /\ \A m \in Ran : [kind |-> "SetAdapters", id |-> m, time |-> now'] \in Entries(<<Contracts!HandleLog(p, i)>>)
      /\ \A m \in DOMAIN AdapterSetOf : m \in Ran \/ (Pending(m) => Pending(m)')
  BY <1>5
<1> HIDE DEF Ran
<1>8. AnnouncementsRun'  BY <1>1, <1>4, <1>6, <1>7, DestinationAnnounces
<1> QED BY <1>1, <1>8 DEF Counters

LEMMA SameCardinality == ASSUME NEW S PROVE Contracts!Cardinality(S) = Cardinality(S)
BY DEF Contracts!Cardinality, Cardinality

LEMMA DeliveriesAnnounce ==
  ASSUME Chained, Counters, AnnouncementsRun, NEW p \in PayloadIds, NEW i \in DOMAIN AdapterOrder,
         NEW failing \in SUBSET DOMAIN Batch[p], Contracts!Deliver(p, i, failing)
  PROVE  Counters' /\ AnnouncementsRun'
<1> DEFINE outcome(j) == IF j \in failing THEN <<Contracts!Log("FailMessage", Batch[p][j])>>
                         ELSE Contracts!ExecutionLogs(Batch[p][j])
           logs == Contracts!FlattenSeq([j \in DOMAIN Batch[p] |-> outcome(j)])
           handle == <<Contracts!HandleLog(p, i)>>
           Fails(m) == {j \in failing : Batch[p][j] = m}
           Ran == {m \in MessagesOf(p) \cap DOMAIN AdapterSetOf : ~ \E j \in failing : Batch[p][j] = m}
<1>1. /\ Contracts!Transaction /\ Contracts!OnDestination(handle \o logs)
      /\ handled[p][AdapterOrder[i]] < sent[p] /\ handled[p][AdapterOrder[i]] = delivered[p]
      /\ delivered' = [delivered EXCEPT ![p] = @ + 1]
      /\ failed' = [m \in MessageIds |-> failed[m] + Cardinality(Fails(m))]
      /\ UNCHANGED <<underpaid, sent>>
  <2>1. Contracts!Transaction /\ Contracts!OnDestination(handle \o logs)
    BY DEF Contracts!Deliver
  <2>2. /\ handled[p][AdapterOrder[i]] < sent[p] /\ handled[p][AdapterOrder[i]] = delivered[p]
        /\ delivered' = [delivered EXCEPT ![p] = @ + 1] /\ UNCHANGED <<underpaid, sent>>
    BY DEF Contracts!Deliver
  <2>3. failed' = [m \in MessageIds |-> failed[m] + Cardinality(Fails(m))]
    <3>1. failed' = [m \in MessageIds |-> failed[m] + Contracts!Cardinality({j \in failing : Batch[p][j] = m})]
      BY DEF Contracts!Deliver
    <3>2. \A m : Contracts!Cardinality({j \in failing : Batch[p][j] = m}) = Cardinality(Fails(m))
      BY SameCardinality
    <3> HIDE DEF Fails
    <3> DEFINE C(m) == Contracts!Cardinality({j \in failing : Batch[p][j] = m})
    <3>3. failed' = [m \in MessageIds |-> failed[m] + C(m)] /\ \A m : C(m) = Cardinality(Fails(m))
      BY <3>1, <3>2
    <3> HIDE DEF C
    <3> QED BY <3>3
  <2> HIDE DEF handle, logs, Fails
  <2> QED BY <2>1, <2>2, <2>3
<1>2. now' \in Times  BY <1>1 DEF Contracts!Transaction, Chained, Times
<1>3. /\ logs \in Seq(At(DestinationLogs, now'))
      /\ \A m \in Ran : [kind |-> "SetAdapters", id |-> m, time |-> now'] \in Entries(logs)
  BY <1>2, BatchLogsType
<1> HIDE DEF logs
<1>4. handle \in Seq(At(DestinationLogs, now'))
  <2>1. Contracts!HandleLog(p, i) \in At(DestinationLogs, now')  BY <1>2, HandleLogType
  <2> QED BY <2>1
<1> HIDE DEF handle
<1>5. /\ handle \o logs \in Seq(DestinationLogs)
      /\ \A m \in Ran : [kind |-> "SetAdapters", id |-> m, time |-> now'] \in Entries(handle \o logs)
  <2>1. At(DestinationLogs, now') \subseteq DestinationLogs  BY DEF At
  <2>2. handle \in Seq(DestinationLogs) /\ logs \in Seq(DestinationLogs)  BY <1>3, <1>4, <2>1
  <2>3. handle \o logs \in Seq(DestinationLogs) /\ Entries(handle \o logs) = Entries(handle) \cup Entries(logs)
    BY ONLY <2>2, ConcatEntries
  <2> QED BY <1>3, <2>3
<1>6. \A m : IsFiniteSet(Fails(m))
  <2>1. DOMAIN Batch[p] = 1..Len(Batch[p]) /\ Len(Batch[p]) \in Nat  BY BatchType
  <2>2. IsFiniteSet(DOMAIN Batch[p])  BY <2>1, FS_Interval
  <2> QED BY <2>2, FS_Subset
<1>7. \A m : /\ Cardinality(Fails(m)) \in Nat
             /\ Fails(m) # {} => Cardinality(Fails(m)) > 0
  <2> HIDE DEF Fails
  <2> QED BY <1>6, FS_CardinalityType, FS_EmptySet
<1>8. Counters'
  <2> HIDE DEF Fails
  <2>1. failed' \in [MessageIds -> Nat]  BY <1>1, <1>7 DEF Counters
  <2>2. delivered[p] < sent[p]  BY <1>1
  <2> QED BY <1>1, <2>1, <2>2 DEF Counters
<1>9. \A m \in MessageIds : failed'[m] >= failed[m] /\ (Fails(m) # {} => failed'[m] > 0)
  <2> HIDE DEF Fails
  <2> QED BY <1>1, <1>7 DEF Counters
<1>10. ASSUME NEW m \in DOMAIN AdapterSetOf, m \notin Ran, Pending(m) PROVE Pending(m)'
  <2>1. m \in MessageIds  BY AdapterSetOfType
  <2>2. CASE Fails(m) # {}  BY <1>9, <2>1, <2>2 DEF Pending
  <2>3. CASE Fails(m) = {}
    <3>1. m \notin MessagesOf(p)  BY <1>10, <2>3
    <3>2. \A q \in PayloadIds : q # p => delivered'[q] = delivered[q]  BY <1>1 DEF Counters
    <3>3. failed[m] > 0 => failed'[m] > 0  BY <1>8, <1>9, <2>1 DEF Counters
    <3> QED BY <1>1, <1>10, <3>1, <3>2, <3>3 DEF Pending
  <2> QED BY <2>2, <2>3
<1>11. destination \in Seq(DestinationLogs)  BY DEF Chained
<1> HIDE DEF Ran
<1>12. AnnouncementsRun'  BY <1>1, <1>5, <1>10, <1>11, DestinationAnnounces
<1> QED BY <1>8, <1>12

LEMMA RetriesAnnounce ==
  ASSUME Chained, Counters, AnnouncementsRun, NEW m \in MessageIds, Contracts!Retry(m)
  PROVE  Counters' /\ AnnouncementsRun'
<1> DEFINE logs == Contracts!ExecutionLogs(m)
           Ran == {m} \cap DOMAIN AdapterSetOf
<1>1. /\ Contracts!Transaction /\ Contracts!OnDestination(logs) /\ failed[m] > 0
      /\ failed' = [failed EXCEPT ![m] = @ - 1]
      /\ UNCHANGED <<underpaid, sent, delivered>>
  BY DEF Contracts!Retry
<1>2. now' \in Times  BY <1>1 DEF Contracts!Transaction, Chained, Times
<1>3. /\ logs \in Seq(At(DestinationLogs, now'))
      /\ \A n \in Ran : [kind |-> "SetAdapters", id |-> n, time |-> now'] \in Entries(logs)
  BY <1>2, ExecutionLogsType
<1> HIDE DEF logs
<1>4. logs \in Seq(DestinationLogs)
  <2>1. At(DestinationLogs, now') \subseteq DestinationLogs  BY DEF At
  <2> QED BY <1>3, <2>1
<1>5. Counters'  BY <1>1 DEF Counters
<1>6. \A n \in DOMAIN AdapterSetOf : n \in Ran \/ (Pending(n) => Pending(n)')
  <2>1. \A n \in MessageIds : n # m => failed'[n] = failed[n]  BY <1>1 DEF Counters
  <2> QED BY <1>1, <2>1, AdapterSetOfType DEF Pending
<1>7. destination \in Seq(DestinationLogs)  BY DEF Chained
<1> HIDE DEF Ran
<1>8. AnnouncementsRun'  BY <1>1, <1>3, <1>4, <1>6, <1>7, DestinationAnnounces
<1> QED BY <1>5, <1>8

LEMMA StepsAnnounce ==
  Chained /\ Counters /\ AnnouncementsRun /\ [SystemNext]_systemVars => Counters' /\ AnnouncementsRun'
<1> SUFFICES ASSUME Chained, Counters, AnnouncementsRun, [SystemNext]_systemVars
             PROVE  Counters' /\ AnnouncementsRun'
  OBVIOUS
<1>1. CASE Transact
  <2>1. Contracts!ContractsNext  BY <1>1 DEF Transact
  <2> QED BY <2>1, SendsAnnounce, VotesAnnounce, DeliveriesAnnounce, RetriesAnnounce DEF Contracts!ContractsNext
<1>2. CASE UNCHANGED contractVars
  BY <1>2 DEF contractVars, Counters, AnnouncementsRun, Pending, RunAfter, Announces, Entries
<1>3. SystemNext => Transact \/ UNCHANGED contractVars
  BY DEF SystemNext, Start, IndexSource, IndexDestination
<1>4. UNCHANGED systemVars => UNCHANGED contractVars  BY DEF systemVars
<1> QED BY <1>1, <1>2, <1>3, <1>4

-----------------------------------------------------------------------------
(* The pool adapters follow the destination *)

EnabledIn(t, pool) == {k[2] : k \in {j \in {i \in DOMAIN t : i[1] = pool} : t[j].isEnabled}}

AdapterTables == Tables(Pools \X Adapters, PoolAdapterRow)

LEMMA GoodAdapters ==
  ASSUME NEW d \in Good
  PROVE  /\ d.poolAdapters \in AdapterTables /\ DOMAIN d.poolAdapters \subseteq Pools \X Adapters
         /\ \A k \in DOMAIN d.poolAdapters : d.poolAdapters[k] \in PoolAdapterRow
<1>1. d.poolAdapters \in AdapterTables  BY DEF Good, Databases, AdapterTables
<1> QED BY <1>1, TableIsFunction DEF AdapterTables

LEMMA QuieterEnables ==
  ASSUME NEW d, NEW e \in Quieter(d), NEW pool
  PROVE  EnabledIn(e.poolAdapters, pool) = EnabledIn(d.poolAdapters, pool)
<1> DEFINE t == d.poolAdapters
           u == e.poolAdapters
<1>1. DOMAIN u = DOMAIN t /\ \A k \in DOMAIN t : u[k].isEnabled = t[k].isEnabled
  BY DEF Quieter, LessInProgress
<1> HIDE DEF t, u
<1>2. {j \in {i \in DOMAIN u : i[1] = pool} : u[j].isEnabled} = {j \in {i \in DOMAIN t : i[1] = pool} : t[j].isEnabled}
  BY <1>1
<1>3. EnabledIn(u, pool) = EnabledIn(t, pool)  BY <1>2 DEF EnabledIn
<1> QED BY <1>3 DEF t, u

LEMMA MarkEffect ==
  ASSUME NEW d \in Good, NEW m \in MessageIds, NEW e, e = MarkInProgress(d, m)
  PROVE  /\ \A pool : EnabledIn(e.poolAdapters, pool) = EnabledIn(d.poolAdapters, pool)
         /\ \A k \in DOMAIN e.poolAdapters :
              k[1] # PoolOf[m] => k \in DOMAIN d.poolAdapters /\ e.poolAdapters[k] = d.poolAdapters[k]
<1> DEFINE pool == PoolOf[m]
           known == PoolAdaptersOf(d, pool)
           t == d.poolAdapters
           K == DOMAIN t \cup {<<pool, a>> : a \in AdapterSetOf[m]}
           u == [k \in K |-> IF k \notin known
                             THEN IF k \in DOMAIN t THEN t[k] ELSE [isEnabled |-> FALSE, inProgress |-> "Enabled"]
                             ELSE [t[k] EXCEPT !.inProgress = IF k[2] \in AdapterSetOf[m] THEN "Enabled" ELSE "Disabled"]]
<1>1. e.poolAdapters = u  BY DEF MarkInProgress, Good, Databases
<1>2. known = {k \in DOMAIN t : k[1] = pool}  BY DEF PoolAdaptersOf
<1>3. \A k \in DOMAIN t : t[k] \in PoolAdapterRow  BY GoodAdapters
<1>4. DOMAIN u = K /\ \A k \in DOMAIN t : k \in K  OBVIOUS
<1>5. \A k \in DOMAIN t : u[k].isEnabled = t[k].isEnabled
  <2> SUFFICES ASSUME NEW k \in DOMAIN t PROVE u[k].isEnabled = t[k].isEnabled  OBVIOUS
  <2>1. CASE k \notin known  BY <2>1
  <2>2. CASE k \in known
    <3>1. u[k] = [t[k] EXCEPT !.inProgress = IF k[2] \in AdapterSetOf[m] THEN "Enabled" ELSE "Disabled"]
      BY <2>2
    <3> HIDE DEF u, t
    <3> QED BY <1>3, <3>1 DEF PoolAdapterRow
  <2> QED BY <2>1, <2>2
<1>6. \A k \in K \ DOMAIN t : k[1] = pool /\ u[k].isEnabled = FALSE
  <2> SUFFICES ASSUME NEW k \in K \ DOMAIN t PROVE k[1] = pool /\ u[k].isEnabled = FALSE  OBVIOUS
  <2>1. k[1] = pool  OBVIOUS
  <2>2. u[k] = [isEnabled |-> FALSE, inProgress |-> "Enabled"]  BY <1>2
  <2> QED BY <2>1, <2>2
<1>7. \A k \in K : k[1] # pool => k \in DOMAIN t /\ u[k] = t[k]  BY <1>2, <1>6
<1> HIDE DEF u, K, t
<1>8. ASSUME NEW q PROVE EnabledIn(u, q) = EnabledIn(t, q)
  <2>1. {j \in {i \in DOMAIN u : i[1] = q} : u[j].isEnabled} = {j \in {i \in DOMAIN t : i[1] = q} : t[j].isEnabled}
    BY <1>4, <1>5, <1>6
  <2> QED BY <2>1 DEF EnabledIn
<1> QED BY <1>1, <1>4, <1>7, <1>8 DEF t

LEMMA SetEffect ==
  ASSUME NEW d \in Good, NEW pool \in Pools, NEW adapters \in SUBSET Adapters,
         NEW e, e = OnSetAdapters(d, pool, adapters)
  PROVE  /\ EnabledIn(e.poolAdapters, pool) = adapters
         /\ \A q : q # pool => EnabledIn(e.poolAdapters, q) = EnabledIn(d.poolAdapters, q)
         /\ \A k \in DOMAIN e.poolAdapters :
              IF k[1] = pool THEN e.poolAdapters[k].inProgress = "None"
              ELSE k \in DOMAIN d.poolAdapters /\ e.poolAdapters[k] = d.poolAdapters[k]
<1> DEFINE t == d.poolAdapters
           K == DOMAIN t \cup {<<pool, a>> : a \in adapters}
           u == [k \in K |-> IF k[1] = pool THEN [isEnabled |-> k[2] \in adapters, inProgress |-> "None"] ELSE t[k]]
<1>1. e.poolAdapters = u  BY DEF OnSetAdapters, Good, Databases
<1>2. DOMAIN u = K /\ DOMAIN t \subseteq K  OBVIOUS
<1>3. /\ \A k \in K : k[1] # pool => k \in DOMAIN t /\ u[k] = t[k]
      /\ \A k \in K : k[1] = pool => /\ u[k].isEnabled = (k[2] \in adapters)
                                     /\ u[k].inProgress = "None"
  OBVIOUS
<1>4. \A a \in adapters : <<pool, a>> \in K /\ <<pool, a>>[1] = pool /\ <<pool, a>>[2] = a  OBVIOUS
<1> HIDE DEF u, K, t
<1>5. EnabledIn(u, pool) = adapters
  <2> DEFINE on == {j \in {i \in DOMAIN u : i[1] = pool} : u[j].isEnabled}
  <2>1. \A k \in on : k[2] \in adapters  BY <1>2, <1>3
  <2>2. \A a \in adapters : <<pool, a>> \in on /\ <<pool, a>>[2] = a  BY <1>2, <1>3, <1>4
  <2>3. EnabledIn(u, pool) = {k[2] : k \in on}  BY DEF EnabledIn
  <2> HIDE DEF on
  <2> QED BY <2>1, <2>2, <2>3
<1>6. ASSUME NEW q, q # pool PROVE EnabledIn(u, q) = EnabledIn(t, q)
  <2>1. {j \in {i \in DOMAIN u : i[1] = q} : u[j].isEnabled} = {j \in {i \in DOMAIN t : i[1] = q} : t[j].isEnabled}
    BY <1>2, <1>3, <1>6
  <2> QED BY <2>1 DEF EnabledIn
<1>7. ASSUME NEW k \in DOMAIN u
      PROVE  IF k[1] = pool THEN u[k].inProgress = "None" ELSE k \in DOMAIN t /\ u[k] = t[k]
  BY <1>2, <1>3
<1> QED BY <1>1, <1>5, <1>6, <1>7 DEF t

LEMMA LogsRead ==
  ASSUME Placed, IndexDestination, NEW pool
  PROVE  SetAdaptersLogs(pool)' =
           IF NextDestination.kind = "SetAdapters" /\ PoolOf[NextDestination.id] = pool
           THEN SetAdaptersLogs(pool) \cup {indexed["destination"] + 1} ELSE SetAdaptersLogs(pool)
<1> DEFINE n == indexed["destination"]
<1>1. destination' = destination /\ indexed'["destination"] = n + 1 /\ n \in Nat
  BY DestinationRead DEF contractVars, Placed, Located, Chains
<1>2. 1..(n + 1) = (1..n) \cup {n + 1} /\ n + 1 \notin 1..n  BY <1>1
<1>3. destination[n + 1] = NextDestination  BY DEF NextDestination
<1> DEFINE Sets(i) == destination[i].kind = "SetAdapters" /\ PoolOf[destination[i].id] = pool
<1>4. SetAdaptersLogs(pool) = {i \in 1..n : Sets(i)}  BY DEF SetAdaptersLogs
<1>5. SetAdaptersLogs(pool)' = {i \in 1..(n + 1) : Sets(i)}  BY <1>1 DEF SetAdaptersLogs
<1>6. Sets(n + 1) <=> NextDestination.kind = "SetAdapters" /\ PoolOf[NextDestination.id] = pool  BY <1>3
<1> HIDE DEF Sets, n
<1> QED BY <1>2, <1>4, <1>5, <1>6 DEF n

SameSets == \A pool : SetAdaptersLogs(pool)' = SetAdaptersLogs(pool) /\ LastAdapterSet(pool)' = LastAdapterSet(pool)

\* What a step of the composition does to the pool adapters, and what it reads of
\* the logs about them.
QuietStep == db' \in Quieter(db) /\ SameSets
AnnouncingStep ==
  /\ Announces(NextSource) /\ indexed["source"] + 1 \in DOMAIN source
  /\ indexed'["source"] = indexed["source"] + 1
  /\ UNCHANGED <<source, destination>> /\ SameSets
  /\ indexed'["destination"] = indexed["destination"]
  /\ \E b \in Quieter(db) : db' \in Quieter(MarkInProgress(b, NextSource.id))
SettingStep ==
  \E m \in DOMAIN AdapterSetOf :
    /\ db' = OnSetAdapters(db, PoolOf[m], AdapterSetOf[m])
    /\ LastAdapterSet(PoolOf[m])' = AdapterSetOf[m]
    /\ indexed["destination"] + 1 \in DOMAIN destination
    /\ indexed' = [indexed EXCEPT !["destination"] = @ + 1]
    /\ UNCHANGED <<source, destination>>
    /\ SetAdaptersLogs(PoolOf[m])' = SetAdaptersLogs(PoolOf[m]) \cup {indexed["destination"] + 1}
    /\ \A pool : pool # PoolOf[m] => /\ SetAdaptersLogs(pool)' = SetAdaptersLogs(pool)
                                     /\ LastAdapterSet(pool)' = LastAdapterSet(pool)

LEMMA AdapterSteps ==
  ASSUME Placed, Inductive, [SystemNext]_systemVars
  PROVE  QuietStep \/ AnnouncingStep \/ SettingStep
<1>0. db \in Good /\ indexed["destination"] + 1 \in Nat /\ indexed["source"] \in Nat
      /\ indexed["destination"] \in Nat
  BY DEF Inductive, Placed, Located, Chains
<1>1. CASE Transact
  <2>1. db' = db /\ indexed' = indexed /\ ~started  BY <1>1 DEF Transact, vars
  <2>2. indexed["destination"] = 0 /\ 1..0 = {}  BY <2>1 DEF Placed, Located
  <2>3. \A pool : SetAdaptersLogs(pool) = {} /\ SetAdaptersLogs(pool)' = {}
    BY <2>1, <2>2 DEF SetAdaptersLogs
  <2>4. SameSets  BY <2>3 DEF SameSets, LastAdapterSet
  <2> QED BY <1>0, <2>1, <2>4, QuieterOrder DEF QuietStep
<1>2. CASE Start \/ UNCHANGED systemVars
  <2>1. db' = db /\ indexed' = indexed /\ destination' = destination
    BY <1>2 DEF Start, systemVars, vars, contractVars
  <2>2. SameSets  BY <2>1 DEF SameSets, LastAdapterSet, SetAdaptersLogs
  <2> QED BY <1>0, <2>1, <2>2, QuieterOrder DEF QuietStep
<1>3. ASSUME NEW live \in BOOLEAN, IndexSource(live) PROVE QuietStep \/ AnnouncingStep
  <2> DEFINE e == NextSource
  <2>1. /\ e.time \in Nat /\ indexed' = [indexed EXCEPT !["source"] = @ + 1]
        /\ source' = source /\ destination' = destination
        /\ indexed["source"] + 1 \in DOMAIN source
    BY <1>3, SourceRead DEF contractVars, Times
  <2>2. /\ indexed'["destination"] = indexed["destination"]
        /\ indexed'["source"] = indexed["source"] + 1
    BY <2>1 DEF Placed, Located, Chains
  <2>3. SameSets  BY <2>1, <2>2 DEF SameSets, LastAdapterSet, SetAdaptersLogs
  <2>4. \/ e.kind = "PrepareMessage" /\ e.id \in MessageIds /\ db' = OnPrepareMessage(db, e.id, e.time, live)
        \/ e.id \in PayloadIds /\ \/ db' = OnUnderpaidBatch(db, e.id, e.time)
                                  \/ db' = OnRepayBatch(db, e.id, e.time)
                                  \/ e.adapter \in Adapters /\ \/ db' = OnSendPayload(db, e.id, e.adapter, e.time, e.time)
                                                               \/ db' = OnSendProof(db, e.id, e.adapter)
    BY <1>3, SourceRead DEF PrepareMessage, UnderpaidBatch, RepayBatch, SendPayload, SendProof
  <2> HIDE DEF e
  <2>5. CASE e.kind = "PrepareMessage" /\ e.id \in MessageIds /\ db' = OnPrepareMessage(db, e.id, e.time, live)
    <3>1. db' \in Announced(db, e.id)  BY <1>0, <2>1, <2>5, PrepareQuieter
    <3>2. CASE db' \in Quieter(db)  BY <2>3, <3>2 DEF QuietStep
    <3>3. CASE db' \notin Quieter(db)
      <4>1. IsSetPoolAdapters(e.id) /\ \E b \in Quieter(db) : db' \in Quieter(MarkInProgress(b, e.id))
        BY <3>1, <3>3 DEF Announced
      <4>2. Announces(e)  BY <2>5, <4>1 DEF Announces, IsSetPoolAdapters
      <4> QED BY <2>1, <2>2, <2>3, <4>1, <4>2 DEF AnnouncingStep, e
    <3> QED BY <3>2, <3>3
  <2>6. CASE ~(e.kind = "PrepareMessage" /\ e.id \in MessageIds /\ db' = OnPrepareMessage(db, e.id, e.time, live))
    <3>1. db' \in Quieter(db)  BY <1>0, <2>1, <2>4, <2>6, HandlersQuieter
    <3> QED BY <2>3, <3>1 DEF QuietStep
  <2> QED BY <2>5, <2>6
<1>4. CASE IndexDestination
  <2> DEFINE e == NextDestination
             n == indexed["destination"]
  <2>1. e.time \in Times /\ destination' = destination  BY <1>4, DestinationRead DEF contractVars
  <2>2. \A pool : SetAdaptersLogs(pool)' =
                    IF e.kind = "SetAdapters" /\ PoolOf[e.id] = pool
                    THEN SetAdaptersLogs(pool) \cup {n + 1} ELSE SetAdaptersLogs(pool)
    BY <1>4, LogsRead
  <2>3. \A pool : SetAdaptersLogs(pool)' = SetAdaptersLogs(pool) => LastAdapterSet(pool)' = LastAdapterSet(pool)
    BY <2>1 DEF LastAdapterSet
  <2>4. \/ /\ e.kind = "SetAdapters" /\ e.id \in DOMAIN AdapterSetOf
           /\ db' = OnSetAdapters(db, PoolOf[e.id], AdapterSetOf[e.id])
        \/ e.kind # "SetAdapters" /\ \/ \E r \in MessageReceives : db' = OnMessageReceive(db, r)
                                     \/ \E r \in PayloadReceives : db' = OnPayloadReceive(db, r)
    <3>1. \A m \in MessageIds : /\ MessageLog(m, "execute", e.time) \in MessageReceives
                                /\ MessageLog(m, "fail", e.time) \in MessageReceives
      BY <1>0, <2>1 DEF MessageLog, MessageReceives
    <3>2. \A p \in PayloadIds, a \in Adapters : /\ PayloadLog(p, a, "PAYLOAD", e.time) \in PayloadReceives
                                                /\ PayloadLog(p, a, "PROOF", e.time) \in PayloadReceives
      BY <1>0, <2>1 DEF PayloadLog, PayloadReceives
    <3> QED BY <1>4, <3>1, <3>2, DestinationRead
            DEF ExecuteMessage, FailMessage, HandlePayload, HandleProof, SetAdapters
  <2>5. e.kind = "SetAdapters" => destination[n + 1].id = e.id  BY DEF NextDestination
  <2> HIDE DEF e
  <2>6. CASE e.kind # "SetAdapters"
    <3>1. db' \in Quieter(db)  BY <1>0, <2>4, <2>6, HandlersQuieter
    <3>2. SameSets  BY <2>2, <2>3, <2>6 DEF SameSets
    <3> QED BY <3>1, <3>2 DEF QuietStep
  <2>7. CASE e.kind = "SetAdapters"
    <3>0. PICK m \in DOMAIN AdapterSetOf : /\ m = e.id
                                           /\ db' = OnSetAdapters(db, PoolOf[m], AdapterSetOf[m])
      BY <2>4, <2>7
    <3>1. PICK pool : pool = PoolOf[m]  OBVIOUS
    <3>2. SetAdaptersLogs(pool)' = SetAdaptersLogs(pool) \cup {n + 1}  BY <2>2, <2>7, <3>0, <3>1
    <3> DEFINE logs == SetAdaptersLogs(pool) \cup {n + 1}
    <3>3. \A j \in logs : j \in Nat /\ j <= n + 1  BY <1>0 DEF SetAdaptersLogs
    <3> DEFINE last == CHOOSE i \in logs : \A j \in logs : j <= i
    <3>4. last = n + 1
      <4>1. n + 1 \in logs /\ \A j \in logs : j <= n + 1  BY <3>3
      <4>2. \A i \in logs : (\A j \in logs : j <= i) => i = n + 1  BY <1>0, <3>3, <4>1
      <4>3. \E i \in logs : \A j \in logs : j <= i  BY <4>1
      <4> HIDE DEF logs, n
      <4>4. last \in logs /\ \A j \in logs : j <= last  BY <4>3
      <4> HIDE DEF last
      <4>5. last = n + 1  BY <4>2, <4>4
      <4> QED BY <4>5 DEF last, logs, n
    <3>5. logs # {} /\ SetAdaptersLogs(pool)' = logs  BY <3>2
    <3> HIDE DEF logs
    <3>6. LastAdapterSet(pool)' = AdapterSetOf[m]
      <4>1. LastAdapterSet(pool)' = AdapterSetOf[destination[last].id]  BY <2>1, <3>5 DEF LastAdapterSet
      <4> HIDE DEF last
      <4> QED BY <2>5, <2>7, <3>0, <3>4, <4>1
    <3>7. /\ indexed' = [indexed EXCEPT !["destination"] = @ + 1]
          /\ n + 1 \in DOMAIN destination /\ UNCHANGED <<source, destination>>
      BY <1>4, DestinationRead DEF contractVars
    <3>8. \A q : q # pool => SetAdaptersLogs(q)' = SetAdaptersLogs(q) /\ LastAdapterSet(q)' = LastAdapterSet(q)
      BY <2>2, <2>3, <3>0, <3>1
    <3>9. SettingStep  BY <3>0, <3>1, <3>2, <3>6, <3>7, <3>8 DEF SettingStep
    <3> QED BY <3>9
  <2> QED BY <2>6, <2>7
<1> QED BY <1>1, <1>2, <1>3, <1>4 DEF SystemNext

\* The enabled adapters of a pool are those of the last set its log was indexed of.
AdaptersRead == \A pool \in Pools : EnabledIn(db.poolAdapters, pool) = LastAdapterSet(pool)

LEMMA InitAdaptersRead == SystemInit => AdaptersRead
<1> SUFFICES ASSUME SystemInit PROVE AdaptersRead  OBVIOUS
<1>1. DOMAIN db.poolAdapters = {} /\ indexed["destination"] = 0
  BY DEF SystemInit, Init, EmptyDatabase, Chains
<1>2. 1..0 = {}  OBVIOUS
<1>3. \A pool : EnabledIn(db.poolAdapters, pool) = {}  BY <1>1 DEF EnabledIn
<1>4. \A pool : SetAdaptersLogs(pool) = {}  BY <1>1, <1>2 DEF SetAdaptersLogs
<1> QED BY <1>3, <1>4 DEF AdaptersRead, LastAdapterSet

LEMMA StepsReadAdapters ==
  ASSUME Placed, Inductive, AdaptersRead, [SystemNext]_systemVars
  PROVE  AdaptersRead'
<1>1. db \in Good  BY DEF Inductive
<1> SUFFICES ASSUME NEW pool \in Pools
             PROVE  EnabledIn(db.poolAdapters, pool)' = LastAdapterSet(pool)'
  BY DEF AdaptersRead
<1>2. EnabledIn(db.poolAdapters, pool)' = EnabledIn(db'.poolAdapters, pool)  BY DEF EnabledIn
<1>3. EnabledIn(db.poolAdapters, pool) = LastAdapterSet(pool)  BY DEF AdaptersRead
<1>4. CASE QuietStep  BY <1>1, <1>2, <1>3, <1>4, QuieterEnables DEF QuietStep, SameSets
<1>5. CASE AnnouncingStep
  <2>1. PICK b \in Quieter(db) : db' \in Quieter(MarkInProgress(b, NextSource.id))
    BY <1>5 DEF AnnouncingStep
  <2>2. PICK m \in MessageIds : m = NextSource.id
    BY <1>5, AdapterSetOfType DEF AnnouncingStep, Announces
  <2>3. b \in Good  BY DEF Quieter
  <2>4. PICK c : c = MarkInProgress(b, m)  OBVIOUS
  <2>5. EnabledIn(c.poolAdapters, pool) = EnabledIn(b.poolAdapters, pool)  BY <2>3, <2>4, MarkEffect
  <2>6. c \in Good  BY <1>5, <2>2, <2>3, <2>4, MarkInProgressGood DEF AnnouncingStep, Announces, IsSetPoolAdapters
  <2>7. EnabledIn(db'.poolAdapters, pool) = EnabledIn(c.poolAdapters, pool)
    BY <2>1, <2>2, <2>4, <2>6, QuieterEnables
  <2>8. EnabledIn(b.poolAdapters, pool) = EnabledIn(db.poolAdapters, pool)  BY <1>1, QuieterEnables
  <2> QED BY <1>2, <1>3, <1>5, <2>5, <2>7, <2>8 DEF AnnouncingStep, SameSets
<1>6. CASE SettingStep
  <2>1. PICK m \in DOMAIN AdapterSetOf :
          /\ db' = OnSetAdapters(db, PoolOf[m], AdapterSetOf[m])
          /\ LastAdapterSet(PoolOf[m])' = AdapterSetOf[m]
          /\ \A q : q # PoolOf[m] => LastAdapterSet(q)' = LastAdapterSet(q)
    BY <1>6 DEF SettingStep
  <2>2. PoolOf[m] \in Pools /\ AdapterSetOf[m] \in SUBSET Adapters  BY PoolOfType, AdapterSetOfType
  <2>3. PICK e : e = OnSetAdapters(db, PoolOf[m], AdapterSetOf[m])  OBVIOUS
  <2>4. PICK p : p = PoolOf[m]  OBVIOUS
  <2>5. /\ EnabledIn(e.poolAdapters, p) = AdapterSetOf[m]
        /\ \A q : q # p => EnabledIn(e.poolAdapters, q) = EnabledIn(db.poolAdapters, q)
    BY <1>1, <2>2, <2>3, <2>4, SetEffect
  <2> QED BY <1>2, <1>3, <2>1, <2>3, <2>4, <2>5
<1> QED BY <1>4, <1>5, <1>6, AdapterSteps

LEMMA TimesApart ==
  ASSUME Placed, NEW i \in DOMAIN source, NEW j \in DOMAIN destination
  PROVE  /\ source[i].time \in Nat /\ destination[j].time \in Nat /\ source[i].time # destination[j].time
         /\ \A h \in DOMAIN source : h <= i => source[h].time <= source[i].time
         /\ \A h \in DOMAIN destination : h <= j => destination[h].time <= destination[j].time
<1>1. source[i] \in SourceLogs /\ destination[j] \in DestinationLogs
  BY DEF Placed, Chained
<1>2. source[i].time \in Nat /\ destination[j].time \in Nat
  BY <1>1 DEF SourceLogs, DestinationLogs, Times
<1> QED BY <1>2 DEF Placed, Chained, Ordered, Apart

\* No set of a pool's adapters was indexed ahead of an earlier announcement for it.
AnnouncedInTime ==
  \A pool \in Pools : \A j \in SetAdaptersLogs(pool) : \A i \in DOMAIN source :
    i > indexed["source"] /\ Announces(source[i]) /\ PoolOf[source[i].id] = pool
      => destination[j].time < source[i].time

\* What is in progress was announced by a log that is later than every set of its
\* pool indexed so far.
InProgressRead ==
  \A k \in DOMAIN db.poolAdapters : db.poolAdapters[k].inProgress # "None" =>
    \E i \in 1..indexed["source"] :
      /\ Announces(source[i]) /\ PoolOf[source[i].id] = k[1]
      /\ \A j \in SetAdaptersLogs(k[1]) : destination[j].time < source[i].time

LEMMA LogsStay ==
  ASSUME Placed, [SystemNext]_systemVars
  PROVE  \/ indexed["source"] = 0 /\ db' = db
         \/ UNCHANGED <<source, destination>> /\ 1..indexed["source"] \subseteq 1..indexed'["source"]
<1>1. CASE Transact
  <2>1. db' = db /\ ~started  BY <1>1 DEF Transact, vars
  <2> QED BY <2>1 DEF Placed, Located
<1>2. CASE Start \/ UNCHANGED systemVars
  BY <1>2 DEF Start, systemVars, vars, contractVars
<1>3. ASSUME NEW live \in BOOLEAN, IndexSource(live)
      PROVE  UNCHANGED <<source, destination>> /\ 1..indexed["source"] \subseteq 1..indexed'["source"]
  <2>1. /\ UNCHANGED <<source, destination>> /\ indexed' = [indexed EXCEPT !["source"] = @ + 1]
        /\ indexed["source"] \in Nat
    BY <1>3, SourceRead DEF contractVars, Placed, Located, Chains
  <2>2. indexed'["source"] = indexed["source"] + 1  BY <2>1 DEF Placed, Located, Chains
  <2> QED BY <2>1, <2>2
<1>4. CASE IndexDestination
  <2>1. /\ UNCHANGED <<source, destination>> /\ indexed' = [indexed EXCEPT !["destination"] = @ + 1]
    BY <1>4, DestinationRead DEF contractVars
  <2>2. indexed'["source"] = indexed["source"]  BY <2>1 DEF Placed, Located, Chains
  <2> QED BY <2>1, <2>2
<1> QED BY <1>1, <1>2, <1>3, <1>4 DEF SystemNext

LEMMA StepsReadInProgress ==
  ASSUME Placed, Inductive, AnnouncedInTime, InProgressRead, [SystemNext]_systemVars
  PROVE  InProgressRead'
<1> DEFINE n == indexed["source"]
           Explained(pool) == \E i \in 1..indexed["source"] :
                                /\ Announces(source[i]) /\ PoolOf[source[i].id] = pool
                                /\ \A j \in SetAdaptersLogs(pool) : destination[j].time < source[i].time
           t == db.poolAdapters
           u == db'.poolAdapters
<1>0. db \in Good /\ n \in Nat  BY DEF Inductive, Placed, Located, Chains
<1>1. SUFFICES ASSUME NEW k \in DOMAIN u, u[k].inProgress # "None" PROVE Explained(k[1])'
  BY DEF InProgressRead
<1>2. ASSUME k \in DOMAIN t, t[k].inProgress # "None", SetAdaptersLogs(k[1])' = SetAdaptersLogs(k[1])
      PROVE  Explained(k[1])'
  <2>1. PICK i \in 1..n : /\ Announces(source[i]) /\ PoolOf[source[i].id] = k[1]
                          /\ \A j \in SetAdaptersLogs(k[1]) : destination[j].time < source[i].time
    BY <1>2 DEF InProgressRead
  <2>2. UNCHANGED <<source, destination>> /\ 1..n \subseteq 1..indexed'["source"]
    <3>1. n # 0  BY <1>0, <2>1
    <3> QED BY <3>1, LogsStay
  <2>3. i \in 1..indexed'["source"]  BY <2>2
  <2>4. /\ Announces(source[i])' /\ PoolOf[source'[i].id] = k[1]
        /\ \A j \in SetAdaptersLogs(k[1])' : destination'[j].time < source'[i].time
    BY <1>2, <2>1, <2>2 DEF Announces
  <2> QED BY <2>3, <2>4 DEF Announces
<1>3. CASE QuietStep
  <2>1. k \in DOMAIN t /\ t[k].inProgress # "None"  BY <1>1, <1>3 DEF QuietStep, Quieter, LessInProgress
  <2> QED BY <1>2, <1>3, <2>1 DEF QuietStep, SameSets
<1>4. CASE AnnouncingStep
  <2>1. PICK b \in Quieter(db) : db' \in Quieter(MarkInProgress(b, NextSource.id))
    BY <1>4 DEF AnnouncingStep
  <2>2. PICK m \in MessageIds : m = NextSource.id
    BY <1>4, AdapterSetOfType DEF AnnouncingStep, Announces
  <2>3. PICK c : c = MarkInProgress(b, m)  OBVIOUS
  <2>4. k \in DOMAIN c.poolAdapters /\ c.poolAdapters[k].inProgress # "None"
    BY <1>1, <2>1, <2>2, <2>3 DEF Quieter, LessInProgress
  <2>5. CASE k[1] # PoolOf[m]
    <3>1. b \in Good  BY DEF Quieter
    <3>2. k \in DOMAIN b.poolAdapters /\ b.poolAdapters[k] = c.poolAdapters[k]
      BY <2>3, <2>4, <2>5, <3>1, MarkEffect
    <3>3. k \in DOMAIN t /\ t[k].inProgress # "None"  BY <2>4, <3>2 DEF Quieter, LessInProgress
    <3> QED BY <1>2, <1>4, <3>3 DEF AnnouncingStep, SameSets
  <2>6. CASE k[1] = PoolOf[m]
    <3>1. /\ Announces(source[n + 1]) /\ n + 1 \in DOMAIN source /\ source[n + 1].id = m
          /\ indexed'["source"] = n + 1 /\ source' = source /\ destination' = destination
          /\ SetAdaptersLogs(k[1])' = SetAdaptersLogs(k[1])
      BY <1>4, <2>2 DEF AnnouncingStep, NextSource, SameSets
    <3>2. \A j \in SetAdaptersLogs(k[1]) : destination[j].time < source[n + 1].time
      <4> SUFFICES ASSUME NEW j \in SetAdaptersLogs(k[1]) PROVE destination[j].time < source[n + 1].time
        OBVIOUS
      <4>1. PoolOf[source[n + 1].id] \in Pools  BY <2>2, <3>1, PoolOfType
      <4>2. n + 1 > n /\ PoolOf[source[n + 1].id] = k[1]  BY <1>0, <2>6, <3>1
      <4> QED BY <3>1, <4>1, <4>2 DEF AnnouncedInTime
    <3>3. n + 1 \in 1..indexed'["source"]  BY <1>0, <3>1
    <3>4. /\ Announces(source'[n + 1]) /\ PoolOf[source'[n + 1].id] = k[1]
          /\ \A j \in SetAdaptersLogs(k[1])' : destination'[j].time < source'[n + 1].time
      <4>1. Announces(source'[n + 1])  BY <3>1
      <4> QED BY <2>6, <3>1, <3>2, <4>1
    <3> QED BY <3>3, <3>4 DEF Announces
  <2> QED BY <2>5, <2>6
<1>5. CASE SettingStep
  <2>1. PICK m \in DOMAIN AdapterSetOf :
          /\ db' = OnSetAdapters(db, PoolOf[m], AdapterSetOf[m])
          /\ \A q : q # PoolOf[m] => SetAdaptersLogs(q)' = SetAdaptersLogs(q)
    BY <1>5 DEF SettingStep
  <2>2. PoolOf[m] \in Pools /\ AdapterSetOf[m] \in SUBSET Adapters  BY PoolOfType, AdapterSetOfType
  <2>3. PICK e : e = OnSetAdapters(db, PoolOf[m], AdapterSetOf[m])  OBVIOUS
  <2>4. \A j \in DOMAIN e.poolAdapters :
          IF j[1] = PoolOf[m] THEN e.poolAdapters[j].inProgress = "None"
          ELSE j \in DOMAIN t /\ e.poolAdapters[j] = t[j]
    BY <1>0, <2>2, <2>3, SetEffect
  <2>5. k[1] # PoolOf[m] /\ k \in DOMAIN t /\ t[k] = u[k]  BY <1>1, <2>1, <2>3, <2>4
  <2> QED BY <1>1, <1>2, <2>1, <2>5
<1> QED BY <1>3, <1>4, <1>5, AdapterSteps

LEMMA SettledInProgress ==
  ASSUME Placed, Counters, AnnouncementsRun, InProgressRead, AllIndexed, ChainsSettled,
         NEW k \in DOMAIN db.poolAdapters
  PROVE  db.poolAdapters[k].inProgress = "None"
<1> SUFFICES ASSUME db.poolAdapters[k].inProgress # "None" PROVE FALSE  OBVIOUS
<1>1. PICK i \in 1..indexed["source"] :
        /\ Announces(source[i]) /\ PoolOf[source[i].id] = k[1]
        /\ \A j \in SetAdaptersLogs(k[1]) : destination[j].time < source[i].time
  BY DEF InProgressRead
<1>2. indexed["source"] = Len(source) /\ indexed["destination"] = Len(destination)
  BY DEF AllIndexed, Chains, LogOf
<1>3. i \in DOMAIN source  BY <1>2 DEF Placed, Chained
<1> DEFINE e == source[i]
<1>4. e \in Entries(source)  BY <1>3 DEF Entries
<1>5. e.id \in MessageIds  BY <1>1, AdapterSetOfType DEF Announces
<1>6. ~Pending(e.id)
  <2>1. failed[e.id] = 0  BY <1>5 DEF ChainsSettled
  <2>2. \A p \in PayloadIds : underpaid[p] = 0 /\ delivered[p] = sent[p]  BY DEF ChainsSettled
  <2>3. \A p \in PayloadIds : ~(underpaid[p] > 0) /\ ~(delivered[p] < sent[p])
    BY <2>2 DEF Counters
  <2> QED BY <2>1, <2>3 DEF Pending
<1>7. PICK f \in Entries(destination) : f.kind = "SetAdapters" /\ f.id = e.id /\ f.time > e.time
  BY <1>1, <1>4, <1>6 DEF AnnouncementsRun, RunAfter
<1>8. PICK j \in DOMAIN destination : destination[j] = f  BY <1>7 DEF Entries
<1>9. j \in 1..indexed["destination"]  BY <1>2, <1>8 DEF Placed, Chained
<1>10. j \in SetAdaptersLogs(k[1])  BY <1>1, <1>7, <1>8, <1>9 DEF SetAdaptersLogs
<1>11. e.time \in Nat /\ destination[j].time \in Nat  BY <1>3, <1>8, TimesApart
<1> QED BY <1>1, <1>7, <1>8, <1>10, <1>11

LEMMA InitInProgress == SystemInit => InProgressRead
<1> SUFFICES ASSUME SystemInit PROVE InProgressRead  OBVIOUS
<1>1. DOMAIN db.poolAdapters = {}  BY DEF SystemInit, Init, EmptyDatabase
<1> QED BY <1>1 DEF InProgressRead

LEMMA AlwaysInductiveOnSystem == SystemSpec => []Inductive
BY ImplementsIndexer, AlwaysInductive, PTL

LEMMA AlwaysAnnounced == SystemSpec => [](Counters /\ AnnouncementsRun)
<1>1. Placed => Chained  BY DEF Placed
<1> QED BY <1>1, InitAnnounced, StepsAnnounce, AlwaysPlaced, PTL DEF SystemSpec

LEMMA AlwaysAdaptersRead == SystemSpec => []AdaptersRead
<1>1. Placed /\ Inductive /\ AdaptersRead /\ [SystemNext]_systemVars => AdaptersRead'
  BY StepsReadAdapters
<1> QED BY <1>1, InitAdaptersRead, AlwaysPlaced, AlwaysInductiveOnSystem, PTL DEF SystemSpec

\* Enabled are the adapters of the last set indexed, in whatever order the chains
\* are read (the SetPoolAdapters case of the hub and the SetAdapters handler).
THEOREM EnabledFollowsDestination ==
  SystemSpec => [](\A pool \in Pools :
                     {k[2] : k \in {j \in {i \in DOMAIN db.poolAdapters : i[1] = pool} :
                                     db.poolAdapters[j].isEnabled}} = LastAdapterSet(pool))
<1>1. AdaptersRead =>
        \A pool \in Pools : {k[2] : k \in {j \in {i \in DOMAIN db.poolAdapters : i[1] = pool} :
                                           db.poolAdapters[j].isEnabled}} = LastAdapterSet(pool)
  BY DEF AdaptersRead, EnabledIn
<1> QED BY <1>1, AlwaysAdaptersRead, PTL

\* Whatever the order of the chains, nothing is left in progress once they are settled,
\* unless a set was indexed ahead of an announcement that came before it: the mark that
\* gateway:PrepareMessage then leaves is the only way for a row to part from the
\* destination.
THEOREM PoolAdaptersFollowDestination ==
  SystemSpec => ([]AnnouncedInTime => []PoolAdaptersSettled)
<1>1. Placed /\ Inductive /\ AnnouncedInTime /\ InProgressRead /\ [SystemNext]_systemVars => InProgressRead'
  BY StepsReadInProgress
<1>2. SystemSpec /\ []AnnouncedInTime => []InProgressRead
  BY <1>1, InitInProgress, AlwaysPlaced, AlwaysInductiveOnSystem, PTL DEF SystemSpec
<1>5. Placed /\ Counters /\ AnnouncementsRun /\ AdaptersRead /\ InProgressRead => PoolAdaptersSettled
  <2> SUFFICES ASSUME Placed, Counters, AnnouncementsRun, AdaptersRead, InProgressRead, NEW pool \in Pools
               PROVE  LET rows == {k \in DOMAIN db.poolAdapters : k[1] = pool}
                      IN  /\ {k[2] : k \in {j \in rows : db.poolAdapters[j].isEnabled}} = LastAdapterSet(pool)
                          /\ AllIndexed /\ ChainsSettled
                               => \A k \in rows : db.poolAdapters[k].inProgress = "None"
    BY DEF PoolAdaptersSettled
  <2>1. EnabledIn(db.poolAdapters, pool) = LastAdapterSet(pool)  BY DEF AdaptersRead
  <2>2. AllIndexed /\ ChainsSettled => \A k \in DOMAIN db.poolAdapters : db.poolAdapters[k].inProgress = "None"
    BY SettledInProgress
  <2> QED BY <2>1, <2>2 DEF EnabledIn
<1> QED BY <1>2, <1>5, AlwaysPlaced, AlwaysAnnounced, AlwaysAdaptersRead, PTL

=============================================================================
