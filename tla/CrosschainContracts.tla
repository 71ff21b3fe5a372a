-------------------------- MODULE CrosschainContracts --------------------------
(***************************************************************************)
(* EXTERNAL.  The Gateway and MultiAdapter contracts of one source and one  *)
(* destination chain, as far as the handlers and their comments rely on     *)
(* them: which logs a transaction emits, in which order, and which          *)
(* transactions may follow which.  Every transaction appends its logs to    *)
(* the log of its chain.                                                    *)
(*                                                                         *)
(*  - send emits PrepareMessage for every message of the batch, then either *)
(*    one SendPayload per adapter or, short of gas, UnderpaidBatch;          *)
(*  - in v3, addUnpaidMessage emits UnderpaidBatch alone, and the first      *)
(*    adapter carries the payload while the others send a proof of it;       *)
(*  - repay needs an underpaid batch: SendPayload per adapter, RepayBatch;   *)
(*  - a handle of the last missing adapter runs the batch: every message is *)
(*    executed or fails, and a failed one may be retried;                    *)
(*  - a destination sets its adapters when it runs a SetPoolAdapters message.*)
(***************************************************************************)
EXTENDS Integers, Sequences, FiniteSets, SequencesExt

CONSTANTS SentMessages, SentPayloads, BatchOf,
          Announcing,      \* the SetPoolAdapters messages
          AdapterOrder,    \* the adapters of the pool, the payload's carrier first
          Proofs,          \* v3
          MaxSends,        \* bound on sends
          MaxUnderpaid,    \* bound on the sends among them that are short of gas
          MaxFailures      \* bound on failed executions

VARIABLES now,          \* time of the last transaction; transactions are numbered by it
          source,       \* logs of the source chain
          destination,  \* logs of the destination chain
          underpaid,    \* batches waiting for a repay
          shortages,    \* underpaid sends so far
          sent,         \* sends of each payload that left through the adapters
          handled,      \* handles of each adapter
          delivered,    \* runs of each batch
          failed,       \* failed executions that wait for a retry
          failures      \* failed executions so far

contractVars == <<now, source, destination, underpaid, shortages, sent, handled, delivered, failed, failures>>

AdapterSet == ToSet(AdapterOrder)

ContractsInit ==
  /\ now = 1
  /\ source = <<>> /\ destination = <<>>
  /\ underpaid = [p \in SentPayloads |-> 0]
  /\ shortages = 0
  /\ sent = [p \in SentPayloads |-> 0]
  /\ handled = [p \in SentPayloads |-> [a \in AdapterSet |-> 0]]
  /\ delivered = [p \in SentPayloads |-> 0]
  /\ failed = [m \in SentMessages |-> 0]
  /\ failures = 0

Log(kind, id) == [kind |-> kind, id |-> id, time |-> now']
AdapterLog(kind, p, a) == [kind |-> kind, id |-> p, adapter |-> a, time |-> now']

PrepareLogs(p) == [i \in DOMAIN BatchOf[p] |-> Log("PrepareMessage", BatchOf[p][i])]

CarriesProof(i) == Proofs /\ i > 1
SendKind(i) == IF CarriesProof(i) THEN "SendProof" ELSE "SendPayload"
SendLogs(p) == [i \in DOMAIN AdapterOrder |-> AdapterLog(SendKind(i), p, AdapterOrder[i])]

Sends == FoldFunction(+, 0, sent) + FoldFunction(+, 0, underpaid)

Transaction == now' = now + 1
OnSource(logs) == source' = source \o logs /\ UNCHANGED destination
OnDestination(logs) == destination' = destination \o logs /\ UNCHANGED source

Send(p) ==
  /\ Sends < MaxSends
  /\ Transaction
  /\ OnSource(PrepareLogs(p) \o SendLogs(p))
  /\ sent' = [sent EXCEPT ![p] = @ + 1]
  /\ UNCHANGED <<underpaid, shortages, handled, delivered, failed, failures>>

SendUnderpaid(p) ==
  /\ Sends < MaxSends /\ shortages < MaxUnderpaid
  /\ Transaction
  /\ OnSource(PrepareLogs(p) \o <<Log("UnderpaidBatch", p)>>)
  /\ underpaid' = [underpaid EXCEPT ![p] = @ + 1]
  /\ shortages' = shortages + 1
  /\ UNCHANGED <<sent, handled, delivered, failed, failures>>

AddUnpaidMessage(p) ==
  /\ Proofs /\ Sends < MaxSends /\ shortages < MaxUnderpaid
  /\ Transaction
  /\ OnSource(<<Log("UnderpaidBatch", p)>>)
  /\ underpaid' = [underpaid EXCEPT ![p] = @ + 1]
  /\ shortages' = shortages + 1
  /\ UNCHANGED <<sent, handled, delivered, failed, failures>>

Repay(p) ==
  /\ underpaid[p] > 0
  /\ Transaction
  /\ OnSource(SendLogs(p) \o <<Log("RepayBatch", p)>>)
  /\ underpaid' = [underpaid EXCEPT ![p] = @ - 1]
  /\ sent' = [sent EXCEPT ![p] = @ + 1]
  /\ UNCHANGED <<shortages, handled, delivered, failed, failures>>

HandleKind(i) == IF CarriesProof(i) THEN "HandleProof" ELSE "HandlePayload"
HandleLog(p, i) == AdapterLog(HandleKind(i), p, AdapterOrder[i])

\* An adapter whose vote is not the last one of an instance.
Vote(p, i) ==
  LET a == AdapterOrder[i]
  IN  /\ handled[p][a] < sent[p]
      /\ \E b \in AdapterSet \ {a} : handled[p][b] <= delivered[p]
      /\ Transaction
      /\ OnDestination(<<HandleLog(p, i)>>)
      /\ handled' = [handled EXCEPT ![p][a] = @ + 1]
      /\ UNCHANGED <<underpaid, shortages, sent, delivered, failed, failures>>

\* A message that sets adapters logs SetAdapters before the gateway logs its execution.
ExecutionLogs(m) ==
  (IF m \in Announcing THEN <<Log("SetAdapters", m)>> ELSE <<>>) \o <<Log("ExecuteMessage", m)>>

\* The last vote runs the batch; `failing` are the positions that fail.
Deliver(p, i, failing) ==
  LET a == AdapterOrder[i]
      outcome(j) == IF j \in failing THEN <<Log("FailMessage", BatchOf[p][j])>>
                    ELSE ExecutionLogs(BatchOf[p][j])
  IN  /\ handled[p][a] < sent[p]
      /\ handled[p][a] = delivered[p]
      /\ \A b \in AdapterSet \ {a} : handled[p][b] > delivered[p]
      /\ failures + Cardinality(failing) <= MaxFailures
      /\ Transaction
      /\ OnDestination(<<HandleLog(p, i)>> \o FlattenSeq([j \in DOMAIN BatchOf[p] |-> outcome(j)]))
      /\ handled' = [handled EXCEPT ![p][a] = @ + 1]
      /\ delivered' = [delivered EXCEPT ![p] = @ + 1]
      /\ failed' = [m \in SentMessages |->
                      failed[m] + Cardinality({j \in failing : BatchOf[p][j] = m})]
      /\ failures' = failures + Cardinality(failing)
      /\ UNCHANGED <<underpaid, shortages, sent>>

Retry(m) ==
  /\ failed[m] > 0
  /\ Transaction
  /\ OnDestination(ExecutionLogs(m))
  /\ failed' = [failed EXCEPT ![m] = @ - 1]
  /\ UNCHANGED <<underpaid, shortages, sent, handled, delivered, failures>>

ContractsNext ==
  \/ \E p \in SentPayloads :
       \/ Send(p) \/ SendUnderpaid(p) \/ AddUnpaidMessage(p) \/ Repay(p)
       \/ \E i \in DOMAIN AdapterOrder :
            \/ Vote(p, i)
            \/ \E failing \in SUBSET DOMAIN BatchOf[p] : Deliver(p, i, failing)
  \/ \E m \in SentMessages : Retry(m)

=============================================================================
