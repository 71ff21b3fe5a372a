# Verification of the Centrifuge API indexer

This directory holds TLA+ models of `centrifuge/api-v3`, the TLC runs that check
them on small instances, and TLAPS proofs of what holds for all instances.  It
covers the parts of the indexer whose correctness depends on order, on calls that are
answered late, and on amounts that several logs tell of: the crosschain pipeline, the
state a hub and its spokes share, share tokens and positions, orders and vaults, the
basin, and the books.

All paths are relative to the repository root; `src/` below is the package's own
`src/` directory.

## 1. The system

The program is a [Ponder](https://ponder.sh) indexer.  Ponder reads the logs of
every configured chain, calls one handler per log, and runs each handler in a
database transaction.  Handlers (`src/handlers`) decode an event and call services
(`src/services`), one per table, which issue inserts, upserts and queries; helpers
(`src/helpers`) hold the logic several handlers share.  A Hono/GraphQL server
(`src/api`) reads the tables.

`ponder.config.ts:239` sets `ordering: "multichain"`: the logs of one chain arrive
in the order of that chain, and nothing is promised between chains.  A hub chain
and its spokes exchange messages, so nearly every interesting entity is written by
handlers of two chains that run in no particular order.

### Components

| Component | State | Operations | Hard part | Correct when | Module |
|---|---|---|---|---|---|
| Crosschain messages (`gatewayHandlers.ts`, `CrosschainMessageService.ts`) | rows `(id, index)` with prepared, failed, executed times, link to a payload row, status | PrepareMessage, UnderpaidBatch, RepayBatch, ExecuteMessage, FailMessage | which instance of a message a log belongs to; failure and retry | one executed row per execution; status follows the facts | `Crosschain*` |
| Payloads and adapter votes (`multiAdapterHandlers.ts`, `CrosschainPayloadService.ts`, `crosschainStatusSql.ts`) | rows `(id, index)`, send and handle votes per adapter | SendPayload, SendProof, HandlePayload, HandleProof, aggregate status | several instances open at once; completion computed from other tables | one row per send; completed exactly when all votes are in and all messages executed | `Crosschain*` |
| Receive queues (`crosschainReconciliation.ts`) | two tables of receives that found no row | drain for the ids a handler touches, before and after its writes | the receive is indexed before the send; stale rows in memory | each receive is applied once, none waits forever | `Crosschain*` |
| Pool adapters (`PoolAdapterService.ts`) | rows `(pool, adapter)`: enabled, in progress | announcement (live), failure, SetAdapters | announcement indexed after acknowledgement | rows end as the destination has them | `Crosschain*` |
| Hub/spoke state of vaults (`hubSpokeUpsert.ts`, `crosschainInProgressCase.ts`, `vaultRegistryHandlers.ts`) | signal and acknowledgement facts, the flag computed from them, status, reserve | UpdateVault, DeployVault, LinkVault, UnlinkVault, SetMaxReserve | either side first, a second round | in progress until acknowledged; status and reserve of the spoke | `Vaults` |
| Settings and members (`hubHandlers.ts`, `onOffRampManagerHandlers.ts`, `merkleProofManagerHandlers.ts`, `updateContractDecoders.ts`) | managers, relayers, ramp assets and addresses, policies, whitelisted investors | a hub event that marks, a spoke event that sets; restrictions | one event for payloads of many shapes; manager not deployed yet | value of the spoke's last log | `Settings`, `SettingSystem` |
| Tokens, instances, positions, checkpoints (`tokenInstanceHandlers.ts`, `spokeHandlers.ts`, `shareClassManagerHandlers.ts`, `investorPositionCheckpoint.ts`) | supply per instance, the hub's sum, balances, earnings, cost, checkpoints | AddShareClass of hub and spoke, Transfer, UpdateSharePrice | a row starts from an `eth_call` and goes on with deltas | no transfer counted twice, sums agree | `Shares`, `ShareSystem` |
| Batch requests (`batchRequestManagerHandlers.ts`, order services) | pending, queued, outstanding, epochs, orders | update, approve, issue or revoke, claim | queued requests, partial approvals, several unclaimed epochs, rounding | every claim has its order, sums agree | `Orders`, `OrderSystem` |
| Vault requests (`vaultHandlers.ts`) | requested, claimable; transactions; orders of synchronous deposits | request, claimable, deposit, withdraw | partial claims, cancellations, rows cleared and started again, made-up indices | rows show what is requested and what may be claimed | `Orders`, `OrderSystem` |
| Basin (`basinHandlers.ts`, `basinReconciliation.ts`, `BasinDebtService.ts`, `BasinFeeService.ts`, `skyHandlers.ts`) | debt and its ledger, fees, swaps, redeem requests | Swap, Transfer, File, fee changes, RedeemInitiated, RedeemCompleted | two logs for one payment, equal amounts, matching with orders of the hub | each payment counts once; links are to the right epoch | `Basin`, `BasinSystem`, `OrderSystem` |
| Holdings and escrows (`holdingsHandlers.ts`, `balanceSheetHandlers.ts`, `HoldingEscrowService.ts`, `EscrowService.ts`) | holdings and accounts of the hub, escrow rows per asset | initialize, increase, decrease, update; deposit, withdraw, price, age | asset registered again, escrow deployed again, two chains | rows are the chains' amounts | `Books`, `BookSystem` |
| Blocks and snapshots (`blockHandlers.ts`, `timekeeper.ts`, `snapshotter.ts`) | period per chain, in memory and in the database | block event, restart | memory and database differ | one snapshot per period | `Books`, `BookSystem` |
| Service base class (`Service.ts`) | – | save, insert, upsert, query, delete | – | – | `Tables` |
| Gateway, MultiAdapter and all other contracts | on-chain | emit the logs | – | – | external |
| Adapter wiring, hub registry, wards, deployments, token yields, RPC helpers, API, configuration, scripts | rows | one upsert per event | little | – | section 9 |

### How the crosschain components interact

A message batch is sent on the *source* chain: `PrepareMessage` per message, then one
`SendPayload` per adapter (in v3 one adapter carries the payload and the others
send proofs: `SendProof`); a batch short of gas logs `UnderpaidBatch` and is sent
later by a repay.  On the *destination* each adapter's delivery logs
`HandlePayload` or `HandleProof`; the last one makes the gateway run the batch, which logs
`ExecuteMessage` or `FailMessage` per message, and a failed message may be retried.

The id of a message or payload is a hash of its contents, so the same bytes sent
twice have the same id: rows are keyed by `(id, index)`, and a destination log names
the id but not the index.  The handlers work as follows.

* A **send** handler drains the queues for its ids, picks the row it belongs to
  (`resolvePayloadKey`), upserts its facts with ON CONFLICT merge rules, and drains again.
* A **receive** handler puts its log on the work list together with the queued logs
  of the same id; each is applied if an eligible row exists whose send is not later than it,
  else it is left in the queue.
* Whatever writes a message row then **refreshes** the payload the row is linked to:
  delivered, partially failed or completed, from the linked messages and the votes.

### How the others interact

* **Hub and spoke.**  The hub's log of an instruction marks the entity as in progress, the
  spoke's log of its execution sets the value and takes the mark away.  Vaults
  compute the mark from two times; the other entities have a plain column.
* **Calls.**  `spoke:AddShareClass` starts an instance and the holders' positions, and
  `vault:DepositRequest` the position of its owner, from `eth_call`s, which see the chain
  at the end of the log's block; `tokenInstance:Transfer` goes on with deltas.  The hub's token row has the sum of
  the instances, and activates those that were there before it.
* **Orders.**  A request is pending at the hub until an epoch approves a part of it, which
  makes an order per account; issuing or revoking settles the orders, claiming closes
  them.  The vault of the spoke keeps its own account of requests and claims.
* **Basin.**  A redeem request of the basin is handed to the vault of its redeemer, whose
  order at the hub is linked to it when the epoch is approved.  A stablecoin that comes
  in is booked by the coin's own log; the basin's log, later in the same transaction, claims it.
* **Books.**  Logs of the spoke change escrow rows and leave a snapshot each; a block
  event that opens a period leaves a snapshot of all that are not empty.

## 2. Modules

| Module | Models | Key definitions |
|---|---|---|
| `Tables` | the statements of the service base class | `Put`, `Insert`, `Upsert`, `Snapshot`, `PutAll` |
| `CrosschainFacts` | rows, ON CONFLICT merge rules, choice of a row | `MergeMessage`, `MergePayload`, `PayloadStatus`, `ResolvePayloadKey`, `SendTargets`, `HandleTargets` |
| `CrosschainReconciliation` | one receive, the aggregate status update, both queue loops | `RefreshPayload`, `TryMessageReceive`, `TryPayloadReceive`, `ReconcileMessages`, `ReconcilePayloads` |
| `CrosschainHandlers` | one operator per event handler | `OnPrepareMessage` … `OnSetAdapters` |
| `CrosschainIndexer` | state machine: any log of either chain next, without bounds | one action per handler |
| `CrosschainLifecycle` | abstract: rows never disappear, statuses only advance | `LifecycleSpec` |
| `CrosschainContracts` | external: the transactions of the contracts and their logs | `Send`, `SendUnderpaid`, `Repay`, `Vote`, `Deliver`, `Retry` |
| `CrosschainSystem` | extends `CrosschainIndexer` with the contracts' logs: a step is one of the indexer's on the next log | `Transact`, `Start`, `IndexSource`, `IndexDestination` |
| `Vaults` | vault rows, their merge rules and handlers; two chains and the indexer | `UpsertHubSignal`, `UpsertSpokeAck`, `IndexHubLog`, `IndexSpokeLog` |
| `Settings`, `SettingSystem` | handlers and payload shapes; the hub's and spoke's logs in any order | `OnUpdateContract`, `SetBySpoke`, `OnUpdateRestriction` |
| `Shares`, `ShareSystem` | handlers and the accounting of a position; chains with blocks and calls | `OnTransfer`, `OnAddShareClass`, `Checkpoint`; `IndexSpoke`, `Answers` |
| `Orders`, `OrderSystem` | handlers of hub and vault; the batch request manager, the vault and the basin's redeemer | `Approve`, `Settle`, `Claim`, `OnDeposit`; `ClaimEpoch`, `AskRedeemer` |
| `Basin`, `BasinSystem` | debt, fees, requests; the basin's transactions | `AccrueAndApply`, `ClaimTransferRepayment`, `OnRedeemCompleted`; `Swap`, `CompleteRedeem` |
| `Books`, `BookSystem` | holdings, escrows, timekeeper; blocks and restarts | `Record`, `OnBlock`; `EndBlock`, `Restart` |
| `MCIndexer`, `MCSystem` | instances for TLC; `MCIndexer` bounds the indexer (`BoundedSpec`) | |
| `MCSpoke`, `MCLedgers` | compositions of the parts of a subject, and their instances | `SpokeSpec`, `LedgersSpec` |
| `*_proofs` | lemmas and theorems | section 7 |

A pair `X`, `XSystem` is split alike everywhere: `X` has the handlers, as
operators from a database (a record of tables) to a database, and `XSystem` the state
machine: the contracts that emit the logs, and the indexer.

**State.**  A table maps keys to rows (`Tables`).  A handler is one database
transaction, so an action is one whole handler.  In `CrosschainSystem`, `Vaults` and
`ShareSystem` the chains run ahead of the indexer, as there it matters what the chain
did before its log is read: two chains are read independently, or a
handler calls the chain.  In the other state machines a log is indexed as it is
emitted.  That loses little: a chain's logs are indexed in its order, and their handlers read
their event and the tables, so that the contracts' state at the time of the *log* is what
matters.  The exceptions are calls: decimals, the quote of a basin's oracle, and the fee and
savings rates a basin starts from (`BasinFeeService.ts:112-123`,
`BasinDebtService.ts:88-95`).  What the first two return is an input; the rates are taken as
of the log, although the call sees the end of its block.  The rates are applied to what comes
later, and `DebtIsOwed` and `FeesAreCollected` compare the tables with each other under
whatever rates the rows have.  Where two chains meet (settings, escrow rows and notifications, rows
that other handlers write), the other chain's logs may come between any two.

**Times.**  A time is a number; only order and equality are used, except for
interest (`Basin`), where a number is a number of seconds, and for the dates of members,
where 100 is the latest date the database can hold.

**Numbers.**  Amounts are integers; a division of bigints drops its fraction towards
zero (`Quotient`, or `\div` where nothing is negative).  Scales are small: `Percent`,
`NavUnit`, `Ray`, `Unit` and `CollateralScale` are constants.  All amounts of the code are
bigints, so nothing overflows.

**Abstracted.**  Message bytes (a batch is a sequence of ids; a message decodes or is in
`Undecodable`), the registry version, names, metadata, colours of logging.  The payload of
`hub:UpdateContract` is a sequence of words that are told apart as the decoders tell them
apart.  One pool, one share class; assets, chains and accounts where rows of
different ones may be confused.  `live` is whether the block is recent, which is an input
because it is the wall clock that decides; `decimals`, `answered` and `held` are what an
RPC call returned.

**Loops.**  A drain loop is a recursive *function* from the number of turns done to the
state of the loop, which includes the rows the code holds in memory (`loaded`,
`dirty`), because the code replaces them after a write.  Sums are folds.

**Mutations.**  A few operators are preceded by a comment "Mutation: …".  They are
not part of the model: each is the form a definition would take with a
plausible bug, and `PROJECT.json` says which property notices it.

## 3. The state machines

`CrosschainIndexer` assumes nothing about the contracts: each step is any log, with
any id, not before the last log of its chain.  What holds here holds
whatever the chains do, including histories no contract produces.  `CrosschainSystem`
extends it with what the contracts do and asks whether the tables end *right*; it is proved to
implement `CrosschainIndexer`, so nothing is stated twice.
The chains run first; then the indexer reads both logs.  `Ordering` says how logs are interleaved:

* `"omnichain"`: by time across chains; what `docs/1-crosschain-messaging.md` calls the
  reference result;
* `"multichain"`: in any way, a transaction at a time.

Whether Ponder may call handlers of another chain *between* two logs of one transaction is
decided outside this repository; the runs do not assume it does.

`Vaults`: the hub signals, the spoke runs the instructions in their order, and both logs are
indexed independently while that goes on.  `DeployVault` may be refused (no answer, no
asset), and then the rows that signals and acknowledgements create are stubs.

`ShareSystem`: each chain may be one block ahead of the indexer, and only behind an
`AddShareClass` or a `DepositRequest`, the two handlers that read the token by a call.  `Answers` is what a call may
return: the state at the end of the block, the state of the next block
(`readContractSafe` tries again without a block number), or nothing.  Positions
may start before the chain knows the token.

`SettingSystem`: the hub's and the spoke's logs about five settings, their managers,
the asset and two members, in any order.

`OrderSystem`: a behaviour is about one of six flows: deposits or redemptions at the
hub, requests of either kind at an asynchronous vault, synchronous deposits, or the
basin's redeem requests with their orders.  The contract's rules for queueing,
cancelling and claiming are its environment; token, asset and instance rows may arrive late.
A vault's request may become claimable in parts, be claimed in parts, and be cancelled
while it is pending: of the last no handler of the vault's logs is told (section 5).

`BasinSystem`: transactions of several operations, about the debt (with rate changes,
third parties and redeem requests) or about fees (with two stablecoins).

`BookSystem`: logs of the spoke inside blocks that end with a block event, restarts
of the process between any two steps, the hub's notifications and holdings in between.

`MCSpoke` and `MCLedgers` put the state machines of one subject side by side: a
behaviour moves one part.  The parts write different tables, so nothing is gained by
interleaving them, and the states would be the product.

## 4. What the runs check

| Run | Instance | Shows |
|---|---|---|
| `indexer_single` | 1 message, 1 payload, 1 adapter, times 1..2, 5 logs; v3_1 | every property of `CrosschainIndexer`, and that it implements `CrosschainLifecycle` |
| `indexer_pair` | a batch of 2 (one announces adapters, one cannot be decoded), v3 with proofs, 5 logs in equal time | conservation with more than one message per payload |
| `system_single` | 1 message, 2 adapters of v3, 1 send that may be underpaid and may fail | every interleaving has the executions and failures of the chains; every receive finds its row |
| `system_pair` | a batch of 2, 2 adapters, up to 2 failures and their retries | every interleaving drains the queues and ends complete |
| `system_by_time` | 3 sends of 2 payloads that share a message and announce adapters, one of which may be short of gas, no failure, in time order | pool adapters end as the destination has them; every send has a row of its own |
| `spoke` | 1 vault and 3 instructions; 2 chains, 1 holder, the escrow and 4 operations; 4 settings steps | vaults, share tokens, settings and members |
| `ledgers` | 2 accounts, 2 epochs, 3 requests; 4 debt or 3 fee operations; 2 asset ids, 2 escrows, 3 blocks, 5 logs | orders, vaults, basin, books |

The properties, and what each would catch:

* `StatusMatchesFacts` – the status is written by an insert, by ON CONFLICT and by the
  aggregate UPDATE, each with a CASE of its own; it never disagrees with the times of its row.
* `HandledRowsWereSent`, `CompletedRowsWereCarried` – a delivery is never booked
  on an instance that was not sent; nothing completes without a vote of either kind
  (votes are compared by count, and 0 = 0).
* `ExecutionsConserved` – each `ExecuteMessage` log is queued or recorded on exactly
  one row, and every executed row has such a log: nothing is lost, nothing is applied twice.
* `NoHandleLeftBehind` – between handlers no handle is queued that could be applied.
  (The same is false of message receives, section 5.)
* `FactsAreFinal` – no later log moves a time or a link; only a failure is taken back.
* `CompletesWhenExecuted` – a step that completes a payload leaves all its messages executed; if it
  is a send, whose opening drain completed the row, they were executed then.
* `ImplementsLifecycle` – refinement of `CrosschainLifecycle` under `StatusOf`.
* `RowPerSend`, `ExecutedRows`, `FailedRows`, `AllComplete`, `QueuesDrained`,
  `PoolAdaptersSettled` – when both chains are indexed, the tables agree with what the
  contracts did.  `RowPerSend` is checked where up to three sends, two of one payload, are open at
  once, and in time order: read in any order it does not hold (section 5).
  `CompletedMeansExecuted` – at every moment.
* `ReceivesFindTheirRows` – liveness: a receive seen before its send does not wait forever.
* `NoStaleFlag` – a vault's flag is never older than the acknowledgement its row knows,
  though four handlers of two chains write the row.  `VaultsEndAsOnChain` – it ends with
  the status of the spoke, and with its reserve if it is alone for its asset, though the hub's log
  writes the reserve too.
* `TotalIsSum`, `IssuanceStaysRight`, `PositionsStayRight` – supply and balances: once right
  they stay right, except for a call that is answered too late or not at all, and for the
  position that starts from a call while transfers of its account are still to be read.
  `ActiveTogether` – no instance misses its activation.  `CheckpointsAddUp` – earnings and
  realized gains of a position are those of its checkpoints, and no cost is in a checkpoint that
  the position does not carry.
* `SettingsFollowTheSpoke` – the hub's logs never touch a value, mark only the setting they
  are about (of all payloads that share one event), and members have what was last said.
* `OutstandingIsCovered` – totals per asset are kept by deltas and must agree with the
  accounts' rows.  `ClaimsFindTheirOrders` – no claim is lost because its order was never
  made.  `OrdersSettleWithEpoch` – an order is settled with its epoch, never before, and
  left only for want of decimals.
* `VaultRowsAddUp` – a vault's row has as claimable what its account may claim, and as requested
  all it asked for and has not claimed, through partial claims, cancellations and rows that are
  cleared and begun again.  `SyncDepositsAreKept` – indices counted from rows never collide.
* `DebtIsOwed`, `ClaimsAreOwn` – one payment told by two logs counts once and gets its own
  name, among equal amounts in one transaction.  `FeesAreCollected`, `PendingCreditIsOpen`,
  `LinkedWhileOpen` – sums of rows written by different handlers, and links to the epoch
  that approved the request.
* `BooksFollowTheChains` – amounts by asset id, price, age and escrow through registrations
  and deployments.  `PeriodsAreSnapshot` – exactly the first block of a period has a
  snapshot, with restarts anywhere.

Each property of a passing run has a mutant that violates it (`PROJECT.json`).

### Bounds and why they are enough

Every bound is a constant of a cfg: `MaxLogs`, `MaxTime` (of `MCIndexer`), `MaxSends`, `MaxUnderpaid`,
`MaxFailures`, `MaxSignals`, `MaxOps`, `MaxOpsOfTwo`, `MaxSettings`, `MaxAsks`, `MaxEpochs`,
`MaxOperations`, `MaxBlocks`, `MaxMoves`.

*Crosschain.*  A message's whole life is five logs (prepare, send, handle, fail, execute), four
without the failure, which leaves one for a duplicate, a second instance or a late receive.
With `MaxLogs = 6` both indexer runs hold as well (248,056 and 542,869 states).  Two
times are enough to distinguish before, at and after for the causal check, which compares
one receive with one send.  In the composed runs the number of *transactions* is
bounded by the sends, shortages and failures; one send with a shortage, a failure and a retry
exercises every kind of log, and three sends of two overlapping batches exercise every
way two instances compete for a row.  Resends are only passing in time order; in other
orders they fail (section 5).

*Vaults.*  Three instructions are link, unlink and link again, or two of them with a
reserve: enough for a second round on a row that has both facts.

*Shares.*  Four operations on one chain, three when both are used: a mint before the
registration, the registration, a transfer, and another registration or a burn.  The second
user of a transfer is the escrow, whose balance is no position.  Amounts of 1 and prices
of 1 and 3 make earnings and costs that do not cancel out; 2 units make a share, so that
values are rounded.

*Settings.*  Four steps are a deployment, a hub log and the spoke's before or after it, and
one more.  One of the two times of members is later than the database can hold.

*Orders.*  Three requests of two accounts, over two epochs and with partial approvals of any size, are
one request that is queued behind an epoch, or two that share one; the net asset value
of 3 and the units of 2 make rounding visible.  Two epochs may both be unclaimed.

*Basin.*  Four operations about the debt are two equal payments and a swap that claims one,
with a rate change between; interest is 50% or 0% per second so that it is seen in integers.

*Books.*  Three blocks hold a first period, a second and the end of it; five logs are a
registration, an escrow, a deposit, and a second registration or escrow with a log.

With one asset and one chain that other parts do not read, symmetry over chains
(`spoke`) and over accounts, asset ids and escrows (`ledgers`) is sound: no definition
names one, and no liveness property is checked there.

Deadlock checking is off in all runs: histories are bounded, so the state machines
stop when everything is done.

### Fairness

Only `system_single` uses it.  `FairSpec` asks weak fairness of starting the indexer and of
reading each chain: Ponder keeps calling handlers while logs are there.  Nothing is
asked of the contracts, which may stop at any point, and nothing of the inputs
chosen in a handler.  The other state machines have no queue: what their handlers do is
done at once, so there is nothing that must eventually happen.

## 5. Where the code and its documentation disagree

| Run | History | Result |
|---|---|---|
| `v_pair_underpaid` | batch of 2 underpaid, repaid, executed; destination first | `UnderpaidBatch` (`gatewayHandlers.ts:200`) finds the rows already executed and adds a second row, which is never executed; the payload never completes |
| `v_adapters` | live announcement indexed after the destination's `SetAdapters` | adapters stay in progress for ever |
| `v_vault` | a vault linked, then unlinked; the first instruction of an old block, both acknowledgements indexed before the second | `spokeAckAt` keeps the earliest time (`hubSpokeUpsert.ts:110`), which is older than the only signal; the vault stays in progress for ever |
| `v_issuance` | shares minted in the block of `AddShareClass` | `totalSupply()` has them already and their `Transfer` logs add them again |
| `v_position` | shares transferred to an account in the block of its first `DepositRequest`, after it | `balanceOf()` has them already and the `Transfer` log adds them again (`TokenInstancePositionService.ts:191`) |

`docs/1-crosschain-messaging.md:32` promises that handlers are order-agnostic and that
the final statuses are those of omnichain order; `docs/2-hub-spoke-crosschain-state.md:53`
that an acknowledgement before its signal leaves no flag; `test/smoke/specs/issuance.md:20`
that an instance's issuance is the token's supply, and
`test/smoke/specs/archive/position-balance.md:17` that a position is the account's balance.

Four more histories of **resends** break the promise of order.  They can be seen by
changing a cfg of `MCSystem` (one message, one payload, `MaxFailures = 0`):

* two adapters, `Ordering = "omnichain"`, `MaxSends = 2`, `MaxUnderpaid = 0`: two sends in flight;
  handles of one instance land on different rows and one row stays `Delivered` (`AllComplete`).
* one adapter, `"multichain"`, `MaxSends = 2`, `MaxUnderpaid = 0`: destination first, the second
  send is merged into the completed row of the first (`RowPerSend`).
* one adapter, `"multichain"`, `MaxSends = 2`, `MaxUnderpaid = 1`: a paid and an underpaid instance;
  an execution waits forever behind a row it cannot pass the causal check of, though
  another row is eligible (`QueuesDrained`).
* v3 (`HasProofs`), one adapter, `"omnichain"`, `MaxSends = 2`, `MaxUnderpaid = 1`: in v3
  `addUnpaidMessage` logs no `PrepareMessage`, and a paid and an underpaid instance share a row
  (`RowPerSend`).

Others were met while modelling:

* A batch holding the same message twice loses the second `PrepareMessage`
  (`gatewayHandlers.ts:50` returns when a row of that id awaits delivery).
* A second failure of a message that already failed is consumed without a write
  (`crosschainReconciliation.ts:379`), so two instances that both fail are one failed row.
* When the second `SendPayload` log of a transaction is indexed after its handles, no
  queue entry is left to trigger a refresh.
* A cancellation that waits behind an epoch is logged with the contract's pending amount,
  approved parts included; the pending row takes it (`batchRequestManagerHandlers.ts:77`)
  and shows more than the account has open until the claim.  `OutstandingIsCovered`
  therefore has `<=` for pending amounts.
* A vault's row keeps a request until it is claimed: `claimableDeposit`
  (`VaultInvestOrderService.ts:36-42`) adds to what is claimable and takes nothing from what is
  requested, and of a cancelled request no handler is told at all, although
  `InvestorTransactionService.ts:51-81` knows its types.  `test/smoke/specs/archive/vault-orders.md:17`
  and `vault-redeem-orders.md:17` compare the requested amount with `pendingDepositRequest` and
  `pendingRedeemRequest`, which have neither the claimable nor the cancelled part.  `VaultRowsAddUp`
  says what the row has (`Shown`); it does not say what those documents say, which is false as soon as
  a request becomes claimable.
* The entities of `docs/2-hub-spoke-crosschain-state.md:62-72` other than the vault still
  have a plain flag: a live hub log that is indexed after the spoke's leaves it set.
  `SettingsFollowTheSpoke` therefore says nothing of when a flag clears.
* A position checkpoint has the log in its key, so a transfer of an account to itself
  keeps only its first half (`CheckpointsAddUp` has `>=` for that reason).
* `spoke:AddShareClass` of an instance that exists sets its issuance to the call's answer,
  which is 0 when the call fails.
* `AdapterWiringService.reconcilePending` completes a deferred wiring without comparing names and
  without `wiredAt`; `upsertDeferred` marks a wiring that is complete as pending again.
* An account type of a holding that is not known ends the loop over its accounts
  (`holdingsHandlers.ts:35`), and a liability's types are counted from the fifth.

## 6. Correspondence with the code

`PROJECT.json` maps every definition that models code to its lines.  Some conventions:

* A guard that returns early with an error log (an undecodable event, a missing row) is an
  ELSE branch that leaves the database as it is.
* `Lowest(K)` is `ORDER BY index LIMIT 1`; `NextIndex` is `coalesce(max(index), -1) + 1`.
* `[d EXCEPT !.payloads = UpsertPayload(@, …)]` is one INSERT … ON CONFLICT DO UPDATE;
  `Insert` is one with DO NOTHING; `getOrInit` followed by `save` is `Put(t, k, [RowOr(t, k, new) EXCEPT …])`.
* `SentBy` and `LinkedIndices` are queries: the code uses the answer only if it is unique,
  `HandleTargets` says `I = {k[2]}`.
* The deposit and redeem sides of the order services are the same code over two sets of
  tables; `Request`, `Approve`, `Settle` and `Claim` are written once and used for both.
* Contracts are external: what they do is derived from what handlers, comments and tests
  rely on.  For the crosschain ones: a batch is prepared before it is sent, votes of an
  instance precede its execution, `SetAdapters` is logged inside the execution of the message
  that sets adapters.  For the batch request manager: a request made while the account has
  an unclaimed epoch is queued, a claim takes the oldest epoch's part, and the last claim
  turns what is queued into a pending request with a log of its own.

## 7. Proofs

TLAPS proves, for every value of the constants, any number of steps and any interleaving:

| Theorem | Module | Says |
|---|---|---|
| `TypeCorrect` | `CrosschainIndexer_proofs` | `Spec => []TypeOK` |
| `StatusAlwaysMatches` | `CrosschainIndexer_proofs` | `Spec => []StatusMatchesFacts` |
| `HandlesFollowSends` | `CrosschainIndexer_proofs` | `Spec => []HandledRowsWereSent` |
| `CompletionIsCarried` | `CrosschainIndexer_proofs` | `Spec => []CompletedRowsWereCarried` |
| `FactsStay` | `CrosschainIndexer_proofs` | `Spec => FactsAreFinal` |
| `LifecycleImplemented` | `CrosschainIndexer_proofs` | `Spec => ImplementsLifecycle` |
| `NoExecutionIsLost` | `CrosschainIndexer_proofs` | `Spec => []ExecutionsConserved` |
| `NoHandleIsForgotten` | `CrosschainIndexer_proofs` | `Spec => []NoHandleLeftBehind` |
| `CompletionIsExecuted` | `CrosschainIndexer_proofs` | `Spec => CompletesWhenExecuted` |
| `PayloadMergesCommute` | `CrosschainIndexer_proofs` | two writes of a payload row in either order, and twice |
| `MessageMergesCommute` | `CrosschainIndexer_proofs` | two writes of a message row in either order, and twice |
| `FlagIsPending` | `Spoke_proofs` | `VaultSpec => []NoStaleFlag` |
| `VaultsEnd` | `Spoke_proofs` | `VaultSpec => []VaultsEndAsOnChain` |
| `ActiveOnceKnown` | `Shares_proofs` | `SharesSpec => []ActiveTogether` |
| `SettingsFollow` | `Spoke_proofs` | `SettingSpec => []SettingsFollowTheSpoke` |
| `BooksFollow` | `Ledgers_proofs` | `BookSpec => []BooksFollowTheChains` |
| `TotalSummed` | `Shares_proofs` | `SharesSpec => []TotalIsSum` |
| `CheckpointsExplain` | `Shares_proofs` | `SharesSpec => []CheckpointsAddUp` |
| `IssuanceKept` | `Shares_proofs` | `SharesSpec => IssuanceStaysRight` |
| `PositionsKept` | `Shares_proofs` | `SharesSpec => PositionsStayRight` |
| `PeriodsSnapshot` | `Ledgers_proofs` | `BookSpec => []PeriodsAreSnapshot` |
| `DebtOwed` | `Ledgers_proofs` | `BasinSpec => []DebtIsOwed` |
| `ClaimsOwn` | `Ledgers_proofs` | `BasinSpec => []ClaimsAreOwn` |
| `PendingIsOpen` | `Ledgers_proofs` | `BasinSpec => []PendingCreditIsOpen` |
| `FeesCollected` | `Ledgers_proofs` | `BasinSpec => []FeesAreCollected` |
| `VaultRowsAdded` | `Orders_proofs` | `OrdersSpec => []VaultRowsAddUp` |
| `SyncDepositsKept` | `Orders_proofs` | `OrdersSpec => []SyncDepositsAreKept` |
| `OrdersSettled` | `Orders_proofs` | `OrdersSpec => []OrdersSettleWithEpoch` |
| `ClaimsFound` | `Orders_proofs` | `OrdersSpec => []ClaimsFindTheirOrders` |
| `OutstandingCovered` | `Orders_proofs` | `OrdersSpec => []OutstandingIsCovered` |
| `LinksHold` | `Orders_proofs` | `OrdersSpec => []LinkedWhileOpen` |
| `ImplementsIndexer` | `CrosschainSystem_proofs` | `SystemSpec => Spec` |
| `IndexerGuarantees` | `CrosschainSystem_proofs` | `SystemSpec =>` all the indexer's properties |
| `ExecutionsAreRows` | `CrosschainSystem_proofs` | `SystemSpec => []ExecutedRows` |
| `EnabledFollowsDestination` | `CrosschainSystem_proofs` | `SystemSpec =>` the adapters enabled are those of the last set |
| `PoolAdaptersFollowDestination` | `CrosschainSystem_proofs` | `SystemSpec => ([]AnnouncedInTime => []PoolAdaptersSettled)` |
| `SpokeTypeCorrect` | `Spoke_proofs` | `SpokeSpec => []SpokeTypeOK` |
| `SpokeTogether` | `Spoke_proofs` | `SpokeSpec => VaultSpec /\ SharesSpec /\ SettingSpec` |
| `OrdersTypeCorrect` | `Orders_proofs` | `OrdersSpec => []OrdersTypeOK` |
| `BasinTypeCorrect` | `Ledgers_proofs` | `BasinSpec => []BasinTypeOK` |
| `BookTypeCorrect` | `Ledgers_proofs` | `BookSpec => []BookTypeOK` |
| `LedgersTogether` | `Ledgers_proofs` | `LedgersSpec => OrdersSpec /\ BasinSpec /\ BookSpec` |
| `LedgersTypeCorrect` | `Ledgers_proofs` | `LedgersSpec => []LedgersTypeOK` |

Assumptions are those on constants, in the modules that declare them: `NoPayload` is no
key, every message has a pool, announced adapters are adapters, batches are sequences of
messages, bounds are natural numbers; reserves, dates, amounts, prices and units are numbers;
users are finitely many, and the address `Zero` that mints and burns is none of them; the basin's
asset is one of the assets.  The savings rates have a highest one (it starts the chain, as
`BasinInit` says), and no rate is below `Ray`, that is, below no interest: a rate of
`src/config/sky.ts` is 1.0 in units of 10^27 plus a part per second.

**The crosschain invariant.**  `Inductive` says that `db` is in `Good`, with the types of
the other variables.  None of the four invariants is inductive alone:

* a row that was *completed* needs a sent row and votes, but votes are compared by
  cardinality, which is meaningless unless the sets are finite;
* a new row takes the index after the highest, which exists only if indices are
  bounded (`Bounded`), and the loops take one entry off a work list at a time, which ends only if
  the queues are finite;
* a handle vote must be known to sit on a sent row before a completion that counts
  it can be known to be of a sent row (`Carried`).

So `Good` is: types, `Finite`, `Consistent` (every status fits) and `Carried`.
`CrosschainIndexer_proofs` first has the merge rules, the choice operators and the tables,
then one lemma per write to a database, one per receive, and the loops: a *set* of databases
that a receive and a write of the queue do not leave is not left by draining
(`ReconcileKeeps`), by induction over the turns.  Then come one lemma
per handler and the theorems about states; its last part, about steps, uses
`ReconcileKeeps` again with the set `Future(d)` of good databases later than `d`.  There a second
invariant is needed, `SendsAreDated`: upserts keep the *earliest* of two times, so a send time
is final only because no log of the source chain is earlier than one already indexed.

**Executions and handles.**  Both properties speak of what waits between two handlers, and
the loops go through states in which they do not hold: an entry that is tried is in neither place
for a moment.  So each is proved of the *work list*, a pair of a database and what is still to
be tried in this drain, and holds of the database once the list is empty.

* `ExecutionsConserved`: `Conserved` says that every execution is queued or to be tried and then
  is recorded on no row, or is recorded on exactly one row, which is of its message.  A turn
  moves one entry from one side to the other.  Logs have positions of their own
  (`AreExecutions`), which tells equal executions apart.
* `NoHandleLeftBehind`: a handle that waits is `Blocked` by facts about its own payload: the row it
  would take was sent later, or there is none.  Every write either leaves these facts alone
  (`Calm`: rows may only gain deliveries and complete) or is followed by a drain of that very
  payload; `Awaiting(ids)` are the databases in which every handle is blocked, those of `ids`
  aside, and a drain of `ids` ends in `Awaiting({})`.

**Completion.**  That after the step *every* message linked to the row is executed holds within the
bounds of the runs and is false beyond them: with nothing assumed about the logs, nine of them (two batches that share a message, an execution that waits behind the
wrong row, a second underpaid batch) complete a row in the opening drain of a send that then links one more
message to it.  So `CompletesWhenExecuted` says which messages are meant: those linked when the row completed.
`Settled(d)` are the databases a drain of `d` may lead to: the same links, what is executed
stays so, and each row completed since `d` has all its messages executed; this is
transitive, so it holds of drains turn by turn.  `Written(b, p)` is the other half: what a send of
`p` writes between its drains completes nothing and links nothing to rows of other payloads.

**Merge rules.**  The order of two writes to a row does not matter, and a repeated write changes
nothing (`PayloadMergesCommute`, `MessageMergesCommute`), because each column is the earliest of
two times or keeps what it had, and the status follows from the columns.  The hypotheses are what
the code's order does decide: an execution takes back the failure it retries, so two *receives*
do not commute, and the first link to a payload, or the first transaction that sent it, stays.

**Vaults.**  `NoStaleFlag` is inductive once the rows have their types; those need the types
of the logs, as a handler trusts the log it is given, so both chains' logs are in `VaultInv`.
`VaultsEndAsOnChain` speaks of the end of all logs; `EndInv` says the same of the prefixes that are
indexed: the status is that of the last link among the spoke's indexed logs, and the reserve is
the last one told by the indexed logs of the spoke *or* of the hub (`VaultTold`).  At the end these are the
same, since the spoke runs the hub's instructions in order and deploys a vault before it runs
one for it (`ChainsAgree`).  The reserve is stated for the only vault of an asset: the hub's
message names the asset, and with two vaults the handler writes one of them.

**Settings.**  `ValuesAreTold` is nearly inductive; `MembersAreSaid` speaks of the
*last* of a sequence of restrictions, which exists because the indices of a
sequence have a greatest one: `HasLast` is carried along.  The theorem rests on the lemma
`RowStep`, which every setting's log instantiates, and on the decoding of each payload.

**Sums.**  Many properties compare a row that is kept by deltas with a sum over a table,
a fold of the community modules (`SumFunction`).  `Tables_proofs` proves the algebra of that
fold without an induction theorem: `SetInduction` and `PartInduction` are induction on a
*set* of naturals and of finite sets, `SumIsPartial` relates the fold to the function that gives
the sum of every part of a table, and from it `SumOfNew`, `SumOfChanged`, `SumOfChange`,
`SumOfRest` and `SumInProportion` follow: what one new, changed or deleted row adds, that rows of 0
may be left out, and that rounding row by row loses on one side only.  All sums below cite these.

**Shares.**  `ActiveTogether` is not inductive: an instance that is registered after
the hub's log is active only if its handler finds the *pool*.  `Inv` adds that the pool is
there once the hub's share class was handled, and that the tables have their columns.
`TotalIsSum` is inductive with the shape of the tables alone, because every handler that touches an
issuance ends by summing again (`SyncSums`, `ChangeSums`).  `CheckpointsAddUp` is not: a
checkpoint may be taken for a position that has no row yet, so `Explained` adds that checkpoints belong to
positions that are there, and that prices and units are numbers, so that the carried cost is at least that of
the checkpoint.
`IssuanceStaysRight` and `PositionsStayRight` compare a row with the chain *as of the logs indexed
so far*: the supply and balances now, less what waits.  That is a sum over a set of transfers;
indexing a log takes it out of the set, a block of the chain puts new ones in, and both change row
and sum alike (`Follows`).  `WaitInv` is what makes each subtraction one of naturals: every transfer
that waits is covered by what its sender holds just before it (`Covered`), and a chain whose
token is not registered has neither logs nor a row.  An account
without a row counts as one with nothing; when its position starts from a call and no transfer of it waits, in
this block or the next, every answer is that it has nothing (`Hasty` is the other case).

**Books.**  `BooksFollowTheChains` needs `Lookups`: that the newest row of the asset
and of the escrow table is the one the chain uses.  It holds because creation
blocks grow; the rest is one lemma per log (`EscrowsAgree`, `HoldingsAgree`).
`PeriodsAreSnapshot` needs `PeriodInv`: the stored period is that of the last block, and the
process's copy, if it has one, is the stored one.  So a block opens a period in the
indexer exactly when it does on the chain, whenever the process was restarted.

**Basin.**  `BasinInv` is four properties in one, as each log changes several tables: the
ledger's entries are *before* the log at hand (`Ledger`), which is why a claim, which looks for the last
entry before its own log, finds the one its own transfer left (`NearestIsLast`,
`OwnTransferIsLast`) and not an equal one; a request's key is a block's time and requests come
one at a time (`Timely`), so none is overwritten; swaps are before the log (`Fees`), so no fee is
collected twice.  `rpow` is a recursive function whose exponent is halved: `PowerType` proves
that it is defined and natural for every exponent.

**Orders.**  The vault's rows (`VaultInv`) are cut off at 0 when a claim takes more than is there; that none
does is because a claim takes from both amounts what was claimable, which is part of what was requested.
A cancelled amount is in no log, so it stays in the row, and with it the row.  `SyncInv` numbers the orders of
each account without gaps (`Numbered`), as the code takes a *count* for the next index.  The hub's
three properties share one invariant, `HubInv`, since none of them is inductive: an
approval makes orders from *pending rows*, while the contract pays from its own *pending
amounts*, which it brings up to date only when they are claimed.  The invariant therefore says that for each
account and epoch there is an amount `R[u][i]` that is left before epoch `i`:

* `Path`: `R` starts with the contract's amount at the last claim and loses each epoch's
  part, rounded down;
* `Covered`: the pending row of the account is at least `R` at the current epoch, and
  together the `R` are at least what is outstanding, because roundings only leave more;
* `Ready`: for every epoch not yet claimed for which `R` is positive there is an order that
  is not claimed (an account's row may be *larger* than its part, never absent);
* `Waits`: an account queues or cancels only behind an epoch that it has not claimed;
* `Outstanding`, `OrdersOK`, `ClaimsOK`: the totals and the properties themselves.

`LinkedWhileOpen` needs `LinksOK`: that orders are approved before the present, and that a
request that is linked was open at that time.

**Contracts and indexer together.**  `ImplementsIndexer` needs that the logs the indexer reads are
logs of the kinds it knows, whose times never go back on one chain: `Chained` says so of the logs of the
contracts, `Located` of where the indexer is in them (`Placed` is both).  From it, every theorem about
`CrosschainIndexer` holds of the composition (`IndexerGuarantees`).  `ExecutionsAreRows` counts: what
`ExecutionsConserved` says of single executions becomes an equality of two sizes, because the
executions that were read are exactly the logs of the indexed part of the destination
(`ExecutionsRead`).  The pool adapters rest on one more lemma per handler: all but
`PrepareMessage` and `SetAdapters` leave the table as it is or take marks away (`Quieter`).  Enabled
is therefore the last set whatever the order.  For the marks the order matters (section 5,
`v_adapters`), and the theorem says of every behaviour, in whatever order its logs are read, what the
order must not do: `AnnouncedInTime` is that no set of adapters is indexed while an announcement for its pool
that is older on the chain is still to be indexed.  Then a mark is of an announcement later than every set that
was read (`InProgressRead`), and an announcement later than all sets of its pool is still to run or
has failed (`AnnouncementsRun`), so that none is left once the chains are settled.

**Compositions.**  `MCSpoke` and `MCLedgers` are the products that are model-checked: a step moves
one part.  `SpokeTogether` and `LedgersTogether` say that the composition implements the
specification of each part, so that what is proved of a part is proved of what the runs check.

**Types.**  The type invariants are more than shapes, as the rows are kept by subtraction:
`SharesTypeOK` needs that the sender's position and what it carried cover a transfer, `OrdersTypeOK`
that an approval takes no more from a row than it has, `BookTypeOK` that the row of a holding is
the hub's (`HoldingsAgree`) and that a row of an escrow names one (`EscrowsAgree`).  `BasinTypeOK`
says that interest is never negative: `rpow` rounds every product to the nearest, and the rounded
power of a factor of at least `Ray` is at least `Ray` (`PowerFloor`), so a debt only grows between
two logs (`DebtGrows`), whichever of the two rates applies.

**Left to TLC.**  ENABLED, liveness (`ReceivesFindTheirRows`), and what holds on the histories of the runs
only: `QueuesDrained`, `RowPerSend`, `CompletedMeansExecuted`, `AllComplete` and `FailedRows` ask more of the
histories than the code gives for all of them (section 5).  Read in any order, a second send is merged into
the first's row, and an execution waits behind a row that it cannot pass; even by time, handles of two
sends in flight land on each other's rows, and two instances of a message that both fail are one failed row.
Where a loop or a fold is over data, the theorems say what every turn keeps, not what the loop computes.

## 8. What could come next

* `RowPerSend` and `CompletedMeansExecuted` proved in the code's own order (`"multichain"`) for the
  histories in which every payload is sent once and no message is in two of them: there the queues
  find the one row that exists, whatever order the chains are read in.  The invariant it needs
  would tie each table to the logs read of the source chain.  No run of this project checks it in
  that order, and it is not proved.
* `AdapterWiring`, with the setup events of chains as steps, if it turns out that setups and
  logs of different chains overlap.
* Logs of two chains that Ponder hands over between two logs of one transaction: `Ordering` has a
  place for it.

## 9. Not modelled, and why

* HTTP API, scripts, configuration: they read tables or hold constants.
* RPC calls, IPFS, decimals: I/O.  Their results are inputs of the handlers.
* Wards, deployments, setup of adapters: one upsert per event of one chain; no property
  beyond the assignment.
* Adapter wiring: the only events that create an adapter row come before all logs of its
  chain, so the deferral it implements is not reached by logs.
* Token yields: compounding with real exponents over snapshots.
* The rows of `balanceSheet:Issue` and `Revoke`, the investor transactions of share transfers, names
  and metadata of tokens, calldata and block columns: written and never read back.
* `NotifyPool`, `NotifyShareClass` and `NotifySharePrice`, and the valuation of a sync
  manager's call: a plain flag on a token instance or vault, as in `Settings`.
* Snapshots of pools, tokens and instances at a new period: the same statement as that of the
  escrows.
* Reorganisations: Ponder undoes whole handlers, outside this repository.  What a
  reorganisation leaves wrong, the period in memory (`timekeeper.ts:159`), is listed as a hazard.
* Two registrations of one asset, or two deployments of one escrow, in one block: the query
  sorts by block only, and which row it returns is not determined.

## 10. Running

    tlc -workers 2 -config indexer_single.cfg MCIndexer.tla
    tlc -workers 2 -config system_single.cfg MCSystem.tla
    tlc -workers 2 -config spoke.cfg MCSpoke.tla
    tlc -workers 2 -config ledgers.cfg MCLedgers.tla
    tlapm Orders_proofs.tla

`spoke` has 209,004 states and `ledgers` 359,455; each takes about a minute, the others seconds.  The `v_*` runs end with a counterexample by design.  Modules whose
proofs are extended are checked on their own: `tlapm` of each `*_proofs.tla`.
