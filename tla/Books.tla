--------------------------------- MODULE Books ---------------------------------
(***************************************************************************)
(* The balance sheet of one share class: the holdings its hub accounts, the *)
(* amounts the escrow of a spoke holds, and the snapshots the spoke's block *)
(* handler takes when a period of the chain begins.                         *)
(***************************************************************************)
EXTENDS Tables, Sequences

None == -1   \* a column or a variable of the process that is not set

-----------------------------------------------------------------------------
(* Holdings, of the hub's logs.  books: holding, account, holdingSnapshot *)

NewHolding == [quantity |-> 0, value |-> 0, valuation |-> None, liability |-> FALSE, initialized |-> FALSE]

AccountTypes == <<"Asset", "Equity", "Loss", "Gain", "Expense", "Liability">>

\* The type of an account by the number the hub gives it, counted from the fifth
\* for a liability; nothing when there is no such type.
AccountType(kind, liability) ==
  LET i == kind + 1 + (IF liability THEN 4 ELSE 0)
  IN  IF i \in DOMAIN AccountTypes THEN {AccountTypes[i]} ELSE {}

HoldingOf(b, a) == RowOr(b.holding, a, NewHolding)
SaveHolding(b, a, row) == [b EXCEPT !.holding = Put(@, a, row)]

SnapshotHolding(b, a, block, trigger) ==
  LET row == b.holding[a]
  IN  [b EXCEPT !.holdingSnapshot =
         Snapshot(@, [x \in {a} |-> [quantity |-> row.quantity, value |-> row.value]], block, trigger)]

IncreaseBy(row, n, value) == [row EXCEPT !.quantity = @ + n, !.value = @ + value]
DecreaseBy(row, n, value) == [row EXCEPT !.quantity = @ - n, !.value = @ - value]
UpdateBy(row, positive, diff) == [row EXCEPT !.value = IF positive THEN @ + diff ELSE @ - diff]

\* holdings:Initialize.  The accounts, known by their place in the log, are stored
\* up to the first whose type is not known; one that is there stays.
OnInitialize(b, a, valuation, liability, kinds) ==
  LET stored == {i \in DOMAIN kinds : \A j \in 1..i : AccountType(kinds[j], liability) # {}}
  IN  [SaveHolding(b, a, [HoldingOf(b, a) EXCEPT !.initialized = TRUE, !.valuation = valuation,
                                                 !.liability = liability])
       EXCEPT !.account = InsertAll(@, [i \in stored |-> AccountType(kinds[i], liability)])]

OnIncrease(b, a, n, value, block) ==
  SnapshotHolding(SaveHolding(b, a, IncreaseBy(HoldingOf(b, a), n, value)), a, block, "Increase")
OnDecrease(b, a, n, value) == SaveHolding(b, a, DecreaseBy(HoldingOf(b, a), n, value))
OnUpdate(b, a, positive, diff, block) ==
  SnapshotHolding(SaveHolding(b, a, UpdateBy(HoldingOf(b, a), positive, diff)), a, block, "Update")
OnUpdateValuation(b, a, valuation, block) ==
  SnapshotHolding(SaveHolding(b, a, [HoldingOf(b, a) EXCEPT !.valuation = valuation]), a, block, "UpdateValuation")

-----------------------------------------------------------------------------
(* Escrows, of the spoke's logs and one of the hub's.  books: asset and escrow, *)
(* by the block that created the row; holdingEscrow, escrowSnapshot             *)

NewHoldingEscrow == [amount |-> 0, price |-> 0, maxAge |-> 0, escrow |-> None, inProgress |-> FALSE]

\* Mutation: the oldest row.
Oldest(t) == CHOOSE k \in DOMAIN t : \A x \in DOMAIN t : t[k] <= t[x]

\* The newest row of a table: the escrow of getLatest, the asset of getByToken.
Latest(t) == CHOOSE k \in DOMAIN t : \A x \in DOMAIN t : t[k] >= t[x]
LatestAsset(b) == Latest(b.asset)

\* spoke:RegisterAsset and DeployPoolEscrow: the block of a row that is there stays.
OnRegisterAsset(b, a, block) == [b EXCEPT !.asset = Insert(@, a, block)]
OnDeployPoolEscrow(b, e, block) == [b EXCEPT !.escrow = Insert(@, e, block)]

Columns(row) == [amount |-> row.amount, price |-> row.price, maxAge |-> row.maxAge]

\* The row of asset a, whose escrow is refreshed with every change.
EscrowOf(b, a) == [RowOr(b.holdingEscrow, a, NewHoldingEscrow) EXCEPT !.escrow = Latest(b.escrow)]
SaveEscrow(b, a, row) == [b EXCEPT !.holdingEscrow = Put(@, a, row)]

\* The row that a handler of a spoke's log finds by the token.
Current(b) == EscrowOf(b, LatestAsset(b))

SnapshotEscrows(b, A, block, trigger) ==
  [b EXCEPT !.escrowSnapshot = Snapshot(@, [a \in A |-> Columns(b.holdingEscrow[a])], block, trigger)]

\* What every handler of a spoke's log does: without the asset or the escrow,
\* nothing; else the row it has changed is saved, with a snapshot.
Record(b, row, block, trigger) ==
  IF b.asset = EmptyTable \/ b.escrow = EmptyTable THEN b
  ELSE SnapshotEscrows(SaveEscrow(b, LatestAsset(b), row), {LatestAsset(b)}, block, trigger)

IncreaseAssetAmount(row, n) == [row EXCEPT !.amount = @ + n]
DecreaseAssetAmount(row, n) == [row EXCEPT !.amount = @ - n]

OnNoteDeposit(b, n, price, block) ==
  Record(b, [IncreaseAssetAmount(Current(b), n) EXCEPT !.price = price], block, "NoteDeposit")
OnBalanceSheetWithdraw(b, n, price, block) ==
  Record(b, [DecreaseAssetAmount(Current(b), n) EXCEPT !.price = price], block, "Withdraw")
OnUpdateAssetPrice(b, price, live, block) ==
  Record(b, [Current(b) EXCEPT !.price = price, !.inProgress = @ /\ ~live], block, "UpdateAssetPrice")
OnUpdateMaxAssetPriceAge(b, age, block) ==
  Record(b, [Current(b) EXCEPT !.maxAge = age], block, "UpdateMaxAssetPriceAge")

\* hub:NotifyAssetPrice, which names the asset by its id
OnNotifyAssetPrice(b, a, live) ==
  IF live /\ Has(b.asset, a) /\ b.escrow # EmptyTable
  THEN SaveEscrow(b, a, [EscrowOf(b, a) EXCEPT !.inProgress = TRUE])
  ELSE b

-----------------------------------------------------------------------------
(* The timekeeper.  books.period is the last period of the spoke that is stored; *)
(* the process has a copy from the first block it handles.                        *)

\* Mutation: a process that has just started begins with the period of the block.
InitAnew(memory, stored) == memory

\* init: the row is read when the process has no copy.
InitTimekeeper(memory, stored) == IF memory = None THEN stored ELSE memory

\* The first block of all stores its period; a later one starts a period.
IsNewPeriod(last, period) == last # None /\ period > last

\* query: the rows of holdings that are not empty
Held(b) == {a \in DOMAIN b.holdingEscrow : b.holdingEscrow[a].amount # 0}

OnBlock(b, memory, period, block) ==
  LET last == InitTimekeeper(memory, b.period)
      next == IF last = None \/ period > last THEN [b EXCEPT !.period = period] ELSE b
  IN  IF IsNewPeriod(last, period)
      THEN SnapshotEscrows(next, Held(b), block, "NewPeriod")
      ELSE next

\* The copy of the process after the block.
Remembered(b, memory, period) ==
  LET last == InitTimekeeper(memory, b.period) IN IF last = None \/ period > last THEN period ELSE last

=============================================================================
