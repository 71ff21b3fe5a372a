------------------------------- MODULE BookSystem -------------------------------
(***************************************************************************)
(* The chains behind the books.  A handler of the books reads only tables,  *)
(* so a log is indexed as it is emitted; the hub's logs come between any    *)
(* two of the spoke's.  A block of the spoke ends with its block event, and *)
(* the process may stop and start again before any of them.                 *)
(***************************************************************************)
EXTENDS Books

CONSTANTS AssetIds,   \* of one token, which may be registered more than once
          PoolEscrows, BookAmounts, BookPrices,
          MaxBlocks,
          MaxMoves    \* logs of the spoke and of the hub

ASSUME BookAssumption == BookAmounts \subseteq Nat /\ BookPrices \subseteq Nat

VARIABLES books, memory,   \* the tables, and what the process remembers
          onSpoke, onHub,  \* what the chains know
          block, period,   \* the block of the spoke that is open
          opened,          \* it is the first of a period, and not the first of all
          rolled,          \* what the escrow held at the end of such blocks
          moves

bookVars == <<books, memory, onSpoke, onHub, block, period, opened, rolled, moves>>

CountMove == moves < MaxMoves /\ moves' = moves + 1
SameBlock == UNCHANGED <<memory, block, period, opened, rolled>>

-----------------------------------------------------------------------------
(* The spoke *)

\* An asset has no price and no age on the spoke when it is registered.  Two
\* registrations, or two escrows, are of different blocks.
Register(a) == /\ a \notin onSpoke.known /\ onSpoke.assetSince < block
               /\ CountMove
               /\ onSpoke' = [onSpoke EXCEPT !.known = @ \cup {a}, !.asset = a, !.assetSince = block,
                                             !.price = 0, !.maxAge = 0, !.address = None]
               /\ books' = OnRegisterAsset(books, a, block)
               /\ UNCHANGED onHub /\ SameBlock

DeployEscrow(e) == /\ ~Has(books.escrow, e) /\ onSpoke.escrowSince < block
                   /\ CountMove
                   /\ onSpoke' = [onSpoke EXCEPT !.escrow = e, !.escrowSince = block, !.address = None]
                   /\ books' = OnDeployPoolEscrow(books, e, block)
                   /\ UNCHANGED onHub /\ SameBlock

\* A log about the asset, whose row has the escrow of now from then on.
SpokeLog(after) == /\ onSpoke.asset # None /\ onSpoke.escrow # None
                   /\ CountMove
                   /\ onSpoke' = [after EXCEPT !.address = onSpoke.escrow]
                   /\ UNCHANGED onHub /\ SameBlock

Deposit(n) == /\ SpokeLog([onSpoke EXCEPT !.held[onSpoke.asset] = @ + n])
              /\ books' = OnNoteDeposit(books, n, onSpoke.price, block)

TotalHeld == SumFunction([a \in AssetIds |-> onSpoke.held[a]])

Withdraw(n) == /\ TotalHeld >= n
               /\ SpokeLog([onSpoke EXCEPT !.held[onSpoke.asset] = @ - n])
               /\ books' = OnBalanceSheetWithdraw(books, n, onSpoke.price, block)

UpdateAssetPrice(p, live) == /\ SpokeLog([onSpoke EXCEPT !.price = p])
                             /\ books' = OnUpdateAssetPrice(books, p, live, block)

UpdateMaxAssetPriceAge(age) == /\ SpokeLog([onSpoke EXCEPT !.maxAge = age])
                               /\ books' = OnUpdateMaxAssetPriceAge(books, age, block)

\* The block event, and the next block, of the same period or of the next.
EndBlock(next) == /\ block < MaxBlocks
                  /\ books' = OnBlock(books, memory, period, block)
                  /\ memory' = Remembered(books, memory, period)
                  /\ rolled' = IF opened THEN Put(rolled, block, onSpoke.held) ELSE rolled
                  /\ opened' = (next > period)
                  /\ period' = next
                  /\ block' = block + 1
                  /\ UNCHANGED <<onSpoke, onHub, moves>>

Restart == /\ memory # None
           /\ memory' = None
           /\ UNCHANGED <<books, onSpoke, onHub, block, period, opened, rolled, moves>>

-----------------------------------------------------------------------------
(* The hub *)

NotifyAssetPrice(a, live) == /\ CountMove
                             /\ books' = OnNotifyAssetPrice(books, a, live)
                             /\ UNCHANGED <<onSpoke, onHub>> /\ SameBlock

HubLog(a, after) == /\ CountMove
                    /\ onHub' = [onHub EXCEPT ![a] = after]
                    /\ UNCHANGED onSpoke /\ SameBlock

\* Amounts may arrive from the spoke before the holding is initialized.
Initialize(a, v, liability, kinds) ==
  /\ onHub[a].valuation = None
  /\ HubLog(a, [onHub[a] EXCEPT !.valuation = v])
  /\ books' = OnInitialize(books, a, v, liability, kinds)

IncreaseHolding(a, n, value) ==
  /\ HubLog(a, [onHub[a] EXCEPT !.quantity = @ + n, !.value = @ + value])
  /\ books' = OnIncrease(books, a, n, value, block)

DecreaseHolding(a, n, value) ==
  /\ onHub[a].quantity >= n /\ onHub[a].value >= value
  /\ HubLog(a, [onHub[a] EXCEPT !.quantity = @ - n, !.value = @ - value])
  /\ books' = OnDecrease(books, a, n, value)

\* The hub values the holding again and logs by how much the value changed.
Revalue(a, value) ==
  LET old == onHub[a].value
  IN  /\ onHub[a].valuation # None
      /\ HubLog(a, [onHub[a] EXCEPT !.value = value])
      /\ books' = OnUpdate(books, a, value >= old, IF value >= old THEN value - old ELSE old - value, block)

UpdateValuation(a, v) == /\ onHub[a].valuation # None
                         /\ HubLog(a, [onHub[a] EXCEPT !.valuation = v])
                         /\ books' = OnUpdateValuation(books, a, v, block)

-----------------------------------------------------------------------------

BookInit ==
  /\ books = [holding |-> EmptyTable, account |-> EmptyTable, holdingSnapshot |-> EmptyTable,
              asset |-> EmptyTable, escrow |-> EmptyTable, holdingEscrow |-> EmptyTable,
              escrowSnapshot |-> EmptyTable, period |-> None]
  /\ onSpoke = [known |-> {}, asset |-> None, assetSince |-> 0, escrow |-> None, escrowSince |-> 0,
                address |-> None, price |-> 0, maxAge |-> 0, held |-> [a \in AssetIds |-> 0]]
  /\ onHub = [a \in AssetIds |-> [quantity |-> 0, value |-> 0, valuation |-> None]]
  /\ memory = None /\ block = 1 /\ period = 1 /\ opened = FALSE /\ rolled = EmptyTable /\ moves = 0

Ages == {1}   \* it is set as a price is, of which there are two

EscrowNext ==
  \/ \E a \in AssetIds : Register(a)
  \/ \E e \in PoolEscrows : DeployEscrow(e)
  \/ \E n \in BookAmounts : Deposit(n) \/ Withdraw(n)
  \/ \E p \in BookPrices, live \in BOOLEAN : UpdateAssetPrice(p, live)
  \/ \E age \in Ages : UpdateMaxAssetPriceAge(age)
  \/ \E a \in AssetIds, live \in BOOLEAN : NotifyAssetPrice(a, live)
  \/ \E next \in {period, period + 1} : EndBlock(next)
  \/ Restart

\* The hub's account types, of which a liability may have some that are not known.
HoldingNext ==
  \E a \in AssetIds, v \in BookPrices :
    \/ \E liability \in BOOLEAN, kinds \in {<<0, 1>>, <<4, 5>>} : Initialize(a, v, liability, kinds)
    \/ UpdateValuation(a, v)
    \/ Revalue(a, v)
    \/ \E n \in BookAmounts : IncreaseHolding(a, n, v) \/ DecreaseHolding(a, n, v)

BookSpec == BookInit /\ [][EscrowNext \/ HoldingNext]_bookVars

-----------------------------------------------------------------------------
(* Properties *)

BookTypeOK ==
  /\ DOMAIN books.asset \subseteq AssetIds /\ DOMAIN books.escrow \subseteq PoolEscrows
  /\ DOMAIN books.holdingEscrow \subseteq AssetIds /\ DOMAIN books.holding \subseteq AssetIds
  /\ \A a \in DOMAIN books.holdingEscrow :
       books.holdingEscrow[a] \in [amount: Int, price: Nat, maxAge: Nat, escrow: PoolEscrows, inProgress: BOOLEAN]
  /\ \A a \in DOMAIN books.holding :
       books.holding[a] \in [quantity: Nat, value: Nat, valuation: BookPrices \cup {None},
                             liability: BOOLEAN, initialized: BOOLEAN]
  /\ books.period \in Nat \cup {None} /\ memory \in Nat \cup {None}

\* The books are those of the chains: an escrow's row has what came in less what
\* went out under the asset id of the time, the price and age last set for it and
\* the escrow of its last log, though the asset is registered again, the escrow
\* is deployed again and the hub's notifications create and touch the same rows;
\* a holding has the quantity and value of the hub, initialized before or after.
BooksFollowTheChains ==
  /\ \A a \in AssetIds : RowOr(books.holdingEscrow, a, NewHoldingEscrow).amount = onSpoke.held[a]
  /\ \A a \in DOMAIN books.holdingEscrow : a = onSpoke.asset =>
       LET row == books.holdingEscrow[a]
       IN  /\ row.price = onSpoke.price /\ row.maxAge = onSpoke.maxAge
           /\ onSpoke.address # None => row.escrow = onSpoke.address
  /\ \A a \in AssetIds :
       LET row == RowOr(books.holding, a, NewHolding)
       IN  [quantity |-> row.quantity, value |-> row.value, valuation |-> row.valuation] = onHub[a]

\* The first block of every period, and no other, has a snapshot of the escrows
\* that hold something at its end, whatever was restarted in between.
PeriodsAreSnapshot ==
  \A b \in 1..(block - 1) :
    {<<k[1], books.escrowSnapshot[k].amount>> :
       k \in {x \in DOMAIN books.escrowSnapshot : x[2] = b /\ x[3] = "NewPeriod"}}
      = IF Has(rolled, b) THEN {<<a, rolled[b][a]>> : a \in {x \in AssetIds : rolled[b][x] # 0}} ELSE {}

=============================================================================
