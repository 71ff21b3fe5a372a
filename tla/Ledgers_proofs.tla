----------------------------- MODULE Ledgers_proofs -----------------------------
(***************************************************************************)
(* For any assets, escrows, amounts and prices, and any number of logs,     *)
(* blocks and restarts: the books of the escrow and of the hub are those of *)
(* the chains, and the first block of every period, and no other, has a     *)
(* snapshot of what the escrow holds.  The basin's accounts add up in every *)
(* behaviour: the debt with its ledger, the pending credit with the open    *)
(* requests, the collected fees with the swaps.  What is proved of the      *)
(* orders, the basin and the books holds of all three together.             *)
(***************************************************************************)
EXTENDS MCLedgers, Orders_proofs

HubRow == [quantity: Nat, value: Nat, valuation: BookPrices \cup {None}]
HoldingRow == [quantity: Nat, value: Nat, valuation: BookPrices \cup {None},
               liability: BOOLEAN, initialized: BOOLEAN]
EscrowRow == [amount: Int, price: Nat, maxAge: Nat, escrow: PoolEscrows \cup {None}, inProgress: BOOLEAN]

\* What the hub knows of a holding, as its row has it.
Seen(row) == [quantity |-> row.quantity, value |-> row.value, valuation |-> row.valuation]

\* Key k is the newest of a table that is sorted by the block of creation.
Newest(t, k, since) ==
  /\ k \in DOMAIN t /\ t[k] = since
  /\ \A x \in DOMAIN t : t[x] \in Nat /\ (x # k => t[x] < since)

SpokeState == [known: SUBSET AssetIds, asset: AssetIds \cup {None}, assetSince: Nat,
               escrow: PoolEscrows \cup {None}, escrowSince: Nat, address: PoolEscrows \cup {None},
               price: Nat, maxAge: Nat, held: [AssetIds -> Int]]

Shape == /\ {"holding", "asset", "escrow", "holdingEscrow"} \subseteq DOMAIN books
         /\ block \in Nat
         /\ onSpoke \in SpokeState
         /\ onHub \in [AssetIds -> HubRow]

\* The lookup by token finds the asset of now, the lookup by pool its escrow.
Lookups ==
  /\ DOMAIN books.asset \subseteq AssetIds /\ DOMAIN books.escrow \subseteq PoolEscrows
  /\ onSpoke.known = DOMAIN books.asset
  /\ onSpoke.asset # None => Newest(books.asset, onSpoke.asset, onSpoke.assetSince)
  /\ onSpoke.escrow # None => Newest(books.escrow, onSpoke.escrow, onSpoke.escrowSince)
  /\ books.asset # EmptyTable => Newest(books.asset, onSpoke.asset, onSpoke.assetSince)
  /\ books.escrow # EmptyTable => Newest(books.escrow, onSpoke.escrow, onSpoke.escrowSince)

HoldingsAgree ==
  /\ DOMAIN books.holding \subseteq AssetIds
  /\ \A a \in DOMAIN books.holding : books.holding[a] \in HoldingRow
  /\ \A a \in AssetIds : Seen(RowOr(books.holding, a, NewHolding)) = onHub[a]

\* The asset of now has its price, age and escrow, or none of them and no row.
EscrowsAgree ==
  /\ DOMAIN books.holdingEscrow \subseteq DOMAIN books.asset
  /\ \A a \in DOMAIN books.holdingEscrow : books.holdingEscrow[a] \in EscrowRow /\ books.holdingEscrow[a].escrow \in PoolEscrows
  /\ \A a \in AssetIds : RowOr(books.holdingEscrow, a, NewHoldingEscrow).amount = onSpoke.held[a]
  /\ onSpoke.asset \in AssetIds =>
       LET row == RowOr(books.holdingEscrow, onSpoke.asset, NewHoldingEscrow)
       IN  /\ row.price = onSpoke.price /\ row.maxAge = onSpoke.maxAge
           /\ onSpoke.address # None => Has(books.holdingEscrow, onSpoke.asset) /\ row.escrow = onSpoke.address
  /\ onSpoke.address # None => onSpoke.address = onSpoke.escrow

\* The inductive invariant.
Inv == Shape /\ Lookups /\ HoldingsAgree /\ EscrowsAgree

-----------------------------------------------------------------------------
(* Tables *)

\* The query that sorts by block returns the newest row.
LEMMA LatestIsNewest == ASSUME NEW t, NEW k, NEW since \in Nat, Newest(t, k, since) PROVE Latest(t) = k
<1>1. \A x \in DOMAIN t : t[k] >= t[x]  BY DEF Newest
<1>2. ASSUME NEW y \in DOMAIN t, \A x \in DOMAIN t : t[y] >= t[x] PROVE y = k
  BY <1>2 DEF Newest
<1>3. k \in DOMAIN t  BY DEF Newest
<1> QED BY <1>1, <1>2, <1>3 DEF Latest

\* A key inserted with a later block is the newest.
LEMMA InsertNewest ==
  ASSUME NEW t, NEW k, k \notin DOMAIN t, NEW since \in Nat,
         \A x \in DOMAIN t : t[x] \in Nat /\ t[x] < since
  PROVE  /\ Newest(Insert(t, k, since), k, since)
         /\ DOMAIN Insert(t, k, since) = DOMAIN t \cup {k}
  BY DEF Insert, Put, Has, Newest

LEMMA BookOrPut ==
  ASSUME NEW t, NEW k, NEW row, NEW x, NEW new
  PROVE  RowOr(Put(t, k, row), x, new) = IF x = k THEN row ELSE RowOr(t, x, new)
  BY DEF RowOr, Put, Has

LEMMA NewRows == NewHolding \in HoldingRow /\ NewHoldingEscrow \in EscrowRow
  BY DEF NewHolding, HoldingRow, NewHoldingEscrow, EscrowRow, None

-----------------------------------------------------------------------------
(* A step of the hub changes one holding *)

LEMMA HoldingStep ==
  ASSUME Inv, NEW a \in AssetIds, NEW row \in HoldingRow, NEW after \in HubRow,
         Seen(row) = after,
         onHub' = [onHub EXCEPT ![a] = after],
         DOMAIN books' = DOMAIN books,
         books'.holding = Put(books.holding, a, row),
         books'.asset = books.asset, books'.escrow = books.escrow,
         books'.holdingEscrow = books.holdingEscrow,
         UNCHANGED <<onSpoke, block>>
  PROVE  Inv'
<1>1. Shape'  BY DEF Inv, Shape
<1>2. Lookups'  BY DEF Inv, Lookups
<1>3. EscrowsAgree'  BY DEF Inv, EscrowsAgree
<1>4. \A x \in DOMAIN books'.holding : books'.holding[x] \in HoldingRow
  BY DEF Inv, HoldingsAgree, Put
<1>5. ASSUME NEW x \in AssetIds PROVE Seen(RowOr(books'.holding, x, NewHolding)) = onHub'[x]
  BY BookOrPut DEF Inv, HoldingsAgree, Shape
<1>6. DOMAIN books'.holding \subseteq AssetIds  BY DEF Inv, HoldingsAgree, Put
<1> QED BY <1>1, <1>2, <1>3, <1>4, <1>5, <1>6 DEF Inv, HoldingsAgree

\* The row that a handler of the hub reads.
LEMMA HoldingRead ==
  ASSUME Inv, NEW a \in AssetIds
  PROVE  /\ RowOr(books.holding, a, NewHolding) \in HoldingRow
         /\ Seen(RowOr(books.holding, a, NewHolding)) = onHub[a]
  BY NewRows DEF Inv, HoldingsAgree, RowOr, Has

\* What the hub sees of a row that changed is what it has changed.
LEMMA SeenAmounts ==
  ASSUME NEW row \in HoldingRow, NEW q \in Nat, NEW w \in Nat
  PROVE  LET new == [row EXCEPT !.quantity = q, !.value = w]
         IN  /\ new \in HoldingRow
             /\ Seen(new) = [Seen(row) EXCEPT !.quantity = q, !.value = w]
             /\ Seen(new) \in HubRow
<1> DEFINE new == [row EXCEPT !.quantity = q, !.value = w]
<1>1. new \in HoldingRow  BY DEF HoldingRow
<1>2. new.quantity = q /\ new.value = w /\ new.valuation = row.valuation  BY DEF HoldingRow
<1>3. Seen(new) \in HubRow  BY <1>1 DEF HoldingRow, Seen, HubRow
<1> HIDE DEF new
<1>4. Seen(new) = [quantity |-> q, value |-> w, valuation |-> row.valuation]  BY <1>2 DEF Seen
<1>5. [Seen(row) EXCEPT !.quantity = q, !.value = w] = [quantity |-> q, value |-> w, valuation |-> row.valuation]
  <2> DEFINE z == Seen(row)
  <2>1. z \in HubRow /\ z.valuation = row.valuation  BY DEF Seen, HubRow, HoldingRow
  <2> HIDE DEF z
  <2> DEFINE y == [z EXCEPT !.quantity = q, !.value = w]
  <2>2. y \in HubRow /\ y.quantity = q /\ y.value = w /\ y.valuation = row.valuation
    BY <2>1 DEF HubRow
  <2> HIDE DEF y
  <2>3. y = [quantity |-> q, value |-> w, valuation |-> row.valuation]  BY <2>2 DEF HubRow
  <2> QED BY <2>3 DEF y, z
<1> QED BY <1>1, <1>3, <1>4, <1>5 DEF new

LEMMA SeenValuation ==
  ASSUME NEW row \in HoldingRow, NEW v \in BookPrices, NEW b \in BOOLEAN
  PROVE  LET new == [row EXCEPT !.initialized = TRUE, !.valuation = v, !.liability = b]
         IN  /\ new \in HoldingRow
             /\ Seen(new) = [Seen(row) EXCEPT !.valuation = v]
             /\ Seen(new) \in HubRow
<1> DEFINE new == [row EXCEPT !.initialized = TRUE, !.valuation = v, !.liability = b]
<1>1. new \in HoldingRow  BY DEF HoldingRow
<1>2. new.quantity = row.quantity /\ new.value = row.value /\ new.valuation = v  BY DEF HoldingRow
<1>3. Seen(new) \in HubRow  BY <1>1 DEF HoldingRow, Seen, HubRow
<1> HIDE DEF new
<1>4. Seen(new) = [quantity |-> row.quantity, value |-> row.value, valuation |-> v]  BY <1>2 DEF Seen
<1>5. [Seen(row) EXCEPT !.valuation = v] = [quantity |-> row.quantity, value |-> row.value, valuation |-> v]
  BY DEF Seen
<1> QED BY <1>1, <1>3, <1>4, <1>5 DEF new

LEMMA HoldingNextOK == Inv /\ HoldingNext => Inv'
<1> SUFFICES ASSUME Inv, NEW a \in AssetIds, NEW v \in BookPrices,
                    \/ \E liability \in BOOLEAN, kinds \in {<<0, 1>>, <<4, 5>>} : Initialize(a, v, liability, kinds)
                    \/ UpdateValuation(a, v)
                    \/ Revalue(a, v)
                    \/ \E n \in BookAmounts : IncreaseHolding(a, n, v) \/ DecreaseHolding(a, n, v)
             PROVE  Inv'
  BY DEF HoldingNext
<1> DEFINE row == RowOr(books.holding, a, NewHolding)
<1>0. /\ row \in HoldingRow /\ Seen(row) = onHub[a] /\ v \in Nat
      /\ {"holding", "asset", "escrow", "holdingEscrow"} \subseteq DOMAIN books
  BY HoldingRead, BookAssumption DEF Inv, Shape, BookAssumption
<1> HIDE DEF row
<1>1. ASSUME NEW liability \in BOOLEAN, NEW kinds, Initialize(a, v, liability, kinds) PROVE Inv'
  <2> DEFINE new == [row EXCEPT !.initialized = TRUE, !.valuation = v, !.liability = liability]
  <2>1. new \in HoldingRow /\ Seen(new) = [onHub[a] EXCEPT !.valuation = v] /\ Seen(new) \in HubRow
    BY <1>0, SeenValuation
  <2>2. books'.holding = Put(books.holding, a, new)
        /\ DOMAIN books' = DOMAIN books
        /\ books'.asset = books.asset /\ books'.escrow = books.escrow
        /\ books'.holdingEscrow = books.holdingEscrow
    BY <1>0, <1>1 DEF Initialize, OnInitialize, SaveHolding, HoldingOf, row
  <2> HIDE DEF new
  <2> QED BY <1>1, <2>1, <2>2, HoldingStep DEF Initialize, HubLog, SameBlock
<1>2. CASE UpdateValuation(a, v)
  <2> DEFINE new == [row EXCEPT !.valuation = v]
  <2>1. new \in HoldingRow /\ Seen(new) = [onHub[a] EXCEPT !.valuation = v]
        /\ [onHub[a] EXCEPT !.valuation = v] \in HubRow
    BY <1>0 DEF HoldingRow, Seen, HubRow
  <2>2. books'.holding = Put(books.holding, a, new)
        /\ DOMAIN books' = DOMAIN books
        /\ books'.asset = books.asset /\ books'.escrow = books.escrow
        /\ books'.holdingEscrow = books.holdingEscrow
    BY <1>0, <1>2 DEF UpdateValuation, OnUpdateValuation, SnapshotHolding, SaveHolding, HoldingOf, row
  <2> HIDE DEF new
  <2> QED BY <1>2, <2>1, <2>2, HoldingStep DEF UpdateValuation, HubLog, SameBlock
<1>3. CASE Revalue(a, v)
  <2> DEFINE old == onHub[a].value
             new == UpdateBy(row, v >= old, IF v >= old THEN v - old ELSE old - v)
  <2>1. new \in HoldingRow /\ Seen(new) = [onHub[a] EXCEPT !.value = v]
        /\ [onHub[a] EXCEPT !.value = v] \in HubRow
    BY <1>0 DEF HoldingRow, Seen, HubRow, UpdateBy
  <2>2. books'.holding = Put(books.holding, a, new)
        /\ DOMAIN books' = DOMAIN books
        /\ books'.asset = books.asset /\ books'.escrow = books.escrow
        /\ books'.holdingEscrow = books.holdingEscrow
    BY <1>0, <1>3 DEF Revalue, OnUpdate, SnapshotHolding, SaveHolding, HoldingOf, row
  <2> HIDE DEF new
  <2> QED BY <1>3, <2>1, <2>2, HoldingStep DEF Revalue, HubLog, SameBlock
<1>4. ASSUME NEW n \in BookAmounts, IncreaseHolding(a, n, v) PROVE Inv'
  <2> DEFINE new == IncreaseBy(row, n, v)
             after == [onHub[a] EXCEPT !.quantity = @ + n, !.value = @ + v]
  <2>0. n \in Nat  BY BookAssumption DEF BookAssumption
  <2>1. row.quantity + n \in Nat /\ row.value + v \in Nat
        /\ row.quantity = onHub[a].quantity /\ row.value = onHub[a].value
    BY <1>0, <2>0 DEF HoldingRow, Seen
  <2>4. new \in HoldingRow /\ Seen(new) = after /\ after \in HubRow
    <3> DEFINE q == row.quantity + n
               w == row.value + v
    <3>1. new = [row EXCEPT !.quantity = q, !.value = w]  BY DEF IncreaseBy
    <3>2. after = [Seen(row) EXCEPT !.quantity = q, !.value = w]  BY <1>0, <2>1
    <3>3. q \in Nat /\ w \in Nat  BY <2>1
    <3> HIDE DEF q, w
    <3>4. /\ [row EXCEPT !.quantity = q, !.value = w] \in HoldingRow
          /\ Seen([row EXCEPT !.quantity = q, !.value = w]) = [Seen(row) EXCEPT !.quantity = q, !.value = w]
          /\ Seen([row EXCEPT !.quantity = q, !.value = w]) \in HubRow
      BY <1>0, <3>3, SeenAmounts
    <3> HIDE DEF new, after
    <3> QED BY <3>1, <3>2, <3>4
  <2>2. books'.holding = Put(books.holding, a, new)
        /\ DOMAIN books' = DOMAIN books
        /\ books'.asset = books.asset /\ books'.escrow = books.escrow
        /\ books'.holdingEscrow = books.holdingEscrow
    BY <1>0, <1>4 DEF IncreaseHolding, OnIncrease, SnapshotHolding, SaveHolding, HoldingOf, row
  <2>3. onHub' = [onHub EXCEPT ![a] = after]  BY <1>4 DEF IncreaseHolding, HubLog
  <2> HIDE DEF new, after
  <2> QED BY <1>4, <2>4, <2>2, <2>3, HoldingStep DEF IncreaseHolding, HubLog, SameBlock
<1>5. ASSUME NEW n \in BookAmounts, DecreaseHolding(a, n, v) PROVE Inv'
  <2> DEFINE new == DecreaseBy(row, n, v)
             after == [onHub[a] EXCEPT !.quantity = @ - n, !.value = @ - v]
  <2>0. n \in Nat  BY BookAssumption DEF BookAssumption
  <2>1. row.quantity - n \in Nat /\ row.value - v \in Nat
        /\ row.quantity = onHub[a].quantity /\ row.value = onHub[a].value
    <3>1. row.quantity = onHub[a].quantity /\ row.value = onHub[a].value  BY <1>0 DEF Seen
    <3>2. row.quantity \in Nat /\ row.value \in Nat  BY <1>0 DEF HoldingRow
    <3>3. onHub[a].quantity >= n /\ onHub[a].value >= v  BY <1>5 DEF DecreaseHolding
    <3> QED BY <1>0, <2>0, <3>1, <3>2, <3>3
  <2>4. new \in HoldingRow /\ Seen(new) = after /\ after \in HubRow
    <3> DEFINE q == row.quantity - n
               w == row.value - v
    <3>1. new = [row EXCEPT !.quantity = q, !.value = w]  BY DEF DecreaseBy
    <3>2. after = [Seen(row) EXCEPT !.quantity = q, !.value = w]  BY <1>0, <2>1
    <3>3. q \in Nat /\ w \in Nat  BY <2>1
    <3> HIDE DEF q, w
    <3>4. /\ [row EXCEPT !.quantity = q, !.value = w] \in HoldingRow
          /\ Seen([row EXCEPT !.quantity = q, !.value = w]) = [Seen(row) EXCEPT !.quantity = q, !.value = w]
          /\ Seen([row EXCEPT !.quantity = q, !.value = w]) \in HubRow
      BY <1>0, <3>3, SeenAmounts
    <3> HIDE DEF new, after
    <3> QED BY <3>1, <3>2, <3>4
  <2>2. books'.holding = Put(books.holding, a, new)
        /\ DOMAIN books' = DOMAIN books
        /\ books'.asset = books.asset /\ books'.escrow = books.escrow
        /\ books'.holdingEscrow = books.holdingEscrow
    BY <1>0, <1>5 DEF DecreaseHolding, OnDecrease, SaveHolding, HoldingOf, row
  <2>3. onHub' = [onHub EXCEPT ![a] = after]  BY <1>5 DEF DecreaseHolding, HubLog
  <2> HIDE DEF new, after
  <2> QED BY <1>5, <2>4, <2>2, <2>3, HoldingStep DEF DecreaseHolding, HubLog, SameBlock
<1> QED BY <1>1, <1>2, <1>3, <1>4, <1>5

-----------------------------------------------------------------------------
(* A step of the spoke changes the escrow's row of one asset *)

\* The tables that a step of the spoke's books leaves alone.
KeepsBooks == /\ DOMAIN books' = DOMAIN books /\ books'.holding = books.holding
              /\ books'.asset = books.asset /\ books'.escrow = books.escrow

KeepsKnown == /\ onSpoke'.known = onSpoke.known
              /\ onSpoke'.asset = onSpoke.asset /\ onSpoke'.assetSince = onSpoke.assetSince
              /\ onSpoke'.escrow = onSpoke.escrow /\ onSpoke'.escrowSince = onSpoke.escrowSince

LEMMA EscrowStep ==
  ASSUME Inv, NEW a \in DOMAIN books.asset, NEW row \in EscrowRow, row.escrow \in PoolEscrows,
         KeepsBooks, KeepsKnown, UNCHANGED <<onHub, block>>,
         books'.holdingEscrow = Put(books.holdingEscrow, a, row),
         onSpoke' \in SpokeState,
         row.amount = onSpoke'.held[a],
         \A x \in AssetIds : x # a => onSpoke'.held[x] = onSpoke.held[x],
         a = onSpoke.asset => /\ row.price = onSpoke'.price /\ row.maxAge = onSpoke'.maxAge
                              /\ onSpoke'.address # None => row.escrow = onSpoke'.address,
         a # onSpoke.asset => /\ onSpoke'.price = onSpoke.price /\ onSpoke'.maxAge = onSpoke.maxAge
                              /\ onSpoke'.address = onSpoke.address,
         onSpoke'.address # None => onSpoke'.address = onSpoke.escrow
  PROVE  Inv'
<1>1. Shape'  BY DEF Inv, Shape, KeepsBooks
<1>2. Lookups'  BY DEF Inv, Lookups, KeepsBooks, KeepsKnown
<1>3. HoldingsAgree'  BY DEF Inv, HoldingsAgree, KeepsBooks
<1>4. EscrowsAgree'
  <2>1. DOMAIN books'.holdingEscrow \subseteq DOMAIN books'.asset
    BY DEF Inv, EscrowsAgree, KeepsBooks, Put
  <2>2. \A x \in DOMAIN books'.holdingEscrow :
          books'.holdingEscrow[x] \in EscrowRow /\ books'.holdingEscrow[x].escrow \in PoolEscrows
    BY DEF Inv, EscrowsAgree, Put
  <2>3. \A x \in AssetIds : RowOr(books'.holdingEscrow, x, NewHoldingEscrow).amount = onSpoke'.held[x]
    BY BookOrPut DEF Inv, EscrowsAgree
  <2>4. ASSUME onSpoke'.asset \in AssetIds
        PROVE  LET r == RowOr(books'.holdingEscrow, onSpoke'.asset, NewHoldingEscrow)
               IN  /\ r.price = onSpoke'.price /\ r.maxAge = onSpoke'.maxAge
                   /\ onSpoke'.address # None =>
                        Has(books'.holdingEscrow, onSpoke'.asset) /\ r.escrow = onSpoke'.address
    <3> DEFINE k == onSpoke.asset
               r == RowOr(books'.holdingEscrow, k, NewHoldingEscrow)
    <3>1. k \in AssetIds /\ onSpoke'.asset = k  BY <2>4 DEF KeepsKnown
    <3>2. CASE a = k
      <4>1. r = row  BY <3>2, BookOrPut
      <4>2. Has(books'.holdingEscrow, k)  BY <3>2 DEF Has, Put
      <4> QED BY <3>1, <3>2, <4>1, <4>2
    <3>3. CASE a # k
      <4>1. r = RowOr(books.holdingEscrow, k, NewHoldingEscrow)  BY <3>3, BookOrPut
      <4>2. Has(books.holdingEscrow, k) => Has(books'.holdingEscrow, k)  BY DEF Has, Put
      <4> QED BY <3>1, <3>3, <4>1, <4>2 DEF Inv, EscrowsAgree
    <3> QED BY <3>2, <3>3
  <2> QED BY <2>1, <2>2, <2>3, <2>4 DEF EscrowsAgree, KeepsKnown
<1> QED BY <1>1, <1>2, <1>3, <1>4 DEF Inv

\* A step that leaves what the invariant is about.
LEMMA SameStep ==
  ASSUME Inv, KeepsBooks, books'.holdingEscrow = books.holdingEscrow, UNCHANGED <<onSpoke, onHub>>, block' \in Nat
  PROVE  Inv'
<1>1. Shape'  BY DEF Inv, Shape, KeepsBooks
<1>2. Lookups'  BY DEF Inv, Lookups, KeepsBooks
<1>3. HoldingsAgree'  BY DEF Inv, HoldingsAgree, KeepsBooks
<1>4. EscrowsAgree'  BY DEF Inv, EscrowsAgree, KeepsBooks
<1> QED BY <1>1, <1>2, <1>3, <1>4 DEF Inv

\* The row a log of the spoke reads, and the escrow it gives it.
Old == RowOr(books.holdingEscrow, onSpoke.asset, NewHoldingEscrow)
Refreshed == [Old EXCEPT !.escrow = onSpoke.escrow]

LEMMA SpokeReads ==
  ASSUME Inv, onSpoke.asset # None, onSpoke.escrow # None
  PROVE  /\ onSpoke.asset \in DOMAIN books.asset /\ onSpoke.asset \in AssetIds
         /\ books.asset # EmptyTable /\ books.escrow # EmptyTable
         /\ LatestAsset(books) = onSpoke.asset /\ Latest(books.escrow) = onSpoke.escrow
         /\ Refreshed \in EscrowRow /\ Refreshed.escrow = onSpoke.escrow
         /\ Refreshed.amount = onSpoke.held[onSpoke.asset]
         /\ Refreshed.price = onSpoke.price /\ Refreshed.maxAge = onSpoke.maxAge
<1>1. /\ onSpoke.assetSince \in Nat /\ Newest(books.asset, onSpoke.asset, onSpoke.assetSince)
      /\ onSpoke.escrowSince \in Nat /\ Newest(books.escrow, onSpoke.escrow, onSpoke.escrowSince)
  BY DEF Inv, Lookups, Shape, SpokeState
<1>2. LatestAsset(books) = onSpoke.asset /\ Latest(books.escrow) = onSpoke.escrow
  BY <1>1, LatestIsNewest DEF LatestAsset
<1>3. onSpoke.asset \in DOMAIN books.asset /\ onSpoke.asset \in AssetIds
  BY <1>1 DEF Newest, Inv, Lookups
<1>4. books.asset # EmptyTable /\ books.escrow # EmptyTable
  BY <1>1 DEF Newest, EmptyTable
<1>5. onSpoke.escrow \in PoolEscrows  BY DEF Inv, Shape, SpokeState
<1>6. /\ Old \in EscrowRow /\ Old.amount = onSpoke.held[onSpoke.asset]
      /\ Old.price = onSpoke.price /\ Old.maxAge = onSpoke.maxAge
  BY <1>3, NewRows DEF Inv, EscrowsAgree, Old, RowOr, Has
<1>7. /\ Refreshed \in EscrowRow /\ Refreshed.escrow = onSpoke.escrow
      /\ Refreshed.amount = Old.amount /\ Refreshed.price = Old.price /\ Refreshed.maxAge = Old.maxAge
  BY <1>5, <1>6 DEF Refreshed, EscrowRow
<1> QED BY <1>2, <1>3, <1>4, <1>6, <1>7

\* A log of the spoke writes the row, refreshed and changed to `row`.
LEMMA SpokeLogStep ==
  ASSUME Inv, NEW after \in SpokeState, SpokeLog(after), NEW row \in EscrowRow,
         KeepsBooks, books'.holdingEscrow = Put(books.holdingEscrow, onSpoke.asset, row),
         after.known = onSpoke.known,
         after.asset = onSpoke.asset, after.assetSince = onSpoke.assetSince,
         after.escrow = onSpoke.escrow, after.escrowSince = onSpoke.escrowSince,
         row.amount = after.held[onSpoke.asset],
         \A x \in AssetIds : x # onSpoke.asset => after.held[x] = onSpoke.held[x],
         row.price = after.price, row.maxAge = after.maxAge, row.escrow = onSpoke.escrow
  PROVE  Inv'
<1>1. onSpoke.escrow \in PoolEscrows \cup {None}  BY DEF Inv, Shape, SpokeState
<1>2. /\ onSpoke' \in SpokeState /\ onSpoke'.address = onSpoke.escrow
      /\ onSpoke'.known = after.known /\ onSpoke'.asset = after.asset /\ onSpoke'.assetSince = after.assetSince
      /\ onSpoke'.escrow = after.escrow /\ onSpoke'.escrowSince = after.escrowSince
      /\ onSpoke'.held = after.held /\ onSpoke'.price = after.price /\ onSpoke'.maxAge = after.maxAge
  BY <1>1 DEF SpokeLog, SpokeState
<1>3. onSpoke.asset \in DOMAIN books.asset  BY SpokeReads DEF SpokeLog
<1>4. row.escrow \in PoolEscrows  BY <1>1 DEF SpokeLog
<1> QED BY <1>2, <1>3, <1>4, EscrowStep DEF KeepsKnown, SpokeLog, SameBlock

-----------------------------------------------------------------------------
(* The steps of the spoke *)

LEMMA DepositOK == ASSUME Inv, NEW n \in BookAmounts, Deposit(n) PROVE Inv'
<1> DEFINE after == [onSpoke EXCEPT !.held[onSpoke.asset] = @ + n]
           row == [IncreaseAssetAmount(Refreshed, n) EXCEPT !.price = onSpoke.price]
<1>1. onSpoke.asset # None /\ onSpoke.escrow # None /\ SpokeLog(after)  BY DEF Deposit, SpokeLog
<1>2. n \in Int /\ onSpoke \in SpokeState  BY BookAssumption DEF BookAssumption, Inv, Shape
<1>3. /\ books'.holdingEscrow = Put(books.holdingEscrow, onSpoke.asset, row) /\ KeepsBooks
  BY <1>1, SpokeReads DEF Deposit, OnNoteDeposit, Record, Current, SnapshotEscrows, SaveEscrow, EscrowOf, Refreshed, Old,
                          KeepsBooks, Inv, Shape
<1>4. onSpoke.held[onSpoke.asset] \in Int  BY <1>1, <1>2, SpokeReads DEF SpokeState
<1>5. /\ after \in SpokeState /\ after.held[onSpoke.asset] = onSpoke.held[onSpoke.asset] + n
      /\ \A x \in AssetIds : x # onSpoke.asset => after.held[x] = onSpoke.held[x]
      /\ after.known = onSpoke.known /\ after.price = onSpoke.price /\ after.maxAge = onSpoke.maxAge
      /\ after.asset = onSpoke.asset /\ after.assetSince = onSpoke.assetSince
      /\ after.escrow = onSpoke.escrow /\ after.escrowSince = onSpoke.escrowSince
  BY <1>1, <1>2, <1>4, SpokeReads DEF SpokeState
<1>6. /\ row \in EscrowRow /\ row.amount = onSpoke.held[onSpoke.asset] + n
      /\ row.price = onSpoke.price /\ row.maxAge = onSpoke.maxAge /\ row.escrow = onSpoke.escrow
  <2>1. IncreaseAssetAmount(Refreshed, n) \in EscrowRow
        /\ IncreaseAssetAmount(Refreshed, n).amount = Refreshed.amount + n
        /\ IncreaseAssetAmount(Refreshed, n).maxAge = Refreshed.maxAge
        /\ IncreaseAssetAmount(Refreshed, n).escrow = Refreshed.escrow
    BY <1>1, <1>2, SpokeReads DEF EscrowRow, IncreaseAssetAmount
  <2>2. onSpoke.price \in Int  BY <1>2 DEF SpokeState
  <2> QED BY <1>1, <2>1, <2>2, SpokeReads DEF EscrowRow
<1> HIDE DEF after, row
<1> QED BY <1>1, <1>3, <1>5, <1>6, SpokeLogStep

LEMMA WithdrawOK == ASSUME Inv, NEW n \in BookAmounts, Withdraw(n) PROVE Inv'
<1> DEFINE after == [onSpoke EXCEPT !.held[onSpoke.asset] = @ - n]
           row == [DecreaseAssetAmount(Refreshed, n) EXCEPT !.price = onSpoke.price]
<1>1. onSpoke.asset # None /\ onSpoke.escrow # None /\ SpokeLog(after)  BY DEF Withdraw, SpokeLog
<1>2. n \in Int /\ onSpoke \in SpokeState  BY BookAssumption DEF BookAssumption, Inv, Shape
<1>3. /\ books'.holdingEscrow = Put(books.holdingEscrow, onSpoke.asset, row) /\ KeepsBooks
  BY <1>1, SpokeReads DEF Withdraw, OnBalanceSheetWithdraw, Record, Current, SnapshotEscrows, SaveEscrow, EscrowOf, Refreshed, Old,
                          KeepsBooks, Inv, Shape
<1>4. onSpoke.held[onSpoke.asset] \in Int  BY <1>1, <1>2, SpokeReads DEF SpokeState
<1>5. /\ after \in SpokeState /\ after.held[onSpoke.asset] = onSpoke.held[onSpoke.asset] - n
      /\ \A x \in AssetIds : x # onSpoke.asset => after.held[x] = onSpoke.held[x]
      /\ after.known = onSpoke.known /\ after.price = onSpoke.price /\ after.maxAge = onSpoke.maxAge
      /\ after.asset = onSpoke.asset /\ after.assetSince = onSpoke.assetSince
      /\ after.escrow = onSpoke.escrow /\ after.escrowSince = onSpoke.escrowSince
  BY <1>1, <1>2, <1>4, SpokeReads DEF SpokeState
<1>6. /\ row \in EscrowRow /\ row.amount = onSpoke.held[onSpoke.asset] - n
      /\ row.price = onSpoke.price /\ row.maxAge = onSpoke.maxAge /\ row.escrow = onSpoke.escrow
  <2>1. DecreaseAssetAmount(Refreshed, n) \in EscrowRow
        /\ DecreaseAssetAmount(Refreshed, n).amount = Refreshed.amount - n
        /\ DecreaseAssetAmount(Refreshed, n).maxAge = Refreshed.maxAge
        /\ DecreaseAssetAmount(Refreshed, n).escrow = Refreshed.escrow
    BY <1>1, <1>2, SpokeReads DEF EscrowRow, DecreaseAssetAmount
  <2>2. onSpoke.price \in Int  BY <1>2 DEF SpokeState
  <2> QED BY <1>1, <2>1, <2>2, SpokeReads DEF EscrowRow
<1> HIDE DEF after, row
<1> QED BY <1>1, <1>3, <1>5, <1>6, SpokeLogStep

LEMMA UpdateAssetPriceOK ==
  ASSUME Inv, NEW p \in BookPrices, NEW live \in BOOLEAN, UpdateAssetPrice(p, live) PROVE Inv'
<1> DEFINE after == [onSpoke EXCEPT !.price = p]
           row == [Refreshed EXCEPT !.price = p, !.inProgress = Refreshed.inProgress /\ ~live]
<1>1. onSpoke.asset # None /\ onSpoke.escrow # None /\ SpokeLog(after)  BY DEF UpdateAssetPrice, SpokeLog
<1>2. p \in Nat /\ onSpoke \in SpokeState  BY BookAssumption DEF BookAssumption, Inv, Shape
<1>3. /\ books'.holdingEscrow = Put(books.holdingEscrow, onSpoke.asset, row) /\ KeepsBooks
  BY <1>1, SpokeReads DEF UpdateAssetPrice, OnUpdateAssetPrice, Record, Current, SnapshotEscrows, SaveEscrow, EscrowOf,
                          Refreshed, Old, KeepsBooks, Inv, Shape
<1>4. /\ after \in SpokeState /\ after.held = onSpoke.held
      /\ after.known = onSpoke.known /\ after.price = p /\ after.maxAge = onSpoke.maxAge
      /\ after.asset = onSpoke.asset /\ after.assetSince = onSpoke.assetSince
      /\ after.escrow = onSpoke.escrow /\ after.escrowSince = onSpoke.escrowSince
  BY <1>1, <1>2 DEF SpokeState
<1>5. /\ row \in EscrowRow /\ row.amount = onSpoke.held[onSpoke.asset]
      /\ row.price = p /\ row.maxAge = onSpoke.maxAge /\ row.escrow = onSpoke.escrow
  BY <1>1, <1>2, SpokeReads DEF EscrowRow
<1> HIDE DEF after, row
<1> QED BY <1>1, <1>3, <1>4, <1>5, SpokeLogStep

LEMMA UpdateMaxAssetPriceAgeOK ==
  ASSUME Inv, NEW age \in Nat, UpdateMaxAssetPriceAge(age) PROVE Inv'
<1> DEFINE after == [onSpoke EXCEPT !.maxAge = age]
           row == [Refreshed EXCEPT !.maxAge = age]
<1>1. onSpoke.asset # None /\ onSpoke.escrow # None /\ SpokeLog(after)  BY DEF UpdateMaxAssetPriceAge, SpokeLog
<1>2. onSpoke \in SpokeState  BY DEF Inv, Shape
<1>3. /\ books'.holdingEscrow = Put(books.holdingEscrow, onSpoke.asset, row) /\ KeepsBooks
  BY <1>1, SpokeReads DEF UpdateMaxAssetPriceAge, OnUpdateMaxAssetPriceAge, Record, Current, SnapshotEscrows,
                          SaveEscrow, EscrowOf, Refreshed, Old, KeepsBooks, Inv, Shape
<1>4. /\ after \in SpokeState /\ after.held = onSpoke.held
      /\ after.known = onSpoke.known /\ after.price = onSpoke.price /\ after.maxAge = age
      /\ after.asset = onSpoke.asset /\ after.assetSince = onSpoke.assetSince
      /\ after.escrow = onSpoke.escrow /\ after.escrowSince = onSpoke.escrowSince
  BY <1>1, <1>2 DEF SpokeState
<1>5. /\ row \in EscrowRow /\ row.amount = onSpoke.held[onSpoke.asset]
      /\ row.price = onSpoke.price /\ row.maxAge = age /\ row.escrow = onSpoke.escrow
  BY <1>1, <1>2, SpokeReads DEF EscrowRow
<1> HIDE DEF after, row
<1> QED BY <1>1, <1>3, <1>4, <1>5, SpokeLogStep

\* The hub announces a price: the row may be new, and then holds nothing.
LEMMA NotifyOK ==
  ASSUME Inv, NEW a \in AssetIds, NEW live \in BOOLEAN, NotifyAssetPrice(a, live) PROVE Inv'
<1>0. {"holding", "asset", "escrow", "holdingEscrow"} \subseteq DOMAIN books /\ block \in Nat
  BY DEF Inv, Shape
<1>1. CASE live /\ Has(books.asset, a) /\ books.escrow # EmptyTable
  <2> DEFINE old == RowOr(books.holdingEscrow, a, NewHoldingEscrow)
             row == [[old EXCEPT !.escrow = Latest(books.escrow)] EXCEPT !.inProgress = TRUE]
  <2>1. /\ onSpoke.escrowSince \in Nat /\ Newest(books.escrow, onSpoke.escrow, onSpoke.escrowSince)
        /\ onSpoke.escrow \in PoolEscrows /\ onSpoke \in SpokeState
    BY <1>1 DEF Inv, Lookups, Shape, SpokeState, Newest
  <2>2. Latest(books.escrow) = onSpoke.escrow  BY <2>1, LatestIsNewest
  <2>3. old \in EscrowRow /\ old.amount = onSpoke.held[a]
    BY NewRows DEF Inv, EscrowsAgree, RowOr, Has
  <2>4. a = onSpoke.asset => old.price = onSpoke.price /\ old.maxAge = onSpoke.maxAge
    BY DEF Inv, EscrowsAgree
  <2> HIDE DEF old
  <2>5. /\ row \in EscrowRow /\ row.amount = old.amount /\ row.escrow = onSpoke.escrow
        /\ row.price = old.price /\ row.maxAge = old.maxAge
    BY <2>1, <2>2, <2>3 DEF EscrowRow
  <2>6. books'.holdingEscrow = Put(books.holdingEscrow, a, row) /\ KeepsBooks
    BY <1>0, <1>1 DEF NotifyAssetPrice, OnNotifyAssetPrice, SaveEscrow, EscrowOf, KeepsBooks, old
  <2>7. onSpoke.address # None => onSpoke.address = onSpoke.escrow  BY DEF Inv, EscrowsAgree
  <2> HIDE DEF row
  <2>8. a \in DOMAIN books.asset  BY <1>1 DEF Has
  <2>9. UNCHANGED <<onSpoke, onHub, block>>  BY DEF NotifyAssetPrice, SameBlock
  <2> QED BY <2>1, <2>3, <2>4, <2>5, <2>6, <2>7, <2>8, <2>9, EscrowStep DEF KeepsKnown
<1>2. CASE ~(live /\ Has(books.asset, a) /\ books.escrow # EmptyTable)
  <2>1. books' = books  BY <1>2 DEF NotifyAssetPrice, OnNotifyAssetPrice
  <2> QED BY <1>0, <2>1, SameStep DEF NotifyAssetPrice, SameBlock, KeepsBooks
<1> QED BY <1>1, <1>2

\* A new asset has no row yet; what was the newest is not any more.
LEMMA RegisterOK == ASSUME Inv, NEW a \in AssetIds, Register(a) PROVE Inv'
<1>1. /\ onSpoke \in SpokeState /\ a \notin DOMAIN books.asset /\ onSpoke.assetSince < block
      /\ {"holding", "asset", "escrow", "holdingEscrow"} \subseteq DOMAIN books /\ block \in Nat
  BY DEF Inv, Shape, Lookups, Register
<1>2. /\ books'.asset = Insert(books.asset, a, block) /\ DOMAIN books' = DOMAIN books
      /\ books'.holding = books.holding /\ books'.escrow = books.escrow
      /\ books'.holdingEscrow = books.holdingEscrow /\ UNCHANGED <<onHub, block>>
  BY <1>1 DEF Register, OnRegisterAsset, SameBlock
<1>3. /\ onSpoke' \in SpokeState /\ onSpoke'.known = onSpoke.known \cup {a}
      /\ onSpoke'.asset = a /\ onSpoke'.assetSince = block
      /\ onSpoke'.escrow = onSpoke.escrow /\ onSpoke'.escrowSince = onSpoke.escrowSince
      /\ onSpoke'.price = 0 /\ onSpoke'.maxAge = 0 /\ onSpoke'.address = None /\ onSpoke'.held = onSpoke.held
  <2> DEFINE new == [onSpoke EXCEPT !.known = @ \cup {a}, !.asset = a, !.assetSince = block,
                                    !.price = 0, !.maxAge = 0, !.address = None]
  <2>1. onSpoke' = new  BY DEF Register
  <2>2. onSpoke.known \cup {a} \in SUBSET AssetIds  BY <1>1 DEF SpokeState
  <2>3. new \in SpokeState
    <3> DEFINE half == [onSpoke EXCEPT !.known = @ \cup {a}, !.asset = a, !.assetSince = block]
    <3>1. half \in SpokeState  BY <1>1, <2>2 DEF SpokeState
    <3>2. new = [half EXCEPT !.price = 0, !.maxAge = 0, !.address = None]  OBVIOUS
    <3> HIDE DEF half, new
    <3>3. 0 \in Nat  OBVIOUS
    <3>4. ASSUME NEW z \in Nat PROVE [half EXCEPT !.price = z, !.maxAge = z] \in SpokeState
      BY <3>1 DEF SpokeState
    <3>5. ASSUME NEW x \in SpokeState PROVE [x EXCEPT !.address = None] \in SpokeState
      BY DEF SpokeState
    <3>6. [half EXCEPT !.price = 0, !.maxAge = 0] \in SpokeState  BY <3>3, <3>4
    <3> QED BY <3>2, <3>5, <3>6
  <2>4. /\ new.known = onSpoke.known \cup {a} /\ new.asset = a /\ new.assetSince = block
        /\ new.escrow = onSpoke.escrow /\ new.escrowSince = onSpoke.escrowSince
    BY <1>1 DEF SpokeState
  <2>5. new.price = 0 /\ new.maxAge = 0 /\ new.address = None /\ new.held = onSpoke.held
    BY <1>1 DEF SpokeState
  <2> HIDE DEF new
  <2> QED BY <2>1, <2>3, <2>4, <2>5
<1>4. Newest(books'.asset, a, block) /\ DOMAIN books'.asset = DOMAIN books.asset \cup {a}
  <2>1. \A x \in DOMAIN books.asset : books.asset[x] \in Nat /\ books.asset[x] < block
    <3>1. SUFFICES ASSUME NEW x \in DOMAIN books.asset PROVE books.asset[x] \in Nat /\ books.asset[x] < block
      OBVIOUS
    <3>2. books.asset # EmptyTable  BY DEF EmptyTable
    <3>3. Newest(books.asset, onSpoke.asset, onSpoke.assetSince)  BY <3>2 DEF Inv, Lookups
    <3> QED BY <1>1, <3>3 DEF Newest, SpokeState
  <2>2. /\ Newest(Insert(books.asset, a, block), a, block)
        /\ DOMAIN Insert(books.asset, a, block) = DOMAIN books.asset \cup {a}
    <3> DEFINE t == books.asset
    <3>1. a \notin DOMAIN t /\ block \in Nat /\ \A x \in DOMAIN t : t[x] \in Nat /\ t[x] < block
      BY <1>1, <2>1
    <3> HIDE DEF t
    <3>2. Newest(Insert(t, a, block), a, block) /\ DOMAIN Insert(t, a, block) = DOMAIN t \cup {a}
      BY <3>1, InsertNewest
    <3> QED BY <3>2 DEF t
  <2> QED BY <1>2, <2>2
<1>5. Shape'  BY <1>2, <1>3 DEF Inv, Shape
<1>6. Lookups'  BY <1>2, <1>3, <1>4 DEF Inv, Lookups
<1>7. HoldingsAgree'  BY <1>2 DEF Inv, HoldingsAgree
<1>8. EscrowsAgree'
  <2>1. a \notin DOMAIN books.holdingEscrow  BY <1>1 DEF Inv, EscrowsAgree
  <2>2. RowOr(books'.holdingEscrow, a, NewHoldingEscrow) = NewHoldingEscrow
    BY <1>2, <2>1 DEF RowOr, Has
  <2>3. DOMAIN books'.holdingEscrow \subseteq DOMAIN books'.asset
    BY <1>2, <1>4 DEF Inv, EscrowsAgree
  <2>4. \A x \in AssetIds : RowOr(books'.holdingEscrow, x, NewHoldingEscrow).amount = onSpoke'.held[x]
    BY <1>2, <1>3 DEF Inv, EscrowsAgree
  <2>5. NewHoldingEscrow.price = 0 /\ NewHoldingEscrow.maxAge = 0  BY DEF NewHoldingEscrow
  <2>6. \A x \in DOMAIN books'.holdingEscrow :
          books'.holdingEscrow[x] \in EscrowRow /\ books'.holdingEscrow[x].escrow \in PoolEscrows
    BY <1>2 DEF Inv, EscrowsAgree
  <2> QED BY <1>3, <2>2, <2>3, <2>4, <2>5, <2>6 DEF EscrowsAgree
<1> QED BY <1>5, <1>6, <1>7, <1>8 DEF Inv

LEMMA DeployEscrowOK == ASSUME Inv, NEW e \in PoolEscrows, DeployEscrow(e) PROVE Inv'
<1>1. /\ onSpoke \in SpokeState /\ e \notin DOMAIN books.escrow /\ onSpoke.escrowSince < block
      /\ {"holding", "asset", "escrow", "holdingEscrow"} \subseteq DOMAIN books /\ block \in Nat
  BY DEF Inv, Shape, DeployEscrow, Has
<1>2. /\ books'.escrow = Insert(books.escrow, e, block) /\ DOMAIN books' = DOMAIN books
      /\ books'.holding = books.holding /\ books'.asset = books.asset
      /\ books'.holdingEscrow = books.holdingEscrow /\ UNCHANGED <<onHub, block>>
  BY <1>1 DEF DeployEscrow, OnDeployPoolEscrow, SameBlock
<1>3. /\ onSpoke' \in SpokeState /\ onSpoke'.known = onSpoke.known
      /\ onSpoke'.asset = onSpoke.asset /\ onSpoke'.assetSince = onSpoke.assetSince
      /\ onSpoke'.escrow = e /\ onSpoke'.escrowSince = block
      /\ onSpoke'.price = onSpoke.price /\ onSpoke'.maxAge = onSpoke.maxAge
      /\ onSpoke'.address = None /\ onSpoke'.held = onSpoke.held
  BY <1>1 DEF DeployEscrow, SpokeState
<1>4. Newest(books'.escrow, e, block) /\ DOMAIN books'.escrow = DOMAIN books.escrow \cup {e}
  <2>1. \A x \in DOMAIN books.escrow : books.escrow[x] \in Nat /\ books.escrow[x] < block
    <3>1. SUFFICES ASSUME NEW x \in DOMAIN books.escrow PROVE books.escrow[x] \in Nat /\ books.escrow[x] < block
      OBVIOUS
    <3>2. books.escrow # EmptyTable  BY DEF EmptyTable
    <3>3. Newest(books.escrow, onSpoke.escrow, onSpoke.escrowSince)  BY <3>2 DEF Inv, Lookups
    <3> QED BY <1>1, <3>3 DEF Newest, SpokeState
  <2>2. /\ Newest(Insert(books.escrow, e, block), e, block)
        /\ DOMAIN Insert(books.escrow, e, block) = DOMAIN books.escrow \cup {e}
    <3> DEFINE t == books.escrow
    <3>1. e \notin DOMAIN t /\ block \in Nat /\ \A x \in DOMAIN t : t[x] \in Nat /\ t[x] < block
      BY <1>1, <2>1
    <3> HIDE DEF t
    <3>2. Newest(Insert(t, e, block), e, block) /\ DOMAIN Insert(t, e, block) = DOMAIN t \cup {e}
      BY <3>1, InsertNewest
    <3> QED BY <3>2 DEF t
  <2> QED BY <1>2, <2>2
<1>5. Shape'  BY <1>2, <1>3 DEF Inv, Shape
<1>6. Lookups'  BY <1>2, <1>3, <1>4 DEF Inv, Lookups
<1>7. HoldingsAgree'  BY <1>2 DEF Inv, HoldingsAgree
<1>8. EscrowsAgree'  BY <1>2, <1>3 DEF Inv, EscrowsAgree
<1> QED BY <1>5, <1>6, <1>7, <1>8 DEF Inv

\* The block event changes the stored period and takes snapshots.
LEMMA EndBlockOK == ASSUME Inv, NEW next, EndBlock(next) PROVE Inv'
<1>1. {"holding", "asset", "escrow", "holdingEscrow"} \subseteq DOMAIN books /\ block \in Nat
  BY DEF Inv, Shape
<1>2. KeepsBooks /\ books'.holdingEscrow = books.holdingEscrow
  BY <1>1 DEF EndBlock, OnBlock, SnapshotEscrows, KeepsBooks
<1> QED BY <1>1, <1>2, SameStep DEF EndBlock

LEMMA RestartOK == Inv /\ Restart => Inv'
  BY SameStep DEF Restart, KeepsBooks, Inv, Shape

LEMMA EscrowNextOK == Inv /\ EscrowNext => Inv'
<1> SUFFICES ASSUME Inv, EscrowNext PROVE Inv'  OBVIOUS
<1>1. ASSUME NEW a \in AssetIds, Register(a) PROVE Inv'  BY <1>1, RegisterOK
<1>2. ASSUME NEW e \in PoolEscrows, DeployEscrow(e) PROVE Inv'  BY <1>2, DeployEscrowOK
<1>3. ASSUME NEW n \in BookAmounts, Deposit(n) PROVE Inv'  BY <1>3, DepositOK
<1>4. ASSUME NEW n \in BookAmounts, Withdraw(n) PROVE Inv'  BY <1>4, WithdrawOK
<1>5. ASSUME NEW p \in BookPrices, NEW live \in BOOLEAN, UpdateAssetPrice(p, live) PROVE Inv'
  BY <1>5, UpdateAssetPriceOK
<1>6. ASSUME NEW age \in Ages, UpdateMaxAssetPriceAge(age) PROVE Inv'
  BY <1>6, UpdateMaxAssetPriceAgeOK DEF Ages
<1>7. ASSUME NEW a \in AssetIds, NEW live \in BOOLEAN, NotifyAssetPrice(a, live) PROVE Inv'
  BY <1>7, NotifyOK
<1>8. ASSUME NEW next \in {period, period + 1}, EndBlock(next) PROVE Inv'  BY <1>8, EndBlockOK
<1>9. CASE Restart  BY <1>9, RestartOK
<1> QED BY <1>1, <1>2, <1>3, <1>4, <1>5, <1>6, <1>7, <1>8, <1>9 DEF EscrowNext

-----------------------------------------------------------------------------
(* Theorems *)

LEMMA InitOK == BookInit => Inv
<1> SUFFICES ASSUME BookInit PROVE Inv  OBVIOUS
<1>1. Shape  BY DEF BookInit, Shape, SpokeState, HubRow, None
<1>2. Lookups  BY DEF BookInit, Lookups, EmptyTable
<1>3. HoldingsAgree  BY DEF BookInit, HoldingsAgree, EmptyTable, RowOr, Has, Seen, NewHolding
<1>4. EscrowsAgree  BY DEF BookInit, EscrowsAgree, EmptyTable, RowOr, Has, NewHoldingEscrow
<1> QED BY <1>1, <1>2, <1>3, <1>4 DEF Inv

\* The invariant of every behaviour of the hub, the spoke and their indexer.
LEMMA InvHolds == BookSpec => []Inv
<1>1. Inv /\ UNCHANGED bookVars => Inv'  BY SameStep DEF bookVars, KeepsBooks, Inv, Shape
<1>2. Inv /\ [EscrowNext \/ HoldingNext]_bookVars => Inv'  BY <1>1, EscrowNextOK, HoldingNextOK
<1> QED BY <1>2, InitOK, PTL DEF BookSpec

\* However the hub's and the spoke's logs and the blocks and restarts of the
\* process follow each other, the rows of holdings and escrows are what the
\* chains have: getLatest and getByToken find the escrow and the asset of now,
\* and nothing but a log of its own asset changes a row.
THEOREM BooksFollow == BookSpec => []BooksFollowTheChains
<1>1. ASSUME Inv PROVE BooksFollowTheChains
  <2>1. \A a \in AssetIds : RowOr(books.holdingEscrow, a, NewHoldingEscrow).amount = onSpoke.held[a]
    BY <1>1 DEF Inv, EscrowsAgree
  <2>2. ASSUME NEW a \in DOMAIN books.holdingEscrow, a = onSpoke.asset
        PROVE  LET row == books.holdingEscrow[a]
               IN  /\ row.price = onSpoke.price /\ row.maxAge = onSpoke.maxAge
                   /\ onSpoke.address # None => row.escrow = onSpoke.address
    BY <1>1, <2>2 DEF Inv, EscrowsAgree, Lookups, RowOr, Has
  <2>3. ASSUME NEW a \in AssetIds
        PROVE  LET row == RowOr(books.holding, a, NewHolding)
               IN  [quantity |-> row.quantity, value |-> row.value, valuation |-> row.valuation] = onHub[a]
    BY <1>1 DEF Inv, HoldingsAgree, Seen
  <2> QED BY <2>1, <2>2, <2>3 DEF BooksFollowTheChains
<1> QED BY <1>1, InvHolds, PTL

-----------------------------------------------------------------------------
(* The snapshots of the periods *)

IsPeriodKey(k) == k[3] = "NewPeriod"
PeriodKeys(t) == {k \in DOMAIN t : IsPeriodKey(k)}

\* The assets and amounts of the snapshot that block b took for a period.
PeriodRows(t, b) == {<<k[1], t[k].amount>> : k \in {x \in DOMAIN t : x[2] = b /\ x[3] = "NewPeriod"}}

\* What the escrow held at the end of block b, if it is the first of a period.
Wanted(r, b) == IF Has(r, b) THEN {<<a, r[b][a]>> : a \in {x \in AssetIds : r[b][x] # 0}} ELSE {}

\* The stored period is that of the last block, and the copy of the process is
\* the stored one: so a block starts a period if and only if the chain says so.
PeriodInv ==
  /\ {"escrowSnapshot", "period"} \subseteq DOMAIN books
  /\ block \in Nat /\ block > 0 /\ period \in Nat /\ period > 0
  /\ memory = None \/ memory = books.period
  /\ opened \in BOOLEAN
  /\ block = 1 => books.period = None /\ opened = FALSE
  /\ block > 1 => books.period = IF opened THEN period - 1 ELSE period
  /\ \A k \in PeriodKeys(books.escrowSnapshot) : k[2] \in 1..(block - 1)
  /\ \A b \in DOMAIN rolled : b \in 1..(block - 1)
  /\ \A b \in 1..(block - 1) : PeriodRows(books.escrowSnapshot, b) = Wanted(rolled, b)

\* What a log leaves of the periods, whatever else it does to the books.
SamePeriods(b, c) ==
  /\ DOMAIN c = DOMAIN b /\ c.period = b.period
  /\ PeriodKeys(c.escrowSnapshot) = PeriodKeys(b.escrowSnapshot)
  /\ \A k \in PeriodKeys(b.escrowSnapshot) : c.escrowSnapshot[k] = b.escrowSnapshot[k]

LEMMA SamePeriodRows ==
  ASSUME NEW t, NEW u, PeriodKeys(u) = PeriodKeys(t), \A k \in PeriodKeys(t) : u[k] = t[k], NEW b
  PROVE  PeriodRows(u, b) = PeriodRows(t, b)
<1>1. {x \in DOMAIN u : x[2] = b /\ x[3] = "NewPeriod"} = {x \in DOMAIN t : x[2] = b /\ x[3] = "NewPeriod"}
  BY DEF PeriodKeys, IsPeriodKey
<1>2. \A k \in {x \in DOMAIN t : x[2] = b /\ x[3] = "NewPeriod"} : u[k] = t[k]  BY DEF PeriodKeys, IsPeriodKey
<1> QED BY <1>1, <1>2 DEF PeriodRows

\* A log of which the periods stay.
LEMMA PeriodsStay ==
  ASSUME PeriodInv, SamePeriods(books, books'), UNCHANGED <<block, period, opened, rolled>>,
         memory' = memory \/ memory' = None
  PROVE  PeriodInv'
<1>1. \A b : PeriodRows(books'.escrowSnapshot, b) = PeriodRows(books.escrowSnapshot, b)
  BY SamePeriodRows DEF SamePeriods
<1>2. rolled' = rolled  OBVIOUS
<1>3. \A k \in PeriodKeys(books'.escrowSnapshot) : k[2] \in 1..(block' - 1)
  BY DEF PeriodInv, SamePeriods
<1>4. /\ {"escrowSnapshot", "period"} \subseteq DOMAIN books'
      /\ books'.period = books.period
  BY DEF PeriodInv, SamePeriods
<1> QED BY <1>1, <1>2, <1>3, <1>4 DEF PeriodInv

\* Only the block handler takes snapshots of periods.
LEMMA SnapshotOther ==
  ASSUME NEW t, NEW rows, NEW b, NEW trigger, trigger # "NewPeriod"
  PROVE  LET u == Snapshot(t, rows, b, trigger)
         IN  PeriodKeys(u) = PeriodKeys(t) /\ \A k \in PeriodKeys(t) : u[k] = t[k]
<1> DEFINE new == {<<id, b, trigger>> : id \in DOMAIN rows}
           u == Snapshot(t, rows, b, trigger)
<1>1. DOMAIN u = DOMAIN t \cup new /\ \A k \in DOMAIN t : u[k] = t[k]  BY DEF Snapshot, InsertAll
<1>2. \A k \in new : ~IsPeriodKey(k)  BY DEF IsPeriodKey
<1> HIDE DEF new, u
<1>3. PeriodKeys(u) = PeriodKeys(t)  BY <1>1, <1>2 DEF PeriodKeys
<1>4. \A k \in PeriodKeys(t) : u[k] = t[k]  BY <1>1 DEF PeriodKeys
<1> QED BY <1>3, <1>4 DEF u

LEMMA RecordPeriods ==
  ASSUME NEW b, {"escrowSnapshot", "period", "holdingEscrow"} \subseteq DOMAIN b, NEW row, NEW n,
         NEW trigger, trigger # "NewPeriod"
  PROVE  SamePeriods(b, Record(b, row, n, trigger))
<1>1. CASE b.asset = EmptyTable \/ b.escrow = EmptyTable
  BY <1>1 DEF Record, SamePeriods
<1>2. CASE ~(b.asset = EmptyTable \/ b.escrow = EmptyTable)
  <2> DEFINE c == SaveEscrow(b, LatestAsset(b), row)
             rows == [a \in {LatestAsset(b)} |-> Columns(c.holdingEscrow[a])]
             d == Record(b, row, n, trigger)
  <2>1. d = [c EXCEPT !.escrowSnapshot = Snapshot(c.escrowSnapshot, rows, n, trigger)]
    BY <1>2 DEF Record, SnapshotEscrows
  <2>2. DOMAIN c = DOMAIN b /\ c.period = b.period /\ c.escrowSnapshot = b.escrowSnapshot
    BY DEF SaveEscrow
  <2> HIDE DEF c, rows, d
  <2>3. /\ DOMAIN d = DOMAIN b /\ d.period = b.period
        /\ d.escrowSnapshot = Snapshot(b.escrowSnapshot, rows, n, trigger)
    BY <2>1, <2>2
  <2>4. PeriodKeys(d.escrowSnapshot) = PeriodKeys(b.escrowSnapshot)
        /\ \A k \in PeriodKeys(b.escrowSnapshot) : d.escrowSnapshot[k] = b.escrowSnapshot[k]
    BY <2>3, SnapshotOther
  <2> QED BY <2>3, <2>4 DEF SamePeriods, d
<1> QED BY <1>1, <1>2

\* Every log of the spoke.
LEMMA SpokePeriods ==
  ASSUME Inv, PeriodInv
  PROVE  /\ \A n, price, b : SamePeriods(books, OnNoteDeposit(books, n, price, b))
         /\ \A n, price, b : SamePeriods(books, OnBalanceSheetWithdraw(books, n, price, b))
         /\ \A price, live, b : SamePeriods(books, OnUpdateAssetPrice(books, price, live, b))
         /\ \A age, b : SamePeriods(books, OnUpdateMaxAssetPriceAge(books, age, b))
         /\ \A a, b : SamePeriods(books, OnRegisterAsset(books, a, b))
         /\ \A e, b : SamePeriods(books, OnDeployPoolEscrow(books, e, b))
         /\ \A a, live : SamePeriods(books, OnNotifyAssetPrice(books, a, live))
<1>1. {"escrowSnapshot", "period", "holdingEscrow"} \subseteq DOMAIN books  BY DEF Inv, Shape, PeriodInv
<1>2. \A row, n, trigger : trigger # "NewPeriod" => SamePeriods(books, Record(books, row, n, trigger))
  BY <1>1, RecordPeriods
<1>3. \A n, price, b : SamePeriods(books, OnNoteDeposit(books, n, price, b))
  BY <1>2 DEF OnNoteDeposit
<1>4. \A n, price, b : SamePeriods(books, OnBalanceSheetWithdraw(books, n, price, b))
  BY <1>2 DEF OnBalanceSheetWithdraw
<1>5. \A price, live, b : SamePeriods(books, OnUpdateAssetPrice(books, price, live, b))
  BY <1>2 DEF OnUpdateAssetPrice
<1>6. \A age, b : SamePeriods(books, OnUpdateMaxAssetPriceAge(books, age, b))
  BY <1>2 DEF OnUpdateMaxAssetPriceAge
<1>7. \A a, b : SamePeriods(books, OnRegisterAsset(books, a, b))  BY DEF OnRegisterAsset, SamePeriods
<1>8. \A e, b : SamePeriods(books, OnDeployPoolEscrow(books, e, b))  BY DEF OnDeployPoolEscrow, SamePeriods
<1>9. \A a, live : SamePeriods(books, OnNotifyAssetPrice(books, a, live))
  BY DEF OnNotifyAssetPrice, SaveEscrow, SamePeriods
<1> QED BY <1>3, <1>4, <1>5, <1>6, <1>7, <1>8, <1>9

\* Every log of the hub.
LEMMA HubPeriods ==
  ASSUME Inv, PeriodInv
  PROVE  /\ \A a, v, liability, kinds : SamePeriods(books, OnInitialize(books, a, v, liability, kinds))
         /\ \A a, n, value, b : SamePeriods(books, OnIncrease(books, a, n, value, b))
         /\ \A a, n, value : SamePeriods(books, OnDecrease(books, a, n, value))
         /\ \A a, positive, diff, b : SamePeriods(books, OnUpdate(books, a, positive, diff, b))
         /\ \A a, v, b : SamePeriods(books, OnUpdateValuation(books, a, v, b))
<1>1. \A a, row : SamePeriods(books, SaveHolding(books, a, row))  BY DEF SaveHolding, SamePeriods
<1>2. \A c, a, b, trigger : SamePeriods(books, c) => SamePeriods(books, SnapshotHolding(c, a, b, trigger))
  BY DEF SnapshotHolding, SamePeriods
<1>3. \A a, v, liability, kinds : SamePeriods(books, OnInitialize(books, a, v, liability, kinds))
  BY <1>1 DEF OnInitialize, SamePeriods
<1>4. \A a, n, value, b : SamePeriods(books, OnIncrease(books, a, n, value, b))
  BY <1>1, <1>2 DEF OnIncrease
<1>5. \A a, n, value : SamePeriods(books, OnDecrease(books, a, n, value))
  BY <1>1 DEF OnDecrease
<1>6. \A a, positive, diff, b : SamePeriods(books, OnUpdate(books, a, positive, diff, b))
  BY <1>1, <1>2 DEF OnUpdate
<1>7. \A a, v, b : SamePeriods(books, OnUpdateValuation(books, a, v, b))
  BY <1>1, <1>2 DEF OnUpdateValuation
<1> QED BY <1>3, <1>4, <1>5, <1>6, <1>7

\* What the block handler finds: whether the chain has begun a period.
LEMMA PeriodSeen ==
  ASSUME PeriodInv
  PROVE  LET last == InitTimekeeper(memory, books.period)
         IN  /\ IsNewPeriod(last, period) <=> opened = TRUE
             /\ (IF last = None \/ period > last THEN period ELSE books.period) = period
             /\ (IF last = None \/ period > last THEN period ELSE last) = period
<1> DEFINE last == InitTimekeeper(memory, books.period)
<1>1. last = books.period  BY DEF InitTimekeeper, PeriodInv
<1>2. period \in Nat /\ period > 0 /\ block \in Nat /\ block > 0 /\ opened \in BOOLEAN  BY DEF PeriodInv
<1>3. CASE block = 1
  <2>1. last = None /\ opened = FALSE  BY <1>1, <1>3 DEF PeriodInv
  <2> QED BY <2>1 DEF IsNewPeriod
<1>4. CASE block > 1
  <2>1. books.period = IF opened THEN period - 1 ELSE period  BY <1>4 DEF PeriodInv
  <2>2. CASE opened = TRUE
    <3>1. last = period - 1  BY <1>1, <2>1, <2>2
    <3>2. last # None /\ period > last  BY <1>2, <3>1 DEF None
    <3> HIDE DEF last
    <3>3. IsNewPeriod(last, period)  BY <3>2 DEF IsNewPeriod
    <3> QED BY <2>2, <3>2, <3>3 DEF last
  <2>3. CASE opened = FALSE
    <3>1. last = period /\ books.period = period  BY <1>1, <2>1, <2>3
    <3>2. ~(last # None /\ period > last)  BY <1>2, <3>1
    <3>3. last # None  BY <1>2, <3>1 DEF None
    <3> HIDE DEF last
    <3> QED BY <2>3, <3>1, <3>2, <3>3 DEF IsNewPeriod, last
  <2> QED BY <1>2, <2>2, <2>3
<1>5. block = 1 \/ block > 1  BY <1>2
<1> HIDE DEF last
<1> QED BY <1>3, <1>4, <1>5 DEF last

\* The snapshot of the open block, of which there is none before its block event.
LEMMA SnapshotPeriod ==
  ASSUME NEW t, NEW n \in Nat, \A k \in PeriodKeys(t) : k[2] \in 1..(n - 1), NEW rows
  PROVE  LET u == Snapshot(t, rows, n, "NewPeriod")
         IN  /\ \A b \in 1..(n - 1) : PeriodRows(u, b) = PeriodRows(t, b)
             /\ PeriodRows(u, n) = {<<a, rows[a].amount>> : a \in DOMAIN rows}
             /\ \A k \in PeriodKeys(u) : k[2] \in 1..(n - 1) \/ k[2] = n
<1> DEFINE new == {<<id, n, "NewPeriod">> : id \in DOMAIN rows}
           u == Snapshot(t, rows, n, "NewPeriod")
<1>1. DOMAIN u = DOMAIN t \cup new /\ \A k \in DOMAIN t : u[k] = t[k]  BY DEF Snapshot, InsertAll
<1>2. \A k \in new : k \notin DOMAIN t /\ k[2] = n /\ k[3] = "NewPeriod" /\ k[1] \in DOMAIN rows
  <2>1. \A k \in new : k[2] = n /\ k[3] = "NewPeriod" /\ k[1] \in DOMAIN rows  OBVIOUS
  <2>2. \A k \in DOMAIN t : k[3] = "NewPeriod" => k[2] # n  BY DEF PeriodKeys, IsPeriodKey
  <2> QED BY <2>1, <2>2
<1>3. \A k \in new : u[k] = rows[k[1]]
  <2>1. \A k \in new : u[k] = IF k \in DOMAIN t THEN t[k] ELSE rows[k[1]]
    BY DEF Snapshot, InsertAll
  <2> QED BY <1>2, <2>1
<1>4. ASSUME NEW b \in 1..(n - 1) PROVE PeriodRows(u, b) = PeriodRows(t, b)
  <2> HIDE DEF new, u
  <2>1. \A k \in new : k[2] # b  BY <1>2
  <2>2. {x \in DOMAIN u : x[2] = b /\ x[3] = "NewPeriod"} = {x \in DOMAIN t : x[2] = b /\ x[3] = "NewPeriod"}
    BY <1>1, <2>1
  <2> QED BY <1>1, <2>2 DEF PeriodRows
<1>5. PeriodRows(u, n) = {<<a, rows[a].amount>> : a \in DOMAIN rows}
  <2>1. \A a \in DOMAIN rows : <<a, n, "NewPeriod">> \in new  OBVIOUS
  <2>2. \A k \in new : k = <<k[1], n, "NewPeriod">>  OBVIOUS
  <2>3. {x \in DOMAIN u : x[2] = n /\ x[3] = "NewPeriod"} = new
    <3> HIDE DEF new, u
    <3>1. \A k \in DOMAIN t : k[3] = "NewPeriod" => k[2] # n  BY DEF PeriodKeys, IsPeriodKey
    <3> QED BY <1>1, <1>2, <3>1
  <2>4. PeriodRows(u, n) = {<<k[1], u[k].amount>> : k \in new}  BY <2>3 DEF PeriodRows
  <2>5. \A k \in new : <<k[1], u[k].amount>> = <<k[1], rows[k[1]].amount>>  BY <1>3
  <2>6. \A a \in DOMAIN rows : <<a, n, "NewPeriod">>[1] = a  OBVIOUS
  <2>7. {<<k[1], u[k].amount>> : k \in new} = {<<k[1], rows[k[1]].amount>> : k \in new}  BY <2>5
  <2>8. {k[1] : k \in new} = DOMAIN rows  BY <1>2, <2>1, <2>6
  <2> HIDE DEF new, u
  <2>9. \A y : y \in {<<k[1], rows[k[1]].amount>> : k \in new} <=> (\E a \in DOMAIN rows : y = <<a, rows[a].amount>>)
    BY <2>8
  <2> QED BY <2>4, <2>7, <2>9
<1>6. \A k \in PeriodKeys(u) : k[2] \in 1..(n - 1) \/ k[2] = n
  <2> HIDE DEF new, u
  <2> QED BY <1>1, <1>2 DEF PeriodKeys, IsPeriodKey
<1> QED BY <1>4, <1>5, <1>6

\* The rows that are held, which the query finds, are the assets that are held.
LEMMA HeldRows ==
  ASSUME Inv, NEW rows, rows = [a \in Held(books) |-> Columns(books.holdingEscrow[a])]
  PROVE  {<<a, rows[a].amount>> : a \in DOMAIN rows}
           = {<<a, onSpoke.held[a]>> : a \in {x \in AssetIds : onSpoke.held[x] # 0}}
<1>1. DOMAIN books.holdingEscrow \subseteq AssetIds  BY DEF Inv, Lookups, EscrowsAgree
<1>2. \A a \in AssetIds : RowOr(books.holdingEscrow, a, NewHoldingEscrow).amount = onSpoke.held[a]
  BY DEF Inv, EscrowsAgree
<1>3. \A a \in DOMAIN books.holdingEscrow : books.holdingEscrow[a].amount = onSpoke.held[a]
  BY <1>1, <1>2 DEF RowOr, Has
<1>4. \A a \in AssetIds : a \notin DOMAIN books.holdingEscrow => onSpoke.held[a] = 0
  BY <1>2 DEF RowOr, Has, NewHoldingEscrow
<1>5. DOMAIN rows = {x \in AssetIds : onSpoke.held[x] # 0}  BY <1>1, <1>3, <1>4 DEF Held
<1>6. \A a \in DOMAIN rows : rows[a].amount = onSpoke.held[a]  BY <1>3 DEF Held, Columns
<1> QED BY <1>5, <1>6

LEMMA EndBlockPeriods ==
  ASSUME Inv, PeriodInv, NEW next \in {period, period + 1}, EndBlock(next)
  PROVE  PeriodInv'
<1> DEFINE last == InitTimekeeper(memory, books.period)
           stored == IF last = None \/ period > last THEN [books EXCEPT !.period = period] ELSE books
           rows == [a \in Held(books) |-> Columns(books.holdingEscrow[a])]
           t == books.escrowSnapshot
           u == Snapshot(t, rows, block, "NewPeriod")
<1>1. /\ {"escrowSnapshot", "period", "holdingEscrow"} \subseteq DOMAIN books
      /\ block \in Nat /\ block > 0 /\ period \in Nat /\ period > 0 /\ opened \in BOOLEAN
  BY DEF Inv, Shape, PeriodInv
<1>2. /\ IsNewPeriod(last, period) <=> opened = TRUE
      /\ (IF last = None \/ period > last THEN period ELSE books.period) = period
      /\ (IF last = None \/ period > last THEN period ELSE last) = period
  BY PeriodSeen
<1>3. /\ DOMAIN stored = DOMAIN books /\ stored.period = period
      /\ stored.escrowSnapshot = t /\ stored.holdingEscrow = books.holdingEscrow
  BY <1>1, <1>2
<1>4. books' = IF IsNewPeriod(last, period) THEN SnapshotEscrows(stored, Held(books), block, "NewPeriod") ELSE stored
  BY DEF EndBlock, OnBlock
<1>5. memory' = period  BY <1>2 DEF EndBlock, Remembered
<1> HIDE DEF last, stored
<1>6. /\ DOMAIN books' = DOMAIN books /\ books'.period = period
      /\ books'.escrowSnapshot = IF opened THEN u ELSE t
  <2>1. CASE opened = TRUE
    <3>1. books' = [stored EXCEPT !.escrowSnapshot = Snapshot(stored.escrowSnapshot,
                      [a \in Held(books) |-> Columns(stored.holdingEscrow[a])], block, "NewPeriod")]
      BY <1>2, <1>4, <2>1 DEF SnapshotEscrows
    <3>2. [a \in Held(books) |-> Columns(stored.holdingEscrow[a])] = rows  BY <1>3
    <3> HIDE DEF rows
    <3> QED BY <1>1, <1>3, <2>1, <3>1, <3>2
  <2>2. CASE opened = FALSE  BY <1>2, <1>3, <1>4, <2>2
  <2> QED BY <1>1, <2>1, <2>2
<1>7. /\ block' = block + 1 /\ period' = next /\ opened' = (next > period)
      /\ rolled' = IF opened THEN Put(rolled, block, onSpoke.held) ELSE rolled
  BY DEF EndBlock
<1>8. {<<a, rows[a].amount>> : a \in DOMAIN rows}
        = {<<a, onSpoke.held[a]>> : a \in {x \in AssetIds : onSpoke.held[x] # 0}}
  BY HeldRows
<1>9. /\ \A k \in PeriodKeys(t) : k[2] \in 1..(block - 1)
      /\ \A b \in DOMAIN rolled : b \in 1..(block - 1)
      /\ \A b \in 1..(block - 1) : PeriodRows(t, b) = Wanted(rolled, b)
  BY DEF PeriodInv
<1> HIDE DEF rows, t
<1>10. /\ \A b \in 1..(block - 1) : PeriodRows(u, b) = PeriodRows(t, b)
       /\ PeriodRows(u, block) = {<<a, rows[a].amount>> : a \in DOMAIN rows}
       /\ \A k \in PeriodKeys(u) : k[2] \in 1..(block - 1) \/ k[2] = block
  BY <1>1, <1>9, SnapshotPeriod
<1> HIDE DEF u
<1>11. /\ \A b \in DOMAIN rolled' : b \in 1..block
       /\ \A b \in 1..(block - 1) : Wanted(rolled', b) = Wanted(rolled, b)
       /\ Wanted(rolled', block) = IF opened THEN {<<a, onSpoke.held[a]>> : a \in {x \in AssetIds : onSpoke.held[x] # 0}}
                           ELSE {}
  <2>1. block \notin DOMAIN rolled  BY <1>1, <1>9
  <2>2. CASE opened = TRUE
    <3>1. rolled' = Put(rolled, block, onSpoke.held)  BY <1>7, <2>2
    <3>2. DOMAIN rolled' = DOMAIN rolled \cup {block} /\ rolled'[block] = onSpoke.held
          /\ \A b \in DOMAIN rolled : b # block => rolled'[b] = rolled[b]
      BY <3>1 DEF Put
    <3>3. \A b \in DOMAIN rolled' : b \in 1..block  BY <1>1, <1>9, <3>2
    <3>4. \A b \in 1..(block - 1) : b # block /\ (Has(rolled', b) <=> Has(rolled, b))  BY <1>1, <3>2 DEF Has
    <3>5. \A b \in 1..(block - 1) : Wanted(rolled', b) = Wanted(rolled, b)  BY <3>2, <3>4 DEF Wanted, Has
    <3>6. Wanted(rolled', block) = {<<a, onSpoke.held[a]>> : a \in {x \in AssetIds : onSpoke.held[x] # 0}}
      BY <3>2 DEF Wanted, Has
    <3> QED BY <2>2, <3>3, <3>5, <3>6
  <2>3. CASE opened = FALSE
    BY <1>1, <1>7, <1>9, <2>1, <2>3 DEF Wanted, Has
  <2> QED BY <1>1, <2>2, <2>3
<1>12. \A b \in 1..(block' - 1) : b \in 1..(block - 1) \/ b = block  BY <1>1, <1>7
<1>13. \A k \in PeriodKeys(books'.escrowSnapshot) : k[2] \in 1..(block' - 1)
  <2>1. \A m : m \in 1..(block - 1) \/ m = block => m \in 1..(block' - 1)  BY <1>1, <1>7
  <2>2. CASE opened = TRUE  BY <1>6, <1>10, <2>1, <2>2
  <2>3. CASE opened = FALSE  BY <1>6, <1>9, <2>1, <2>3
  <2> QED BY <1>1, <2>2, <2>3
<1>14. ASSUME NEW b \in 1..(block' - 1) PROVE PeriodRows(books'.escrowSnapshot, b) = Wanted(rolled', b)
  <2>1. CASE opened = TRUE  BY <1>6, <1>8, <1>9, <1>10, <1>11, <1>12, <2>1
  <2>2. CASE opened = FALSE
    <3>1. books'.escrowSnapshot = t  BY <1>6, <2>2
    <3>2. PeriodRows(t, block) = {}
      <4>1. \A k \in DOMAIN t : ~(k[2] = block /\ k[3] = "NewPeriod")
        BY <1>1, <1>9 DEF PeriodKeys, IsPeriodKey
      <4> QED BY <4>1 DEF PeriodRows
    <3> QED BY <1>9, <1>11, <1>12, <2>2, <3>1, <3>2
  <2> QED BY <1>1, <2>1, <2>2
<1>15. block' \in Nat /\ block' > 1 /\ block' # 1 /\ block' > 0 /\ period' \in Nat /\ period' > 0
  BY <1>1, <1>7
<1>16. opened' \in BOOLEAN /\ books'.period = IF opened' THEN period' - 1 ELSE period'
  <2>1. CASE next = period
    <3>1. ~(next > period)  BY <1>1, <2>1
    <3>2. (next > period) = FALSE  BY ONLY <3>1
    <3>3. opened' = FALSE  BY ONLY <1>7, <3>2, Zenon
    <3> QED BY <1>6, <1>7, <2>1, <3>3
  <2>2. CASE next = period + 1
    <3>1. next > period  BY <1>1, <2>2
    <3>2. opened' = TRUE  BY ONLY <1>7, <3>1, Zenon
    <3>3. books'.period = period' - 1  BY <1>1, <1>6, <1>7, <2>2
    <3> QED BY <3>2, <3>3
  <2> QED BY <2>1, <2>2
<1>17. {"escrowSnapshot", "period"} \subseteq DOMAIN books'  BY <1>1, <1>6
<1>18. \A b \in DOMAIN rolled' : b \in 1..(block' - 1)  BY <1>1, <1>7, <1>11
<1>19. memory' = books'.period  BY <1>5, <1>6
<1> QED BY ONLY <1>13, <1>14, <1>15, <1>16, <1>17, <1>18, <1>19 DEF PeriodInv

LEMMA InitPeriods == BookInit => PeriodInv
<1> SUFFICES ASSUME BookInit PROVE PeriodInv  OBVIOUS
<1>1. PeriodKeys(books.escrowSnapshot) = {} /\ DOMAIN rolled = {} /\ block = 1
  BY DEF BookInit, EmptyTable, PeriodKeys
<1>2. 1..(block - 1) = {}  BY <1>1
<1>3. {"escrowSnapshot", "period"} \subseteq DOMAIN books /\ books.period = None  BY DEF BookInit
<1>4. memory = None /\ period = 1 /\ opened = FALSE  BY DEF BookInit
<1>5. block \in Nat /\ block > 0 /\ ~(block > 1) /\ period \in Nat /\ period > 0
  BY <1>1, <1>4
<1>7. opened \in BOOLEAN  BY <1>4, Zenon
<1>6. \A b \in 1..(block - 1) : PeriodRows(books.escrowSnapshot, b) = Wanted(rolled, b)  BY <1>2
<1> QED BY <1>1, <1>3, <1>4, <1>5, <1>6, <1>7 DEF PeriodInv

LEMMA EscrowPeriods == Inv /\ PeriodInv /\ EscrowNext => PeriodInv'
<1> SUFFICES ASSUME Inv, PeriodInv, EscrowNext PROVE PeriodInv'  OBVIOUS
<1>1. ASSUME NEW a \in AssetIds, Register(a) PROVE PeriodInv'
  BY <1>1, SpokePeriods, PeriodsStay DEF Register, SameBlock
<1>2. ASSUME NEW e \in PoolEscrows, DeployEscrow(e) PROVE PeriodInv'
  BY <1>2, SpokePeriods, PeriodsStay DEF DeployEscrow, SameBlock
<1>3. ASSUME NEW n \in BookAmounts, Deposit(n) PROVE PeriodInv'
  BY <1>3, SpokePeriods, PeriodsStay DEF Deposit, SpokeLog, SameBlock
<1>4. ASSUME NEW n \in BookAmounts, Withdraw(n) PROVE PeriodInv'
  BY <1>4, SpokePeriods, PeriodsStay DEF Withdraw, SpokeLog, SameBlock
<1>5. ASSUME NEW p \in BookPrices, NEW live \in BOOLEAN, UpdateAssetPrice(p, live) PROVE PeriodInv'
  BY <1>5, SpokePeriods, PeriodsStay DEF UpdateAssetPrice, SpokeLog, SameBlock
<1>6. ASSUME NEW age \in Ages, UpdateMaxAssetPriceAge(age) PROVE PeriodInv'
  BY <1>6, SpokePeriods, PeriodsStay DEF UpdateMaxAssetPriceAge, SpokeLog, SameBlock
<1>7. ASSUME NEW a \in AssetIds, NEW live \in BOOLEAN, NotifyAssetPrice(a, live) PROVE PeriodInv'
  BY <1>7, SpokePeriods, PeriodsStay DEF NotifyAssetPrice, SameBlock
<1>8. ASSUME NEW next \in {period, period + 1}, EndBlock(next) PROVE PeriodInv'
  BY <1>8, EndBlockPeriods
<1>9. CASE Restart  BY <1>9, PeriodsStay DEF Restart, SamePeriods
<1> QED BY <1>1, <1>2, <1>3, <1>4, <1>5, <1>6, <1>7, <1>8, <1>9 DEF EscrowNext

LEMMA HoldingPeriods == Inv /\ PeriodInv /\ HoldingNext => PeriodInv'
<1> SUFFICES ASSUME Inv, PeriodInv, HoldingNext PROVE PeriodInv'  OBVIOUS
<1>1. ASSUME NEW a, NEW v, NEW liability, NEW kinds, Initialize(a, v, liability, kinds) PROVE PeriodInv'
  BY <1>1, HubPeriods, PeriodsStay DEF Initialize, HubLog, SameBlock
<1>2. ASSUME NEW a, NEW v, UpdateValuation(a, v) PROVE PeriodInv'
  BY <1>2, HubPeriods, PeriodsStay DEF UpdateValuation, HubLog, SameBlock
<1>3. ASSUME NEW a, NEW v, Revalue(a, v) PROVE PeriodInv'
  BY <1>3, HubPeriods, PeriodsStay DEF Revalue, HubLog, SameBlock
<1>4. ASSUME NEW a, NEW n, NEW v, IncreaseHolding(a, n, v) PROVE PeriodInv'
  BY <1>4, HubPeriods, PeriodsStay DEF IncreaseHolding, HubLog, SameBlock
<1>5. ASSUME NEW a, NEW n, NEW v, DecreaseHolding(a, n, v) PROVE PeriodInv'
  BY <1>5, HubPeriods, PeriodsStay DEF DecreaseHolding, HubLog, SameBlock
<1> QED BY <1>1, <1>2, <1>3, <1>4, <1>5 DEF HoldingNext

LEMMA PeriodsHold == BookSpec => []PeriodInv
<1>1. PeriodInv /\ UNCHANGED bookVars => PeriodInv'  BY PeriodsStay DEF bookVars, SamePeriods
<1>2. Inv /\ PeriodInv /\ [EscrowNext \/ HoldingNext]_bookVars => PeriodInv'
  BY <1>1, EscrowPeriods, HoldingPeriods
<1> QED BY <1>2, InitPeriods, InvHolds, PTL DEF BookSpec

\* However many times the process restarts between two blocks, the first block of
\* every period has one snapshot of every escrow that holds something, and no
\* other block has one: a copy that is not there is read from the stored period,
\* which is the one of the last block.
THEOREM PeriodsSnapshot == BookSpec => []PeriodsAreSnapshot
<1>1. PeriodInv => PeriodsAreSnapshot  BY DEF PeriodInv, PeriodsAreSnapshot, PeriodRows, Wanted
<1> QED BY <1>1, PeriodsHold, PTL

-----------------------------------------------------------------------------
(* rpow: by squaring, it returns an amount for every exponent *)

Args == [r: Nat, b: Nat, e: Nat]

LEMMA QuotientOfNat == ASSUME NEW a \in Nat, NEW b \in Nat \ {0} PROVE a \div b \in Nat
  OBVIOUS

LEMMA QuotientOfInt == ASSUME NEW a \in Int, NEW b \in Nat \ {0} PROVE a \div b \in Int
  OBVIOUS

LEMMA RoundedType == ASSUME NEW n \in Nat PROVE Rounded(n) \in Nat
  BY BasinAssumption, QuotientOfNat DEF Rounded

\* Squaring takes the exponent down.
LEMMA SquaredType ==
  ASSUME NEW p \in Args, p.e # 0
  PROVE  Squared(p) \in Args /\ Squared(p).e < p.e
<1>1. p.r * p.b \in Nat /\ p.b * p.b \in Nat  BY DEF Args
<1>2. Rounded(p.r * p.b) \in Nat /\ Rounded(p.b * p.b) \in Nat  BY <1>1, RoundedType
<1>3. p.e \div 2 \in Nat /\ p.e \div 2 < p.e  BY DEF Args
<1> QED BY <1>2, <1>3 DEF Args, Squared

\* A function on the exponents up to n that squares.
Squares(g, n) == g = [p \in {q \in Args : q.e <= n} |-> IF p.e = 0 THEN p.r ELSE g[Squared(p)]]

LEMMA SquaresValue ==
  ASSUME NEW g, NEW n \in Nat, Squares(g, n), NEW p \in Args, p.e <= n
  PROVE  g[p] = IF p.e = 0 THEN p.r ELSE g[Squared(p)]
<1>1. p \in {q \in Args : q.e <= n}  OBVIOUS
<1> QED BY <1>1 DEF Squares

\* There is one for every n.
LEMMA SquaresExist == \A n \in Nat : \E g : Squares(g, n)
<1> DEFINE N == {n \in Nat : \E g : Squares(g, n)}
<1>1. 0 \in N
  <2> DEFINE h == [p \in {q \in Args : q.e <= 0} |-> p.r]
  <2>1. \A p \in {q \in Args : q.e <= 0} : p.e = 0  BY DEF Args
  <2>2. Squares(h, 0)  BY <2>1 DEF Squares
  <2> QED BY <2>2
<1>2. ASSUME NEW n \in Nat, n \in N PROVE n + 1 \in N
  <2>1. PICK g : Squares(g, n)  BY <1>2
  <2> DEFINE D == {q \in Args : q.e <= n + 1}
             h == [p \in D |-> IF p.e = 0 THEN p.r ELSE g[Squared(p)]]
  <2>2. ASSUME NEW p \in D, p.e # 0 PROVE h[Squared(p)] = g[Squared(p)]
    <3>1. Squared(p) \in Args /\ Squared(p).e < p.e  BY <2>2, SquaredType
    <3>2. Squared(p).e <= n /\ Squared(p).e <= n + 1
      <4>1. p.e \in Nat /\ p.e <= n + 1 /\ Squared(p).e \in Nat  BY <3>1 DEF Args
      <4> QED BY <3>1, <4>1
    <3>3. Squared(p) \in D  BY <3>1, <3>2
    <3>4. h[Squared(p)] = IF Squared(p).e = 0 THEN Squared(p).r ELSE g[Squared(Squared(p))]  BY <3>3
    <3> HIDE DEF h, D
    <3> QED BY <2>1, <3>1, <3>2, <3>4, SquaresValue
  <2>3. h = [p \in D |-> IF p.e = 0 THEN p.r ELSE h[Squared(p)]]
    <3> HIDE DEF D
    <3> QED BY <2>2
  <2>4. Squares(h, n + 1)
    <3> HIDE DEF h
    <3> QED BY <2>3 DEF Squares
  <2> QED BY <2>4
<1> HIDE DEF N
<1>3. Nat \subseteq N  BY <1>1, <1>2, SetInduction
<1> QED BY <1>3 DEF N

\* They agree where both are defined, and have natural values.
LEMMA SquaresAgree ==
  ASSUME NEW g, NEW m \in Nat, Squares(g, m), NEW h, NEW n \in Nat, Squares(h, n)
  PROVE  \A p \in Args : p.e <= m /\ p.e <= n => g[p] = h[p] /\ g[p] \in Nat
<1> DEFINE N == {i \in Nat : \A p \in Args : p.e <= i /\ p.e <= m /\ p.e <= n => g[p] = h[p] /\ g[p] \in Nat}
<1>1. 0 \in N
  <2> SUFFICES ASSUME NEW p \in Args, p.e <= 0, p.e <= m, p.e <= n PROVE g[p] = h[p] /\ g[p] \in Nat
    OBVIOUS
  <2>1. p.e = 0 /\ p.r \in Nat  BY DEF Args
  <2> QED BY <2>1, SquaresValue
<1>2. ASSUME NEW i \in Nat, i \in N PROVE i + 1 \in N
  <2> SUFFICES ASSUME NEW p \in Args, p.e <= i + 1, p.e <= m, p.e <= n PROVE g[p] = h[p] /\ g[p] \in Nat
    OBVIOUS
  <2>1. CASE p.e = 0
    <3>1. p.r \in Nat  BY DEF Args
    <3> QED BY <2>1, <3>1, SquaresValue
  <2>2. CASE p.e # 0
    <3>1. Squared(p) \in Args /\ Squared(p).e < p.e  BY <2>2, SquaredType
    <3>2. p.e \in Nat /\ Squared(p).e \in Nat  BY <3>1 DEF Args
    <3>3. Squared(p).e <= i /\ Squared(p).e <= m /\ Squared(p).e <= n  BY <3>1, <3>2
    <3>4. g[Squared(p)] = h[Squared(p)] /\ g[Squared(p)] \in Nat  BY <1>2, <3>1, <3>3
    <3>5. g[p] = g[Squared(p)] /\ h[p] = h[Squared(p)]  BY <2>2, SquaresValue
    <3> QED BY <3>4, <3>5
  <2> QED BY <2>1, <2>2
<1> HIDE DEF N
<1>3. Nat \subseteq N  BY <1>1, <1>2, SetInduction
<1> SUFFICES ASSUME NEW p \in Args, p.e <= m, p.e <= n PROVE g[p] = h[p] /\ g[p] \in Nat
  OBVIOUS
<1>4. p.e \in Nat  BY DEF Args
<1>5. p.e \in N  BY <1>3, <1>4
<1> QED BY <1>4, <1>5 DEF N

\* rpow is one of them on the whole of its domain.
LEMMA PowerSquares == \E g : g = [p \in Args |-> IF p.e = 0 THEN p.r ELSE g[Squared(p)]]
<1> DEFINE G(n) == CHOOSE g : Squares(g, n)
           f == [p \in Args |-> G(p.e)[p]]
<1>1. \A n \in Nat : Squares(G(n), n)
  <2> HIDE DEF Squares
  <2> QED BY SquaresExist
<1> HIDE DEF G
<1>2. ASSUME NEW p \in Args PROVE f[p] = IF p.e = 0 THEN p.r ELSE f[Squared(p)]
  <2>1. p.e \in Nat  BY DEF Args
  <2>2. f[p] = G(p.e)[p]  OBVIOUS
  <2>3. G(p.e)[p] = IF p.e = 0 THEN p.r ELSE G(p.e)[Squared(p)]  BY <1>1, <2>1, SquaresValue
  <2>4. CASE p.e = 0  BY <2>2, <2>3, <2>4
  <2>5. CASE p.e # 0
    <3> DEFINE q == Squared(p)
    <3>1. q \in Args /\ q.e < p.e  BY <2>5, SquaredType
    <3>2. q.e \in Nat /\ q.e <= p.e  BY <2>1, <3>1 DEF Args
    <3>3. f[q] = G(q.e)[q]  BY <3>1
    <3> HIDE DEF q, f
    <3>4. G(q.e)[q] = G(p.e)[q]  BY <1>1, <2>1, <3>1, <3>2, SquaresAgree
    <3> QED BY <2>2, <2>3, <2>5, <3>3, <3>4 DEF q
  <2> QED BY <2>4, <2>5
<1>3. f = [p \in Args |-> IF p.e = 0 THEN p.r ELSE f[Squared(p)]]
  BY <1>2
<1> HIDE DEF f
<1> QED BY <1>3

\* Of whatever solves it, rpow is one.
LEMMA PowerIs == \A p \in Args : Powers[p] = IF p.e = 0 THEN p.r ELSE Powers[Squared(p)]
<1> DEFINE Is(g) == g = [q \in Args |-> IF q.e = 0 THEN q.r ELSE g[Squared(q)]]
<1>1. Powers = CHOOSE g : Is(g)  BY DEF Powers, Args
<1>2. \E g : Is(g)  BY PowerSquares
<1>3. Is(Powers)
  <2> HIDE DEF Is
  <2> QED BY <1>1, <1>2
<1> DEFINE f == Powers
<1> HIDE DEF f
<1>4. \A q \in Args : f[q] = IF q.e = 0 THEN q.r ELSE f[Squared(q)]
  BY <1>3 DEF f
<1> QED BY <1>4 DEF f

LEMMA PowerType == ASSUME NEW p \in Args PROVE Powers[p] \in Nat
<1> DEFINE f == Powers
<1>4. \A q \in Args : f[q] = IF q.e = 0 THEN q.r ELSE f[Squared(q)]  BY PowerIs
<1> HIDE DEF f
<1> DEFINE N == {n \in Nat : \A q \in Args : q.e <= n => f[q] \in Nat}
<1>5. 0 \in N
  <2>1. \A q \in Args : q.e <= 0 => q.e = 0 /\ q.r \in Nat  BY DEF Args
  <2> QED BY <1>4, <2>1
<1>6. ASSUME NEW n \in Nat, n \in N PROVE n + 1 \in N
  <2> SUFFICES ASSUME NEW q \in Args, q.e <= n + 1 PROVE f[q] \in Nat
    OBVIOUS
  <2>1. CASE q.e = 0
    <3>1. q.r \in Nat  BY DEF Args
    <3> QED BY <2>1, <3>1, <1>4
  <2>2. CASE q.e # 0
    <3>1. Squared(q) \in Args /\ Squared(q).e < q.e  BY <2>2, SquaredType
    <3>2. q.e \in Nat /\ Squared(q).e \in Nat  BY <3>1 DEF Args
    <3>3. Squared(q).e <= n  BY <3>1, <3>2
    <3>4. f[Squared(q)] \in Nat  BY <1>6, <3>1, <3>3
    <3> QED BY <2>2, <3>4, <1>4
  <2> QED BY <2>1, <2>2
<1> HIDE DEF N
<1>7. Nat \subseteq N  BY <1>5, <1>6, SetInduction
<1>8. p.e \in Nat  BY DEF Args
<1>9. p.e \in N  BY <1>7, <1>8
<1> QED BY <1>8, <1>9 DEF N, f

\* A quotient is at least what it is times the divisor.
LEMMA QuotientBound == ASSUME NEW a \in Nat, NEW b \in Nat \ {0}, NEW c \in Nat, a >= b * c PROVE a \div b >= c
<1> DEFINE q == a \div b
           r == a % b
<1>1. q \in Nat /\ r \in 0..(b - 1) /\ a = b * q + r  OBVIOUS
<1> HIDE DEF q, r
<1>2. ASSUME q < c PROVE FALSE
  <2>1. q + 1 <= c  BY <1>1, <1>2
  <2>2. PICK x \in Nat : c = q + 1 + x
    <3> DEFINE x == c - (q + 1)
    <3>1. x \in Nat /\ c = q + 1 + x  BY <1>1, <2>1
    <3> QED BY <3>1
  <2>3. b * c = b * q + b + b * x  BY <1>1, <2>2
  <2>4. b * x \in Nat /\ b * q \in Nat  BY <1>1
  <2> QED BY <1>1, <2>3, <2>4
<1> QED BY <1>1, <1>2 DEF q

\* The product of factors of at least one is one.
LEMMA FactorsMultiply ==
  ASSUME NEW x \in Nat, NEW y \in Nat, x >= Ray, y >= Ray
  PROVE  x * y \in Nat /\ x * y >= Ray * y /\ x * y >= Ray * Ray
<1>0. Ray \in Nat  BY BasinAssumption
<1>1. PICK i \in Nat : x = Ray + i
  <2>1. x - Ray \in Nat /\ x = Ray + (x - Ray)  BY <1>0
  <2> QED BY <2>1
<1>2. PICK j \in Nat : y = Ray + j
  <2>1. y - Ray \in Nat /\ y = Ray + (y - Ray)  BY <1>0
  <2> QED BY <2>1
<1>3. x * y = Ray * y + i * y /\ i * y \in Nat /\ Ray * y \in Nat  BY <1>0, <1>1
<1>4. Ray * y = Ray * Ray + Ray * j /\ Ray * j \in Nat /\ Ray * Ray \in Nat  BY <1>0, <1>2
<1> QED BY <1>3, <1>4

LEMMA RoundedFloor == ASSUME NEW n \in Nat, n >= Ray * Ray PROVE Rounded(n) >= Ray
<1>1. Ray \in Nat \ {0}  BY BasinAssumption
<1>2. Ray \div 2 \in Nat  BY <1>1, QuotientOfNat
<1>3. Ray * Ray \in Nat  BY <1>1
<1>4. n + Ray \div 2 \in Nat /\ n + Ray \div 2 >= Ray * Ray  BY <1>2, <1>3
<1> QED BY <1>1, <1>4, QuotientBound DEF Rounded

\* A factor of at least one compounds to one.
LEMMA PowerFloor == ASSUME NEW p \in Args, p.r >= Ray, p.b >= Ray PROVE Powers[p] >= Ray
<1> DEFINE f == Powers
           Factors == {q \in Args : q.r >= Ray /\ q.b >= Ray}
           N == {n \in Nat : \A q \in Factors : q.e <= n => f[q] >= Ray}
<1>1. \A q \in Args : f[q] = IF q.e = 0 THEN q.r ELSE f[Squared(q)]  BY PowerIs
<1>2. ASSUME NEW q \in Factors, q.e # 0 PROVE Squared(q) \in Factors /\ Squared(q).e < q.e
  <2>1. Squared(q) \in Args /\ Squared(q).e < q.e  BY <1>2, SquaredType
  <2>2. /\ q.r * q.b \in Nat /\ q.r * q.b >= Ray * Ray
        /\ q.b * q.b \in Nat /\ q.b * q.b >= Ray * Ray
    BY FactorsMultiply DEF Args
  <2>3. Rounded(q.r * q.b) >= Ray /\ Rounded(q.b * q.b) >= Ray  BY <2>2, RoundedFloor
  <2>4. Squared(q).r >= Ray /\ Squared(q).b >= Ray  BY <2>3 DEF Squared
  <2> QED BY <2>1, <2>4
<1> HIDE DEF f
<1>3. 0 \in N
  <2>1. \A q \in Factors : q.e <= 0 => q.e = 0  BY DEF Args
  <2> QED BY <1>1, <2>1
<1>4. ASSUME NEW n \in Nat, n \in N PROVE n + 1 \in N
  <2> SUFFICES ASSUME NEW q \in Factors, q.e <= n + 1 PROVE f[q] >= Ray
    OBVIOUS
  <2>1. CASE q.e = 0  BY <1>1, <2>1
  <2>2. CASE q.e # 0
    <3>1. Squared(q) \in Factors /\ Squared(q).e < q.e  BY <1>2, <2>2
    <3>2. q.e \in Nat /\ Squared(q).e \in Nat  BY <3>1 DEF Args
    <3>3. f[Squared(q)] >= Ray  BY <1>4, <3>1, <3>2
    <3> QED BY <1>1, <2>2, <3>3
  <2> QED BY <2>1, <2>2
<1> HIDE DEF N
<1>5. Nat \subseteq N  BY <1>3, <1>4, SetInduction
<1>6. p.e \in Nat /\ p \in Factors  BY DEF Args
<1>7. p.e \in N  BY <1>5, <1>6
<1> QED BY <1>6, <1>7 DEF N, f

\* So a debt never shrinks by its interest.
LEMMA DebtGrows ==
  ASSUME NEW debt \in Int, NEW rate \in Nat, rate >= Ray, NEW elapsed \in Nat
  PROVE  ProjectDebt(debt, rate, elapsed) - debt \in Nat
<1> DEFINE p == [r |-> Ray, b |-> rate, e |-> elapsed]
           i == Powers[p]
<1>1. p \in Args /\ p.r >= Ray /\ p.b >= Ray  BY BasinAssumption DEF Args
<1>2. i \in Nat /\ i >= Ray  BY <1>1, PowerType, PowerFloor
<1>3. ProjectDebt(debt, rate, elapsed) = IF elapsed = 0 \/ debt <= 0 THEN debt ELSE (debt * i) \div Ray
  BY DEF ProjectDebt, Power
<1> HIDE DEF i
<1>4. CASE elapsed = 0 \/ debt <= 0  BY <1>3, <1>4
<1>5. CASE ~(elapsed = 0 \/ debt <= 0)
  <2>1. debt \in Nat /\ Ray \in Nat \ {0}  BY <1>5, BasinAssumption
  <2>2. PICK x \in Nat : i = Ray + x
    <3>1. i - Ray \in Nat /\ i = Ray + (i - Ray)  BY <1>2, <2>1
    <3> QED BY <3>1
  <2>3. debt * i = Ray * debt + debt * x /\ debt * x \in Nat /\ Ray * debt \in Nat  BY <2>1, <2>2
  <2>4. debt * i \in Nat /\ debt * i >= Ray * debt  BY <2>3
  <2>5. (debt * i) \div Ray >= debt /\ (debt * i) \div Ray \in Nat  BY <2>1, <2>4, QuotientBound, QuotientOfNat
  <2> QED BY <1>3, <1>5, <2>1, <2>5
<1> QED BY <1>4, <1>5

\* The effective rate is a factor.
LEMMA EffectiveFloor ==
  ASSUME NEW ssr \in Nat, ssr >= Ray PROVE EffectiveRate(ssr) \in Nat /\ EffectiveRate(ssr) >= Ray
<1>1. Ray \in Nat \ {0} /\ SpreadPerSecond \in Nat /\ SpreadPerSecond >= Ray  BY BasinAssumption
<1>2. ssr * SpreadPerSecond \in Nat /\ ssr * SpreadPerSecond >= Ray * Ray  BY <1>1, FactorsMultiply
<1> QED BY <1>1, <1>2, QuotientBound, QuotientOfNat DEF EffectiveRate

-----------------------------------------------------------------------------
(* The debt and its ledger *)

\* The rates of the fees, and the savings rate: a factor that compounds.
IsViews(views) == views.PURCHASE \in {0, 1} /\ views.REDEMPTION \in {0, 1}
IsFactor(rate) == rate \in Nat /\ rate >= Ray

IsLog(e) == e.tx \in Nat /\ e.log \in Nat /\ e.now \in Nat /\ IsFactor(e.ssr) /\ IsViews(e.views)

\* The debt's row, with the time of its last change.
IsDebt(row, now) ==
  /\ row \in [debt: Int, rate: Nat, at: 0..now, credit: Int, pending: Int]
  /\ row = NoDebt \/ IsFactor(row.rate)

\* What an entry of the ledger can be.
Names == {"TRANSFER_REPAYMENT", "SWAP_REPAYMENT", "SWAP_PAYOUT", "RATE_UPDATE", "REDEMPTION"}
ChangeRows == [type: Names, interest: Nat, principal: Int]

\* A key of an earlier log.
Before(k, e) == k \in Nat \X Nat /\ (k[1] < e.tx \/ (k[1] = e.tx /\ k[2] < e.log))

\* The tables but for some.
AlikeBut(d, f, tables) == DOMAIN f = DOMAIN d /\ \A x \in DOMAIN d \ tables : f[x] = d[x]

LEMMA LoadDebtType ==
  ASSUME NEW d, NEW e, IsLog(e), IsDebt(d.debt, e.now)
  PROVE  /\ IsDebt(LoadDebt(d, e), e.now) /\ IsFactor(LoadDebt(d, e).rate)
         /\ LoadDebt(d, e).debt = d.debt.debt
         /\ LoadDebt(d, e).credit = d.debt.credit
         /\ LoadDebt(d, e).pending = d.debt.pending
<1>1. IsFactor(EffectiveRate(e.ssr))  BY EffectiveFloor DEF IsFactor, IsLog
<1> DEFINE new == [NoDebt EXCEPT !.rate = EffectiveRate(e.ssr), !.at = e.now]
<1>2. new.debt = 0 /\ new.credit = 0 /\ new.pending = 0 /\ new.rate = EffectiveRate(e.ssr)  BY DEF NoDebt
<1>3. IsDebt(new, e.now)
  <2>1. EffectiveRate(e.ssr) \in Nat /\ e.now \in 0..e.now  BY <1>1 DEF IsLog, IsFactor
  <2>2. NoDebt \in [debt: Int, rate: Nat, at: Nat, credit: Int, pending: Int]  BY DEF NoDebt
  <2> DEFINE rate == EffectiveRate(e.ssr)
             then == e.now
  <2> HIDE DEF rate, then
  <2>3. [NoDebt EXCEPT !.rate = rate, !.at = then] \in [debt: Int, rate: Nat, at: 0..then, credit: Int, pending: Int]
    BY <2>1, <2>2 DEF rate, then
  <2>4. new \in [debt: Int, rate: Nat, at: 0..e.now, credit: Int, pending: Int]  BY <2>3 DEF rate, then
  <2> HIDE DEF new
  <2> QED BY <1>1, <1>2, <2>4 DEF IsDebt
<1>4. CASE d.debt = NoDebt
  <2>1. LoadDebt(d, e) = new  BY <1>4 DEF LoadDebt
  <2> QED BY <2>1, <1>1, <1>2, <1>3, <1>4 DEF NoDebt
<1>5. CASE d.debt # NoDebt
  <2>1. LoadDebt(d, e) = d.debt  BY <1>5 DEF LoadDebt
  <2> QED BY <2>1, <1>5 DEF IsDebt
<1> QED BY <1>4, <1>5

\* The row changes, but for its rate.
LEMMA DebtKept ==
  ASSUME NEW row, NEW now, IsDebt(row, now), IsFactor(row.rate), NEW f,
         f \in [debt: Int, rate: Nat, at: 0..now, credit: Int, pending: Int], f.rate = row.rate
  PROVE  IsDebt(f, now) /\ IsFactor(f.rate)
  BY DEF IsDebt

\* What a log adds to the debt it enters into the ledger.
LEMMA AccrueEnters ==
  ASSUME NEW d, NEW e, IsLog(e), {"debt", "change"} \subseteq DOMAIN d, IsDebt(d.debt, e.now),
         NEW type \in Names, NEW delta \in Int, ChangeOf(e) \notin DOMAIN d.change
  PROVE  LET f == AccrueAndApply(d, e, type, delta)
         IN  /\ IsDebt(f.debt, e.now) /\ f.debt.pending = d.debt.pending
             /\ \E i \in Nat : /\ f.debt.debt = d.debt.debt + i + delta
                               /\ f.change = Put(d.change, ChangeOf(e), [type |-> type, interest |-> i, principal |-> delta])
             /\ AlikeBut(d, f, {"debt", "change"})
<1> DEFINE row == LoadDebt(d, e)
           i == ProjectDebt(row.debt, row.rate, e.now - row.at) - row.debt
           debt == [row EXCEPT !.debt = row.debt + i + delta, !.at = e.now]
           entry == [type |-> type, interest |-> i, principal |-> delta]
           change == Insert(d.change, ChangeOf(e), entry)
<1>1. /\ IsDebt(row, e.now) /\ IsFactor(row.rate)
      /\ row.debt = d.debt.debt /\ row.pending = d.debt.pending
  BY LoadDebtType
<1> HIDE DEF row
<1>2. i \in Nat
  <2>1. row.debt \in Int /\ row.rate \in Nat /\ row.rate >= Ray /\ e.now - row.at \in Nat
    BY <1>1 DEF IsDebt, IsLog, IsFactor
  <2> QED BY <2>1, DebtGrows
<1>3. AccrueAndApply(d, e, type, delta) = [d EXCEPT !.debt = debt, !.change = change]
  BY DEF AccrueAndApply, row
<1> HIDE DEF i
<1>4. /\ IsDebt(debt, e.now) /\ debt.debt = d.debt.debt + i + delta
      /\ debt.pending = d.debt.pending
  <2>1. row \in [debt: Int, rate: Nat, at: 0..e.now, credit: Int, pending: Int]  BY <1>1 DEF IsDebt
  <2>2. row.debt + i + delta \in Int /\ e.now \in 0..e.now  BY <1>2, <2>1 DEF IsLog
  <2>3. debt \in [debt: Int, rate: Nat, at: 0..e.now, credit: Int, pending: Int]  BY <2>1, <2>2
  <2>4. debt.rate = row.rate /\ debt.debt = row.debt + i + delta /\ debt.pending = row.pending  BY <2>1
  <2> HIDE DEF debt
  <2> QED BY <1>1, <2>3, <2>4, DebtKept
<1>5. change = Put(d.change, ChangeOf(e), entry)  BY DEF Insert, Has
<1> HIDE DEF debt, change
<1> DEFINE f == [d EXCEPT !.debt = debt, !.change = change]
<1>6. f.debt = debt /\ f.change = change /\ AlikeBut(d, f, {"debt", "change"})
  BY DEF AlikeBut
<1> HIDE DEF f
<1> QED BY <1>2, <1>3, <1>4, <1>5, <1>6 DEF f

\* The ledger before log e: its entries are those of the labels, and they and
\* what is owed make up the debt.
Ledger(d, e, o, l) ==
  /\ {"debt", "change"} \subseteq DOMAIN d
  /\ IsDebt(d.debt, e.now)
  /\ IsFiniteSet(DOMAIN d.change)
  /\ \A k \in DOMAIN d.change : Before(k, e) /\ d.change[k] \in ChangeRows
  /\ o \in Int
  /\ d.debt.debt = o + SumFunction([k \in DOMAIN d.change |-> d.change[k].interest])
  /\ DOMAIN d.change = DOMAIN l
  /\ \A k \in DOMAIN l : d.change[k].type = l[k]

\* A later log, of the same transaction or another.
Later(e, n) == /\ IsLog(e) /\ IsLog(n) /\ e.now <= n.now
               /\ e.tx < n.tx \/ (e.tx = n.tx /\ e.log < n.log)

LEMMA LedgerLater ==
  ASSUME NEW d, NEW e, NEW n, NEW o, NEW l, Later(e, n), Ledger(d, e, o, l)
  PROVE  Ledger(d, n, o, l)
<1>1. IsDebt(d.debt, n.now)  BY DEF Ledger, Later, IsLog, IsDebt
<1>2. \A k \in DOMAIN d.change : Before(k, n)  BY DEF Ledger, Later, IsLog, Before
<1> QED BY <1>1, <1>2 DEF Ledger

\* A log that adds to the debt.
LEMMA LedgerAccrues ==
  ASSUME NEW d, NEW e, NEW n, NEW o, NEW l, Later(e, n), Ledger(d, e, o, l),
         NEW type \in Names, NEW delta \in Int
  PROVE  LET f == AccrueAndApply(d, e, type, delta)
         IN  /\ Ledger(f, n, o + delta, Put(l, ChangeOf(e), type))
             /\ f.debt.pending = d.debt.pending
             /\ AlikeBut(d, f, {"debt", "change"})
             /\ f.change[ChangeOf(e)].principal = delta
<1> DEFINE f == AccrueAndApply(d, e, type, delta)
           c == ChangeOf(e)
           v == [k \in DOMAIN f.change |-> f.change[k].interest]
           w == [k \in DOMAIN d.change |-> d.change[k].interest]
<1>0. IsLog(e) /\ IsLog(n)  BY DEF Later
<1>1. c \notin DOMAIN d.change
  BY DEF Ledger, Before, ChangeOf, Later, IsLog
<1>2. /\ IsDebt(f.debt, e.now) /\ f.debt.pending = d.debt.pending
      /\ AlikeBut(d, f, {"debt", "change"})
  BY <1>0, <1>1, AccrueEnters DEF Ledger
<1>3. PICK i \in Nat : /\ f.debt.debt = d.debt.debt + i + delta
                       /\ f.change = Put(d.change, c, [type |-> type, interest |-> i, principal |-> delta])
  BY <1>0, <1>1, AccrueEnters DEF Ledger
<1> HIDE DEF f
<1>4. /\ DOMAIN f.change = DOMAIN d.change \cup {c}
      /\ f.change[c] = [type |-> type, interest |-> i, principal |-> delta]
      /\ \A k \in DOMAIN d.change : f.change[k] = d.change[k]
  BY <1>1, <1>3 DEF Put
<1>5. Before(c, n)  BY DEF Before, ChangeOf, Later, IsLog
<1>6. /\ IsFiniteSet(DOMAIN f.change)
      /\ \A k \in DOMAIN f.change : Before(k, n) /\ f.change[k] \in ChangeRows
  <2>1. IsFiniteSet(DOMAIN f.change)  BY <1>4, FS_AddElement DEF Ledger
  <2>2. \A k \in DOMAIN d.change : Before(k, n) /\ d.change[k] \in ChangeRows
    BY LedgerLater DEF Ledger
  <2>3. f.change[c] \in ChangeRows  BY <1>4 DEF ChangeRows
  <2> HIDE DEF c
  <2> QED BY <1>4, <1>5, <2>1, <2>2, <2>3
<1>7. IsDebt(f.debt, n.now)  BY <1>2 DEF Later, IsLog, IsDebt
<1>8. IsSummable(w)  BY DEF Ledger, IsSummable, ChangeRows
<1>9. SumFunction(v) = SumFunction(w) + i
  <2>1. DOMAIN v = DOMAIN w \cup {c} /\ c \notin DOMAIN w /\ v[c] = i /\ \A k \in DOMAIN w : v[k] = w[k]
    BY <1>1, <1>4
  <2> HIDE DEF v, w, c
  <2> QED BY <1>8, <2>1, SumOfNew
<1>10. SumFunction(w) \in Int  BY <1>8, SumType
<1>11. f.debt.debt = (o + delta) + SumFunction(v)
  <2>1. d.debt.debt = o + SumFunction(w) /\ o \in Int  BY DEF Ledger
  <2> HIDE DEF v, w
  <2> QED BY <2>1, <1>3, <1>9, <1>10
<1>12. /\ DOMAIN f.change = DOMAIN Put(l, c, type)
       /\ \A k \in DOMAIN Put(l, c, type) : f.change[k].type = Put(l, c, type)[k]
  BY <1>1, <1>4 DEF Ledger, Put
<1>13. {"debt", "change"} \subseteq DOMAIN f  BY <1>2 DEF AlikeBut, Ledger
<1>14. Ledger(f, n, o + delta, Put(l, c, type))
  <2>1. o + delta \in Int  BY DEF Ledger
  <2> HIDE DEF c
  <2> QED BY <2>1, <1>6, <1>7, <1>11, <1>12, <1>13 DEF Ledger
<1> QED BY <1>2, <1>4, <1>14 DEF f

\* Tables that the ledger is not in may change, and the columns of the debt's row.
LEMMA LedgerCarries ==
  ASSUME NEW d, NEW f, NEW e, NEW o, NEW l, Ledger(d, e, o, l), DOMAIN f = DOMAIN d,
         f.change = d.change, IsDebt(f.debt, e.now), f.debt.debt = d.debt.debt
  PROVE  Ledger(f, e, o, l)
  BY DEF Ledger

\* An entry of this transaction that has no later one is the nearest.
LEMMA NearestIsLast ==
  ASSUME NEW d, NEW e, NEW o, NEW l, IsLog(e), Ledger(d, e, o, l), NEW delta, NEW k \in DOMAIN d.change,
         k[1] = e.tx, d.change[k].type = "TRANSFER_REPAYMENT", d.change[k].principal = delta,
         \A j \in DOMAIN d.change : j[1] = e.tx => j[2] <= k[2]
  PROVE  LET K == Unclaimed(d, e, delta)
         IN  K # {} /\ (CHOOSE x \in K : \A j \in K : j[2] <= x[2]) = k
<1> DEFINE K == Unclaimed(d, e, delta)
<1>1. /\ k \in K
      /\ \A j \in K : j \in DOMAIN d.change /\ j[1] = e.tx
  BY DEF Unclaimed, Where, Matches, Ledger, Before
<1> HIDE DEF K
<1>2. \A j \in K : j[2] <= k[2]  BY <1>1
<1> DEFINE c == CHOOSE x \in K : \A j \in K : j[2] <= x[2]
<1>3. c \in K /\ \A j \in K : j[2] <= c[2]  BY <1>1, <1>2
<1> HIDE DEF c
<1>4. c \in Nat \X Nat /\ k \in Nat \X Nat  BY <1>1, <1>3 DEF Ledger, Before
<1>5. c[1] = k[1] /\ c[2] <= k[2] /\ k[2] <= c[2]  BY <1>1, <1>2, <1>3
<1>6. c[2] = k[2]  BY <1>4, <1>5
<1>7. c = k  BY <1>4, <1>5, <1>6
<1> QED BY <1>1, <1>7 DEF c, K

\* A claim gives its own transfer the name.
LEMMA LedgerClaims ==
  ASSUME NEW d, NEW e, NEW o, NEW l, IsLog(e), Ledger(d, e, o, l), NEW delta, NEW k \in DOMAIN d.change,
         k[1] = e.tx, d.change[k].type = "TRANSFER_REPAYMENT", d.change[k].principal = delta,
         \A j \in DOMAIN d.change : j[1] = e.tx => j[2] <= k[2],
         NEW type \in Names
  PROVE  LET f == ClaimTransferRepayment(d, e, delta, type)
         IN  Ledger(f, e, o, Put(l, k, type)) /\ AlikeBut(d, f, {"change"})
<1> DEFINE new == [d.change EXCEPT ![k].type = type]
           f == [d EXCEPT !.change = new]
           v == [j \in DOMAIN new |-> new[j].interest]
           w == [j \in DOMAIN d.change |-> d.change[j].interest]
<1>1. ClaimTransferRepayment(d, e, delta, type) = f
  <2> DEFINE K == Unclaimed(d, e, delta)
             c == CHOOSE x \in K : \A j \in K : j[2] <= x[2]
  <2>1. K # {} /\ c = k  BY NearestIsLast
  <2>2. ClaimTransferRepayment(d, e, delta, type) = IF K = {} THEN Warn(d, e, "repaymentClaimMissing")
                                                   ELSE [d EXCEPT !.change[c].type = type]
    BY DEF ClaimTransferRepayment
  <2> HIDE DEF c, K
  <2> QED BY <2>1, <2>2
<1>2. /\ DOMAIN new = DOMAIN d.change
      /\ \A j \in DOMAIN new \ {k} : new[j] = d.change[j]
      /\ new[k] \in ChangeRows /\ new[k].type = type /\ new[k].interest = d.change[k].interest
  BY DEF Ledger, ChangeRows
<1> HIDE DEF new
<1>3. f.change = new /\ f.debt = d.debt /\ DOMAIN f = DOMAIN d /\ AlikeBut(d, f, {"change"})
  BY DEF Ledger, AlikeBut
<1> HIDE DEF f
<1>4. SumFunction(v) = SumFunction(w)
  <2>1. DOMAIN v = DOMAIN w /\ \A j \in DOMAIN w : v[j] = w[j]  BY <1>2
  <2>2. IsFiniteSet(DOMAIN w)  BY DEF Ledger
  <2> HIDE DEF v, w
  <2> QED BY <2>1, <2>2, SumOfEqual
<1>5. DOMAIN new = DOMAIN Put(l, k, type) /\ \A j \in DOMAIN new : new[j].type = Put(l, k, type)[j]
  BY <1>2 DEF Ledger, Put
<1>6. \A j \in DOMAIN new : Before(j, e) /\ new[j] \in ChangeRows
  BY <1>2 DEF Ledger
<1>7. d.debt.debt = o + SumFunction(w)  BY DEF Ledger
<1>8. Ledger(f, e, o, Put(l, k, type))
  BY <1>2, <1>3, <1>4, <1>5, <1>6, <1>7 DEF Ledger
<1> QED BY <1>1, <1>3, <1>8

-----------------------------------------------------------------------------
(* Redeem requests *)

IsRequest(row) ==
  /\ DOMAIN row = {"open", "credit", "initiatedAt", "completedAt", "spokeRequestedAt", "linked", "returned"}
  /\ row.open \in BOOLEAN /\ row.credit \in Nat

OpenCredit(d) == SumFunction([r \in Open(d) |-> d.request[r].credit])

\* The requests up to some time, and the credit tokens that are pending.
Requests(d, now) ==
  /\ {"debt", "request", "warning"} \subseteq DOMAIN d
  /\ IsFiniteSet(DOMAIN d.request)
  /\ \A r \in DOMAIN d.request : IsRequest(d.request[r]) /\ r[1] \in Nat /\ r[1] <= now
  /\ d.debt.pending = OpenCredit(d)

LEMMA OpenIs == ASSUME NEW d PROVE Open(d) = {r \in DOMAIN d.request : d.request[r].open = TRUE}
<1> DEFINE v == [open |-> TRUE]
<1>1. DOMAIN v = {"open"} /\ v["open"] = TRUE  OBVIOUS
<1> HIDE DEF v
<1>2. \A row : Matches(row, v) <=> row.open = TRUE  BY <1>1 DEF Matches
<1>3. Open(d) = {r \in DOMAIN d.request : Matches(d.request[r], v)}  BY DEF Open, Where, v
<1> QED BY <1>2, <1>3

LEMMA OpenSummable ==
  ASSUME NEW d, NEW now, Requests(d, now) PROVE IsSummable([r \in Open(d) |-> d.request[r].credit])
<1>1. IsFiniteSet(Open(d))  BY OpenIs, FS_Subset DEF Requests
<1>2. \A r \in Open(d) : d.request[r].credit \in Int
  <2>1. \A r \in Open(d) : r \in DOMAIN d.request  BY OpenIs
  <2>2. \A r \in DOMAIN d.request : d.request[r].credit \in Nat  BY DEF Requests, IsRequest
  <2> QED BY <2>1, <2>2
<1> QED BY <1>1, <1>2 DEF IsSummable

\* Requests that stay open, with their amounts.
LEMMA SameOpenCredit ==
  ASSUME NEW d, NEW now, Requests(d, now), NEW f, DOMAIN f.request = DOMAIN d.request,
         \A r \in DOMAIN d.request : f.request[r].open = d.request[r].open /\ f.request[r].credit = d.request[r].credit
  PROVE  OpenCredit(f) = OpenCredit(d)
<1> DEFINE v == [r \in Open(f) |-> f.request[r].credit]
           w == [r \in Open(d) |-> d.request[r].credit]
<1>1. DOMAIN v = DOMAIN w /\ \A r \in DOMAIN w : v[r] = w[r]  BY OpenIs
<1>2. IsFiniteSet(DOMAIN w)  BY OpenSummable DEF IsSummable
<1> HIDE DEF v, w
<1>3. SumFunction(v) = SumFunction(w)  BY <1>1, <1>2, SumOfEqual
<1> QED BY <1>3 DEF OpenCredit, v, w

\* Tables that the requests are not in may change.
LEMMA RequestsCarry ==
  ASSUME NEW d, NEW f, NEW now, Requests(d, now), DOMAIN f = DOMAIN d, f.request = d.request,
         f.debt.pending = d.debt.pending
  PROVE  Requests(f, now)
<1>1. OpenCredit(f) = OpenCredit(d)  BY SameOpenCredit
<1> QED BY <1>1 DEF Requests

LEMMA RequestsLater ==
  ASSUME NEW d, NEW now \in Nat, NEW then \in Nat, now <= then, Requests(d, now) PROVE Requests(d, then)
  BY DEF Requests

\* A link names a request and opens or closes none.
LEMMA LinkKeeps ==
  ASSUME NEW d, NEW e, NEW now, Requests(d, now)
  PROVE  LET f == LinkSpokeRedeem(d, e)
         IN  Requests(f, now) /\ AlikeBut(d, f, {"request", "warning"}) /\ DOMAIN f.request = DOMAIN d.request
<1> DEFINE rows == [r \in Unlinked(d) |-> [d.request[r] EXCEPT !.spokeRequestedAt = e.now]]
           new == PutAll(d.request, rows)
           linked == [d EXCEPT !.request = new]
           warned == Warn(d, e, "spokeRedeemLinkAmbiguous")
<1>1. Unlinked(d) \subseteq DOMAIN d.request  BY DEF Unlinked, Where
<1>2. /\ DOMAIN new = DOMAIN d.request
      /\ \A r \in DOMAIN d.request : /\ IsRequest(new[r]) /\ new[r].open = d.request[r].open
                                     /\ new[r].credit = d.request[r].credit
  <2>1. \A r \in Unlinked(d) : /\ IsRequest(rows[r]) /\ rows[r].open = d.request[r].open
                               /\ rows[r].credit = d.request[r].credit
    BY <1>1 DEF Requests, IsRequest
  <2>2. DOMAIN rows = Unlinked(d)  OBVIOUS
  <2> HIDE DEF rows
  <2> QED BY <1>1, <2>1, <2>2 DEF PutAll, Requests
<1> HIDE DEF new
<1>3. Requests(linked, now) /\ AlikeBut(d, linked, {"request", "warning"}) /\ DOMAIN linked.request = DOMAIN d.request
  <2>1. /\ linked.request = new /\ linked.debt = d.debt
        /\ DOMAIN linked = DOMAIN d /\ AlikeBut(d, linked, {"request", "warning"})
    BY DEF Requests, AlikeBut
  <2> HIDE DEF linked
  <2>2. OpenCredit(linked) = OpenCredit(d)  BY <1>2, <2>1, SameOpenCredit
  <2> QED BY <1>2, <2>1, <2>2 DEF Requests
<1>4. Requests(warned, now) /\ AlikeBut(d, warned, {"request", "warning"}) /\ DOMAIN warned.request = DOMAIN d.request
  <2>1. /\ warned.request = d.request /\ warned.debt = d.debt
        /\ DOMAIN warned = DOMAIN d /\ AlikeBut(d, warned, {"request", "warning"})
    BY DEF Requests, AlikeBut, Warn
  <2> HIDE DEF warned
  <2> QED BY <2>1, RequestsCarry
<1>5. LinkSpokeRedeem(d, e) = IF Cardinality(Unlinked(d)) = 1 THEN linked ELSE warned
  BY DEF LinkSpokeRedeem, new
<1> HIDE DEF linked, warned
<1> QED BY <1>3, <1>4, <1>5

\* A request that is initiated adds its credit tokens once.
LEMMA InitiationAdds ==
  ASSUME NEW d, NEW e, IsLog(e), Requests(d, e.now), IsDebt(d.debt, e.now), NEW credit \in Nat, NEW quote,
         <<e.now, credit, quote>> \notin DOMAIN d.request
  PROVE  LET f == OnRedeemInitiated(d, e, credit, quote)
         IN  /\ Requests(f, e.now) /\ AlikeBut(d, f, {"debt", "request", "warning"})
             /\ IsDebt(f.debt, e.now) /\ f.debt.debt = d.debt.debt
             /\ \A r \in DOMAIN f.request : r \in DOMAIN d.request \/ r[1] = e.now
<1> DEFINE row == LoadDebt(d, e)
           debt == [row EXCEPT !.pending = row.pending + credit]
           key == <<e.now, credit, quote>>
           new == Insert(d.request, key, NewRequest(e, credit))
           g == [d EXCEPT !.request = new, !.debt = debt]
           v == [r \in Open(g) |-> g.request[r].credit]
           w == [r \in Open(d) |-> d.request[r].credit]
<1>1. CASE quote = NoAnswer
  <2>1. OnRedeemInitiated(d, e, credit, quote) = d  BY <1>1 DEF OnRedeemInitiated
  <2> QED BY <2>1 DEF AlikeBut
<1>2. CASE quote # NoAnswer
  <2>1. OnRedeemInitiated(d, e, credit, quote) = LinkSpokeRedeem(g, e)  BY <1>2 DEF OnRedeemInitiated
  <2>2. /\ IsDebt(row, e.now) /\ IsFactor(row.rate)
        /\ row.debt = d.debt.debt /\ row.pending = d.debt.pending
    BY LoadDebtType
  <2> HIDE DEF row
  <2>3. IsDebt(debt, e.now) /\ debt.debt = d.debt.debt /\ debt.pending = d.debt.pending + credit
    <3>1. row \in [debt: Int, rate: Nat, at: 0..e.now, credit: Int, pending: Int]  BY <2>2 DEF IsDebt
    <3>2. row.pending + credit \in Int  BY <3>1
    <3>3. debt \in [debt: Int, rate: Nat, at: 0..e.now, credit: Int, pending: Int]  BY <3>1, <3>2
    <3>4. debt.rate = row.rate /\ debt.debt = row.debt /\ debt.pending = row.pending + credit  BY <3>1
    <3> HIDE DEF debt
    <3> QED BY <2>2, <3>3, <3>4, DebtKept
  <2>4. /\ DOMAIN new = DOMAIN d.request \cup {key} /\ new[key] = NewRequest(e, credit)
        /\ \A r \in DOMAIN d.request : new[r] = d.request[r]
    BY DEF Insert, Has, Put
  <2>5. key[1] = e.now  OBVIOUS
  <2> HIDE DEF debt, new, key
  <2>6. /\ g.request = new /\ g.debt = debt /\ DOMAIN g = DOMAIN d
        /\ AlikeBut(d, g, {"debt", "request", "warning"})
    BY DEF Requests, AlikeBut
  <2> HIDE DEF g
  <2>7. IsRequest(NewRequest(e, credit)) /\ NewRequest(e, credit).open = TRUE /\ NewRequest(e, credit).credit = credit
    BY DEF NewRequest, IsRequest
  <2>8. Open(g) = Open(d) \cup {key}  BY <2>4, <2>6, <2>7, OpenIs
  <2>9. key \notin Open(d)  BY OpenIs DEF key
  <2>10. DOMAIN v = DOMAIN w \cup {key} /\ key \notin DOMAIN w /\ v[key] = credit /\ \A r \in DOMAIN w : v[r] = w[r]
    BY <2>4, <2>6, <2>7, <2>8, <2>9, OpenIs
  <2>11. IsSummable(w)  BY OpenSummable
  <2>12. SumFunction(v) = SumFunction(w) + credit
    <3> HIDE DEF v, w
    <3> QED BY <2>10, <2>11, SumOfNew
  <2>13. g.debt.pending = OpenCredit(g)
    <3>1. d.debt.pending = OpenCredit(d)  BY DEF Requests
    <3> QED BY <3>1, <2>3, <2>6, <2>12 DEF OpenCredit
  <2>15. IsFiniteSet(DOMAIN new)  BY <2>4, FS_AddElement DEF Requests
  <2>16. \A r \in DOMAIN new : IsRequest(new[r]) /\ r[1] \in Nat /\ r[1] <= e.now
    BY <2>4, <2>5, <2>7 DEF Requests, IsLog
  <2>17. Requests(g, e.now)  BY <2>6, <2>13, <2>15, <2>16 DEF Requests
  <2> DEFINE f == LinkSpokeRedeem(g, e)
  <2>18. Requests(f, e.now) /\ AlikeBut(g, f, {"request", "warning"}) /\ DOMAIN f.request = DOMAIN new
    BY <2>6, <2>17, LinkKeeps
  <2> HIDE DEF f
  <2>19. f.debt = g.debt /\ AlikeBut(d, f, {"debt", "request", "warning"})
    BY <2>6, <2>18 DEF AlikeBut, Requests
  <2> QED BY <2>1, <2>3, <2>4, <2>5, <2>6, <2>18, <2>19 DEF f
<1> QED BY <1>1, <1>2

\* A completion closes what is open and takes its credit tokens off; what is left
\* is the claim of the transfer.
RequestDone(d, e, f) ==
  /\ Requests(f, e.now)
  /\ AlikeBut(d, f, {"debt", "request", "warning"}) /\ DOMAIN f.request = DOMAIN d.request
  /\ IsDebt(f.debt, e.now) /\ f.debt.debt = d.debt.debt

LEMMA CompletionClears ==
  ASSUME NEW d, NEW e, IsLog(e), Requests(d, e.now), IsDebt(d.debt, e.now), NEW returned
  PROVE  \E f : /\ RequestDone(d, e, f)
                /\ OnRedeemCompleted(d, e, returned)
                     = ClaimTransferRepayment(f, e, -Scaled("COLLATERAL", returned), "REDEMPTION")
<1> DEFINE d1 == IF Cardinality(Open(d)) = 1 THEN d ELSE Warn(d, e, "completeOrphan")
           cleared == OpenCredit(d)
           LastOnes == {q \in Open(d) : \A r \in Open(d) : d.request[r].initiatedAt <= d.request[q].initiatedAt}
           completed == [r \in Open(d) |-> [d.request[r] EXCEPT !.open = FALSE, !.completedAt = e.now,
                                               !.returned = IF r \in LastOnes THEN returned ELSE d.request[r].returned]]
           row == LoadDebt(d, e)
           debt == [row EXCEPT !.pending = row.pending - cleared]
           new == PutAll(d1.request, completed)
           f == [d1 EXCEPT !.debt = debt, !.request = new]
<1>1. OnRedeemCompleted(d, e, returned) = ClaimTransferRepayment(f, e, -Scaled("COLLATERAL", returned), "REDEMPTION")
  BY DEF OnRedeemCompleted, OpenCredit
<1>2. /\ d1.request = d.request /\ d1.debt = d.debt /\ DOMAIN d1 = DOMAIN d
      /\ AlikeBut(d, d1, {"warning"})
  BY DEF Warn, AlikeBut, Requests
<1>3. /\ IsDebt(row, e.now) /\ IsFactor(row.rate)
      /\ row.debt = d.debt.debt /\ row.pending = d.debt.pending
  BY LoadDebtType
<1>4. d.debt.pending = cleared /\ cleared \in Int
  <2>1. cleared \in Int  BY OpenSummable, SumType DEF OpenCredit
  <2> QED BY <2>1 DEF Requests
<1> HIDE DEF row, cleared
<1>5. IsDebt(debt, e.now) /\ debt.debt = d.debt.debt /\ debt.pending = 0
  <2>1. row \in [debt: Int, rate: Nat, at: 0..e.now, credit: Int, pending: Int]  BY <1>3 DEF IsDebt
  <2>2. row.pending - cleared = 0  BY <1>3, <1>4, <2>1
  <2>3. debt \in [debt: Int, rate: Nat, at: 0..e.now, credit: Int, pending: Int]  BY <2>1, <2>2
  <2>4. debt.rate = row.rate /\ debt.debt = row.debt /\ debt.pending = row.pending - cleared  BY <2>1
  <2> HIDE DEF debt
  <2> QED BY <1>3, <2>2, <2>3, <2>4, DebtKept
<1>6. Open(d) = {r \in DOMAIN d.request : d.request[r].open = TRUE}  BY OpenIs
<1>7. \A r \in Open(d) : IsRequest(completed[r]) /\ completed[r].open = FALSE
  <2> SUFFICES ASSUME NEW r \in Open(d) PROVE IsRequest(completed[r]) /\ completed[r].open = FALSE
    OBVIOUS
  <2>1. IsRequest(d.request[r])  BY <1>6 DEF Requests
  <2> DEFINE back == IF r \in LastOnes THEN returned ELSE d.request[r].returned
             was == d.request[r]
  <2> HIDE DEF back, LastOnes, was
  <2>2. completed[r] = [was EXCEPT !.open = FALSE, !.completedAt = e.now, !.returned = back]
    BY DEF back, was
  <2>3. IsRequest(was)  BY <2>1 DEF was
  <2> QED BY <2>2, <2>3 DEF IsRequest
<1>8. DOMAIN completed = Open(d)  OBVIOUS
<1> HIDE DEF completed, LastOnes, d1
<1>9. /\ DOMAIN new = DOMAIN d.request
      /\ \A r \in DOMAIN new : IsRequest(new[r]) /\ new[r].open = FALSE
  BY <1>2, <1>6, <1>7, <1>8 DEF PutAll, Requests, IsRequest
<1> HIDE DEF new, debt
<1>10. /\ f.request = new /\ f.debt = debt /\ DOMAIN f = DOMAIN d
       /\ AlikeBut(d, f, {"debt", "request", "warning"})
  BY <1>2 DEF AlikeBut, Requests
<1> HIDE DEF f
<1>11. OpenCredit(f) = 0
  <2>1. Open(f) = {}  BY <1>9, <1>10, OpenIs
  <2> DEFINE w == [r \in Open(f) |-> f.request[r].credit]
  <2>2. DOMAIN w = {}  BY <2>1
  <2> HIDE DEF w
  <2>3. SumFunction(w) = 0  BY <2>2, SumOfNone
  <2> QED BY <2>3 DEF OpenCredit, w
<1>12. Requests(f, e.now)  BY <1>5, <1>9, <1>10, <1>11 DEF Requests
<1> QED BY <1>1, <1>5, <1>9, <1>10, <1>12 DEF RequestDone

-----------------------------------------------------------------------------
(* Fees *)

FeeCoins == {"CREDIT", "COLLATERAL", "SWAP"}

PaidOutIn(d, coin) == {k \in DOMAIN d.swap : d.swap[k].dir.out = coin}
FeesOfSwaps(d, coin) == SumFunction([k \in PaidOutIn(d, coin) |-> NonNegative(d.swap[k].fee)])

IsFee(fee) == /\ DOMAIN fee = {"PURCHASE", "REDEMPTION", "min", "max", "collected"}
              /\ fee.PURCHASE \in {0, 1} /\ fee.REDEMPTION \in {0, 1}
              /\ DOMAIN fee.collected = FeeCoins

SwapRows == [dir: Directions, fee: Int, rate: {0, 1}]

Collected(d, coin) == IF d.fee = NoFees THEN 0 ELSE d.fee.collected[coin]

\* The swaps before log e, and the fees collected from them.
Fees(d, e) ==
  /\ {"fee", "swap", "feeChange"} \subseteq DOMAIN d
  /\ IsFiniteSet(DOMAIN d.swap)
  /\ \A k \in DOMAIN d.swap : Before(k, e) /\ d.swap[k] \in SwapRows
  /\ d.fee = NoFees \/ IsFee(d.fee)
  /\ \A coin \in FeeCoins : Collected(d, coin) = FeesOfSwaps(d, coin)

LEMMA FeeIsThere == ASSUME NEW fee, IsFee(fee) PROVE fee # NoFees
<1>1. DOMAIN NoFees = {}  BY DEF NoFees
<1> QED BY <1>1 DEF IsFee

LEMMA LoadFeesType ==
  ASSUME NEW d, NEW e, IsLog(e), NEW n, Fees(d, n)
  PROVE  IsFee(LoadFees(d, e)) /\ \A coin \in FeeCoins : LoadFees(d, e).collected[coin] = Collected(d, coin)
  BY FeeIsThere DEF Fees, LoadFees, FeesOf, IsFee, Collected, FeeCoins, IsLog, IsViews

LEMMA FeesSummable ==
  ASSUME NEW d, NEW e, Fees(d, e), NEW coin
  PROVE  IsSummable([k \in PaidOutIn(d, coin) |-> NonNegative(d.swap[k].fee)])
<1>1. PaidOutIn(d, coin) \in SUBSET DOMAIN d.swap  BY DEF PaidOutIn
<1>2. IsFiniteSet(PaidOutIn(d, coin))  BY <1>1, FS_Subset DEF Fees
<1>3. \A k \in PaidOutIn(d, coin) : NonNegative(d.swap[k].fee) \in Int  BY <1>1 DEF Fees, NonNegative, SwapRows
<1> QED BY <1>2, <1>3 DEF IsSummable

\* The swaps stay, and what is collected.
LEMMA FeesCarry ==
  ASSUME NEW d, NEW f, NEW e, NEW n, Fees(d, e), e = n \/ Later(e, n), DOMAIN f = DOMAIN d, f.swap = d.swap,
         f.fee = d.fee \/ (IsFee(f.fee) /\ \A coin \in FeeCoins : f.fee.collected[coin] = Collected(d, coin))
  PROVE  Fees(f, n)
<1>1. \A k \in DOMAIN f.swap : Before(k, n)  BY DEF Fees, Later, Before, IsLog
<1>2. \A coin \in FeeCoins : FeesOfSwaps(f, coin) = FeesOfSwaps(d, coin)  BY DEF FeesOfSwaps, PaidOutIn
<1>3. \A coin \in FeeCoins : Collected(f, coin) = Collected(d, coin)  BY FeeIsThere DEF Collected
<1> QED BY <1>1, <1>2, <1>3 DEF Fees

\* A swap's fee is collected in the coin it pays out.
LEMMA FeeCollected ==
  ASSUME NEW d, NEW e, NEW n, Later(e, n), Fees(d, e), NEW dir \in Directions, NEW fee \in Int, NEW rate \in {0, 1},
         NEW f, DOMAIN f = DOMAIN d,
         f.swap = Insert(d.swap, ChangeOf(e), [dir |-> dir, fee |-> fee, rate |-> rate]),
         f.fee = AddCollectedFee(LoadFees(d, e), dir.out, fee)
  PROVE  Fees(f, n)
<1> DEFINE c == ChangeOf(e)
           row == [dir |-> dir, fee |-> fee, rate |-> rate]
           fees == LoadFees(d, e)
<1>1. c \notin DOMAIN d.swap  BY DEF Fees, Before, ChangeOf, Later, IsLog
<1>2. /\ DOMAIN f.swap = DOMAIN d.swap \cup {c} /\ f.swap[c] = row
      /\ \A k \in DOMAIN d.swap : f.swap[k] = d.swap[k]
  BY <1>1 DEF Insert, Has, Put
<1>3. Before(c, n)  BY DEF Before, ChangeOf, Later, IsLog
<1>4. IsFee(fees) /\ \A coin \in FeeCoins : fees.collected[coin] = Collected(d, coin)
  BY LoadFeesType DEF Later
<1> HIDE DEF fees, c
<1>5. row.dir = dir /\ row.fee = fee /\ row \in SwapRows  BY DEF SwapRows
<1> HIDE DEF row
<1>6. /\ IsFiniteSet(DOMAIN f.swap)
      /\ \A k \in DOMAIN f.swap : Before(k, n) /\ f.swap[k] \in SwapRows
  <2>1. IsFiniteSet(DOMAIN f.swap)  BY <1>2, FS_AddElement DEF Fees
  <2>2. \A k \in DOMAIN d.swap : Before(k, n)  BY DEF Fees, Later, Before, IsLog
  <2> QED BY <1>2, <1>3, <1>5, <2>1, <2>2 DEF Fees
<1>7. NonNegative(fee) \in Int  BY DEF NonNegative
<1>8. /\ IsFee(f.fee)
      /\ \A coin \in FeeCoins : f.fee.collected[coin]
           = IF coin = dir.out THEN Collected(d, coin) + NonNegative(fee) ELSE Collected(d, coin)
  <2>1. f.fee = [fees EXCEPT !.collected[dir.out] = fees.collected[dir.out] + NonNegative(fee)]
    BY DEF AddCollectedFee, fees
  <2> QED BY <2>1, <1>4 DEF IsFee
<1>9. ASSUME NEW coin \in FeeCoins PROVE Collected(f, coin) = FeesOfSwaps(f, coin)
  <2> DEFINE v == [k \in PaidOutIn(f, coin) |-> NonNegative(f.swap[k].fee)]
             w == [k \in PaidOutIn(d, coin) |-> NonNegative(d.swap[k].fee)]
  <2>1. IsSummable(w)  BY FeesSummable
  <2>2. Collected(d, coin) = SumFunction(w)  BY DEF Fees, FeesOfSwaps
  <2>3. Collected(f, coin) = f.fee.collected[coin]  BY <1>8, FeeIsThere DEF Collected
  <2>4. CASE coin = dir.out
    <3>1. PaidOutIn(f, coin) = PaidOutIn(d, coin) \cup {c} /\ c \notin PaidOutIn(d, coin)
      BY <1>1, <1>2, <1>5, <2>4 DEF PaidOutIn
    <3>2. \A k \in PaidOutIn(d, coin) : f.swap[k].fee = d.swap[k].fee  BY <1>2 DEF PaidOutIn
    <3>3. DOMAIN v = DOMAIN w \cup {c} /\ c \notin DOMAIN w /\ v[c] = NonNegative(fee) /\ \A k \in DOMAIN w : v[k] = w[k]
      BY <1>2, <1>5, <3>1, <3>2
    <3> HIDE DEF v, w
    <3>4. SumFunction(v) = SumFunction(w) + NonNegative(fee)  BY <1>7, <2>1, <3>3, SumOfNew
    <3> QED BY <1>8, <2>2, <2>3, <2>4, <3>4 DEF FeesOfSwaps, v
  <2>5. CASE coin # dir.out
    <3>1. PaidOutIn(f, coin) = PaidOutIn(d, coin)
      BY <1>1, <1>2, <1>5, <2>5 DEF PaidOutIn
    <3>2. \A k \in PaidOutIn(d, coin) : f.swap[k].fee = d.swap[k].fee  BY <1>2 DEF PaidOutIn
    <3>3. DOMAIN v = DOMAIN w /\ \A k \in DOMAIN w : v[k] = w[k]
      BY <3>1, <3>2
    <3> HIDE DEF v, w
    <3>4. SumFunction(v) = SumFunction(w)  BY <2>1, <3>3, SumOfEqual DEF IsSummable
    <3> QED BY <1>8, <2>2, <2>3, <2>5, <3>4 DEF FeesOfSwaps, v
  <2> QED BY <2>4, <2>5
<1>10. {"fee", "swap", "feeChange"} \subseteq DOMAIN f  BY DEF Fees
<1> QED BY <1>6, <1>8, <1>9, <1>10 DEF Fees

-----------------------------------------------------------------------------
(* All the tables: what one log does to them. *)

BasinTables == {"request", "warning", "swap", "debt", "change", "fee", "feeChange"}

\* The tables at log e, with the swaps before log m.
All(d, e, m, o, l) ==
  DOMAIN d = BasinTables /\ Ledger(d, e, o, l) /\ Requests(d, e.now) /\ Fees(d, m)

SameOrLater(m, n) == m = n \/ Later(m, n)

LEMMA AllLater ==
  ASSUME NEW d, NEW e, NEW m, NEW n, NEW o, NEW l, All(d, e, m, o, l), Later(e, n), SameOrLater(m, n)
  PROVE  All(d, n, n, o, l)
<1>1. Ledger(d, n, o, l)  BY LedgerLater DEF All
<1>2. Requests(d, n.now)  BY RequestsLater DEF All, Later, IsLog
<1>3. Fees(d, n)  BY FeesCarry DEF All, SameOrLater
<1> QED BY <1>1, <1>2, <1>3 DEF All

LEMMA AllAccrues ==
  ASSUME NEW d, NEW e, NEW m, NEW n, NEW o, NEW l, All(d, e, m, o, l), Later(e, n), SameOrLater(m, n),
         NEW type \in Names, NEW delta \in Int
  PROVE  LET f == AccrueAndApply(d, e, type, delta)
         IN  /\ All(f, n, n, o + delta, Put(l, ChangeOf(e), type))
             /\ f.request = d.request
             /\ f.change[ChangeOf(e)].principal = delta
<1> DEFINE f == AccrueAndApply(d, e, type, delta)
<1>1. /\ Ledger(f, n, o + delta, Put(l, ChangeOf(e), type))
      /\ f.debt.pending = d.debt.pending
      /\ AlikeBut(d, f, {"debt", "change"})
      /\ f.change[ChangeOf(e)].principal = delta
  BY LedgerAccrues DEF All
<1> HIDE DEF f
<1>2. /\ DOMAIN f = DOMAIN d /\ f.request = d.request /\ f.swap = d.swap /\ f.fee = d.fee
  BY <1>1 DEF AlikeBut, All, BasinTables
<1>3. Requests(f, e.now)  BY <1>1, <1>2, RequestsCarry DEF All
<1>4. Requests(f, n.now)  BY <1>3, RequestsLater DEF Later, IsLog
<1>5. Fees(f, n)  BY <1>2, FeesCarry DEF All, SameOrLater
<1> QED BY <1>1, <1>2, <1>4, <1>5 DEF All, f

LEMMA AllCredits ==
  ASSUME NEW d, NEW e, NEW m, NEW o, NEW l, All(d, e, m, o, l), IsLog(e), NEW n \in Int
  PROVE  LET f == OnCreditTokenTransfer(d, e, n)
         IN  All(f, e, m, o, l) /\ f.request = d.request /\ f.change = d.change
<1> DEFINE row == LoadDebt(d, e)
           debt == [row EXCEPT !.credit = row.credit + n]
           f == [d EXCEPT !.debt = debt]
<1>1. OnCreditTokenTransfer(d, e, n) = f  BY DEF OnCreditTokenTransfer
<1>2. /\ IsDebt(row, e.now) /\ IsFactor(row.rate)
      /\ row.debt = d.debt.debt /\ row.pending = d.debt.pending
  BY LoadDebtType DEF All, Ledger
<1> HIDE DEF row
<1>3. IsDebt(debt, e.now) /\ debt.debt = d.debt.debt /\ debt.pending = d.debt.pending
  <2>1. row \in [debt: Int, rate: Nat, at: 0..e.now, credit: Int, pending: Int]  BY <1>2 DEF IsDebt
  <2>2. row.credit + n \in Int  BY <2>1
  <2>3. debt \in [debt: Int, rate: Nat, at: 0..e.now, credit: Int, pending: Int]  BY <2>1, <2>2
  <2>4. debt.rate = row.rate /\ debt.debt = row.debt /\ debt.pending = row.pending  BY <2>1
  <2> HIDE DEF debt
  <2> QED BY <1>2, <2>3, <2>4, DebtKept
<1> HIDE DEF debt
<1>4. /\ DOMAIN f = DOMAIN d /\ f.debt = debt /\ f.request = d.request /\ f.swap = d.swap
      /\ f.fee = d.fee /\ f.change = d.change
  BY DEF All, BasinTables
<1> HIDE DEF f
<1>5. Ledger(f, e, o, l)  BY <1>3, <1>4, LedgerCarries DEF All
<1>6. Requests(f, e.now)  BY <1>3, <1>4, RequestsCarry DEF All
<1>7. Fees(f, m)  BY <1>4, FeesCarry DEF All
<1> QED BY <1>1, <1>4, <1>5, <1>6, <1>7 DEF All

LEMMA AllClaims ==
  ASSUME NEW d, NEW e, NEW m, NEW o, NEW l, All(d, e, m, o, l), IsLog(e), NEW delta, NEW k \in DOMAIN d.change,
         k[1] = e.tx, d.change[k].type = "TRANSFER_REPAYMENT", d.change[k].principal = delta,
         \A j \in DOMAIN d.change : j[1] = e.tx => j[2] <= k[2],
         NEW type \in Names
  PROVE  LET f == ClaimTransferRepayment(d, e, delta, type)
         IN  All(f, e, m, o, Put(l, k, type)) /\ f.request = d.request
<1> DEFINE f == ClaimTransferRepayment(d, e, delta, type)
<1>1. Ledger(f, e, o, Put(l, k, type)) /\ AlikeBut(d, f, {"change"})
  BY LedgerClaims DEF All
<1> HIDE DEF f
<1>2. /\ DOMAIN f = DOMAIN d /\ f.request = d.request /\ f.swap = d.swap /\ f.fee = d.fee /\ f.debt = d.debt
  BY <1>1 DEF AlikeBut, All, BasinTables
<1>3. Requests(f, e.now)  BY <1>2, RequestsCarry DEF All
<1>4. Fees(f, m)  BY <1>2, FeesCarry DEF All
<1> QED BY <1>1, <1>2, <1>3, <1>4 DEF All, f

\* A stablecoin that comes in from outside is a repayment.
LEMMA AllRepaid ==
  ASSUME NEW d, NEW e, NEW n, NEW o, NEW l, All(d, e, e, o, l), Later(e, n),
         NEW coin, NEW from, from \notin Internal(coin), NEW amount \in Nat \ {0}
  PROVE  LET f == OnStablecoinTransfer(d, e, coin, from, amount)
             delta == -Scaled(coin, amount)
         IN  /\ delta \in Int
             /\ All(f, n, n, o + delta, Put(l, ChangeOf(e), "TRANSFER_REPAYMENT"))
             /\ f.request = d.request
             /\ f.change[ChangeOf(e)].principal = delta
<1> DEFINE delta == -Scaled(coin, amount)
<1>1. delta \in Int  BY BasinAssumption DEF Scaled
<1>2. OnStablecoinTransfer(d, e, coin, from, amount) = AccrueAndApply(d, e, "TRANSFER_REPAYMENT", delta)
  BY DEF OnStablecoinTransfer
<1> HIDE DEF delta
<1> DEFINE f == AccrueAndApply(d, e, "TRANSFER_REPAYMENT", delta)
<1>3. /\ All(f, n, n, o + delta, Put(l, ChangeOf(e), "TRANSFER_REPAYMENT"))
      /\ f.request = d.request
      /\ f.change[ChangeOf(e)].principal = delta
  <2>1. SameOrLater(e, n)  BY DEF SameOrLater
  <2>2. "TRANSFER_REPAYMENT" \in Names  BY DEF Names
  <2> QED BY ONLY <1>1, <2>1, <2>2, All(d, e, e, o, l), Later(e, n), AllAccrues
<1> HIDE DEF f
<1> QED BY <1>1, <1>2, <1>3 DEF delta, f

\* The transfer of the log before is claimed, whatever was paid in between.
LEMMA OwnTransferIsLast ==
  ASSUME NEW d, NEW e, NEW a, NEW b, NEW o, NEW l, NEW p, IsLog(a), IsLog(b), a.tx = b.tx, a.log < b.log,
         b.log <= a.log + 1, All(d, b, b, o, Put(l, ChangeOf(a), "TRANSFER_REPAYMENT")),
         d.change[ChangeOf(a)].principal = p
  PROVE  LET k == ChangeOf(a)
         IN  /\ k \in DOMAIN d.change /\ k[1] = b.tx
             /\ d.change[k].type = "TRANSFER_REPAYMENT" /\ d.change[k].principal = p
             /\ \A j \in DOMAIN d.change : j[1] = b.tx => j[2] <= k[2]
<1> DEFINE k == ChangeOf(a)
<1>1. k = <<a.tx, a.log>>  BY DEF ChangeOf
<1>2. k \in DOMAIN Put(l, k, "TRANSFER_REPAYMENT") /\ Put(l, k, "TRANSFER_REPAYMENT")[k] = "TRANSFER_REPAYMENT"
  BY DEF Put
<1> HIDE DEF k
<1>3. Ledger(d, b, o, Put(l, k, "TRANSFER_REPAYMENT"))  BY DEF All, k
<1>4. k \in DOMAIN d.change /\ d.change[k].type = "TRANSFER_REPAYMENT"
  BY <1>2, <1>3 DEF Ledger
<1>5. ASSUME NEW j \in DOMAIN d.change, j[1] = b.tx PROVE j[2] <= a.log
  <2>1. Before(j, b)  BY <1>3 DEF Ledger
  <2>2. j[2] \in Nat /\ j[2] < b.log  BY <2>1, <1>5 DEF Before, IsLog
  <2> QED BY <2>2 DEF IsLog
<1> QED BY <1>1, <1>4, <1>5 DEF k

\* A swap's own log, before it draws or claims: its row and its fee.
SwapRow(d, e, dir, out, gross) ==
  LET fees == LoadFees(d, e)
      fee  == SwapFee(gross, out)
  IN  [d EXCEPT !.debt = LoadDebt(d, e),
                !.swap = Insert(d.swap, ChangeOf(e), [dir |-> dir, fee |-> fee, rate |-> RateOf(fees, dir)]),
                !.fee  = AddCollectedFee(fees, FeeToken(dir), fee)]

LEMMA AllSwapped ==
  ASSUME NEW d, NEW e, NEW n, NEW o, NEW l, All(d, e, e, o, l), Later(e, n),
         NEW dir \in Directions, NEW out \in Int, NEW gross \in Int
  PROVE  LET f == SwapRow(d, e, dir, out, gross)
         IN  All(f, e, n, o, l) /\ f.request = d.request /\ f.change = d.change
<1> DEFINE fees == LoadFees(d, e)
           fee == SwapFee(gross, out)
           debt == LoadDebt(d, e)
           swap == Insert(d.swap, ChangeOf(e), [dir |-> dir, fee |-> fee, rate |-> RateOf(fees, dir)])
           f == SwapRow(d, e, dir, out, gross)
<1>0. IsLog(e)  BY DEF Later
<1>1. IsDebt(debt, e.now) /\ debt.debt = d.debt.debt /\ debt.pending = d.debt.pending
  BY <1>0, LoadDebtType DEF All, Ledger
<1>2. fee \in Int  BY DEF SwapFee, NoAnswer
<1>3. f = [d EXCEPT !.debt = debt, !.swap = swap, !.fee = AddCollectedFee(fees, dir.out, fee)]
  BY DEF SwapRow, FeeToken
<1> HIDE DEF debt, swap, f
<1>4. /\ DOMAIN f = DOMAIN d /\ f.debt = debt /\ f.swap = swap /\ f.fee = AddCollectedFee(fees, dir.out, fee)
      /\ f.request = d.request /\ f.change = d.change
  BY <1>3 DEF All, BasinTables
<1>5. Ledger(f, e, o, l)  BY <1>1, <1>4, LedgerCarries DEF All
<1>6. Requests(f, e.now)  BY <1>1, <1>4, RequestsCarry DEF All
<1>7. RateOf(fees, dir) \in {0, 1}
  <2>1. IsFee(fees)  BY <1>0, LoadFeesType DEF All
  <2> QED BY <2>1 DEF IsFee, RateOf
<1> HIDE DEF fee
<1>8. Fees(f, n)  BY <1>2, <1>4, <1>7, FeeCollected DEF All, swap, fees
<1> QED BY <1>4, <1>5, <1>6, <1>8 DEF All, f

\* The fees of the contract change, not what was collected.
LEMMA AllFeesSet ==
  ASSUME NEW d, NEW e, IsLog(e), NEW o, NEW l, All(d, e, e, o, l), NEW f, DOMAIN f = DOMAIN d,
         \A x \in DOMAIN d \ {"fee", "feeChange"} : f[x] = d[x],
         IsFee(f.fee), f.fee.collected = LoadFees(d, e).collected
  PROVE  All(f, e, e, o, l) /\ f.request = d.request
<1>1. /\ f.debt = d.debt /\ f.swap = d.swap /\ f.request = d.request /\ f.change = d.change
  BY DEF All, BasinTables
<1>2. Ledger(f, e, o, l)  BY <1>1, LedgerCarries DEF All, Ledger
<1>3. Requests(f, e.now)  BY <1>1, RequestsCarry DEF All
<1>4. \A coin \in FeeCoins : f.fee.collected[coin] = Collected(d, coin)  BY LoadFeesType DEF All
<1>5. Fees(f, e)  BY <1>1, <1>4, FeesCarry DEF All
<1> QED BY <1>1, <1>2, <1>3, <1>5 DEF All

-----------------------------------------------------------------------------
(* The operations *)

\* The next log.
Here(t, c) == [tx |-> t.tx, log |-> t.log, now |-> t.now, ssr |-> c.ssr, views |-> c.views]

IsTime(t) == t \in [tx: Nat, log: Nat, now: Nat]
IsChain(c, now) == /\ DOMAIN c = {"ssr", "views", "redeeming", "since"}
                   /\ IsFactor(c.ssr) /\ DOMAIN c.views = {"PURCHASE", "REDEMPTION", "min", "max"} /\ IsViews(c.views)
                   /\ c.redeeming \in Nat /\ c.since \in Nat /\ c.since <= now

\* A request was made before the contract's last one or with it, and before now
\* if that one was completed: so a new one has a key of its own.
Timely(requests, c, now) ==
  /\ \A r \in requests : r[1] <= c.since
  /\ c.redeeming = 0 => \A r \in requests : r[1] < now

\* The inductive invariant.
BasinInv ==
  /\ IsTime(at) /\ IsChain(chain, at.now)
  /\ All(basin, Here(at, chain), Here(at, chain), owed, label)
  /\ Timely(DOMAIN basin.request, chain, at.now)

\* The logs of an operation come one after the other, and before the next one's.
LEMMA LogsInOrder ==
  ASSUME BasinInv, NEW n \in Nat, Emits(n), IsChain(chain', at.now)
  PROVE  /\ IsTime(at') /\ IsChain(chain', at'.now) /\ at'.now = at.now
         /\ Log(0) = Here(at, chain)
         /\ \A k \in Nat : /\ IsLog(Log(k)) /\ Log(k).now = at.now /\ Log(k).tx = at.tx /\ Log(k).log = at.log + k
                           /\ k < n => Later(Log(k), Here(at', chain'))
                           /\ Later(Log(k), Log(k + 1))
<1>1. /\ IsTime(at') /\ at'.now = at.now /\ at'.tx = at.tx /\ at'.log = at.log + n
  BY DEF BasinInv, Emits, IsTime
<1>2. Log(0) = Here(at, chain)
  <2>1. at.log + 0 = at.log  BY DEF BasinInv, IsTime
  <2> QED BY <2>1 DEF Log, Here
<1>3. ASSUME NEW k \in Nat
      PROVE  /\ IsLog(Log(k)) /\ Log(k).now = at.now /\ Log(k).tx = at.tx /\ Log(k).log = at.log + k
             /\ k < n => Later(Log(k), Here(at', chain'))
             /\ Later(Log(k), Log(k + 1))
  <2>1. /\ IsLog(Log(k)) /\ Log(k).now = at.now /\ Log(k).tx = at.tx /\ Log(k).log = at.log + k
    BY DEF BasinInv, IsTime, IsChain, Log, IsLog
  <2>2. /\ IsLog(Log(k + 1)) /\ Log(k + 1).now = at.now /\ Log(k + 1).tx = at.tx /\ Log(k + 1).log = at.log + (k + 1)
    BY DEF BasinInv, IsTime, IsChain, Log, IsLog
  <2>3. /\ IsLog(Here(at', chain')) /\ Here(at', chain').now = at.now /\ Here(at', chain').tx = at.tx
        /\ Here(at', chain').log = at.log + n
    BY <1>1 DEF Here, IsLog, IsTime, IsChain
  <2>4. at.log \in Nat /\ at.now \in Nat  BY DEF BasinInv, IsTime
  <2> QED BY <2>1, <2>2, <2>3, <2>4 DEF Later
<1> QED BY <1>1, <1>2, <1>3 DEF IsChain

LEMMA PutTwice == ASSUME NEW l, NEW k, NEW x, NEW y PROVE Put(Put(l, k, x), k, y) = Put(l, k, y)
  BY DEF Put

\* A purchase: its transfer repays, and its own log claims the transfer.
LEMMA PurchaseKeepsInv ==
  ASSUME BasinInv, NEW dir \in Directions, NEW n \in Values, NEW gross \in Int, Buys(dir), Swap(dir, n, gross)
  PROVE  BasinInv'
<1> DEFINE a == Log(0)
           b == Log(1)
           c == Log(2)
           N == Here(at', chain')
           paid == OnStablecoinTransfer(basin, a, dir.in, "trader", n)
           credit == OnCreditTokenTransfer(paid, b, -n)
           p == -Scaled(dir.in, n)
           row == SwapRow(credit, c, dir, n, gross)
           f == ClaimTransferRepayment(row, c, p, "SWAP_REPAYMENT")
           k == ChangeOf(a)
           l1 == Put(label, k, "TRANSFER_REPAYMENT")
<1>1. chain' = chain /\ Emits(3) /\ n \in Nat \ {0} /\ dir.out \in FeeCoins
  BY BasinSystemAssumption DEF Swap, Directions, FeeCoins
<1>2. IsChain(chain', at.now)  BY <1>1 DEF BasinInv
<1>3. /\ IsTime(at') /\ IsChain(chain', at'.now) /\ at'.now = at.now /\ a = Here(at, chain)
      /\ Later(a, b) /\ Later(b, c) /\ Later(c, N)
      /\ IsLog(a) /\ IsLog(b) /\ IsLog(c)
      /\ a.tx = b.tx /\ b.tx = c.tx /\ a.log < b.log /\ b.log <= a.log + 1
  <2>1. /\ IsTime(at') /\ IsChain(chain', at'.now) /\ at'.now = at.now /\ Log(0) = Here(at, chain)
        /\ \A i \in Nat : /\ IsLog(Log(i)) /\ Log(i).now = at.now /\ Log(i).tx = at.tx /\ Log(i).log = at.log + i
                          /\ i < 3 => Later(Log(i), Here(at', chain'))
                          /\ Later(Log(i), Log(i + 1))
    BY <1>1, <1>2, LogsInOrder
  <2>2. Later(Log(0), Log(0 + 1)) /\ Later(Log(1), Log(1 + 1)) /\ Later(Log(2), Here(at', chain'))  BY <2>1
  <2>3. a.log = at.log + 0 /\ b.log = at.log + 1 /\ at.log \in Nat  BY <2>1 DEF BasinInv, IsTime
  <2> QED BY <2>1, <2>2, <2>3
<1>4. /\ basin' = f /\ owed' = owed - Scaled(dir.in, n) /\ label' = Put(label, k, "SWAP_REPAYMENT")
  <2>1. basin' = OnSwap(credit, c, dir, n, n, gross)  BY DEF Swap
  <2>2. OnSwap(credit, c, dir, n, n, gross) = f  BY DEF OnSwap, SwapRow
  <2> QED BY <2>1, <2>2 DEF Swap
<1> HIDE DEF a, b, c, N, k
<1>5. /\ p \in Int /\ All(paid, b, b, owed + p, l1) /\ paid.request = basin.request
      /\ paid.change[k].principal = p
  <2>1. "trader" \notin Internal(dir.in)  BY DEF Internal
  <2>2. All(basin, a, a, owed, label)  BY <1>3 DEF BasinInv
  <2> QED BY <1>1, <1>3, <2>1, <2>2, AllRepaid DEF k
<1> HIDE DEF paid, p
<1>6. All(credit, b, b, owed + p, l1) /\ credit.request = paid.request /\ credit.change = paid.change
  <2> DEFINE m == -n
  <2>1. m \in Int  BY <1>1
  <2> HIDE DEF m, l1
  <2>2. /\ All(OnCreditTokenTransfer(paid, b, m), b, b, owed + p, l1)
        /\ OnCreditTokenTransfer(paid, b, m).request = paid.request
        /\ OnCreditTokenTransfer(paid, b, m).change = paid.change
    BY ONLY <1>3, <1>5, <2>1, AllCredits
  <2> QED BY ONLY <2>2 DEF m, credit
<1> HIDE DEF credit
<1>7. All(credit, c, c, owed + p, l1)  BY <1>3, <1>6, AllLater DEF SameOrLater
<1>8. All(row, c, N, owed + p, l1) /\ row.request = credit.request /\ row.change = credit.change
  BY <1>1, <1>3, <1>7, AllSwapped
<1> HIDE DEF row
<1>9. /\ k \in DOMAIN row.change /\ k[1] = c.tx
      /\ row.change[k].type = "TRANSFER_REPAYMENT" /\ row.change[k].principal = p
      /\ \A j \in DOMAIN row.change : j[1] = c.tx => j[2] <= k[2]
  <2>1. /\ k \in DOMAIN paid.change /\ k[1] = b.tx
        /\ paid.change[k].type = "TRANSFER_REPAYMENT" /\ paid.change[k].principal = p
        /\ \A j \in DOMAIN paid.change : j[1] = b.tx => j[2] <= k[2]
    BY <1>3, <1>5, OwnTransferIsLast DEF k
  <2> QED BY <2>1, <1>3, <1>6, <1>8
<1>10. All(f, c, N, owed + p, Put(l1, k, "SWAP_REPAYMENT")) /\ f.request = row.request
  <2>1. "SWAP_REPAYMENT" \in Names  BY DEF Names
  <2> HIDE DEF l1, f
  <2>2. /\ All(ClaimTransferRepayment(row, c, p, "SWAP_REPAYMENT"), c, N, owed + p, Put(l1, k, "SWAP_REPAYMENT"))
        /\ ClaimTransferRepayment(row, c, p, "SWAP_REPAYMENT").request = row.request
    BY ONLY <1>3, <1>8, <1>9, <2>1, AllClaims
  <2> QED BY ONLY <2>2 DEF f
<1>11. Put(l1, k, "SWAP_REPAYMENT") = label'  BY <1>4, PutTwice
<1>12. owed + p = owed'  BY <1>4, <1>5 DEF p, BasinInv, All, Ledger
<1> HIDE DEF f, l1
<1>13. All(basin', N, N, owed', label')  BY <1>3, <1>4, <1>10, <1>11, <1>12, AllLater DEF SameOrLater
<1>14. Timely(DOMAIN basin'.request, chain', at'.now)
  BY <1>1, <1>3, <1>4, <1>5, <1>6, <1>8, <1>10 DEF BasinInv
<1> QED BY <1>3, <1>13, <1>14 DEF BasinInv, N

\* A sale: its own log draws.
LEMMA SaleKeepsInv ==
  ASSUME BasinInv, NEW dir \in Directions, NEW n \in Values, NEW gross \in Int, ~Buys(dir), Swap(dir, n, gross)
  PROVE  BasinInv'
<1> DEFINE a == Log(0)
           c == Log(2)
           N == Here(at', chain')
           credit == OnCreditTokenTransfer(basin, a, n)
           p == Scaled(dir.out, n)
           row == SwapRow(credit, c, dir, n, gross)
           f == AccrueAndApply(row, c, "SWAP_PAYOUT", p)
           k == ChangeOf(c)
<1>1. chain' = chain /\ Emits(3) /\ n \in Nat \ {0} /\ n \in Int /\ dir.out \in FeeCoins
  BY BasinSystemAssumption DEF Swap, Directions, FeeCoins
<1>2. IsChain(chain', at.now)  BY <1>1 DEF BasinInv
<1>3. /\ IsTime(at') /\ IsChain(chain', at'.now) /\ at'.now = at.now /\ a = Here(at, chain)
      /\ Later(a, c) /\ Later(c, N)
      /\ IsLog(a) /\ IsLog(c)
  <2>1. /\ IsTime(at') /\ IsChain(chain', at'.now) /\ at'.now = at.now /\ Log(0) = Here(at, chain)
        /\ \A i \in Nat : /\ IsLog(Log(i)) /\ Log(i).now = at.now /\ Log(i).tx = at.tx /\ Log(i).log = at.log + i
                          /\ i < 3 => Later(Log(i), Here(at', chain'))
                          /\ Later(Log(i), Log(i + 1))
    BY <1>1, <1>2, LogsInOrder
  <2>2. IsLog(Log(0)) /\ IsLog(Log(2)) /\ Later(Log(2), Here(at', chain'))  BY <2>1
  <2>3. /\ Log(0).now = at.now /\ Log(2).now = at.now /\ Log(0).tx = at.tx /\ Log(2).tx = at.tx
        /\ Log(0).log = at.log + 0 /\ Log(2).log = at.log + 2 /\ at.log \in Nat
    BY <2>1 DEF BasinInv, IsTime
  <2>4. Later(Log(0), Log(2))  BY <2>2, <2>3 DEF Later, IsLog
  <2> QED BY <2>1, <2>2, <2>4
<1>4. /\ basin' = f /\ owed' = owed + p /\ label' = Put(label, k, "SWAP_PAYOUT")
  <2>1. basin' = OnSwap(credit, c, dir, n, n, gross)  BY DEF Swap
  <2>2. OnSwap(credit, c, dir, n, n, gross) = f  BY DEF OnSwap, SwapRow
  <2> QED BY <2>1, <2>2 DEF Swap
<1>5. p \in Int  BY <1>1, BasinAssumption DEF Scaled
<1>6. All(basin, a, a, owed, label)  BY <1>3 DEF BasinInv
<1> HIDE DEF a, c, N, k, p
<1>7. All(credit, a, a, owed, label) /\ credit.request = basin.request
  BY <1>1, <1>3, <1>6, AllCredits
<1> HIDE DEF credit
<1>8. All(credit, c, c, owed, label)  BY <1>3, <1>7, AllLater DEF SameOrLater
<1>9. All(row, c, N, owed, label) /\ row.request = credit.request
  BY <1>1, <1>3, <1>8, AllSwapped
<1> HIDE DEF row
<1>10. /\ All(AccrueAndApply(row, c, "SWAP_PAYOUT", p), N, N, owed + p, Put(label, k, "SWAP_PAYOUT"))
       /\ AccrueAndApply(row, c, "SWAP_PAYOUT", p).request = row.request
  <2>1. "SWAP_PAYOUT" \in Names /\ SameOrLater(N, N)  BY DEF Names, SameOrLater
  <2> QED BY ONLY <1>3, <1>5, <1>9, <2>1, AllAccrues DEF k
<1>11. All(basin', N, N, owed', label')  BY <1>4, <1>10
<1>12. Timely(DOMAIN basin'.request, chain', at'.now)
  BY <1>1, <1>3, <1>4, <1>7, <1>9, <1>10 DEF BasinInv
<1> QED BY <1>3, <1>11, <1>12 DEF BasinInv, N

\* What a third party pays is a repayment, what the basin's own accounts move is not.
LEMMA PayKeepsInv ==
  ASSUME BasinInv, NEW coin, NEW from, NEW n \in Values, Pay(coin, from, n)
  PROVE  BasinInv'
<1> DEFINE a == Log(0)
           N == Here(at', chain')
           p == -Scaled(coin, n)
           f == OnStablecoinTransfer(basin, a, coin, from, n)
<1>1. chain' = chain /\ Emits(1) /\ n \in Nat \ {0} /\ basin' = f
  BY BasinSystemAssumption DEF Pay
<1>2. IsChain(chain', at.now)  BY <1>1 DEF BasinInv
<1>3. /\ IsTime(at') /\ IsChain(chain', at'.now) /\ at'.now = at.now /\ a = Here(at, chain)
      /\ Later(a, N) /\ IsLog(a)
  BY <1>1, <1>2, LogsInOrder
<1>4. All(basin, a, a, owed, label)  BY <1>3 DEF BasinInv
<1>5. CASE from \in Internal(coin)
  <2>1. basin' = basin /\ owed' = owed /\ label' = label  BY <1>5 DEF Pay, OnStablecoinTransfer
  <2>2. All(basin, N, N, owed, label)  BY <1>3, <1>4, AllLater DEF SameOrLater
  <2>3. Timely(DOMAIN basin'.request, chain', at'.now)  BY <1>1, <1>3, <2>1 DEF BasinInv
  <2> QED BY <1>3, <2>1, <2>2, <2>3 DEF BasinInv
<1>6. CASE from \notin Internal(coin)
  <2>1. owed' = owed - Scaled(coin, n) /\ label' = Put(label, ChangeOf(a), "TRANSFER_REPAYMENT")  BY <1>6 DEF Pay
  <2> HIDE DEF a, N
  <2>2. p \in Int /\ All(f, N, N, owed + p, Put(label, ChangeOf(a), "TRANSFER_REPAYMENT")) /\ f.request = basin.request
    BY <1>1, <1>3, <1>4, <1>6, AllRepaid
  <2>3. Scaled(coin, n) \in Int  BY <1>1, BasinAssumption DEF Scaled
  <2>4. owed' = owed + p  BY <2>1, <2>3, <1>4 DEF All, Ledger
  <2>5. All(basin', N, N, owed', label')  BY <1>1, <2>1, <2>2, <2>4
  <2>6. Timely(DOMAIN basin'.request, chain', at'.now)  BY <1>1, <1>3, <2>2 DEF BasinInv
  <2> QED BY <1>3, <2>5, <2>6 DEF BasinInv, N
<1> QED BY <1>5, <1>6

\* A new savings rate: the interest so far is entered, then the rate changes.
LEMMA FileRateKeepsInv ==
  ASSUME BasinInv, NEW ssr \in Rates, FileRate(ssr)
  PROVE  BasinInv'
<1> DEFINE a == Log(0)
           N == Here(at', chain')
           g == AccrueAndApply(basin, a, "RATE_UPDATE", 0)
           rate == EffectiveRate(ssr)
           f == [g EXCEPT !.debt.rate = rate]
           l == Put(label, ChangeOf(a), "RATE_UPDATE")
<1>1. chain' = [chain EXCEPT !.ssr = ssr] /\ Emits(1) /\ ssr \in Nat /\ ssr >= Ray /\ basin' = f /\ owed' = owed /\ label' = l
  BY BasinSystemAssumption DEF FileRate, OnFile
<1>2. IsChain(chain', at.now) /\ chain'.redeeming = chain.redeeming /\ chain'.since = chain.since
  <2>1. IsChain(chain, at.now) /\ IsFactor(ssr)  BY <1>1 DEF BasinInv, IsFactor
  <2>2. /\ DOMAIN chain' = DOMAIN chain /\ chain'.ssr = ssr /\ chain'.views = chain.views
        /\ chain'.redeeming = chain.redeeming /\ chain'.since = chain.since
    BY <1>1, <2>1 DEF IsChain
  <2> QED BY <2>1, <2>2 DEF IsChain
<1>3. /\ IsTime(at') /\ IsChain(chain', at'.now) /\ at'.now = at.now /\ a = Here(at, chain)
      /\ Later(a, N) /\ IsLog(a)
  BY <1>1, <1>2, LogsInOrder
<1>4. All(basin, a, a, owed, label) /\ owed \in Int  BY <1>3 DEF BasinInv, All, Ledger
<1>5. IsFactor(rate)  BY <1>1, EffectiveFloor DEF IsFactor
<1> HIDE DEF a, N, rate
<1>6. All(g, N, N, owed, l) /\ g.request = basin.request
  <2>1. "RATE_UPDATE" \in Names /\ SameOrLater(a, N) /\ 0 \in Int  BY <1>3 DEF Names, SameOrLater
  <2>2. All(g, N, N, owed + 0, l) /\ g.request = basin.request
    BY ONLY <1>3, <1>4, <2>1, AllAccrues
  <2>3. owed + 0 = owed  BY <1>4
  <2> HIDE DEF g, l
  <2> QED BY <2>2, <2>3
<1> HIDE DEF g, l
<1> DEFINE debt == [g.debt EXCEPT !.rate = rate]
<1>7. IsDebt(g.debt, N.now)  BY <1>6 DEF All, Ledger
<1>8. IsDebt(debt, N.now) /\ debt.debt = g.debt.debt /\ debt.pending = g.debt.pending
  <2> DEFINE row == g.debt
  <2>1. row \in [debt: Int, rate: Nat, at: 0..N.now, credit: Int, pending: Int] /\ rate \in Nat
    BY <1>5, <1>7 DEF IsDebt, IsFactor
  <2>2. debt = [row EXCEPT !.rate = rate]  OBVIOUS
  <2> HIDE DEF row, debt
  <2>3. /\ debt \in [debt: Int, rate: Nat, at: 0..N.now, credit: Int, pending: Int]
        /\ debt.rate = rate /\ debt.debt = row.debt /\ debt.pending = row.pending
    BY <2>1, <2>2
  <2> QED BY <1>5, <2>3 DEF IsDebt, row
<1> HIDE DEF debt
<1>9. /\ f.debt = debt /\ f.request = g.request /\ f.change = g.change /\ f.swap = g.swap /\ f.fee = g.fee
      /\ DOMAIN f = DOMAIN g
  BY <1>6 DEF All, BasinTables, debt
<1> HIDE DEF f
<1>10. Ledger(f, N, owed, l)  BY <1>6, <1>8, <1>9, LedgerCarries DEF All
<1>11. Requests(f, N.now)  BY <1>6, <1>8, <1>9, RequestsCarry DEF All
<1>12. Fees(f, N)  BY <1>6, <1>9, FeesCarry DEF All
<1>13. All(f, N, N, owed, l)  BY <1>6, <1>9, <1>10, <1>11, <1>12 DEF All
<1>14. Timely(DOMAIN basin'.request, chain', at'.now)
  BY <1>1, <1>2, <1>3, <1>6, <1>9 DEF BasinInv, Timely
<1> QED BY <1>1, <1>3, <1>13, <1>14 DEF BasinInv, N

\* An operation of one log that only sets fees.
LEMMA FeesKeepInv ==
  ASSUME BasinInv, Emits(1), IsChain(chain', at.now), chain'.redeeming = chain.redeeming, chain'.since = chain.since,
         owed' = owed, label' = label, NEW fee, IsFee(fee), fee.collected = LoadFees(basin, Log(0)).collected,
         NEW f, DOMAIN f = DOMAIN basin, \A x \in DOMAIN basin \ {"fee", "feeChange"} : f[x] = basin[x],
         f.fee = fee, basin' = f
  PROVE  BasinInv'
<1> DEFINE a == Log(0)
           N == Here(at', chain')
<1>1. /\ IsTime(at') /\ IsChain(chain', at'.now) /\ at'.now = at.now /\ a = Here(at, chain)
      /\ Later(a, N) /\ IsLog(a)
  BY LogsInOrder
<1>2. All(basin, a, a, owed, label)  BY <1>1 DEF BasinInv
<1> HIDE DEF N
<1>3. All(f, a, a, owed, label) /\ f.request = basin.request
  <2> HIDE DEF a
  <2> QED BY <1>1, <1>2, AllFeesSet DEF a
<1>4. All(f, N, N, owed, label)
  <2> HIDE DEF a
  <2> QED BY <1>1, <1>3, AllLater DEF SameOrLater
<1>5. Timely(DOMAIN basin'.request, chain', at'.now)  BY <1>1, <1>3 DEF BasinInv, Timely
<1> QED BY <1>1, <1>4, <1>5 DEF BasinInv, N

LEMMA SetFeeKeepsInv ==
  ASSUME BasinInv, NEW type \in {"PURCHASE", "REDEMPTION"}, NEW new \in {0, 1}, SetFee(type, new)
  PROVE  BasinInv'
<1> DEFINE a == Log(0)
           loaded == LoadFees(basin, a)
           fee == [loaded EXCEPT ![type] = new]
           entered == Insert(basin.feeChange, ChangeOf(a), [type |-> type, new |-> new])
           f == [basin EXCEPT !.fee = fee, !.feeChange = entered]
<1>1. /\ Emits(1) /\ chain' = [chain EXCEPT !.views[type] = new] /\ basin' = f /\ owed' = owed /\ label' = label
  BY DEF SetFee, OnFeeSet
<1>2. IsChain(chain', at.now) /\ chain'.redeeming = chain.redeeming /\ chain'.since = chain.since
  <2> DEFINE views == [chain.views EXCEPT ![type] = new]
  <2>1. IsChain(chain, at.now)  BY DEF BasinInv
  <2>2. DOMAIN views = DOMAIN chain.views /\ IsViews(views)  BY <2>1 DEF IsChain, IsViews
  <2> HIDE DEF views
  <2>3. /\ DOMAIN chain' = DOMAIN chain /\ chain'.ssr = chain.ssr /\ chain'.views = views
        /\ chain'.redeeming = chain.redeeming /\ chain'.since = chain.since
    BY <1>1, <2>1 DEF IsChain, views
  <2> QED BY <2>1, <2>2, <2>3 DEF IsChain
<1>3. IsFee(loaded)
  <2>1. a = Here(at, chain) /\ IsLog(a)  BY <1>1, <1>2, LogsInOrder
  <2> HIDE DEF a
  <2> QED BY <2>1, LoadFeesType DEF BasinInv, All
<1> HIDE DEF loaded
<1>4. IsFee(fee) /\ fee.collected = loaded.collected  BY <1>3 DEF IsFee
<1> HIDE DEF fee, entered
<1>5. /\ DOMAIN f = DOMAIN basin /\ f.fee = fee
      /\ \A x \in DOMAIN basin \ {"fee", "feeChange"} : f[x] = basin[x]
  BY DEF BasinInv, All, BasinTables
<1> HIDE DEF f
<1> QED BY <1>1, <1>2, <1>4, <1>5, FeesKeepInv DEF loaded

LEMMA SetBoundsKeepsInv ==
  ASSUME BasinInv, NEW max, SetBounds(max)
  PROVE  BasinInv'
<1> DEFINE a == Log(0)
           loaded == LoadFees(basin, a)
           fee == [loaded EXCEPT !.min = chain.views.min, !.max = max]
           f == [basin EXCEPT !.fee = fee]
<1>1. /\ Emits(1) /\ chain' = [chain EXCEPT !.views.max = max] /\ basin' = f /\ owed' = owed /\ label' = label
  BY DEF SetBounds, OnFeeBoundsSet
<1>2. IsChain(chain', at.now) /\ chain'.redeeming = chain.redeeming /\ chain'.since = chain.since
  <2> DEFINE views == [chain.views EXCEPT !.max = max]
  <2>1. IsChain(chain, at.now)  BY DEF BasinInv
  <2>2. DOMAIN views = DOMAIN chain.views /\ IsViews(views)  BY <2>1 DEF IsChain, IsViews
  <2> HIDE DEF views
  <2>3. /\ DOMAIN chain' = DOMAIN chain /\ chain'.ssr = chain.ssr /\ chain'.views = views
        /\ chain'.redeeming = chain.redeeming /\ chain'.since = chain.since
    BY <1>1, <2>1 DEF IsChain, views
  <2> QED BY <2>1, <2>2, <2>3 DEF IsChain
<1>3. IsFee(loaded)
  <2>1. a = Here(at, chain) /\ IsLog(a)  BY <1>1, <1>2, LogsInOrder
  <2> HIDE DEF a
  <2> QED BY <2>1, LoadFeesType DEF BasinInv, All
<1> HIDE DEF loaded
<1>4. IsFee(fee) /\ fee.collected = loaded.collected  BY <1>3 DEF IsFee
<1> HIDE DEF fee
<1>5. /\ DOMAIN f = DOMAIN basin /\ f.fee = fee
      /\ \A x \in DOMAIN basin \ {"fee", "feeChange"} : f[x] = basin[x]
  BY DEF BasinInv, All, BasinTables
<1> HIDE DEF f
<1> QED BY <1>1, <1>2, <1>4, <1>5, FeesKeepInv DEF loaded

\* A redeem request: no other has its block's time, so its key is new.
LEMMA InitiateKeepsInv ==
  ASSUME BasinInv, NEW n \in Values, NEW quote, InitiateRedeem(n, quote)
  PROVE  BasinInv'
<1> DEFINE a == Log(0)
           b == Log(1)
           N == Here(at', chain')
           m == -n
           sent == OnCreditTokenTransfer(basin, a, m)
           f == OnRedeemInitiated(sent, b, n, quote)
<1>1. /\ chain.redeeming = 0 /\ Emits(2) /\ n \in Nat \ {0} /\ n \in Int
      /\ chain' = [chain EXCEPT !.redeeming = n, !.since = at.now]
      /\ basin' = f /\ owed' = owed /\ label' = label
  BY BasinSystemAssumption DEF InitiateRedeem
<1>2. IsChain(chain', at.now) /\ chain'.redeeming = n /\ chain'.since = at.now
  BY <1>1 DEF BasinInv, IsChain, IsTime
<1>3. /\ IsTime(at') /\ IsChain(chain', at'.now) /\ at'.now = at.now /\ a = Here(at, chain)
      /\ Later(a, b) /\ Later(b, N) /\ IsLog(a) /\ IsLog(b) /\ b.now = at.now
  <2>1. /\ IsTime(at') /\ IsChain(chain', at'.now) /\ at'.now = at.now /\ Log(0) = Here(at, chain)
        /\ \A i \in Nat : /\ IsLog(Log(i)) /\ Log(i).now = at.now /\ Log(i).tx = at.tx /\ Log(i).log = at.log + i
                          /\ i < 2 => Later(Log(i), Here(at', chain'))
                          /\ Later(Log(i), Log(i + 1))
    BY <1>1, <1>2, LogsInOrder
  <2>2. Later(Log(0), Log(0 + 1)) /\ Later(Log(1), Here(at', chain')) /\ Log(1).now = at.now  BY <2>1
  <2> QED BY <2>1, <2>2
<1>4. All(basin, a, a, owed, label)  BY <1>3 DEF BasinInv
<1>5. m \in Int  BY <1>1
<1> HIDE DEF a, b, N, m
<1>6. All(sent, a, a, owed, label) /\ sent.request = basin.request
  BY <1>3, <1>4, <1>5, AllCredits
<1> HIDE DEF sent
<1>7. All(sent, b, b, owed, label)  BY <1>3, <1>6, AllLater DEF SameOrLater
<1>8. \A r \in DOMAIN sent.request : r[1] < at.now  BY <1>1, <1>6 DEF BasinInv, Timely
<1>9. <<b.now, n, quote>> \notin DOMAIN sent.request
  <2> DEFINE key == <<b.now, n, quote>>
  <2>1. key[1] = at.now  BY <1>3
  <2>2. at.now \in Nat  BY DEF BasinInv, IsTime
  <2> HIDE DEF key
  <2>3. key \notin DOMAIN sent.request  BY <1>8, <2>1, <2>2
  <2> QED BY <2>3 DEF key
<1>10. /\ Requests(f, b.now) /\ AlikeBut(sent, f, {"debt", "request", "warning"})
       /\ IsDebt(f.debt, b.now) /\ f.debt.debt = sent.debt.debt
       /\ \A r \in DOMAIN f.request : r \in DOMAIN sent.request \/ r[1] = b.now
  <2>1. IsLog(b) /\ n \in Nat  BY <1>1, <1>3
  <2>2. Requests(sent, b.now) /\ IsDebt(sent.debt, b.now)  BY <1>7 DEF All, Ledger
  <2> QED BY ONLY <1>9, <2>1, <2>2, InitiationAdds
<1> HIDE DEF f
<1>11. DOMAIN f = DOMAIN sent /\ f.change = sent.change /\ f.swap = sent.swap /\ f.fee = sent.fee
  BY <1>7, <1>10 DEF AlikeBut, All, BasinTables
<1>12. Ledger(f, b, owed, label)  BY <1>7, <1>10, <1>11, LedgerCarries DEF All
<1>13. Fees(f, b)  BY <1>7, <1>11, FeesCarry DEF All
<1>14. All(f, b, b, owed, label)  BY <1>7, <1>10, <1>11, <1>12, <1>13 DEF All
<1>15. All(f, N, N, owed, label)  BY <1>3, <1>14, AllLater DEF SameOrLater
<1>16. Timely(DOMAIN basin'.request, chain', at'.now)
  <2>1. at.now \in Nat /\ \A r \in DOMAIN sent.request : r[1] \in Nat
    BY <1>7 DEF BasinInv, IsTime, All, Requests
  <2>2. \A r \in DOMAIN f.request : r[1] <= at.now
    BY <1>3, <1>8, <1>10, <2>1
  <2> QED BY <1>1, <1>2, <2>2 DEF Timely
<1> QED BY <1>1, <1>3, <1>15, <1>16 DEF BasinInv, N

\* A completion: the fund's transfer repays, and the basin's log claims it and closes
\* the requests.
LEMMA CompleteKeepsInv ==
  ASSUME BasinInv, NEW n \in {chain.redeeming - 1, chain.redeeming}, CompleteRedeem(n)
  PROVE  BasinInv'
<1> DEFINE a == Log(0)
           b == Log(1)
           N == Here(at', chain')
           paid == OnStablecoinTransfer(basin, a, "COLLATERAL", "redeemer", n)
           p == -Scaled("COLLATERAL", n)
           k == ChangeOf(a)
           l1 == Put(label, k, "TRANSFER_REPAYMENT")
<1>1. /\ n \in Nat \ {0} /\ chain.since < at.now /\ Emits(2) /\ chain' = [chain EXCEPT !.redeeming = 0]
      /\ basin' = OnRedeemCompleted(paid, b, n)
      /\ owed' = owed - Scaled("COLLATERAL", n) /\ label' = Put(label, k, "REDEMPTION")
  BY DEF CompleteRedeem, BasinInv, IsChain
<1>2. IsChain(chain', at.now) /\ chain'.redeeming = 0 /\ chain'.since = chain.since
  BY <1>1 DEF BasinInv, IsChain
<1>3. /\ IsTime(at') /\ IsChain(chain', at'.now) /\ at'.now = at.now /\ a = Here(at, chain)
      /\ Later(a, b) /\ Later(b, N) /\ IsLog(a) /\ IsLog(b)
      /\ a.tx = b.tx /\ a.log < b.log /\ b.log <= a.log + 1
  <2>1. /\ IsTime(at') /\ IsChain(chain', at'.now) /\ at'.now = at.now /\ Log(0) = Here(at, chain)
        /\ \A i \in Nat : /\ IsLog(Log(i)) /\ Log(i).now = at.now /\ Log(i).tx = at.tx /\ Log(i).log = at.log + i
                          /\ i < 2 => Later(Log(i), Here(at', chain'))
                          /\ Later(Log(i), Log(i + 1))
    BY <1>1, <1>2, LogsInOrder
  <2>2. Later(Log(0), Log(0 + 1)) /\ Later(Log(1), Here(at', chain'))  BY <2>1
  <2>3. a.log = at.log + 0 /\ b.log = at.log + 1 /\ at.log \in Nat  BY <2>1 DEF BasinInv, IsTime
  <2> QED BY <2>1, <2>2, <2>3
<1>4. All(basin, a, a, owed, label) /\ owed \in Int  BY <1>3 DEF BasinInv, All, Ledger
<1> HIDE DEF a, b, N, k
<1>5. /\ p \in Int /\ All(paid, b, b, owed + p, l1) /\ paid.request = basin.request
      /\ paid.change[k].principal = p
  <2>1. "redeemer" \notin Internal("COLLATERAL")  BY DEF Internal
  <2> QED BY <1>1, <1>3, <1>4, <2>1, AllRepaid DEF k
<1>6. owed + p = owed'
  <2>1. Scaled("COLLATERAL", n) \in Int  BY <1>1, BasinAssumption DEF Scaled
  <2> QED BY <2>1, <1>1, <1>4
<1> HIDE DEF paid
<1>7. PICK f : /\ RequestDone(paid, b, f)
               /\ OnRedeemCompleted(paid, b, n) = ClaimTransferRepayment(f, b, p, "REDEMPTION")
  <2>1. Requests(paid, b.now) /\ IsDebt(paid.debt, b.now)  BY <1>5 DEF All, Ledger
  <2> QED BY <1>3, <2>1, CompletionClears
<1> HIDE DEF p, l1
<1>8. DOMAIN f = DOMAIN paid /\ f.change = paid.change /\ f.swap = paid.swap /\ f.fee = paid.fee
  BY <1>5, <1>7 DEF RequestDone, AlikeBut, All, BasinTables
<1>9. Ledger(f, b, owed + p, l1)  BY <1>5, <1>7, <1>8, LedgerCarries DEF All, RequestDone
<1>10. Fees(f, b)  BY <1>5, <1>8, FeesCarry DEF All
<1>11. All(f, b, b, owed + p, l1)  BY <1>5, <1>7, <1>8, <1>9, <1>10 DEF All, RequestDone
<1>12. /\ k \in DOMAIN f.change /\ k[1] = b.tx
       /\ f.change[k].type = "TRANSFER_REPAYMENT" /\ f.change[k].principal = p
       /\ \A j \in DOMAIN f.change : j[1] = b.tx => j[2] <= k[2]
  BY <1>3, <1>5, <1>8, <1>11, OwnTransferIsLast DEF k, l1
<1> DEFINE g == ClaimTransferRepayment(f, b, p, "REDEMPTION")
<1>13. All(g, b, b, owed + p, Put(l1, k, "REDEMPTION")) /\ g.request = f.request
  <2>1. "REDEMPTION" \in Names  BY DEF Names
  <2> QED BY ONLY <1>3, <1>11, <1>12, <2>1, AllClaims
<1> HIDE DEF g
<1>14. Put(l1, k, "REDEMPTION") = label'  BY <1>1, PutTwice DEF l1
<1>15. All(g, N, N, owed', label')  BY <1>3, <1>6, <1>13, <1>14, AllLater DEF SameOrLater
<1>16. Timely(DOMAIN basin'.request, chain', at'.now)
  <2>1. DOMAIN g.request = DOMAIN basin.request  BY <1>5, <1>7, <1>13 DEF RequestDone
  <2>2. \A r \in DOMAIN basin.request : r[1] \in Nat  BY <1>4 DEF All, Requests
  <2>3. chain.since \in Nat /\ at.now \in Nat  BY DEF BasinInv, IsChain, IsTime
  <2>4. \A r \in DOMAIN basin.request : r[1] <= chain.since  BY DEF BasinInv, Timely
  <2>5. \A r \in DOMAIN basin.request : r[1] < at.now  BY <1>1, <2>2, <2>3, <2>4
  <2>6. basin' = g  BY <1>1, <1>7 DEF g
  <2> QED BY <1>2, <1>3, <2>1, <2>4, <2>5, <2>6 DEF Timely
<1> QED BY <1>1, <1>3, <1>7, <1>15, <1>16 DEF BasinInv, N, g

LEMMA NextTransactionKeepsInv ==
  ASSUME BasinInv, NextTransaction
  PROVE  BasinInv'
<1> DEFINE H == Here(at, chain)
           N == Here(at', chain')
<1>1. PICK elapsed \in {0, 2} : at' = [tx |-> at.tx + 1, log |-> 0, now |-> at.now + elapsed]
  BY DEF NextTransaction
<1>2. chain' = chain /\ owed' = owed /\ label' = label /\ basin' = basin  BY DEF NextTransaction
<1>3. /\ at.tx \in Nat /\ at.log \in Nat /\ at.now \in Nat /\ at'.tx = at.tx + 1 /\ at'.log = 0
      /\ at'.now = at.now + elapsed /\ IsTime(at')
  BY <1>1 DEF BasinInv, IsTime
<1>4. IsChain(chain', at'.now)  BY <1>2, <1>3 DEF BasinInv, IsChain
<1>5. Later(H, N)  BY <1>2, <1>3 DEF BasinInv, IsChain, Later, IsLog, Here
<1> HIDE DEF H, N
<1>6. All(basin, H, H, owed, label)  BY DEF BasinInv, H
<1>7. All(basin, N, N, owed, label)  BY <1>5, <1>6, AllLater DEF SameOrLater
<1>8. Timely(DOMAIN basin'.request, chain', at'.now)
  <2>1. \A r \in DOMAIN basin.request : r[1] \in Nat  BY <1>6 DEF All, Requests
  <2> QED BY <1>2, <1>3, <2>1 DEF BasinInv, Timely
<1> QED BY <1>2, <1>3, <1>4, <1>7, <1>8 DEF BasinInv, N

LEMMA NextKeepsInv == BasinInv /\ [BasinNext]_basinVars => BasinInv'
<1> SUFFICES ASSUME BasinInv, [BasinNext]_basinVars PROVE BasinInv'
  OBVIOUS
<1>1. ASSUME NEW dir \in Directions, NEW n \in Values, NEW gross \in Quotes, Swap(dir, n, gross) PROVE BasinInv'
  <2>1. gross \in Int  BY DEF Quotes, NoAnswer
  <2> QED BY <1>1, <2>1, PurchaseKeepsInv, SaleKeepsInv
<1>2. ASSUME NEW coin \in Coins, NEW from \in {"provider", "other"}, NEW n \in Values, Pay(coin, from, n)
      PROVE  BasinInv'
  BY <1>2, PayKeepsInv
<1>3. CASE DebtOperation
  <2>1. ASSUME NEW ssr \in Rates, FileRate(ssr) PROVE BasinInv'  BY <2>1, FileRateKeepsInv
  <2>2. ASSUME NEW n \in Values, NEW quote, InitiateRedeem(n, quote) PROVE BasinInv'  BY <2>2, InitiateKeepsInv
  <2>3. ASSUME NEW n \in {chain.redeeming - 1, chain.redeeming}, CompleteRedeem(n) PROVE BasinInv'
    BY <2>3, CompleteKeepsInv
  <2> QED BY <1>3, <2>1, <2>2, <2>3 DEF DebtOperation
<1>4. CASE FeeOperation
  <2>1. ASSUME NEW type \in {"PURCHASE", "REDEMPTION"}, SetFee(type, 1 - chain.views[type])
        PROVE  BasinInv'
    <3>1. 1 - chain.views[type] \in {0, 1}
      <4>1. IsViews(chain.views)  BY DEF BasinInv, IsChain
      <4> QED BY <4>1 DEF IsViews
    <3> QED BY <2>1, <3>1, SetFeeKeepsInv
  <2>2. ASSUME NEW max, SetBounds(max) PROVE BasinInv'  BY <2>2, SetBoundsKeepsInv
  <2> QED BY <1>4, <2>1, <2>2 DEF FeeOperation
<1>5. CASE NextTransaction  BY <1>5, NextTransactionKeepsInv
<1>6. CASE UNCHANGED basinVars  BY <1>6 DEF BasinInv, basinVars
<1>7. CASE Operation  BY <1>1, <1>2, <1>3, <1>4, <1>7 DEF Operation
<1> QED BY <1>5, <1>6, <1>7 DEF BasinNext

\* The tables are empty at the first log, and the first rate is one of them.
LEMMA InitHasInv == BasinInit => BasinInv
<1> SUFFICES ASSUME BasinInit PROVE BasinInv
  OBVIOUS
<1> DEFINE H == Here(at, chain)
<1>1. IsFactor(HighestRate)  BY BasinSystemAssumption DEF HighestRate, IsFactor
<1>2. IsTime(at) /\ IsChain(chain, at.now) /\ H.now = 0 /\ owed = 0 /\ DOMAIN label = {}
  BY <1>1 DEF BasinInit, IsTime, IsChain, IsViews, Here, EmptyTable
<1>3. /\ DOMAIN basin = BasinTables /\ basin.debt = NoDebt /\ basin.fee = NoFees
      /\ DOMAIN basin.request = {} /\ DOMAIN basin.change = {} /\ DOMAIN basin.swap = {}
  BY DEF BasinInit, BasinTables, EmptyTable
<1> HIDE DEF H
<1>4. IsFiniteSet({})  BY FS_EmptySet
<1>5. Ledger(basin, H, owed, label)
  <2> DEFINE w == [k \in DOMAIN basin.change |-> basin.change[k].interest]
  <2>1. DOMAIN w = {}  BY <1>3
  <2> HIDE DEF w
  <2>2. SumFunction(w) = 0  BY <2>1, SumOfNone
  <2>3. basin.debt.debt = owed + SumFunction(w)  BY <1>2, <1>3, <2>2 DEF NoDebt
  <2>4. IsDebt(basin.debt, H.now)  BY <1>2, <1>3 DEF NoDebt, IsDebt
  <2> QED BY <1>2, <1>3, <1>4, <2>3, <2>4 DEF Ledger, w, BasinTables
<1>6. Requests(basin, H.now)
  <2> DEFINE w == [r \in Open(basin) |-> basin.request[r].credit]
  <2>1. DOMAIN w = {}  BY <1>3, OpenIs
  <2> HIDE DEF w
  <2>2. SumFunction(w) = 0  BY <2>1, SumOfNone
  <2>3. basin.debt.pending = OpenCredit(basin)  BY <1>3, <2>2 DEF NoDebt, OpenCredit, w
  <2> QED BY <1>3, <1>4, <2>3 DEF Requests, BasinTables
<1>7. Fees(basin, H)
  <2>1. ASSUME NEW coin \in FeeCoins PROVE Collected(basin, coin) = FeesOfSwaps(basin, coin)
    <3> DEFINE w == [k \in PaidOutIn(basin, coin) |-> NonNegative(basin.swap[k].fee)]
    <3>1. DOMAIN w = {}  BY <1>3 DEF PaidOutIn
    <3> HIDE DEF w
    <3>2. SumFunction(w) = 0  BY <3>1, SumOfNone
    <3> QED BY <1>3, <3>2 DEF FeesOfSwaps, Collected, w
  <2> QED BY <1>3, <1>4, <2>1 DEF Fees, BasinTables
<1>8. All(basin, H, H, owed, label)  BY <1>2, <1>3, <1>5, <1>6, <1>7 DEF All
<1>9. Timely(DOMAIN basin.request, chain, at.now)  BY <1>3 DEF Timely
<1> QED BY <1>2, <1>8, <1>9 DEF BasinInv, H

LEMMA BasinInvariant == BasinSpec => []BasinInv
<1> QED BY InitHasInv, NextKeepsInv, PTL DEF BasinSpec

\* The debt is what the basin paid out less what came back, and the interest of its
\* ledger: accrueAndApply counts a repayment once, at the Transfer log, and the log of
\* the swap or of the redemption that follows it only renames the entry.
THEOREM DebtOwed == BasinSpec => []DebtIsOwed
<1>1. BasinInv => DebtIsOwed  BY DEF BasinInv, All, Ledger, DebtIsOwed
<1> QED BY <1>1, BasinInvariant, PTL

\* claimTransferRepayment renames the transfer that came with the swap or the redemption,
\* never an equal one made before in the same transaction.
THEOREM ClaimsOwn == BasinSpec => []ClaimsAreOwn
<1>1. BasinInv => ClaimsAreOwn  BY DEF BasinInv, All, Ledger, ClaimsAreOwn
<1> QED BY <1>1, BasinInvariant, PTL

\* The pending credit is that of the open requests: no two have the same key, and a
\* completion takes off what it closes, whether or not the request was indexed.
THEOREM PendingIsOpen == BasinSpec => []PendingCreditIsOpen
<1>1. BasinInv => PendingCreditIsOpen  BY DEF BasinInv, All, Requests, PendingCreditIsOpen, OpenCredit
<1> QED BY <1>1, BasinInvariant, PTL

\* The fees collected in a coin are those of the swaps that paid it out, whenever the
\* row of the fees was first read from the contract.
THEOREM FeesCollected == BasinSpec => []FeesAreCollected
<1>1. ASSUME BasinInv PROVE FeesAreCollected
  <2>1. \A coin \in FeeCoins : Collected(basin, coin) = FeesOfSwaps(basin, coin)
    BY <1>1 DEF BasinInv, All, Fees
  <2> QED BY <2>1 DEF FeesAreCollected, FeeCoins, Collected, FeesOfSwaps, PaidOutIn
<1> QED BY <1>1, BasinInvariant, PTL

\* The operations so far.
OperationsInv == about \in {"debt", "fees"} /\ done \in 0..MaxOperations[about]

LEMMA OperationsInvariant == BasinSpec => []OperationsInv
<1>1. BasinInit => OperationsInv  BY BasinSystemAssumption DEF BasinInit, OperationsInv
<1>2. OperationsInv /\ [BasinNext]_basinVars => OperationsInv'
  <2> SUFFICES ASSUME OperationsInv, [BasinNext]_basinVars PROVE OperationsInv'
    OBVIOUS
  <2>1. MaxOperations[about] \in Nat  BY BasinSystemAssumption DEF OperationsInv
  <2>2. CASE Operation  BY <2>1, <2>2 DEF Operation, OperationsInv
  <2>3. CASE NextTransaction  BY <2>3 DEF NextTransaction, OperationsInv
  <2>4. CASE UNCHANGED basinVars  BY <2>4 DEF basinVars, OperationsInv
  <2> QED BY <2>2, <2>3, <2>4 DEF BasinNext
<1> QED BY <1>1, <1>2, PTL DEF BasinSpec

\* The rows have their types.  Interest is never negative, as rpow of two factors is one,
\* however it rounds; the pending credit never is, though completions take it off; a
\* swap's rate is the fee that the contract had, and no entry comes from an unknown log.
THEOREM BasinTypeCorrect == BasinSpec => []BasinTypeOK
<1>1. ASSUME BasinInv, OperationsInv PROVE BasinTypeOK
  <2> DEFINE H == Here(at, chain)
  <2>1. /\ Ledger(basin, H, owed, label) /\ Requests(basin, H.now) /\ Fees(basin, H)
        /\ H.now = at.now /\ IsTime(at)
    BY <1>1 DEF BasinInv, All, Here
  <2> HIDE DEF H
  <2>2. at \in [tx: Nat, log: Nat, now: Nat]  BY <2>1 DEF IsTime
  <2>3. basin.debt.pending \in Nat
    <3> DEFINE w == [r \in Open(basin) |-> basin.request[r].credit]
    <3>1. IsFiniteSet(DOMAIN w)  BY <2>1, OpenSummable DEF IsSummable
    <3>2. \A r \in DOMAIN w : w[r] \in Nat
      <4>1. \A r \in Open(basin) : r \in DOMAIN basin.request  BY OpenIs
      <4>2. \A r \in DOMAIN basin.request : basin.request[r].credit \in Nat  BY <2>1 DEF Requests, IsRequest
      <4> QED BY <4>1, <4>2
    <3> HIDE DEF w
    <3>3. SumFunction(w) \in Nat  BY <3>1, <3>2, SumOfNats
    <3> QED BY <2>1, <3>3 DEF Requests, OpenCredit, w
  <2>4. basin.debt \in [debt: Int, rate: Nat, at: Nat, credit: Int, pending: Nat]
    <3>1. IsDebt(basin.debt, at.now)  BY <2>1 DEF Ledger
    <3>2. basin.debt \in [debt: Int, rate: Nat, at: 0..at.now, credit: Int, pending: Int]
      BY <3>1 DEF IsDebt
    <3>3. 0..at.now \subseteq Nat  BY <2>2
    <3> QED BY <2>3, <3>2, <3>3
  <2>5. /\ DOMAIN basin.change \subseteq Nat \X Nat
        /\ \A k \in DOMAIN basin.change : basin.change[k] \in ChangeRows
    <3>1. \A k \in DOMAIN basin.change : Before(k, H) /\ basin.change[k] \in ChangeRows  BY <2>1 DEF Ledger
    <3>2. \A k \in DOMAIN basin.change : k \in Nat \X Nat  BY <3>1 DEF Before
    <3> QED BY <3>1, <3>2
  <2>6. \A k \in DOMAIN basin.swap : basin.swap[k] \in [dir: Directions, fee: Int, rate: Nat]
    <3>1. \A k \in DOMAIN basin.swap : basin.swap[k] \in SwapRows  BY <2>1 DEF Fees
    <3>2. SwapRows \subseteq [dir: Directions, fee: Int, rate: Nat]  BY DEF SwapRows
    <3> QED BY <3>1, <3>2
  <2>7. owed \in Int  BY <2>1 DEF Ledger
  <2> QED BY <1>1, <2>2, <2>4, <2>5, <2>6, <2>7 DEF OperationsInv, BasinTypeOK, ChangeRows, Names
<1> QED BY <1>1, BasinInvariant, OperationsInvariant, PTL

-----------------------------------------------------------------------------
(* The shape of the books' rows *)

\* The rows of the books have their shape: a hub's holding never has a negative
\* quantity or value, since it has what the hub has; every escrow's row names an
\* escrow that was deployed; the period that is stored, and the one the process
\* remembers, are numbers or not there yet.
THEOREM BookTypeCorrect == BookSpec => []BookTypeOK
<1>1. Inv /\ PeriodInv => BookTypeOK
  <2> SUFFICES ASSUME Inv, PeriodInv PROVE BookTypeOK  OBVIOUS
  <2>1. DOMAIN books.asset \subseteq AssetIds /\ DOMAIN books.escrow \subseteq PoolEscrows
        /\ DOMAIN books.holdingEscrow \subseteq AssetIds /\ DOMAIN books.holding \subseteq AssetIds
    BY DEF Inv, Lookups, EscrowsAgree, HoldingsAgree
  <2>2. ASSUME NEW a \in DOMAIN books.holdingEscrow
        PROVE  books.holdingEscrow[a] \in
                 [amount: Int, price: Nat, maxAge: Nat, escrow: PoolEscrows, inProgress: BOOLEAN]
    BY DEF Inv, EscrowsAgree, EscrowRow
  <2>3. ASSUME NEW a \in DOMAIN books.holding
        PROVE  books.holding[a] \in [quantity: Nat, value: Nat, valuation: BookPrices \cup {None},
                                     liability: BOOLEAN, initialized: BOOLEAN]
    BY DEF Inv, HoldingsAgree, HoldingRow
  <2>4. books.period \in Nat \cup {None} /\ memory \in Nat \cup {None}  BY DEF PeriodInv
  <2> QED BY <2>1, <2>2, <2>3, <2>4 DEF BookTypeOK
<1> QED BY <1>1, InvHolds, PeriodsHold, PTL

-----------------------------------------------------------------------------
(* Orders, basin and books together *)

\* The composition that is model-checked runs each part as its own specification has
\* it: what is proved of a part holds of the composition, for all instances.
THEOREM LedgersTogether == LedgersSpec => OrdersSpec /\ BasinSpec /\ BookSpec
<1>1. LedgersInit => OrdersInit /\ BasinInit /\ BookInit  BY DEF LedgersInit
<1>2. [LedgersNext]_ledgerVars =>
        /\ [OrdersNext]_orderVars /\ [BasinNext]_basinVars /\ [EscrowNext \/ HoldingNext]_bookVars
  BY DEF LedgersNext, ledgerVars
<1> QED BY <1>1, <1>2, PTL DEF LedgersSpec, OrdersSpec, BasinSpec, BookSpec

\* The type invariant of the composition: whatever the handlers stored before, every
\* row of the orders, the basin and the books has its shape, and what a row pays,
\* owes, holds on the hub or is priced at is never negative.
THEOREM LedgersTypeCorrect == LedgersSpec => []LedgersTypeOK
<1>1. OrdersTypeOK /\ BasinTypeOK /\ BookTypeOK => LedgersTypeOK  BY DEF LedgersTypeOK
<1> QED BY <1>1, LedgersTogether, OrdersTypeCorrect, BasinTypeCorrect, BookTypeCorrect, PTL

=============================================================================
