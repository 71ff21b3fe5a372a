-------------------------------- MODULE Shares --------------------------------
(***************************************************************************)
(* The share token of one share class: an ERC-20 on every spoke chain, its  *)
(* instances, the issuance that the hub's token row sums up, the holders'   *)
(* positions and the checkpoints of their gains.  A row starts from an      *)
(* eth_call and goes on with the deltas of the logs, so what matters is at  *)
(* which state the call is answered and which logs the state holds already. *)
(***************************************************************************)
EXTENDS Tables

CONSTANTS Users, InitialHolders, Unit

Zero == "zero"         \* minted from, burnt to

ASSUME SharesAssumption == /\ IsFiniteSet(Users) /\ InitialHolders \subseteq Users /\ Zero \notin Users
                           /\ Unit \in Nat \ {0}   \* 10^decimals

NoPrice == 0           \* null, or a price that is not positive

-----------------------------------------------------------------------------
(* Accounting of one change of a position *)

Value(n, price) == Quotient(n * price, Unit)

\* What the balance gained since its last change.
PeriodEarnings(p, price) ==
  IF p.balance = 0 \/ p.lastPrice = NoPrice THEN 0 ELSE Value(p.balance, price - p.lastPrice)

\* The part of the cost that goes with n shares.
RemovedCost(p, n) == IF n = 0 \/ p.cost = 0 \/ p.balance = 0 THEN 0 ELSE Quotient(n * p.cost, p.balance)

\* Mutation: the cost of the shares that leave is their price today.
CheckpointAtMarket(p, net, price) ==
  [earnings |-> PeriodEarnings(p, price), realized |-> 0, cost |-> Value(net, price)]

Checkpoint(p, net, price) ==
  LET removed == RemovedCost(p, -net)
  IN  [earnings |-> PeriodEarnings(p, price),
       realized |-> IF net > 0 THEN 0 ELSE Value(-net, price) - removed,
       cost     |-> IF net > 0 THEN Value(net, price) ELSE NonNegative(p.cost - removed) - p.cost]

-----------------------------------------------------------------------------
(* tokenInstance:Transfer *)

NewPosition == [balance |-> 0, lastPrice |-> NoPrice, earnings |-> 0, cost |-> 0, realized |-> 0]

\* Mutation: the earnings are those of the last period.
ApplyNetPositionChangeAnew(d, c, a, net, log) ==
  LET p     == RowOr(d.position, <<c, a>>, NewPosition)
      price == d.instance[c].price
      cp    == Checkpoint(p, net, price)
  IN  IF p.balance + net < 0 \/ price = NoPrice
      THEN [d EXCEPT !.position = Put(@, <<c, a>>, [p EXCEPT !.balance = NonNegative(@ + net)])]
      ELSE [d EXCEPT !.checkpoint = Insert(@, <<c, a, log>>, cp),
                     !.position = Put(@, <<c, a>>, [balance |-> p.balance + net, lastPrice |-> price,
                       earnings |-> cp.earnings, cost |-> p.cost + cp.cost, realized |-> p.realized + cp.realized])]

\* One side of a transfer.  A balance that would be negative, as the position
\* did not start from what the holder had, leaves it alone; without a price
\* only the balance changes; the checkpoint of a log is inserted once.
ApplyNetPositionChange(d, c, a, net, log) ==
  LET p     == RowOr(d.position, <<c, a>>, NewPosition)
      price == d.instance[c].price
      cp    == Checkpoint(p, net, price)
  IN  CASE p.balance + net < 0 -> [d EXCEPT !.position = Put(@, <<c, a>>, p)]
        [] p.balance + net >= 0 /\ price = NoPrice ->
             [d EXCEPT !.position = Put(@, <<c, a>>, [p EXCEPT !.balance = @ + net])]
        [] OTHER ->
             [d EXCEPT !.checkpoint = Insert(@, <<c, a, log>>, cp),
                       !.position = Put(@, <<c, a>>,
                          [balance |-> p.balance + net, lastPrice |-> price,
                           earnings |-> p.earnings + cp.earnings, cost |-> p.cost + cp.cost,
                           realized |-> p.realized + cp.realized])]

\* Mutation: the hub's row takes the issuance of the instance that changed.
SyncIssuanceFromOne(d, c) == [d EXCEPT !.token.issuance = d.instance[c].issuance]

\* syncTotalIssuanceFromInstances
SyncIssuance(d, c) ==
  [d EXCEPT !.token.issuance = SumFunction([i \in DOMAIN d.instance |-> d.instance[i].issuance])]

ChangeIssuance(d, c, n) == SyncIssuance([d EXCEPT !.instance[c].issuance = @ + n], c)

\* Mutation: a burn leaves the issuance.
OnTransferMintOnly(d, c, log) ==
  LET d1 == IF log.from = Zero THEN ChangeIssuance(d, c, log.n) ELSE d
      d2 == IF log.from \in Users THEN ApplyNetPositionChange(d1, c, log.from, -log.n, log.no) ELSE d1
  IN  IF ~Has(d.instance, c) THEN d
      ELSE IF log.to \in Users THEN ApplyNetPositionChange(d2, c, log.to, log.n, log.no) ELSE d2

\* Mutation: the position of the sender is not changed.
OnTransferInOnly(d, c, log) ==
  LET d1 == IF log.from = Zero THEN ChangeIssuance(d, c, log.n)
            ELSE IF log.to = Zero THEN ChangeIssuance(d, c, -log.n) ELSE d
  IN  IF ~Has(d.instance, c) THEN d
      ELSE IF log.to \in Users THEN ApplyNetPositionChange(d1, c, log.to, log.n, log.no) ELSE d1

\* A token row comes with the first instance, and an instance is never deleted.
OnTransfer(d, c, log) ==
  LET d1 == IF log.from = Zero THEN ChangeIssuance(d, c, log.n)
            ELSE IF log.to = Zero THEN ChangeIssuance(d, c, -log.n) ELSE d
      d2 == IF log.from \in Users THEN ApplyNetPositionChange(d1, c, log.from, -log.n, log.no) ELSE d1
  IN  IF ~Has(d.instance, c) THEN d
      ELSE IF log.to \in Users THEN ApplyNetPositionChange(d2, c, log.to, log.n, log.no) ELSE d2

-----------------------------------------------------------------------------
(* spoke:AddShareClass and spoke:UpdateSharePrice *)

NewInstance == [issuance |-> 0, active |-> FALSE, price |-> NoPrice]

\* The supply and the initial holders' balances are read over RPC.  Holders are
\* read while the pool is known and the issuance was 0, and only into new rows.
\* Without decimals nothing is written.
OnAddShareClass(d, c, supply, held, decimals) ==
  LET row     == RowOr(d.instance, c, NewInstance)
      holders == IF d.pool /\ row.issuance = 0 THEN InitialHolders ELSE {}
      rows    == [k \in {c} \X holders |-> [NewPosition EXCEPT !.balance = held[k[2]]]]
  IN  IF ~decimals THEN d
      ELSE SyncIssuance(
             [d EXCEPT !.instance = Put(@, c, [row EXCEPT !.issuance = supply, !.active = @ \/ d.pool]),
                       !.token = [d.token EXCEPT !.there = TRUE, !.active = @ \/ d.pool],
                       !.position = InsertAll(@, rows)], c)

\* initialisePosition, of an account that asks for a deposit: a new position
\* starts from the balance the call returns, at the end of the log's block or later.
InitPosition(d, c, a, held) ==
  IF Has(d.instance, c) THEN [d EXCEPT !.position = Insert(@, <<c, a>>, [NewPosition EXCEPT !.balance = held])] ELSE d

OnUpdateSharePrice(d, c, price) ==
  IF Has(d.instance, c) THEN [d EXCEPT !.instance[c].price = price] ELSE d

-----------------------------------------------------------------------------
(* The hub: hubRegistry:NewPool and shareClassManager:AddShareClass *)

OnNewPool(d, decimals) == [d EXCEPT !.pool = @ \/ decimals]

\* Mutation: the instances that are there are not activated.
OnHubAddShareClassAlone(d, decimals) ==
  IF d.pool /\ decimals THEN [d EXCEPT !.token = [@ EXCEPT !.there = TRUE, !.active = TRUE]] ELSE d

\* The row the spoke created is kept, and the instances the hub finds are activated.
OnHubAddShareClass(d, decimals) ==
  IF d.pool /\ decimals
  THEN [d EXCEPT !.token = [@ EXCEPT !.there = TRUE, !.active = TRUE],
                 !.instance = [i \in DOMAIN @ |-> [@[i] EXCEPT !.active = TRUE]]]
  ELSE d

=============================================================================
