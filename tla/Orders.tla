-------------------------------- MODULE Orders --------------------------------
(***************************************************************************)
(* Deposits and redemptions: the requests an investor has pending with the  *)
(* hub, the epochs that approve and settle them, the orders each epoch      *)
(* leaves and their claims; and on the spoke the requests, claimable and    *)
(* claimed amounts of a vault.  Deposits are counted in assets and          *)
(* redemptions in shares; the two sides have the same shape.                *)
(***************************************************************************)
EXTENDS Shares, Basin, Sequences

CONSTANTS Percent,      \* 10^21, the precision of an approved percentage
          NavUnit,      \* 10^(18 + share decimals - asset decimals)
          BasinAsset    \* what the basin's redeem requests are paid in

ASSUME OrdersAssumption == Percent \in Nat \ {0} /\ NavUnit \in Nat \ {0}

NoAmounts == [pending |-> 0, queued |-> 0]
NewEpoch == [approvedAt |-> 0, approved |-> 0, settledAt |-> 0, settled |-> 0]
NewOrder == [approvedAt |-> 0, approved |-> 0, settledAt |-> 0, settled |-> 0, claimedAt |-> 0, claimed |-> 0]
NewSide == [pending |-> EmptyTable, outstanding |-> EmptyTable, epoch |-> EmptyTable, order |-> EmptyTable]

\* A row of amounts that are all zero is deleted.
SaveOrClear(t, k, row) == IF \A f \in DOMAIN row : row[f] = 0 THEN Delete(t, k) ELSE Put(t, k, row)

-----------------------------------------------------------------------------
(* UpdateDepositRequest and UpdateRedeemRequest *)

\* Mutation: the whole queued amount is added, not its change.
RequestQueuedAgain(s, a, u, request) ==
  LET row == RowOr(s.pending, <<a, u>>, NoAmounts)
      out == RowOr(s.outstanding, a, NoAmounts)
  IN  [s EXCEPT !.pending = SaveOrClear(@, <<a, u>>, [row EXCEPT !.queued = request.queued]),
                !.outstanding = SaveOrClear(@, a, [pending |-> request.total, queued |-> out.queued + request.queued])]

\* While an amount is queued behind an epoch the pending one is left alone, as the
\* contract's still counts what was approved.
Request(s, a, u, request) ==
  LET row == RowOr(s.pending, <<a, u>>, NoAmounts)
      new == [pending |-> IF request.queued = 0 THEN request.pending ELSE row.pending, queued |-> request.queued]
      out == RowOr(s.outstanding, a, NoAmounts)
  IN  [s EXCEPT !.pending = SaveOrClear(@, <<a, u>>, new),
                !.outstanding = SaveOrClear(@, a, [pending |-> request.total,
                                                   queued |-> out.queued + request.queued - row.queued])]

OnUpdateDepositRequest(d, a, u, request) == [d EXCEPT !.account = @ \cup {u}, !.invest = Request(@, a, u, request)]
OnUpdateRedeemRequest(d, a, u, request) == [d EXCEPT !.account = @ \cup {u}, !.redeem = Request(@, a, u, request)]

-----------------------------------------------------------------------------
(* ApproveDeposits and ApproveRedeems *)

\* Mutation: of what is left, not of what there was.
PercentageOfLeft(approved, left) == IF left = 0 THEN Percent ELSE (approved * Percent) \div left

ApprovedPercentage(approved, left) == (approved * Percent) \div (left + approved)
ApprovedUserAmount(pending, percentage) == (pending * percentage) \div Percent

PendingOf(s, a) == {k \in DOMAIN s.pending : k[1] = a /\ s.pending[k].pending > 0}

\* Every account with a pending amount gets an order and keeps the rest.
Approve(s, e, a, i, approved, left) ==
  LET K        == PendingOf(s, a)
      share(k) == ApprovedUserAmount(s.pending[k].pending, ApprovedPercentage(approved, left))
      rest     == [k \in K |-> [s.pending[k] EXCEPT !.pending = @ - share(k)]]
      order(u) == [NewOrder EXCEPT !.approvedAt = e.now, !.approved = share(<<a, u>>)]
  IN  [s EXCEPT
        !.epoch       = Upsert(@, <<a, i>>, [approvedAt |-> e.now, approved |-> approved], NewEpoch),
        !.outstanding = SaveOrClear(@, a, [RowOr(@, a, NoAmounts) EXCEPT !.pending = left]),
        !.order       = PutAll(@, [o \in {<<a, k[2], i>> : k \in K} |-> order(o[2])]),
        !.pending     = [k \in {k \in DOMAIN @ : k \in K => rest[k] # NoAmounts} |-> IF k \in K THEN rest[k] ELSE @[k]]]

\* The holding escrows of the share class that are not empty.
Escrows(d) == [x \in {x \in DOMAIN d.escrow : d.escrow[x] # 0} |-> d.escrow[x]]

OnApproveDeposits(d, e, a, i, approved, left) ==
  [d EXCEPT !.invest = Approve(@, e, a, i, approved, left),
            !.escrowSnapshot = Snapshot(@, Escrows(d), e.now, "ApproveDeposits")]

\* The redeemer's order is linked with the basin's request.
OnApproveRedeems(d, e, a, i, approved, left) ==
  LET linked == IF a = BasinAsset /\ <<a, Redeemer>> \in PendingOf(d.redeem, a)
                THEN LinkRedeemOrder(d, e, Redeemer, i) ELSE d
  IN  [linked EXCEPT !.redeem = Approve(@, e, a, i, approved, left),
                     !.escrowSnapshot = Snapshot(@, Escrows(d), e.now, "ApproveRedeems")]

-----------------------------------------------------------------------------
(* IssueShares and RevokeShares *)

\* What an approved order gets at a net asset value, in shares or in assets.
Issued(order, nav) == (order.approved * NavUnit) \div nav
Revoked(order, nav) == (order.approved * nav) \div NavUnit

\* Mutation: the orders are not settled with their epoch.
SettleEpochOnly(s, e, a, i, amount, payouts) ==
  [s EXCEPT !.epoch = Put(@, <<a, i>>, [RowOr(@, <<a, i>>, NewEpoch) EXCEPT !.settledAt = e.now, !.settled = amount])]

\* The epoch is closed in any case, and the orders that have a payout are settled.
Settle(s, e, a, i, amount, payouts) ==
  [s EXCEPT
    !.epoch = Put(@, <<a, i>>, [RowOr(@, <<a, i>>, NewEpoch) EXCEPT !.settledAt = e.now, !.settled = amount]),
    !.order = PutAll(@, [k \in DOMAIN payouts |-> [@[k] EXCEPT !.settledAt = e.now, !.settled = payouts[k]]])]

HasDecimalsOf(d) == d.token.there /\ d.registered

\* The orders to settle: none without the decimals of the token and of the asset.
ToSettle(d, s, a, i) ==
  {k \in Where(s.order, [settledAt |-> 0]) : /\ HasDecimalsOf(d)
                                            /\ k[1] = a /\ k[3] = i /\ s.order[k].approvedAt # 0}

OnIssueShares(d, e, a, i, amount, nav) ==
  LET payouts == [k \in ToSettle(d, d.invest, a, i) |-> Issued(d.invest.order[k], nav)]
  IN  [d EXCEPT !.invest = Settle(@, e, a, i, amount, payouts)]
OnRevokeShares(d, e, a, i, amount, nav) ==
  LET payouts == [k \in ToSettle(d, d.redeem, a, i) |-> Revoked(d.redeem.order[k], nav)]
  IN  [d EXCEPT !.redeem = Settle(@, e, a, i, amount, payouts)]

-----------------------------------------------------------------------------
(* ClaimDeposit and ClaimRedeem *)

\* Mutation: what was settled is taken for what was claimed.
ClaimSettled(s, e, k, payment, payout) ==
  IF Has(s.order, k) /\ s.order[k].claimedAt = 0
  THEN [s EXCEPT !.order[k] = [@ EXCEPT !.claimed = s.order[k].settled, !.claimedAt = e.now]]
  ELSE s

\* The contract's amounts replace the computed ones, once.
Claim(s, e, k, payment, payout) ==
  IF Has(s.order, k) /\ s.order[k].claimedAt = 0
  THEN [s EXCEPT !.order[k] = [@ EXCEPT !.approved = payment, !.settled = payout, !.claimed = payout,
                                        !.claimedAt = e.now]]
  ELSE s

OnClaimDeposit(d, e, a, u, i, payment, payout) ==
  IF d.token.there THEN [d EXCEPT !.account = @ \cup {u}, !.invest = Claim(@, e, <<a, u, i>>, payment, payout)] ELSE d
OnClaimRedeem(d, e, a, u, i, payment, payout) ==
  IF d.token.there THEN [d EXCEPT !.account = @ \cup {u}, !.redeem = Claim(@, e, <<a, u, i>>, payment, payout)] ELSE d

-----------------------------------------------------------------------------
(* Vaults.  Every log of a vault without a row is dropped. *)

NoVaultOrder == [requested |-> 0, claimable |-> 0]

AddRequested(t, k, n) == Put(t, k, [RowOr(t, k, NoVaultOrder) EXCEPT !.requested = @ + n])
AddClaimable(t, k, n) == Put(t, k, [RowOr(t, k, NoVaultOrder) EXCEPT !.claimable = @ + n])

\* Mutation: the row is cleared when nothing more is claimable.
TakeAllClaimable(t, k, n) ==
  LET row == RowOr(t, k, NoVaultOrder)
  IN  IF row.claimable <= n THEN Delete(t, k)
      ELSE Put(t, k, [requested |-> NonNegative(row.requested - n), claimable |-> row.claimable - n])

\* Claiming takes from what was requested as well.
Take(t, k, n) ==
  LET row == RowOr(t, k, NoVaultOrder)
  IN  SaveOrClear(t, k, [requested |-> NonNegative(row.requested - n), claimable |-> NonNegative(row.claimable - n)])

\* One row per account, type and transaction: a second log of one is dropped.
Transact(d, e, u, type, n) ==
  [d EXCEPT !.account = @ \cup {u}, !.transaction = Insert(@, <<u, type, e.tx>>, n)]

HasDecimals(d, c) == Has(d.instance, c)   \* a vault with a row has an asset with one

OnDepositRequest(d, e, c, a, u, n, held) ==
  IF d.vault = "None" THEN d
  ELSE [Transact(InitPosition(d, c, u, held), e, u, "DEPOSIT_REQUEST_UPDATED", n)
          EXCEPT !.vaultInvest = AddRequested(@, <<c, a, u>>, n)]

OnRedeemRequest(d, e, c, a, u, n) ==
  LET d1 == [Transact(d, e, u, "REDEEM_REQUEST_UPDATED", n) EXCEPT !.vaultRedeem = AddRequested(@, <<c, a, u>>, n)]
  IN  IF d.vault = "None" THEN d
      ELSE IF a = BasinAsset /\ u = Redeemer THEN LinkSpokeRedeem(d1, e) ELSE d1

OnDepositClaimable(d, e, c, a, u, n) ==
  IF d.vault # "Async" \/ ~HasDecimals(d, c) THEN d
  ELSE [Transact(d, e, u, "DEPOSIT_CLAIMABLE", n) EXCEPT !.vaultInvest = AddClaimable(@, <<c, a, u>>, n)]

OnRedeemClaimable(d, e, c, a, u, n) ==
  IF d.vault = "None" \/ ~HasDecimals(d, c) THEN d
  ELSE [Transact(d, e, u, "REDEEM_CLAIMABLE", n) EXCEPT !.vaultRedeem = AddClaimable(@, <<c, a, u>>, n)]

\* Mutation: the next index skips the first.
NextSyncIndexSkipping(K) == -Cardinality({k \in K : k[Len(k)] < 0})

\* Synchronous deposits have orders and epochs of their own, numbered 0, -1, -2...
\* by how many there are.
NextSyncIndex(K) == -Cardinality({k \in K : k[Len(k)] <= 0})

SyncOrder(e, assets, shares) ==
  [approvedAt |-> e.now, approved |-> assets, settledAt |-> e.now, settled |-> shares,
   claimedAt |-> e.now, claimed |-> shares]

SyncEpoch(e, assets, shares) ==
  [approvedAt |-> e.now, approved |-> assets, settledAt |-> e.now, settled |-> shares]

\* The index of an order counts the account's orders in any asset, that of an epoch
\* those of the asset: of rows with distinct indices either is a new one.
SyncDeposit(s, e, a, u, assets, shares) ==
  LET orders == {k \in DOMAIN s.order : k[2] = u}
      epochs == {k \in DOMAIN s.epoch : k[1] = a}
  IN  [s EXCEPT !.order = Insert(@, <<a, u, NextSyncIndex(orders)>>, SyncOrder(e, assets, shares)),
                !.epoch = Insert(@, <<a, NextSyncIndex(epochs)>>, SyncEpoch(e, assets, shares))]

OnDeposit(d, e, c, a, u, assets, shares) ==
  IF d.vault = "None" \/ ~HasDecimals(d, c) THEN d
  ELSE IF d.vault = "Async"
  THEN [Transact(d, e, u, "DEPOSIT_CLAIMED", assets) EXCEPT !.vaultInvest = Take(@, <<c, a, u>>, assets)]
  ELSE [Transact(d, e, u, "SYNC_DEPOSIT", assets) EXCEPT !.invest = SyncDeposit(@, e, a, u, assets, shares)]

OnWithdraw(d, e, c, a, u, n) ==
  IF d.vault = "None" \/ ~HasDecimals(d, c) THEN d
  ELSE IF d.vault = "Sync" THEN [d EXCEPT !.account = @ \cup {u}]
  ELSE [Transact(d, e, u, "REDEEM_CLAIMED", n) EXCEPT !.vaultRedeem = Take(@, <<c, a, u>>, n)]

=============================================================================
