--------------------------------- MODULE Basin ---------------------------------
(***************************************************************************)
(* The Grove basin: its swaps and fees, the debt they leave and its ledger, *)
(* and the redeem requests that are matched with what other contracts log   *)
(* about them.  A stablecoin that comes in is booked by its Transfer log;   *)
(* the basin's own log, later in the same transaction, only claims it.      *)
(***************************************************************************)
EXTENDS Tables

CONSTANTS Ray, SpreadPerSecond,
          CollateralScale,   \* units of 18 decimals per unit of collateral
          Redeemer           \* the basin's token redeemer

\* One, in Ray, or more: the spread is a factor that compounds every second.
ASSUME BasinAssumption == /\ Ray \in Nat \ {0} /\ CollateralScale \in Nat \ {0}
                          /\ SpreadPerSecond \in Nat /\ SpreadPerSecond >= Ray

NoAnswer == -1    \* of an eth_call; a fee that is null
Never == -1       \* a null time or index

Scaled(coin, n) == IF coin = "COLLATERAL" THEN n * CollateralScale ELSE n

\* A log: its transaction and index, its block's time, and what the contracts'
\* views return there.
ChangeOf(e) == <<e.tx, e.log>>

Warn(d, e, type) == [d EXCEPT !.warning = Insert(@, ChangeOf(e), type)]

-----------------------------------------------------------------------------
(* Debt *)

Rounded(n) == (n + Ray \div 2) \div Ray

\* rpow, by squaring, each product rounded half up: the result, base and exponent of a turn.
Squared(p) == [r |-> IF p.e % 2 = 1 THEN Rounded(p.r * p.b) ELSE p.r,
               b |-> IF p.e > 1 THEN Rounded(p.b * p.b) ELSE p.b,
               e |-> p.e \div 2]
Powers[p \in [r: Nat, b: Nat, e: Nat]] == IF p.e = 0 THEN p.r ELSE Powers[Squared(p)]

Power(rate, elapsed) == Powers[[r |-> Ray, b |-> rate, e |-> elapsed]]

EffectiveRate(ssr) == (ssr * SpreadPerSecond) \div Ray

\* Interest compounds while there is a debt; what is paid in excess stays as it is.
ProjectDebt(debt, rate, elapsed) ==
  IF elapsed = 0 \/ debt <= 0 THEN debt ELSE (debt * Power(rate, elapsed)) \div Ray

NoDebt == [debt |-> 0, rate |-> 0, at |-> 0, credit |-> 0, pending |-> 0]

\* The row, or a new one with the savings rate.  The rate is read by a call that
\* sees the end of the log's block; here it is that of the log, and a change later
\* in that block has a log of its own.  (A rate that cannot be read stops the
\* indexer at the log.)
LoadDebt(d, e) ==
  IF d.debt = NoDebt THEN [NoDebt EXCEPT !.rate = EffectiveRate(e.ssr), !.at = e.now] ELSE d.debt

AccrueAndApply(d, e, type, delta) ==
  LET row      == LoadDebt(d, e)
      interest == ProjectDebt(row.debt, row.rate, e.now - row.at) - row.debt
  IN  [d EXCEPT !.debt   = [row EXCEPT !.debt = @ + interest + delta, !.at = e.now],
                !.change = Insert(@, ChangeOf(e), [type |-> type, interest |-> interest, principal |-> delta])]

\* Entries of this transaction, before this log, that nobody claimed.
Unclaimed(d, e, delta) ==
  {k \in Where(d.change, [type |-> "TRANSFER_REPAYMENT", principal |-> delta]) : k[1] = e.tx /\ k[2] < e.log}

\* Mutation: the farthest entry is taken.
ClaimFarthest(d, e, delta, as) ==
  LET K == Unclaimed(d, e, delta)
  IN  IF K = {} THEN Warn(d, e, "repaymentClaimMissing")
      ELSE [d EXCEPT !.change[CHOOSE k \in K : \A j \in K : k[2] <= j[2]].type = as]

\* Mutation: the repayment is applied again instead of claimed.
ClaimAndApply(d, e, delta, as) == AccrueAndApply(d, e, as, delta)

\* The nearest one gets the name of what it was; a missing one is only a warning.
ClaimTransferRepayment(d, e, delta, as) ==
  LET K == Unclaimed(d, e, delta)
  IN  IF K = {} THEN Warn(d, e, "repaymentClaimMissing")
      ELSE [d EXCEPT !.change[CHOOSE k \in K : \A j \in K : j[2] <= k[2]].type = as]

\* basinUsdc:Transfer to the basin and basinUsds:Transfer to its pocket
Internal(coin) == IF coin = "COLLATERAL" THEN {"pocket", "provider"} ELSE {"basin", "provider"}
OnStablecoinTransfer(d, e, coin, from, n) ==
  IF from \in Internal(coin) \/ n = 0 THEN d ELSE AccrueAndApply(d, e, "TRANSFER_REPAYMENT", -Scaled(coin, n))

\* applyCreditTokenTransfer, n < 0 when the basin sends
OnCreditTokenTransfer(d, e, n) == [d EXCEPT !.debt = [LoadDebt(d, e) EXCEPT !.credit = @ + n]]

\* susds:File of the savings rate: interest to this block is at the old one.
OnFile(d, e, ssr) ==
  LET accrued == AccrueAndApply(d, e, "RATE_UPDATE", 0) IN [accrued EXCEPT !.debt.rate = EffectiveRate(ssr)]

-----------------------------------------------------------------------------
(* Fees and swaps *)

NoFees == <<>>
FeesOf(views) == [PURCHASE |-> views.PURCHASE, REDEMPTION |-> views.REDEMPTION, min |-> views.min, max |-> views.max,
                  collected |-> [coin \in {"CREDIT", "COLLATERAL", "SWAP"} |-> 0]]

\* Likewise rates and bounds are as of the log, though the calls see the end of its
\* block; no property depends on their values.
LoadFees(d, e) == IF d.fee = NoFees THEN FeesOf(e.views) ELSE d.fee

Buys(dir) == dir.out = "CREDIT"

\* The rate of a swap, and the quote of the oracle less what was paid; null
\* without a quote or when it is below.
RateOf(fees, dir) == IF Buys(dir) THEN fees.PURCHASE ELSE fees.REDEMPTION
SwapFee(gross, out) == IF gross < out THEN NoAnswer ELSE gross - out

\* Mutation: the fee is counted for the coin that comes in.
FeeTokenIn(dir) == dir.in

FeeToken(dir) == dir.out

AddCollectedFee(fees, coin, fee) == [fees EXCEPT !.collected[coin] = @ + NonNegative(fee)]

\* Loads come first; a sale draws, a purchase claims what its transfer repaid.
OnSwap(d, e, dir, in, out, gross) ==
  LET fees == LoadFees(d, e)
      fee  == SwapFee(gross, out)
      d1   == [d EXCEPT !.debt = LoadDebt(d, e),
                        !.swap = Insert(@, ChangeOf(e), [dir |-> dir, fee |-> fee, rate |-> RateOf(fees, dir)]),
                        !.fee  = AddCollectedFee(fees, FeeToken(dir), fee)]
  IN  IF Buys(dir) THEN ClaimTransferRepayment(d1, e, -Scaled(dir.in, in), "SWAP_REPAYMENT")
      ELSE AccrueAndApply(d1, e, "SWAP_PAYOUT", Scaled(dir.out, out))

\* groveBasin:PurchaseFeeSet and RedemptionFeeSet
OnFeeSet(d, e, type, new) ==
  [d EXCEPT !.fee = [LoadFees(d, e) EXCEPT ![type] = new],
            !.feeChange = Insert(@, ChangeOf(e), [type |-> type, new |-> new])]

OnFeeBoundsSet(d, e, min, max) == [d EXCEPT !.fee = [LoadFees(d, e) EXCEPT !.min = min, !.max = max]]

-----------------------------------------------------------------------------
(* Redeem requests *)

NewRequest(e, credit) == [open |-> TRUE, credit |-> credit, initiatedAt |-> e.now, completedAt |-> Never,
                          spokeRequestedAt |-> Never, linked |-> Never, returned |-> NoAnswer]

Open(d) == Where(d.request, [open |-> TRUE])
Unlinked(d) == Where(d.request, [open |-> TRUE, linked |-> Never])

\* linkSpokeRedeemIfPending
LinkSpokeRedeem(d, e) ==
  IF Cardinality(Unlinked(d)) = 1
  THEN [d EXCEPT !.request = PutAll(@, [r \in Unlinked(d) |-> [d.request[r] EXCEPT !.spokeRequestedAt = e.now]])]
  ELSE Warn(d, e, "spokeRedeemLinkAmbiguous")

\* Mutation: a request that was completed is found again.
LinkAnyRequest(d, e, u, index) ==
  IF u # Redeemer THEN d
  ELSE IF Cardinality(DOMAIN d.request) = 1
  THEN [d EXCEPT !.request = PutAll(@, [r \in DOMAIN @ |-> [@[r] EXCEPT !.linked = index]])]
  ELSE Warn(d, e, "redeemOrderLinkAmbiguous")

\* linkBasinRedeemOrderToEpoch, of every account an approval gives an order.
LinkRedeemOrder(d, e, u, index) ==
  IF u # Redeemer THEN d
  ELSE IF Cardinality(Unlinked(d)) = 1
  THEN [d EXCEPT !.request = PutAll(@, [r \in Unlinked(d) |-> [d.request[r] EXCEPT !.linked = index]])]
  ELSE Warn(d, e, "redeemOrderLinkAmbiguous")

\* The request is identified by the block, the amount and the quoted collateral;
\* without a quote there is none.
OnRedeemInitiated(d, e, credit, quote) ==
  IF quote = NoAnswer THEN d
  ELSE LinkSpokeRedeem([d EXCEPT !.request = Insert(@, <<e.now, credit, quote>>, NewRequest(e, credit)),
                                 !.debt = [LoadDebt(d, e) EXCEPT !.pending = @ + credit]], e)

\* Mutation: an orphan's amount is taken off although nothing was open.
OnRedeemCompletedOnce(d, e, returned) ==
  LET row == LoadDebt(d, e)
      d1  == IF Cardinality(Open(d)) = 1 THEN d ELSE Warn(d, e, "completeOrphan")
  IN  ClaimTransferRepayment(
        [d1 EXCEPT !.debt = [row EXCEPT !.pending = NonNegative(@ - returned)],
                   !.request = PutAll(@, [r \in Open(d) |-> [@[r] EXCEPT !.open = FALSE, !.completedAt = e.now]])],
        e, -Scaled("COLLATERAL", returned), "REDEMPTION")

\* A completion closes every open request; the newest has the collateral.
OnRedeemCompleted(d, e, returned) ==
  LET d1        == IF Cardinality(Open(d)) = 1 THEN d ELSE Warn(d, e, "completeOrphan")
      cleared   == SumFunction([r \in Open(d) |-> d.request[r].credit])
      Newest    == {q \in Open(d) : \A r \in Open(d) : d.request[r].initiatedAt <= d.request[q].initiatedAt}
      completed == [r \in Open(d) |-> [d.request[r] EXCEPT !.open = FALSE, !.completedAt = e.now,
                                                          !.returned = IF r \in Newest THEN returned ELSE @]]
  IN  ClaimTransferRepayment(
        [d1 EXCEPT !.debt = [LoadDebt(d, e) EXCEPT !.pending = @ - cleared],
                   !.request = PutAll(@, completed)],
        e, -Scaled("COLLATERAL", returned), "REDEMPTION")

=============================================================================
