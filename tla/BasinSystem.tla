------------------------------ MODULE BasinSystem ------------------------------
(***************************************************************************)
(* The basin's contracts and the indexer of their logs: swaps, stablecoin   *)
(* transfers of third parties, fees, the savings rate and redeem requests,  *)
(* in transactions of one or more operations.  A behaviour is either about   *)
(* the debt, with one stablecoin, or about the fees, with both.             *)
(***************************************************************************)
EXTENDS Basin

CONSTANTS Values, Rates, MaxOperations

HighestRate == CHOOSE r \in Rates : \A q \in Rates : q <= r

\* A savings rate is a factor too; that of a chain without savings is Ray.
ASSUME BasinSystemAssumption == /\ Values \subseteq Nat \ {0} /\ Rates \subseteq Nat /\ \A r \in Rates : r >= Ray
                                /\ \E r \in Rates : \A q \in Rates : q <= r
                                /\ MaxOperations \in [{"debt", "fees"} -> Nat]

VARIABLES about,   \* "debt" or "fees"
          at,      \* the transaction and its next log, and the block's time
          done,    \* operations so far
          chain,   \* the savings rate, the fees and the redeem request of the contracts
          owed,    \* stablecoins paid out, less what came back
          label,   \* what each log that moved stablecoins was
          basin    \* the tables

basinVars == <<about, at, done, chain, owed, label, basin>>

Directions == [in: {"CREDIT"}, out: {"COLLATERAL", "SWAP"}] \cup [in: {"COLLATERAL", "SWAP"}, out: {"CREDIT"}]

\* The k-th log of an operation.
Log(k) == [tx |-> at.tx, log |-> at.log + k, now |-> at.now, ssr |-> chain.ssr, views |-> chain.views]

Emits(n) == at' = [at EXCEPT !.log = @ + n]

\* A purchase pulls its stablecoins, which their token logs, and then logs itself.
Swap(dir, n, gross) ==
  LET paid   == OnStablecoinTransfer(basin, Log(0), dir.in, "trader", n)
      credit == IF Buys(dir) THEN OnCreditTokenTransfer(paid, Log(1), -n)
                ELSE OnCreditTokenTransfer(basin, Log(0), n)
  IN  /\ Emits(3)
      /\ basin' = OnSwap(credit, Log(2), dir, n, n, gross)
      /\ owed' = IF Buys(dir) THEN owed - Scaled(dir.in, n) ELSE owed + Scaled(dir.out, n)
      /\ label' = IF Buys(dir) THEN Put(label, ChangeOf(Log(0)), "SWAP_REPAYMENT")
                  ELSE Put(label, ChangeOf(Log(2)), "SWAP_PAYOUT")
      /\ UNCHANGED chain

\* Third parties repay; what the pocket, the provider and the basin move does not.
Pay(coin, from, n) ==
  /\ Emits(1)
  /\ basin' = OnStablecoinTransfer(basin, Log(0), coin, from, n)
  /\ owed' = IF from \in Internal(coin) THEN owed ELSE owed - Scaled(coin, n)
  /\ label' = IF from \in Internal(coin) THEN label ELSE Put(label, ChangeOf(Log(0)), "TRANSFER_REPAYMENT")
  /\ UNCHANGED chain

FileRate(ssr) ==
  /\ Emits(1)
  /\ chain' = [chain EXCEPT !.ssr = ssr]
  /\ basin' = OnFile(basin, Log(0), ssr)
  /\ label' = Put(label, ChangeOf(Log(0)), "RATE_UPDATE")
  /\ UNCHANGED owed

SetFee(type, new) ==
  /\ Emits(1)
  /\ chain' = [chain EXCEPT !.views[type] = new]
  /\ basin' = OnFeeSet(basin, Log(0), type, new)
  /\ UNCHANGED <<owed, label>>

SetBounds(max) ==
  /\ Emits(1)
  /\ chain' = [chain EXCEPT !.views.max = max]
  /\ basin' = OnFeeBoundsSet(basin, Log(0), chain.views.min, max)
  /\ UNCHANGED <<owed, label>>

\* One request at a time; the quote may not be readable.
InitiateRedeem(n, quote) ==
  /\ chain.redeeming = 0 /\ Emits(2)
  /\ chain' = [chain EXCEPT !.redeeming = n, !.since = at.now]
  /\ basin' = OnRedeemInitiated(OnCreditTokenTransfer(basin, Log(0), -n), Log(1), n, quote)
  /\ UNCHANGED <<owed, label>>

\* The fund pays in a later block, maybe less than the credit was worth.
CompleteRedeem(n) ==
  /\ n > 0 /\ chain.redeeming # 0 /\ chain.since < at.now /\ Emits(2)
  /\ chain' = [chain EXCEPT !.redeeming = 0]
  /\ basin' = OnRedeemCompleted(OnStablecoinTransfer(basin, Log(0), "COLLATERAL", "redeemer", n), Log(1), n)
  /\ owed' = owed - Scaled("COLLATERAL", n)
  /\ label' = Put(label, ChangeOf(Log(0)), "REDEMPTION")

Coins == IF about = "debt" THEN {"COLLATERAL"} ELSE {"COLLATERAL", "SWAP"}
Quotes == IF about = "debt" THEN {3} ELSE {NoAnswer, 3}

DebtOperation ==
  \/ \E ssr \in Rates \ {chain.ssr} : FileRate(ssr)
  \/ \E n \in Values, quote \in {NoAnswer, 1} : InitiateRedeem(n, quote)
  \/ \E n \in {chain.redeeming - 1, chain.redeeming} : CompleteRedeem(n)

FeeOperation ==
  \/ \E type \in {"PURCHASE", "REDEMPTION"} : SetFee(type, 1 - chain.views[type])
  \/ SetBounds(chain.views.max + 1)

Operation ==
  /\ done < MaxOperations[about] /\ done' = done + 1 /\ UNCHANGED about
  /\ \/ \E dir \in Directions, n \in Values, gross \in Quotes :
          /\ {dir.in, dir.out} \subseteq Coins \cup {"CREDIT"} /\ Swap(dir, n, gross)
     \/ \E coin \in Coins, from \in {"provider", "other"}, n \in Values : Pay(coin, from, n)
     \/ about = "debt" /\ DebtOperation
     \/ about = "fees" /\ FeeOperation

\* A new transaction, in the same block or a later one.
NextTransaction ==
  /\ at.log > 0 /\ done < MaxOperations[about]
  /\ \E elapsed \in {0, 2} : at' = [tx |-> at.tx + 1, log |-> 0, now |-> at.now + elapsed]
  /\ UNCHANGED <<about, done, chain, owed, label, basin>>

BasinInit ==
  /\ about \in {"debt", "fees"}
  /\ at = [tx |-> 1, log |-> 0, now |-> 0] /\ done = 0 /\ owed = 0 /\ label = EmptyTable
  /\ chain = [ssr |-> HighestRate,
              views |-> [PURCHASE |-> 0, REDEMPTION |-> 0, min |-> 0, max |-> 1], redeeming |-> 0, since |-> 0]
  /\ basin = [request |-> EmptyTable, warning |-> EmptyTable, swap |-> EmptyTable, debt |-> NoDebt,
              change |-> EmptyTable, fee |-> NoFees, feeChange |-> EmptyTable]

BasinNext == Operation \/ NextTransaction

BasinSpec == BasinInit /\ [][BasinNext]_basinVars

-----------------------------------------------------------------------------
(* Properties *)

BasinTypeOK ==
  /\ at \in [tx: Nat, log: Nat, now: Nat] /\ done \in 0..MaxOperations[about] /\ owed \in Int
  /\ basin.debt \in [debt: Int, rate: Nat, at: Nat, credit: Int, pending: Nat]
  /\ DOMAIN basin.change \subseteq Nat \X Nat
  /\ \A k \in DOMAIN basin.change :
       basin.change[k] \in [type: {"TRANSFER_REPAYMENT", "SWAP_REPAYMENT", "SWAP_PAYOUT", "RATE_UPDATE", "REDEMPTION"},
                            interest: Nat, principal: Int]
  /\ \A k \in DOMAIN basin.swap : basin.swap[k] \in [dir: Directions, fee: Int, rate: Nat]

\* The debt is what the basin paid out less what came back, and the interest of its
\* ledger: each payment counts once although two logs tell of it, over any sequence
\* of logs, rate changes and relabelled entries.
DebtIsOwed ==
  basin.debt.debt = owed + SumFunction([k \in DOMAIN basin.change |-> basin.change[k].interest])

\* A swap or a redemption names its own transfer, not an equal one that a third
\* party or another swap made in the same transaction.
ClaimsAreOwn ==
  /\ DOMAIN basin.change = DOMAIN label
  /\ \A k \in DOMAIN label : basin.change[k].type = label[k]

\* The credit tokens pending are those of the open requests: one that was not
\* indexed adds nothing and takes nothing off when it completes.
PendingCreditIsOpen ==
  basin.debt.pending = SumFunction([r \in Open(basin) |-> basin.request[r].credit])

\* The fees collected in a coin are those of the swaps paid out in it.
FeesAreCollected ==
  \A coin \in {"CREDIT", "COLLATERAL", "SWAP"} :
    (IF basin.fee = NoFees THEN 0 ELSE basin.fee.collected[coin])
      = SumFunction([k \in {k \in DOMAIN basin.swap : basin.swap[k].dir.out = coin} |-> NonNegative(basin.swap[k].fee)])

=============================================================================
