------------------------------ MODULE OrderSystem ------------------------------
(***************************************************************************)
(* The contracts behind the orders and the indexer.  A log is indexed as it *)
(* is emitted: one chain's are indexed in their order and no handler here   *)
(* reads state of the chain later than its log.  The token's and the        *)
(* asset's rows come from other logs, at any time.  A behaviour is about    *)
(* one flow: deposits or redemptions at the hub, a vault, or the redeem     *)
(* requests of the basin.                                                   *)
(***************************************************************************)
EXTENDS Orders

CONSTANTS Flows, Assets, Amounts, Navs, MaxAsks, MaxEpochs

ASSUME OrderSystemAssumption == /\ Amounts \subseteq Nat \ {0} /\ Navs \subseteq Nat \ {0}
                                /\ BasinAsset \in Assets /\ MaxAsks \in Nat

VARIABLES flow,
          asks,       \* requests so far
          time,       \* passes in the flow whose property compares times
          hub,        \* the hub's requests and epochs
          claims,     \* claims the hub made whose token the indexer knew
          owner,      \* each account's part of the vault's requests
          deposits,   \* synchronous deposits so far
          dropped,    \* a log of the vault had no decimals
          redeeming,      \* the basin's redeem request: amount and stage
          orders      \* the tables

orderVars == <<flow, asks, time, hub, claims, owner, deposits, dropped, redeeming, orders>>

Spoke == "spoke"
HubFlows == {"deposit", "redeem", "basin"}
Investors == IF flow = "basin" THEN {Redeemer} ELSE Users
Ask == asks < MaxAsks /\ asks' = asks + 1

Asset == BasinAsset
Event == [tx |-> time, log |-> 1, now |-> time, ssr |-> Ray]

-----------------------------------------------------------------------------
(* The hub's batch request manager *)

NoRequest == [pending |-> 0, last |-> 0, queued |-> 0, cancelling |-> FALSE]

\* The table of the side the flow is about.
Side == IF flow = "deposit" THEN orders.invest ELSE orders.redeem

Requested(d, u, user, total) ==
  LET request == [pending |-> user.pending, queued |-> user.queued, total |-> total]
  IN  IF flow = "deposit" THEN OnUpdateDepositRequest(d, Asset, u, request)
      ELSE OnUpdateRedeemRequest(d, Asset, u, request)

\* A pending amount that epochs were approved for since is changed after its claims.
MayChange(user) == user.pending = 0 \/ user.last = hub.epoch

\* More is asked for.
Increase(d, u, n) ==
  LET user == hub.user[u]
      new  == IF MayChange(user) THEN [user EXCEPT !.pending = @ + n, !.last = hub.epoch] ELSE [user EXCEPT !.queued = @ + n]
      left == hub.left + (IF MayChange(user) THEN n ELSE 0)
  IN  /\ ~user.cancelling /\ Ask
      /\ hub' = [hub EXCEPT !.user[u] = new, !.left = left]
      /\ orders' = Requested(d, u, new, left)

Cancel(u) ==
  LET user == hub.user[u]
      new  == IF MayChange(user) THEN NoRequest ELSE [user EXCEPT !.cancelling = TRUE]
      left == IF MayChange(user) THEN hub.left - user.pending ELSE hub.left
  IN  /\ user.pending > 0 /\ ~user.cancelling /\ left >= 0
      /\ hub' = [hub EXCEPT !.user[u] = new, !.left = left]
      /\ orders' = Requested(orders, u, new, left)
      /\ UNCHANGED <<asks, claims>>

ApproveEpoch(n) ==
  /\ n <= hub.left /\ hub.epoch <= MaxEpochs
  /\ hub' = [hub EXCEPT !.left = @ - n, !.epoch = @ + 1,
                        !.epochs = Append(@, [approved |-> n, of |-> hub.left, nav |-> 0, known |-> FALSE])]
  /\ orders' = IF flow = "deposit" THEN OnApproveDeposits(orders, Event, Asset, hub.epoch, n, hub.left - n)
               ELSE OnApproveRedeems(orders, Event, Asset, hub.epoch, n, hub.left - n)
  /\ UNCHANGED <<asks, claims>>

Payout(n, nav) == IF flow = "deposit" THEN (n * NavUnit) \div nav ELSE (n * nav) \div NavUnit

SettleEpoch(i, nav) ==
  LET paid == Payout(hub.epochs[i].approved, nav)
  IN  /\ hub.epochs[i].nav = 0 /\ \A j \in 1..(i - 1) : hub.epochs[j].nav # 0
      /\ hub' = [hub EXCEPT !.epochs[i].nav = nav, !.epochs[i].known = HasDecimalsOf(orders)]
      /\ orders' = IF flow = "deposit" THEN OnIssueShares(orders, Event, Asset, i, paid, nav)
                   ELSE OnRevokeShares(orders, Event, Asset, i, paid, nav)
      /\ UNCHANGED <<asks, claims>>

\* The oldest epoch an account has not claimed pays its part.  After the last one
\* what it queued becomes pending, or all is cancelled, in a log of its own.
ClaimEpoch(u) ==
  LET user    == hub.user[u]
      i       == user.last
      epoch   == hub.epochs[i]
      payment == (user.pending * epoch.approved) \div epoch.of
      rest    == [user EXCEPT !.pending = @ - payment, !.last = i + 1]
      final   == rest.pending = 0 \/ rest.last = hub.epoch
      moves   == final /\ (user.queued > 0 \/ user.cancelling)
      new     == IF ~moves THEN rest
                 ELSE IF user.cancelling THEN NoRequest
                 ELSE [rest EXCEPT !.pending = @ + user.queued, !.queued = 0, !.last = hub.epoch]
      left    == IF ~moves THEN hub.left
                 ELSE IF user.cancelling THEN hub.left - rest.pending ELSE hub.left + user.queued
      claimed == IF flow = "deposit"
                 THEN OnClaimDeposit(orders, Event, Asset, u, i, payment, Payout(payment, epoch.nav))
                 ELSE OnClaimRedeem(orders, Event, Asset, u, i, payment, Payout(payment, epoch.nav))
  IN  /\ user.pending > 0 /\ i < hub.epoch /\ epoch.nav # 0 /\ left >= 0
      /\ hub' = [hub EXCEPT !.user[u] = new, !.left = left]
      /\ claims' = IF orders.token.there THEN Put(claims, <<Asset, u, i>>, Payout(payment, epoch.nav)) ELSE claims
      /\ orders' = IF moves THEN Requested(claimed, u, new, left) ELSE claimed
      /\ UNCHANGED asks

HubNext ==
  /\ \/ \E u \in Investors, n \in Amounts : flow # "basin" /\ Increase(orders, u, n) /\ UNCHANGED claims
     \/ \E u \in Investors : flow # "basin" /\ Cancel(u)
     \/ \E u \in Investors : ClaimEpoch(u)
     \/ \E n \in 1..hub.left : ApproveEpoch(n)
     \/ \E i \in DOMAIN hub.epochs, nav \in Navs : SettleEpoch(i, nav)
  /\ UNCHANGED <<owner, deposits, dropped, redeeming>>

-----------------------------------------------------------------------------
(* A vault *)

NothingOwed == [pending |-> 0, claimable |-> 0, cancelled |-> 0]

VaultDrops(d) == dropped' = (dropped \/ ~Has(d.instance, Spoke))

VaultRequest(u, n) ==
  \E held \in {0, n} :
    /\ Ask
    /\ owner' = [owner EXCEPT ![u].pending = @ + n]
    /\ orders' = IF flow = "vaultDeposit" THEN OnDepositRequest(orders, Event, Spoke, Asset, u, n, held)
                 ELSE OnRedeemRequest(orders, Event, Spoke, Asset, u, n)
    /\ UNCHANGED <<deposits, dropped>>

VaultClaimable(u, n) ==
  /\ owner' = [owner EXCEPT ![u].pending = @ - n, ![u].claimable = @ + n]
  /\ orders' = IF flow = "vaultDeposit" THEN OnDepositClaimable(orders, Event, Spoke, Asset, u, n)
               ELSE OnRedeemClaimable(orders, Event, Spoke, Asset, u, n)
  /\ VaultDrops(orders) /\ UNCHANGED <<asks, deposits>>

\* A cancelled request: no handler of the vault's logs is told of it.
VaultCancel(u, n) ==
  /\ owner' = [owner EXCEPT ![u].pending = @ - n, ![u].cancelled = @ + n]
  /\ UNCHANGED <<asks, deposits, dropped, orders>>

VaultTake(u, n) ==
  /\ owner' = [owner EXCEPT ![u].claimable = @ - n]
  /\ orders' = IF flow = "vaultDeposit" THEN OnDeposit(orders, Event, Spoke, Asset, u, n, n)
               ELSE OnWithdraw(orders, Event, Spoke, Asset, u, n)
  /\ VaultDrops(orders) /\ UNCHANGED <<asks, deposits>>

SyncDeposits(a, u, n) ==
  /\ Ask
  /\ deposits' = IF Has(orders.instance, Spoke) THEN Append(deposits, <<a, u, n>>) ELSE deposits
  /\ orders' = OnDeposit(orders, Event, Spoke, a, u, n, n)
  /\ UNCHANGED <<owner, dropped>>

VaultNext ==
  /\ \E u \in Users :
       \/ flow = "syncDeposit" /\ \E a \in Assets, n \in Amounts : SyncDeposits(a, u, n)
       \/ flow # "syncDeposit" /\ \E n \in Amounts : VaultRequest(u, n)
       \/ \E n \in 1..owner[u].pending : VaultClaimable(u, n) \/ VaultCancel(u, n)
       \/ \E n \in 1..owner[u].claimable : VaultTake(u, n)
  /\ UNCHANGED <<hub, claims, redeeming>>

-----------------------------------------------------------------------------
(* The basin's redeemer: one request at a time, which it hands to the vault and *)
(* completes when the hub has paid all of it.                                   *)

AskRedeemer(n, quote) ==
  LET initiated == OnRedeemInitiated(orders, Event, n, quote)
      handed    == OnRedeemRequest(initiated, [Event EXCEPT !.log = 2], Spoke, BasinAsset, Redeemer, n)
  IN  /\ redeeming.stage = "idle"
      /\ hub.user[Redeemer].pending = 0
      /\ Increase(handed, Redeemer, n)
      /\ redeeming' = [stage |-> "requested", amount |-> n]
      /\ UNCHANGED claims

RedeemerReturns ==
  /\ redeeming.stage = "requested" /\ hub.user[Redeemer].pending = 0
  /\ orders' = OnRedeemCompleted(OnStablecoinTransfer(orders, Event, "COLLATERAL", Redeemer, redeeming.amount),
                                 [Event EXCEPT !.log = 2], redeeming.amount)
  /\ redeeming' = [redeeming EXCEPT !.stage = "idle"]
  /\ UNCHANGED <<asks, hub, claims>>

RedeemerNext ==
  /\ \/ \E n \in Amounts : \E quote \in {n, NoAnswer} : AskRedeemer(n, quote)
     \/ RedeemerReturns
  /\ UNCHANGED <<owner, deposits, dropped>>

-----------------------------------------------------------------------------
(* Rows of other components that arrive late. *)

Known == /\ orders' \in IF flow \in HubFlows
                       THEN {[orders EXCEPT !.token.there = TRUE, !.registered = TRUE]}
                       ELSE {[orders EXCEPT !.instance = Put(@, Spoke, NewInstance)]}
         /\ orders' # orders
         /\ UNCHANGED <<asks, hub, claims, owner, deposits, dropped, redeeming>>

OrdersInit ==
  /\ flow \in Flows /\ asks = 0 /\ time = 1
  /\ hub = [epoch |-> 1, left |-> 0, epochs |-> <<>>, user |-> [u \in Investors |-> NoRequest]]
  /\ claims = EmptyTable /\ deposits = <<>> /\ dropped = FALSE
  /\ owner = [u \in Investors |-> NothingOwed]
  /\ redeeming = [stage |-> "idle", amount |-> 0]
  /\ \E known \in BOOLEAN, vault \in IF flow = "syncDeposit" THEN {"SyncDepositAsyncRedeem"}
                                     ELSE IF flow \in HubFlows THEN {"Async"} ELSE {"None", "Async"} :
       orders = [invest |-> NewSide, redeem |-> NewSide, account |-> {}, transaction |-> EmptyTable,
                 vaultInvest |-> EmptyTable, vaultRedeem |-> EmptyTable, vault |-> vault,
                 token |-> [there |-> known], registered |-> known,
                 instance |-> IF known THEN [k \in {Spoke} |-> NewInstance] ELSE EmptyTable,
                 position |-> EmptyTable, escrow |-> [x \in {"full", "empty"} |-> IF x = "full" THEN 1 ELSE 0],
                 escrowSnapshot |-> EmptyTable, request |-> EmptyTable, warning |-> EmptyTable,
                 debt |-> NoDebt, change |-> EmptyTable]

OrdersNext ==
  /\ time' = IF flow = "basin" THEN time + 1 ELSE time
  /\ UNCHANGED flow
  /\ \/ flow \in HubFlows /\ HubNext
     \/ flow \notin HubFlows /\ VaultNext
     \/ flow = "basin" /\ RedeemerNext
     \/ Known

OrdersSpec == OrdersInit /\ [][OrdersNext]_orderVars

-----------------------------------------------------------------------------
(* Properties *)

AmountsRow == [pending: Nat, queued: Nat]

OrdersTypeOK ==
  /\ flow \in Flows /\ asks \in 0..MaxAsks /\ time \in Nat
  /\ \A side \in {orders.invest, orders.redeem} :
       /\ DOMAIN side.pending \subseteq Assets \X Investors
       /\ \A k \in DOMAIN side.pending : side.pending[k] \in AmountsRow
       /\ \A k \in DOMAIN side.outstanding : side.outstanding[k] \in AmountsRow
       /\ DOMAIN side.order \subseteq Assets \X Investors \X Int
       /\ \A k \in DOMAIN side.order : side.order[k] \in [DOMAIN NewOrder -> Nat]
       /\ \A k \in DOMAIN side.epoch : side.epoch[k] \in [DOMAIN NewEpoch -> Nat]

\* What is outstanding is what the accounts have, after any requests, approvals and
\* claims: all that is queued, and no pending amount that belongs to nobody (an
\* approval rounds each account's part down, so accounts keep what it loses, and a
\* cancellation that waits behind an epoch is logged with the contract's pending
\* amount of the account, approved parts included).
OutstandingIsCovered ==
  LET out == RowOr(Side.outstanding, Asset, NoAmounts)
  IN  /\ out.queued = SumFunction([k \in DOMAIN Side.pending |-> Side.pending[k].queued])
      /\ out.pending <= SumFunction([k \in DOMAIN Side.pending |-> Side.pending[k].pending])

\* No claim is lost: each one the contract pays has an order of its epoch, which the
\* approval made from a pending row although requests, queued amounts and roundings
\* changed the row before, and which ends with the contract's payout.
ClaimsFindTheirOrders ==
  \A k \in DOMAIN claims : Has(Side.order, k) /\ Side.order[k].claimed = claims[k] /\ Side.order[k].claimedAt # 0

\* An epoch's orders are settled with it and never before, unless the decimals
\* were missing: whatever was approved, claimed or queued in between.
OrdersSettleWithEpoch ==
  \A k \in DOMAIN Side.order :
    k[3] > 0 => LET epoch == hub.epochs[k[3]]
                IN  Side.order[k].settledAt # 0 <=> epoch.nav # 0 /\ epoch.known

VaultRows == IF flow = "vaultDeposit" THEN orders.vaultInvest ELSE orders.vaultRedeem

\* What the row of an account has: a request stays in it until it is claimed, pending,
\* claimable or cancelled.
Shown(o) == [requested |-> o.pending + o.claimable + o.cancelled, claimable |-> o.claimable]

\* A vault's row shows what the account may claim and all it has asked for and not
\* claimed (VaultInvestOrderService.ts, VaultRedeemOrderService.ts), through partial
\* claims, cancellations and rows that are cleared and start again.
VaultRowsAddUp ==
  flow \in {"vaultDeposit", "vaultRedeem"} /\ orders.vault = "Async" /\ ~dropped =>
    \A u \in Users : RowOr(VaultRows, <<Spoke, Asset, u>>, NoVaultOrder) = Shown(owner[u])

\* Every synchronous deposit has an order and an epoch of its own, whatever the
\* accounts and assets of the others.
SyncDepositsAreKept ==
  flow = "syncDeposit" =>
    /\ Cardinality(DOMAIN orders.invest.order) = Len(deposits)
    /\ Cardinality(DOMAIN orders.invest.epoch) = Len(deposits)
    /\ \A u \in Users : SumFunction([k \in DOMAIN orders.invest.order |->
                                        IF k[2] = u THEN orders.invest.order[k].claimed ELSE 0])
                        = SumFunction([i \in DOMAIN deposits |-> IF deposits[i][2] = u THEN deposits[i][3] ELSE 0])

\* The basin's request is linked with the epoch that approved it: the order was
\* made while the request was open, and is there.
LinkedWhileOpen ==
  \A r \in DOMAIN orders.request :
    LET row == orders.request[r]
        k   == <<BasinAsset, Redeemer, row.linked>>
    IN  row.linked # Never => /\ Has(orders.redeem.order, k)
                              /\ orders.redeem.order[k].approvedAt >= row.initiatedAt
                              /\ row.completedAt # Never => orders.redeem.order[k].approvedAt < row.completedAt

=============================================================================
