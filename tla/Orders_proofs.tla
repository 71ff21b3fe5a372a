----------------------------- MODULE Orders_proofs -----------------------------
(***************************************************************************)
(* For any investors, assets, amounts, net asset values and precision, and  *)
(* any number of requests and epochs.                                       *)
(***************************************************************************)
EXTENDS OrderSystem, Tables_proofs

-----------------------------------------------------------------------------
(* The shape of the tables, which no handler changes *)

SideFields == {"pending", "outstanding", "epoch", "order"}

Fields == {"invest", "redeem", "account", "transaction", "vaultInvest", "vaultRedeem", "vault", "token",
           "registered", "instance", "position", "escrow", "escrowSnapshot", "request", "warning", "debt", "change"}

Shaped(d) == DOMAIN d = Fields /\ DOMAIN d.invest = SideFields /\ DOMAIN d.redeem = SideFields

\* What the logs of a vault leave alone.
OtherTables == {"redeem", "vault", "token", "registered", "instance"}
Keeps(d, e) == Shaped(e) /\ \A f \in OtherTables : e[f] = d[f]

\* All but a synchronous deposit leave the orders of deposits alone, too.
Apart(d, e) == Keeps(d, e) /\ e.invest = d.invest

LEMMA KeepsFields ==
  ASSUME NEW d, NEW e, Keeps(d, e)
  PROVE  /\ Shaped(e) /\ e.redeem = d.redeem /\ e.vault = d.vault /\ e.token = d.token
         /\ e.registered = d.registered /\ e.instance = d.instance
<1>1. \A f \in OtherTables : e[f] = d[f]  BY DEF Keeps
<1>2. /\ "redeem" \in OtherTables /\ "vault" \in OtherTables /\ "token" \in OtherTables
      /\ "registered" \in OtherTables /\ "instance" \in OtherTables
  BY DEF OtherTables
<1> QED BY <1>1, <1>2 DEF Keeps

LEMMA ApartFields ==
  ASSUME NEW d, NEW e, Apart(d, e)
  PROVE  /\ Shaped(e) /\ e.redeem = d.redeem /\ e.vault = d.vault /\ e.token = d.token
         /\ e.registered = d.registered /\ e.instance = d.instance /\ e.invest = d.invest
  BY KeepsFields DEF Apart

LEMMA ApartItself == ASSUME NEW d, Shaped(d) PROVE Apart(d, d)
  BY DEF Apart, Keeps

LEMMA ApartTwice == ASSUME NEW d, NEW e, NEW f, Apart(d, e), Apart(e, f) PROVE Apart(d, f)
  BY DEF Apart, Keeps

\* One other table changes.
LEMMA ApartBut ==
  ASSUME NEW d, Shaped(d), NEW x
  PROVE  /\ Apart(d, [d EXCEPT !.account = x]) /\ Apart(d, [d EXCEPT !.transaction = x])
         /\ Apart(d, [d EXCEPT !.vaultInvest = x]) /\ Apart(d, [d EXCEPT !.vaultRedeem = x])
         /\ Apart(d, [d EXCEPT !.position = x]) /\ Apart(d, [d EXCEPT !.request = x])
         /\ Apart(d, [d EXCEPT !.warning = x]) /\ Apart(d, [d EXCEPT !.debt = x])
         /\ Apart(d, [d EXCEPT !.change = x]) /\ Apart(d, [d EXCEPT !.escrowSnapshot = x])
  BY DEF Apart, Keeps, Shaped, OtherTables, Fields, SideFields

LEMMA TransactApart ==
  ASSUME NEW d, Shaped(d), NEW ev, NEW u, NEW type, NEW n
  PROVE  LET e == Transact(d, ev, u, type, n)
         IN  /\ Apart(d, e) /\ e.invest = d.invest
             /\ e.vaultInvest = d.vaultInvest /\ e.vaultRedeem = d.vaultRedeem
  BY DEF Transact, Apart, Keeps, Shaped, OtherTables, Fields, SideFields

LEMMA InitPositionApart ==
  ASSUME NEW d, Shaped(d), NEW c, NEW u, NEW held
  PROVE  LET e == InitPosition(d, c, u, held)
         IN  Apart(d, e) /\ e.vaultInvest = d.vaultInvest
  BY DEF InitPosition, Apart, Keeps, Shaped, OtherTables, Fields, SideFields

LEMMA LinkSpokeApart ==
  ASSUME NEW d, Shaped(d), NEW ev
  PROVE  LET e == LinkSpokeRedeem(d, ev)
         IN  Apart(d, e) /\ e.vaultInvest = d.vaultInvest /\ e.vaultRedeem = d.vaultRedeem
<1> DEFINE linked == PutAll(d.request, [r \in Unlinked(d) |-> [d.request[r] EXCEPT !.spokeRequestedAt = ev.now]])
           warned == Insert(d.warning, ChangeOf(ev), "spokeRedeemLinkAmbiguous")
<1>1. LinkSpokeRedeem(d, ev) = [d EXCEPT !.request = linked] \/ LinkSpokeRedeem(d, ev) = [d EXCEPT !.warning = warned]
  BY DEF LinkSpokeRedeem, Warn
<1> HIDE DEF linked, warned
<1> QED BY <1>1 DEF Apart, Keeps, Shaped, OtherTables, Fields, SideFields

\* A table of a vault that is saved.
LEMMA VaultRowSaved ==
  ASSUME NEW d, Shaped(d), NEW t
  PROVE  /\ Apart(d, [d EXCEPT !.vaultInvest = t]) /\ [d EXCEPT !.vaultInvest = t].vaultInvest = t
         /\ Apart(d, [d EXCEPT !.vaultRedeem = t]) /\ [d EXCEPT !.vaultRedeem = t].vaultRedeem = t
  BY DEF Apart, Keeps, Shaped, OtherTables, Fields, SideFields

-----------------------------------------------------------------------------
(* The logs of a vault *)

LEMMA DepositRequestEffect ==
  ASSUME NEW d, Shaped(d), NEW ev, NEW c, NEW a, NEW u, NEW n, NEW held
  PROVE  LET e == OnDepositRequest(d, ev, c, a, u, n, held)
         IN  Apart(d, e) /\ (d.vault = "Async" => e.vaultInvest = AddRequested(d.vaultInvest, <<c, a, u>>, n))
<1>1. CASE d.vault = "None"  BY <1>1, ApartItself DEF OnDepositRequest
<1>2. CASE d.vault # "None"
  <2> DEFINE p == InitPosition(d, c, u, held)
             x == Transact(p, ev, u, "DEPOSIT_REQUEST_UPDATED", n)
             t == AddRequested(x.vaultInvest, <<c, a, u>>, n)
  <2>1. OnDepositRequest(d, ev, c, a, u, n, held) = [x EXCEPT !.vaultInvest = t]
    BY <1>2 DEF OnDepositRequest
  <2>2. Apart(d, p) /\ p.vaultInvest = d.vaultInvest  BY InitPositionApart
  <2> HIDE DEF p
  <2>3. Apart(p, x) /\ x.vaultInvest = p.vaultInvest  BY <2>2, TransactApart, ApartFields
  <2>4. t = AddRequested(d.vaultInvest, <<c, a, u>>, n)  BY <2>2, <2>3
  <2> HIDE DEF x, t
  <2>5. Apart(x, [x EXCEPT !.vaultInvest = t]) /\ [x EXCEPT !.vaultInvest = t].vaultInvest = t
    BY <2>3, VaultRowSaved, ApartFields
  <2>6. Apart(d, [x EXCEPT !.vaultInvest = t])  BY <2>2, <2>3, <2>5, ApartTwice
  <2> QED BY <2>1, <2>4, <2>5, <2>6
<1> QED BY <1>1, <1>2

LEMMA RedeemRequestEffect ==
  ASSUME NEW d, Shaped(d), NEW ev, NEW c, NEW a, NEW u, NEW n
  PROVE  LET e == OnRedeemRequest(d, ev, c, a, u, n)
         IN  Apart(d, e) /\ (d.vault = "Async" => e.vaultRedeem = AddRequested(d.vaultRedeem, <<c, a, u>>, n))
<1>1. CASE d.vault = "None"  BY <1>1, ApartItself DEF OnRedeemRequest
<1>2. CASE d.vault # "None"
  <2> DEFINE x == Transact(d, ev, u, "REDEEM_REQUEST_UPDATED", n)
             t == AddRequested(x.vaultRedeem, <<c, a, u>>, n)
             y == [x EXCEPT !.vaultRedeem = t]
             z == LinkSpokeRedeem(y, ev)
  <2>1. \/ OnRedeemRequest(d, ev, c, a, u, n) = y
        \/ OnRedeemRequest(d, ev, c, a, u, n) = z
    BY <1>2 DEF OnRedeemRequest
  <2>2. Apart(d, x) /\ x.vaultRedeem = d.vaultRedeem  BY TransactApart
  <2>3. t = AddRequested(d.vaultRedeem, <<c, a, u>>, n)  BY <2>2
  <2> HIDE DEF x, t
  <2>4. Apart(x, y) /\ y.vaultRedeem = t  BY <2>2, VaultRowSaved, ApartFields
  <2> HIDE DEF y
  <2>5. Apart(y, z) /\ z.vaultRedeem = y.vaultRedeem  BY <2>4, LinkSpokeApart, ApartFields
  <2> HIDE DEF z
  <2>6. Apart(d, y) /\ Apart(d, z)  BY <2>2, <2>4, <2>5, ApartTwice
  <2> QED BY <2>1, <2>3, <2>4, <2>5, <2>6
<1> QED BY <1>1, <1>2

LEMMA DepositClaimableEffect ==
  ASSUME NEW d, Shaped(d), NEW ev, NEW c, NEW a, NEW u, NEW n
  PROVE  LET e == OnDepositClaimable(d, ev, c, a, u, n)
         IN  Apart(d, e) /\ (d.vault = "Async" /\ Has(d.instance, c) =>
                              e.vaultInvest = AddClaimable(d.vaultInvest, <<c, a, u>>, n))
<1>1. CASE d.vault # "Async" \/ ~HasDecimals(d, c)
  BY <1>1, ApartItself DEF OnDepositClaimable, HasDecimals
<1>2. CASE ~(d.vault # "Async" \/ ~HasDecimals(d, c))
  <2> DEFINE x == Transact(d, ev, u, "DEPOSIT_CLAIMABLE", n)
             t == AddClaimable(x.vaultInvest, <<c, a, u>>, n)
             y == [x EXCEPT !.vaultInvest = t]
  <2>1. OnDepositClaimable(d, ev, c, a, u, n) = y  BY <1>2 DEF OnDepositClaimable
  <2>2. Apart(d, x) /\ x.vaultInvest = d.vaultInvest  BY TransactApart
  <2>3. t = AddClaimable(d.vaultInvest, <<c, a, u>>, n)  BY <2>2
  <2> HIDE DEF x, t
  <2>4. Apart(x, y) /\ y.vaultInvest = t  BY <2>2, VaultRowSaved, ApartFields
  <2> HIDE DEF y
  <2>5. Apart(d, y)  BY <2>2, <2>4, ApartTwice
  <2> QED BY <2>1, <2>3, <2>4, <2>5
<1> QED BY <1>1, <1>2

LEMMA RedeemClaimableEffect ==
  ASSUME NEW d, Shaped(d), NEW ev, NEW c, NEW a, NEW u, NEW n
  PROVE  LET e == OnRedeemClaimable(d, ev, c, a, u, n)
         IN  Apart(d, e) /\ (d.vault = "Async" /\ Has(d.instance, c) =>
                              e.vaultRedeem = AddClaimable(d.vaultRedeem, <<c, a, u>>, n))
<1>1. CASE d.vault = "None" \/ ~HasDecimals(d, c)
  BY <1>1, ApartItself DEF OnRedeemClaimable, HasDecimals
<1>2. CASE ~(d.vault = "None" \/ ~HasDecimals(d, c))
  <2> DEFINE x == Transact(d, ev, u, "REDEEM_CLAIMABLE", n)
             t == AddClaimable(x.vaultRedeem, <<c, a, u>>, n)
             y == [x EXCEPT !.vaultRedeem = t]
  <2>1. OnRedeemClaimable(d, ev, c, a, u, n) = y  BY <1>2 DEF OnRedeemClaimable
  <2>2. Apart(d, x) /\ x.vaultRedeem = d.vaultRedeem  BY TransactApart
  <2>3. t = AddClaimable(d.vaultRedeem, <<c, a, u>>, n)  BY <2>2
  <2> HIDE DEF x, t
  <2>4. Apart(x, y) /\ y.vaultRedeem = t  BY <2>2, VaultRowSaved, ApartFields
  <2> HIDE DEF y
  <2>5. Apart(d, y)  BY <2>2, <2>4, ApartTwice
  <2> QED BY <2>1, <2>3, <2>4, <2>5
<1> QED BY <1>1, <1>2

LEMMA DepositEffect ==
  ASSUME NEW d, Shaped(d), NEW ev, NEW c, NEW a, NEW u, NEW n
  PROVE  LET e == OnDeposit(d, ev, c, a, u, n, n)
         IN  /\ Keeps(d, e)
             /\ d.vault = "Async" /\ Has(d.instance, c) => e.vaultInvest = Take(d.vaultInvest, <<c, a, u>>, n)
             /\ d.vault \in {"None", "Async"} => e.invest = d.invest
             /\ ~Has(d.instance, c) => e.invest = d.invest
             /\ d.vault \notin {"None", "Async"} /\ Has(d.instance, c) =>
                  e.invest = SyncDeposit(d.invest, ev, a, u, n, n)
<1>1. CASE d.vault = "None" \/ ~HasDecimals(d, c)
  BY <1>1, ApartItself DEF OnDeposit, HasDecimals, Apart
<1>2. CASE d.vault = "Async" /\ HasDecimals(d, c)
  <2> DEFINE x == Transact(d, ev, u, "DEPOSIT_CLAIMED", n)
             t == Take(x.vaultInvest, <<c, a, u>>, n)
             y == [x EXCEPT !.vaultInvest = t]
  <2>1. OnDeposit(d, ev, c, a, u, n, n) = y  BY <1>2 DEF OnDeposit
  <2>2. Apart(d, x) /\ x.vaultInvest = d.vaultInvest  BY TransactApart
  <2>3. t = Take(d.vaultInvest, <<c, a, u>>, n)  BY <2>2
  <2> HIDE DEF x, t
  <2>4. Apart(x, y) /\ y.vaultInvest = t  BY <2>2, VaultRowSaved, ApartFields
  <2> HIDE DEF y
  <2>5. Apart(d, y)  BY <2>2, <2>4, ApartTwice
  <2>6. Keeps(d, y) /\ y.invest = d.invest  BY <2>5 DEF Apart
  <2> QED BY <1>2, <2>1, <2>3, <2>4, <2>6 DEF HasDecimals
<1>3. CASE ~(d.vault = "None" \/ ~HasDecimals(d, c)) /\ d.vault # "Async"
  <2> DEFINE x == Transact(d, ev, u, "SYNC_DEPOSIT", n)
             t == SyncDeposit(x.invest, ev, a, u, n, n)
             y == [x EXCEPT !.invest = t]
  <2>1. OnDeposit(d, ev, c, a, u, n, n) = y  BY <1>3 DEF OnDeposit
  <2>2. Apart(d, x) /\ x.invest = d.invest  BY TransactApart
  <2>3. t = SyncDeposit(d.invest, ev, a, u, n, n)  BY <2>2
  <2>4. DOMAIN t = SideFields  BY <2>3 DEF SyncDeposit, Shaped
  <2> HIDE DEF x, t
  <2>5. Shaped(x)  BY <2>2, ApartFields
  <2>6. Keeps(x, y) /\ y.invest = t  BY <2>4, <2>5 DEF Apart, Keeps, Shaped, OtherTables, Fields
  <2> HIDE DEF y
  <2>7. Keeps(d, y)  BY <2>2, <2>6 DEF Apart, Keeps
  <2> QED BY <1>3, <2>1, <2>3, <2>6, <2>7 DEF HasDecimals
<1> QED BY <1>1, <1>2, <1>3

LEMMA WithdrawEffect ==
  ASSUME NEW d, Shaped(d), NEW ev, NEW c, NEW a, NEW u, NEW n
  PROVE  LET e == OnWithdraw(d, ev, c, a, u, n)
         IN  Apart(d, e) /\ (d.vault = "Async" /\ Has(d.instance, c) =>
                              e.vaultRedeem = Take(d.vaultRedeem, <<c, a, u>>, n))
<1>1. CASE d.vault = "None" \/ ~HasDecimals(d, c)
  BY <1>1, ApartItself DEF OnWithdraw, HasDecimals
<1>2. CASE ~(d.vault = "None" \/ ~HasDecimals(d, c)) /\ d.vault = "Sync"
  BY <1>2, ApartBut DEF OnWithdraw
<1>3. CASE ~(d.vault = "None" \/ ~HasDecimals(d, c)) /\ d.vault # "Sync"
  <2> DEFINE x == Transact(d, ev, u, "REDEEM_CLAIMED", n)
             t == Take(x.vaultRedeem, <<c, a, u>>, n)
             y == [x EXCEPT !.vaultRedeem = t]
  <2>1. OnWithdraw(d, ev, c, a, u, n) = y  BY <1>3 DEF OnWithdraw
  <2>2. Apart(d, x) /\ x.vaultRedeem = d.vaultRedeem  BY TransactApart
  <2>3. t = Take(d.vaultRedeem, <<c, a, u>>, n)  BY <2>2
  <2> HIDE DEF x, t
  <2>4. Apart(x, y) /\ y.vaultRedeem = t  BY <2>2, VaultRowSaved, ApartFields
  <2> HIDE DEF y
  <2>5. Apart(d, y)  BY <2>2, <2>4, ApartTwice
  <2> QED BY <2>1, <2>3, <2>4, <2>5
<1> QED BY <1>1, <1>2, <1>3

-----------------------------------------------------------------------------
(* The logs of the hub *)

SideOf(d) == IF flow = "deposit" THEN d.invest ELSE d.redeem

OtherOf(d) == IF flow = "deposit" THEN d.redeem ELSE d.invest

\* The log changes the side the flow is about, and no other.
Becomes(d, e, s) == /\ Shaped(e) /\ SideOf(e) = s /\ OtherOf(e) = OtherOf(d)
                    /\ e.vault = d.vault /\ e.token = d.token /\ e.registered = d.registered

LEMMA SideShaped == ASSUME NEW d, Shaped(d) PROVE DOMAIN SideOf(d) = SideFields
  BY DEF Shaped, SideOf

LEMMA RequestedEffect ==
  ASSUME NEW d, Shaped(d), NEW u, NEW user, NEW total
  PROVE  /\ Becomes(d, Requested(d, u, user, total),
                    Request(SideOf(d), Asset, u, [pending |-> user.pending, queued |-> user.queued, total |-> total]))
         /\ Requested(d, u, user, total).request = d.request
<1> DEFINE request == [pending |-> user.pending, queued |-> user.queued, total |-> total]
           s == Request(SideOf(d), Asset, u, request)
<1>1. DOMAIN s = SideFields  BY SideShaped DEF Request
<1>2. CASE flow = "deposit"
  <2>1. s = Request(d.invest, Asset, u, request)  BY <1>2 DEF SideOf
  <2>2. Requested(d, u, user, total) = [d EXCEPT !.account = @ \cup {u}, !.invest = s]
    BY <1>2, <2>1 DEF Requested, OnUpdateDepositRequest
  <2> HIDE DEF s
  <2>3. Becomes(d, Requested(d, u, user, total), s) /\ Requested(d, u, user, total).request = d.request
    BY <1>1, <1>2, <2>2 DEF Becomes, SideOf, OtherOf, Shaped, Fields
  <2> QED BY <2>3 DEF s, request
<1>3. CASE flow # "deposit"
  <2>1. s = Request(d.redeem, Asset, u, request)  BY <1>3 DEF SideOf
  <2>2. Requested(d, u, user, total) = [d EXCEPT !.account = @ \cup {u}, !.redeem = s]
    BY <1>3, <2>1 DEF Requested, OnUpdateRedeemRequest
  <2> HIDE DEF s
  <2>3. Becomes(d, Requested(d, u, user, total), s) /\ Requested(d, u, user, total).request = d.request
    BY <1>1, <1>3, <2>2 DEF Becomes, SideOf, OtherOf, Shaped, Fields
  <2> QED BY <2>3 DEF s, request
<1> QED BY <1>2, <1>3

Approved(d, i, n, left) == IF flow = "deposit" THEN OnApproveDeposits(d, Event, Asset, i, n, left)
                           ELSE OnApproveRedeems(d, Event, Asset, i, n, left)

LEMMA LinkRedeemShaped ==
  ASSUME NEW d, Shaped(d), NEW ev, NEW u, NEW i
  PROVE  Apart(d, LinkRedeemOrder(d, ev, u, i))
<1> DEFINE linked == PutAll(d.request, [r \in Unlinked(d) |-> [d.request[r] EXCEPT !.linked = i]])
           warned == Insert(d.warning, ChangeOf(ev), "redeemOrderLinkAmbiguous")
<1>1. \/ LinkRedeemOrder(d, ev, u, i) = d
      \/ LinkRedeemOrder(d, ev, u, i) = [d EXCEPT !.request = linked]
      \/ LinkRedeemOrder(d, ev, u, i) = [d EXCEPT !.warning = warned]
  BY DEF LinkRedeemOrder, Warn
<1> HIDE DEF linked, warned
<1>2. Apart(d, d) /\ Apart(d, [d EXCEPT !.request = linked]) /\ Apart(d, [d EXCEPT !.warning = warned])
  BY ApartItself, ApartBut
<1> QED BY <1>1, <1>2

LEMMA ApprovedEffect ==
  ASSUME NEW d, Shaped(d), NEW i, NEW n, NEW left
  PROVE  /\ Becomes(d, Approved(d, i, n, left), Approve(SideOf(d), Event, Asset, i, n, left))
         /\ flow = "deposit" => Approved(d, i, n, left).request = d.request
         /\ flow # "deposit" =>
              Approved(d, i, n, left).request =
                (IF Asset = BasinAsset /\ <<Asset, Redeemer>> \in PendingOf(d.redeem, Asset)
                 THEN LinkRedeemOrder(d, Event, Redeemer, i) ELSE d).request
<1> DEFINE s == Approve(SideOf(d), Event, Asset, i, n, left)
<1>1. DOMAIN s = SideFields  BY SideShaped DEF Approve
<1>2. CASE flow = "deposit"
  <2> DEFINE shot == Snapshot(d.escrowSnapshot, Escrows(d), Event.now, "ApproveDeposits")
  <2>1. s = Approve(d.invest, Event, Asset, i, n, left)  BY <1>2 DEF SideOf
  <2>2. Approved(d, i, n, left) = [d EXCEPT !.invest = s, !.escrowSnapshot = shot]
    BY <1>2, <2>1 DEF Approved, OnApproveDeposits
  <2> HIDE DEF s, shot
  <2>3. Becomes(d, Approved(d, i, n, left), s) /\ Approved(d, i, n, left).request = d.request
    BY <1>1, <1>2, <2>2 DEF Becomes, SideOf, OtherOf, Shaped, Fields
  <2> QED BY <1>2, <2>3 DEF s
<1>3. CASE flow # "deposit"
  <2> DEFINE x == IF Asset = BasinAsset /\ <<Asset, Redeemer>> \in PendingOf(d.redeem, Asset)
                  THEN LinkRedeemOrder(d, Event, Redeemer, i) ELSE d
             shot == Snapshot(x.escrowSnapshot, Escrows(d), Event.now, "ApproveRedeems")
  <2>1. Apart(d, x)  BY LinkRedeemShaped, ApartItself
  <2>2. x.redeem = d.redeem /\ x.invest = d.invest /\ Shaped(x)  BY <2>1, ApartFields
  <2>3. s = Approve(x.redeem, Event, Asset, i, n, left)  BY <1>3, <2>2 DEF SideOf
  <2>4. Approved(d, i, n, left) = [x EXCEPT !.redeem = s, !.escrowSnapshot = shot]
    BY <1>3, <2>3 DEF Approved, OnApproveRedeems
  <2>5. x.vault = d.vault /\ x.token = d.token /\ x.registered = d.registered  BY <2>1, ApartFields
  <2> HIDE DEF s, shot, x
  <2>6. Becomes(d, Approved(d, i, n, left), s) /\ Approved(d, i, n, left).request = x.request
    BY <1>1, <1>3, <2>2, <2>4, <2>5 DEF Becomes, SideOf, OtherOf, Shaped, Fields
  <2> QED BY <1>3, <2>6 DEF s, x
<1> QED BY <1>2, <1>3

Settled(d, i, paid, nav) == IF flow = "deposit" THEN OnIssueShares(d, Event, Asset, i, paid, nav)
                            ELSE OnRevokeShares(d, Event, Asset, i, paid, nav)

\* What an order of the flow gets.
PaidOut(order, nav) == IF flow = "deposit" THEN Issued(order, nav) ELSE Revoked(order, nav)
PayoutsOf(d, s, i, nav) == [k \in ToSettle(d, s, Asset, i) |-> PaidOut(s.order[k], nav)]

LEMMA SettledEffect ==
  ASSUME NEW d, Shaped(d), NEW i, NEW paid, NEW nav
  PROVE  /\ Becomes(d, Settled(d, i, paid, nav),
                    Settle(SideOf(d), Event, Asset, i, paid, PayoutsOf(d, SideOf(d), i, nav)))
         /\ Settled(d, i, paid, nav).request = d.request
<1> DEFINE s == Settle(SideOf(d), Event, Asset, i, paid, PayoutsOf(d, SideOf(d), i, nav))
<1>1. DOMAIN s = SideFields  BY SideShaped DEF Settle
<1>2. CASE flow = "deposit"
  <2>1. PayoutsOf(d, d.invest, i, nav) = [k \in ToSettle(d, d.invest, Asset, i) |-> Issued(d.invest.order[k], nav)]
    BY <1>2 DEF PayoutsOf, PaidOut
  <2>2. Settled(d, i, paid, nav) = [d EXCEPT !.invest = s]
    BY <1>2, <2>1 DEF Settled, OnIssueShares, SideOf
  <2> HIDE DEF s
  <2>3. Becomes(d, Settled(d, i, paid, nav), s) /\ Settled(d, i, paid, nav).request = d.request
    BY <1>1, <1>2, <2>2 DEF Becomes, SideOf, OtherOf, Shaped, Fields
  <2> QED BY <2>3 DEF s
<1>3. CASE flow # "deposit"
  <2>1. PayoutsOf(d, d.redeem, i, nav) = [k \in ToSettle(d, d.redeem, Asset, i) |-> Revoked(d.redeem.order[k], nav)]
    BY <1>3 DEF PayoutsOf, PaidOut
  <2>2. Settled(d, i, paid, nav) = [d EXCEPT !.redeem = s]
    BY <1>3, <2>1 DEF Settled, OnRevokeShares, SideOf
  <2> HIDE DEF s
  <2>3. Becomes(d, Settled(d, i, paid, nav), s) /\ Settled(d, i, paid, nav).request = d.request
    BY <1>1, <1>3, <2>2 DEF Becomes, SideOf, OtherOf, Shaped, Fields
  <2> QED BY <2>3 DEF s
<1> QED BY <1>2, <1>3

Claimed(d, u, i, payment, payout) == IF flow = "deposit" THEN OnClaimDeposit(d, Event, Asset, u, i, payment, payout)
                                     ELSE OnClaimRedeem(d, Event, Asset, u, i, payment, payout)

LEMMA ClaimedEffect ==
  ASSUME NEW d, Shaped(d), NEW u, NEW i, NEW payment, NEW payout
  PROVE  /\ Becomes(d, Claimed(d, u, i, payment, payout),
                    IF d.token.there THEN Claim(SideOf(d), Event, <<Asset, u, i>>, payment, payout) ELSE SideOf(d))
         /\ Claimed(d, u, i, payment, payout).request = d.request
<1> DEFINE s == Claim(SideOf(d), Event, <<Asset, u, i>>, payment, payout)
<1>1. DOMAIN s = SideFields  BY SideShaped DEF Claim
<1>2. CASE ~d.token.there
  BY <1>2 DEF Claimed, OnClaimDeposit, OnClaimRedeem, Becomes, OtherOf
<1>3. CASE d.token.there /\ flow = "deposit"
  <2>1. Claimed(d, u, i, payment, payout) = [d EXCEPT !.account = @ \cup {u}, !.invest = s]
    BY <1>3 DEF Claimed, OnClaimDeposit, SideOf
  <2> HIDE DEF s
  <2>2. Becomes(d, Claimed(d, u, i, payment, payout), s) /\ Claimed(d, u, i, payment, payout).request = d.request
    BY <1>1, <1>3, <2>1 DEF Becomes, SideOf, OtherOf, Shaped, Fields
  <2> QED BY <1>3, <2>2 DEF s
<1>4. CASE d.token.there /\ flow # "deposit"
  <2>1. Claimed(d, u, i, payment, payout) = [d EXCEPT !.account = @ \cup {u}, !.redeem = s]
    BY <1>4 DEF Claimed, OnClaimRedeem, SideOf
  <2> HIDE DEF s
  <2>2. Becomes(d, Claimed(d, u, i, payment, payout), s) /\ Claimed(d, u, i, payment, payout).request = d.request
    BY <1>1, <1>4, <2>1 DEF Becomes, SideOf, OtherOf, Shaped, Fields
  <2> QED BY <1>4, <2>2 DEF s
<1> QED BY <1>2, <1>3, <1>4

-----------------------------------------------------------------------------
(* Every step keeps the shape, and the vault of the flow *)

ShapeInv == /\ Shaped(orders)
            /\ time \in Nat /\ time > 0
            /\ flow = "syncDeposit" => orders.vault = "SyncDepositAsyncRedeem"
            /\ flow # "syncDeposit" => orders.vault \in {"None", "Async"}

LEMMA HandlersShape ==
  ASSUME NEW d, Shaped(d)
  PROVE  /\ \A u, user, total : Shaped(Requested(d, u, user, total)) /\ Requested(d, u, user, total).vault = d.vault
         /\ \A i, n, left : Shaped(Approved(d, i, n, left)) /\ Approved(d, i, n, left).vault = d.vault
         /\ \A i, paid, nav : Shaped(Settled(d, i, paid, nav)) /\ Settled(d, i, paid, nav).vault = d.vault
         /\ \A u, i, n, m : Shaped(Claimed(d, u, i, n, m)) /\ Claimed(d, u, i, n, m).vault = d.vault
<1>1. ASSUME NEW u, NEW user, NEW total
      PROVE  Shaped(Requested(d, u, user, total)) /\ Requested(d, u, user, total).vault = d.vault
  <2>1. Becomes(d, Requested(d, u, user, total),
                Request(SideOf(d), Asset, u, [pending |-> user.pending, queued |-> user.queued, total |-> total]))
    BY RequestedEffect
  <2> QED BY <2>1 DEF Becomes
<1>2. ASSUME NEW i, NEW n, NEW left
      PROVE  Shaped(Approved(d, i, n, left)) /\ Approved(d, i, n, left).vault = d.vault
  BY ApprovedEffect DEF Becomes
<1>3. ASSUME NEW i, NEW paid, NEW nav
      PROVE  Shaped(Settled(d, i, paid, nav)) /\ Settled(d, i, paid, nav).vault = d.vault
  BY SettledEffect DEF Becomes
<1>4. ASSUME NEW u, NEW i, NEW n, NEW m
      PROVE  Shaped(Claimed(d, u, i, n, m)) /\ Claimed(d, u, i, n, m).vault = d.vault
  <2>1. Becomes(d, Claimed(d, u, i, n, m),
                IF d.token.there THEN Claim(SideOf(d), Event, <<Asset, u, i>>, n, m) ELSE SideOf(d))
    BY ClaimedEffect
  <2> QED BY <2>1 DEF Becomes
<1> QED BY <1>1, <1>2, <1>3, <1>4

LEMMA IncreaseShape ==
  ASSUME NEW d, Shaped(d), NEW u, NEW n, Increase(d, u, n)
  PROVE  Shaped(orders') /\ orders'.vault = d.vault
<1> DEFINE user == hub.user[u]
           new  == IF MayChange(user) THEN [user EXCEPT !.pending = @ + n, !.last = hub.epoch]
                   ELSE [user EXCEPT !.queued = @ + n]
           left == hub.left + (IF MayChange(user) THEN n ELSE 0)
<1>1. orders' = Requested(d, u, new, left)  BY DEF Increase
<1> HIDE DEF new, left
<1> QED BY <1>1, HandlersShape

LEMMA CancelShape ==
  ASSUME Shaped(orders), NEW u, Cancel(u)
  PROVE  Shaped(orders') /\ orders'.vault = orders.vault
<1> DEFINE user == hub.user[u]
           new  == IF MayChange(user) THEN NoRequest ELSE [user EXCEPT !.cancelling = TRUE]
           left == IF MayChange(user) THEN hub.left - user.pending ELSE hub.left
<1>1. orders' = Requested(orders, u, new, left)  BY DEF Cancel
<1> HIDE DEF new, left
<1> QED BY <1>1, HandlersShape

LEMMA ApproveShape ==
  ASSUME Shaped(orders), NEW n, ApproveEpoch(n)
  PROVE  Shaped(orders') /\ orders'.vault = orders.vault
<1>1. orders' = Approved(orders, hub.epoch, n, hub.left - n)  BY DEF ApproveEpoch, Approved
<1> QED BY <1>1, HandlersShape

LEMMA SettleShape ==
  ASSUME Shaped(orders), NEW i, NEW nav, SettleEpoch(i, nav)
  PROVE  Shaped(orders') /\ orders'.vault = orders.vault
<1>1. orders' = Settled(orders, i, Payout(hub.epochs[i].approved, nav), nav)  BY DEF SettleEpoch, Settled
<1> QED BY <1>1, HandlersShape

\* The logs of a claim: its own and, when the account's request moves on, another.
LEMMA ClaimSteps ==
  ASSUME NEW u, ClaimEpoch(u)
  PROVE  LET payment == (hub.user[u].pending * hub.epochs[hub.user[u].last].approved) \div hub.epochs[hub.user[u].last].of
             paid    == Claimed(orders, u, hub.user[u].last, payment, Payout(payment, hub.epochs[hub.user[u].last].nav))
         IN  orders' = paid \/ \E new, left : orders' = Requested(paid, u, new, left)
  BY DEF ClaimEpoch, Claimed

LEMMA ClaimShape ==
  ASSUME Shaped(orders), NEW u, ClaimEpoch(u)
  PROVE  Shaped(orders') /\ orders'.vault = orders.vault
<1> DEFINE payment == (hub.user[u].pending * hub.epochs[hub.user[u].last].approved) \div hub.epochs[hub.user[u].last].of
           paid    == Claimed(orders, u, hub.user[u].last, payment, Payout(payment, hub.epochs[hub.user[u].last].nav))
<1>1. orders' = paid \/ \E new, left : orders' = Requested(paid, u, new, left)  BY ClaimSteps
<1> HIDE DEF payment
<1>2. Shaped(paid) /\ paid.vault = orders.vault  BY HandlersShape
<1> HIDE DEF paid
<1>3. \A new, left : Shaped(Requested(paid, u, new, left)) /\ Requested(paid, u, new, left).vault = paid.vault
  BY <1>2, HandlersShape
<1> QED BY <1>1, <1>2, <1>3

\* The basin's own logs.
LEMMA InitiatedApart ==
  ASSUME NEW d, Shaped(d), NEW ev, NEW n, NEW quote
  PROVE  Apart(d, OnRedeemInitiated(d, ev, n, quote))
<1> DEFINE inserted == Insert(d.request, <<ev.now, n, quote>>, NewRequest(ev, n))
           debt == [LoadDebt(d, ev) EXCEPT !.pending = @ + n]
           x == [d EXCEPT !.request = inserted, !.debt = debt]
<1>1. CASE quote = NoAnswer  BY <1>1, ApartItself DEF OnRedeemInitiated
<1>2. CASE quote # NoAnswer
  <2>1. OnRedeemInitiated(d, ev, n, quote) = LinkSpokeRedeem(x, ev)  BY <1>2 DEF OnRedeemInitiated
  <2> HIDE DEF inserted, debt
  <2>2. Apart(d, x)  BY DEF Apart, Keeps, Shaped, OtherTables, Fields, SideFields
  <2> HIDE DEF x
  <2>3. Apart(x, LinkSpokeRedeem(x, ev))  BY <2>2, LinkSpokeApart, ApartFields
  <2> QED BY <2>1, <2>2, <2>3, ApartTwice
<1> QED BY <1>1, <1>2

LEMMA TransferApart ==
  ASSUME NEW d, Shaped(d), NEW ev, NEW coin, NEW from, NEW n
  PROVE  /\ Apart(d, OnStablecoinTransfer(d, ev, coin, from, n))
         /\ OnStablecoinTransfer(d, ev, coin, from, n).request = d.request
<1>1. CASE from \in Internal(coin) \/ n = 0  BY <1>1, ApartItself DEF OnStablecoinTransfer
<1>2. CASE ~(from \in Internal(coin) \/ n = 0)
  <2>1. \E debt, change : OnStablecoinTransfer(d, ev, coin, from, n) = [d EXCEPT !.debt = debt, !.change = change]
    BY <1>2 DEF OnStablecoinTransfer, AccrueAndApply
  <2> QED BY <2>1 DEF Apart, Keeps, Shaped, OtherTables, Fields, SideFields
<1> QED BY <1>1, <1>2

LEMMA ClaimTransferApart ==
  ASSUME NEW d, Shaped(d), NEW ev, NEW delta, NEW as
  PROVE  /\ Apart(d, ClaimTransferRepayment(d, ev, delta, as))
         /\ ClaimTransferRepayment(d, ev, delta, as).request = d.request
<1>1. \/ \E t : ClaimTransferRepayment(d, ev, delta, as) = [d EXCEPT !.warning = t]
      \/ \E t : ClaimTransferRepayment(d, ev, delta, as) = [d EXCEPT !.change = t]
  <2> DEFINE K == Unclaimed(d, ev, delta)
             k == CHOOSE k \in K : \A j \in K : j[2] <= k[2]
  <2>1. CASE K = {}
    <3>1. ClaimTransferRepayment(d, ev, delta, as)
            = [d EXCEPT !.warning = Insert(d.warning, ChangeOf(ev), "repaymentClaimMissing")]
      BY <2>1 DEF ClaimTransferRepayment, Warn
    <3> QED BY <3>1
  <2>2. CASE K # {}
    <3>1. ClaimTransferRepayment(d, ev, delta, as)
            = [d EXCEPT !.change = [d.change EXCEPT ![k] = [d.change[k] EXCEPT !.type = as]]]
      BY <2>2 DEF ClaimTransferRepayment
    <3> QED BY <3>1
  <2> QED BY <2>1, <2>2
<1> QED BY <1>1 DEF Apart, Keeps, Shaped, OtherTables, Fields, SideFields

\* The open requests as a completion closes them.
Completed(d, ev, n) ==
  LET Newest == {q \in Open(d) : \A r \in Open(d) : d.request[r].initiatedAt <= d.request[q].initiatedAt}
  IN  [r \in Open(d) |-> [d.request[r] EXCEPT !.open = FALSE, !.completedAt = ev.now,
                                              !.returned = IF r \in Newest THEN n ELSE @]]

LEMMA CompletedApart ==
  ASSUME NEW d, Shaped(d), NEW ev, NEW n
  PROVE  /\ Apart(d, OnRedeemCompleted(d, ev, n))
         /\ OnRedeemCompleted(d, ev, n).request = PutAll(d.request, Completed(d, ev, n))
<1> DEFINE completed == Completed(d, ev, n)
           x == IF Cardinality(Open(d)) = 1 THEN d ELSE Warn(d, ev, "completeOrphan")
           debt == [LoadDebt(d, ev) EXCEPT !.pending = @ - SumFunction([r \in Open(d) |-> d.request[r].credit])]
           y == [x EXCEPT !.debt = debt, !.request = PutAll(x.request, completed)]
           z == ClaimTransferRepayment(y, ev, -Scaled("COLLATERAL", n), "REDEMPTION")
<1>1. OnRedeemCompleted(d, ev, n) = z  BY DEF OnRedeemCompleted, Completed
<1>2. Apart(d, x) /\ x.request = d.request
  <2> DEFINE w == Insert(d.warning, ChangeOf(ev), "completeOrphan")
  <2>1. x = d \/ x = [d EXCEPT !.warning = w]  BY DEF Warn
  <2> HIDE DEF x, w
  <2>2. Apart(d, d) /\ Apart(d, [d EXCEPT !.warning = w])  BY ApartItself, ApartBut
  <2>3. [d EXCEPT !.warning = w].request = d.request  BY DEF Shaped, Fields
  <2> QED BY <2>1, <2>2, <2>3
<1>3. Shaped(x)  BY <1>2, ApartFields
<1> HIDE DEF x, debt, completed
<1>4. Apart(x, y) /\ y.request = PutAll(x.request, completed)
  BY <1>3 DEF Apart, Keeps, Shaped, OtherTables, Fields, SideFields
<1> HIDE DEF y
<1>5. Apart(y, z) /\ z.request = y.request  BY <1>4, ClaimTransferApart, ApartFields
<1> HIDE DEF z
<1>6. Apart(d, z)  BY <1>2, <1>4, <1>5, ApartTwice
<1>7. Apart(d, OnRedeemCompleted(d, ev, n)) /\ OnRedeemCompleted(d, ev, n).request = PutAll(d.request, completed)
  BY <1>1, <1>2, <1>4, <1>5, <1>6
<1> QED BY <1>7 DEF completed

LEMMA VaultShape ==
  ASSUME Shaped(orders), VaultNext
  PROVE  Keeps(orders, orders')
<1>1. ASSUME NEW u, NEW a, NEW n, SyncDeposits(a, u, n) PROVE Keeps(orders, orders')
  <2>1. orders' = OnDeposit(orders, Event, Spoke, a, u, n, n)  BY <1>1 DEF SyncDeposits
  <2> QED BY <2>1, DepositEffect
<1>2. ASSUME NEW u, NEW n, VaultRequest(u, n) PROVE Keeps(orders, orders')
  <2>1. \/ \E held : orders' = OnDepositRequest(orders, Event, Spoke, Asset, u, n, held)
        \/ orders' = OnRedeemRequest(orders, Event, Spoke, Asset, u, n)
    BY <1>2 DEF VaultRequest
  <2> QED BY <2>1, DepositRequestEffect, RedeemRequestEffect DEF Apart
<1>3. ASSUME NEW u, NEW n, VaultClaimable(u, n) PROVE Keeps(orders, orders')
  <2>1. \/ orders' = OnDepositClaimable(orders, Event, Spoke, Asset, u, n)
        \/ orders' = OnRedeemClaimable(orders, Event, Spoke, Asset, u, n)
    BY <1>3 DEF VaultClaimable
  <2> QED BY <2>1, DepositClaimableEffect, RedeemClaimableEffect DEF Apart
<1>4. ASSUME NEW u, NEW n, VaultTake(u, n) PROVE Keeps(orders, orders')
  <2>1. \/ orders' = OnDeposit(orders, Event, Spoke, Asset, u, n, n)
        \/ orders' = OnWithdraw(orders, Event, Spoke, Asset, u, n)
    BY <1>4 DEF VaultTake
  <2> QED BY <2>1, DepositEffect, WithdrawEffect DEF Apart
<1>5. ASSUME NEW u, NEW n, VaultCancel(u, n) PROVE Keeps(orders, orders')
  <2>1. orders' = orders  BY <1>5 DEF VaultCancel
  <2> QED BY <2>1 DEF Keeps, Shaped
<1> QED BY <1>1, <1>2, <1>3, <1>4, <1>5 DEF VaultNext

\* The redeemer's request is in the basin's table before the hub's log.
LEMMA HandedApart ==
  ASSUME NEW d, Shaped(d), NEW ev, NEW ev2, NEW c, NEW n, NEW quote
  PROVE  LET initiated == OnRedeemInitiated(d, ev, n, quote)
             handed    == OnRedeemRequest(initiated, ev2, c, BasinAsset, Redeemer, n)
         IN  Apart(d, initiated) /\ Shaped(initiated) /\ Apart(d, handed)
<1> DEFINE initiated == OnRedeemInitiated(d, ev, n, quote)
           handed    == OnRedeemRequest(initiated, ev2, c, BasinAsset, Redeemer, n)
<1>1. Apart(d, initiated)  BY InitiatedApart
<1> HIDE DEF initiated
<1>2. Shaped(initiated)  BY <1>1, ApartFields
<1>3. Apart(initiated, handed)  BY <1>2, RedeemRequestEffect
<1> HIDE DEF handed
<1>4. Apart(d, handed)  BY <1>1, <1>3, ApartTwice
<1> QED BY <1>1, <1>2, <1>4 DEF initiated, handed

LEMMA RedeemerShape ==
  ASSUME Shaped(orders), RedeemerNext
  PROVE  Shaped(orders') /\ orders'.vault = orders.vault
<1>1. ASSUME NEW n, NEW quote, AskRedeemer(n, quote) PROVE Shaped(orders') /\ orders'.vault = orders.vault
  <2> DEFINE handed == OnRedeemRequest(OnRedeemInitiated(orders, Event, n, quote), [Event EXCEPT !.log = 2],
                                       Spoke, BasinAsset, Redeemer, n)
  <2>1. Increase(handed, Redeemer, n)  BY <1>1 DEF AskRedeemer
  <2>2. Apart(orders, handed)  BY HandedApart
  <2> HIDE DEF handed
  <2> QED BY <2>1, <2>2, IncreaseShape, ApartFields
<1>2. CASE RedeemerReturns
  <2> DEFINE x == OnStablecoinTransfer(orders, Event, "COLLATERAL", Redeemer, redeeming.amount)
             y == OnRedeemCompleted(x, [Event EXCEPT !.log = 2], redeeming.amount)
  <2>1. orders' = y  BY <1>2 DEF RedeemerReturns
  <2>2. Apart(orders, x)  BY TransferApart
  <2> HIDE DEF x
  <2>3. Apart(x, y)  BY <2>2, CompletedApart, ApartFields
  <2> HIDE DEF y
  <2>4. Apart(orders, y)  BY <2>2, <2>3, ApartTwice
  <2> QED BY <2>1, <2>4, ApartFields
<1> QED BY <1>1, <1>2 DEF RedeemerNext

LEMMA HubShape ==
  ASSUME Shaped(orders), HubNext
  PROVE  Shaped(orders') /\ orders'.vault = orders.vault
BY IncreaseShape, CancelShape, ClaimShape, ApproveShape, SettleShape DEF HubNext

LEMMA KnownShape ==
  ASSUME Shaped(orders), Known
  PROVE  /\ Shaped(orders') /\ orders'.vault = orders.vault
         /\ orders'.invest = orders.invest /\ orders'.redeem = orders.redeem
         /\ orders'.vaultInvest = orders.vaultInvest /\ orders'.vaultRedeem = orders.vaultRedeem
         /\ orders'.request = orders.request
<1>1. \/ orders' = [orders EXCEPT !.token.there = TRUE, !.registered = TRUE]
      \/ orders' = [orders EXCEPT !.instance = Put(@, Spoke, NewInstance)]
  BY DEF Known
<1> QED BY <1>1 DEF Shaped, Fields, SideFields

LEMMA ShapeNext == ASSUME ShapeInv, OrdersNext PROVE ShapeInv'
<1>1. Shaped(orders') /\ orders'.vault = orders.vault
  <2>1. CASE HubNext  BY <2>1, HubShape DEF ShapeInv
  <2>2. CASE VaultNext  BY <2>2, VaultShape, KeepsFields DEF ShapeInv
  <2>3. CASE RedeemerNext  BY <2>3, RedeemerShape DEF ShapeInv
  <2>4. CASE Known  BY <2>4, KnownShape DEF ShapeInv
  <2> QED BY <2>1, <2>2, <2>3, <2>4 DEF OrdersNext
<1>2. flow' = flow /\ (time' = time \/ time' = time + 1)  BY DEF OrdersNext
<1>3. time' \in Nat /\ time' > 0
  <2>1. time \in Nat /\ time > 0  BY DEF ShapeInv
  <2> QED BY ONLY <1>2, <2>1
<1> QED BY <1>1, <1>2, <1>3 DEF ShapeInv

\* The empty tables.
LEMMA InitTables ==
  ASSUME OrdersInit
  PROVE  /\ Shaped(orders) /\ orders.invest = NewSide /\ orders.redeem = NewSide
         /\ orders.vaultInvest = EmptyTable /\ orders.vaultRedeem = EmptyTable /\ orders.request = EmptyTable
         /\ flow = "syncDeposit" => orders.vault = "SyncDepositAsyncRedeem"
         /\ flow # "syncDeposit" => orders.vault \in {"None", "Async"}
<1>1. PICK known \in BOOLEAN, vault \in IF flow = "syncDeposit" THEN {"SyncDepositAsyncRedeem"}
                                       ELSE IF flow \in HubFlows THEN {"Async"} ELSE {"None", "Async"} :
        orders = [invest |-> NewSide, redeem |-> NewSide, account |-> {}, transaction |-> EmptyTable,
                  vaultInvest |-> EmptyTable, vaultRedeem |-> EmptyTable, vault |-> vault,
                  token |-> [there |-> known], registered |-> known,
                  instance |-> IF known THEN [k \in {Spoke} |-> NewInstance] ELSE EmptyTable,
                  position |-> EmptyTable, escrow |-> [x \in {"full", "empty"} |-> IF x = "full" THEN 1 ELSE 0],
                  escrowSnapshot |-> EmptyTable, request |-> EmptyTable, warning |-> EmptyTable,
                  debt |-> NoDebt, change |-> EmptyTable]
  BY DEF OrdersInit
<1>2. DOMAIN orders = Fields /\ DOMAIN NewSide = SideFields  BY <1>1 DEF Fields, SideFields, NewSide
<1>3. orders.invest = NewSide /\ orders.redeem = NewSide /\ orders.vault = vault  BY <1>1
<1>4. orders.vaultInvest = EmptyTable /\ orders.vaultRedeem = EmptyTable /\ orders.request = EmptyTable  BY <1>1
<1>5. /\ flow = "syncDeposit" => vault = "SyncDepositAsyncRedeem"
      /\ flow # "syncDeposit" => vault \in {"None", "Async"}
  OBVIOUS
<1> QED BY ONLY <1>2, <1>3, <1>4, <1>5 DEF Shaped

LEMMA ShapeInit == OrdersInit => ShapeInv
<1> SUFFICES ASSUME OrdersInit PROVE ShapeInv  OBVIOUS
<1>1. time = 1  BY DEF OrdersInit
<1>2. /\ Shaped(orders) /\ (flow = "syncDeposit" => orders.vault = "SyncDepositAsyncRedeem")
      /\ flow # "syncDeposit" => orders.vault \in {"None", "Async"}
  BY InitTables
<1>3. time \in Nat /\ time > 0  BY <1>1
<1> QED BY ONLY <1>2, <1>3 DEF ShapeInv

LEMMA ShapeHolds == OrdersSpec => []ShapeInv
<1>1. ShapeInv /\ UNCHANGED orderVars => ShapeInv'  BY DEF ShapeInv, Shaped, orderVars
<1>2. ShapeInv /\ [OrdersNext]_orderVars => ShapeInv'  BY <1>1, ShapeNext
<1> QED BY <1>2, ShapeInit, PTL DEF OrdersSpec

-----------------------------------------------------------------------------
(* A vault's rows *)

Owed == [pending: Nat, claimable: Nat, cancelled: Nat]
Rows == [requested: Nat, claimable: Nat]
RowOf(u) == RowOr(VaultRows, <<Spoke, Asset, u>>, NoVaultOrder)

\* No row is cut off at 0, as it has what the account may claim in both its amounts.
VaultInv ==
  /\ dropped \in BOOLEAN
  /\ owner \in [Investors -> Owed]
  /\ flow \in {"vaultDeposit", "vaultRedeem"} /\ orders.vault = "Async" /\ ~dropped =>
       \A u \in Users : RowOf(u) = Shown(owner[u])

LEMMA ShownType == ASSUME NEW o \in Owed PROVE Shown(o) \in Rows /\ Shown(o).claimable <= Shown(o).requested
  BY DEF Owed, Rows, Shown

\* What is pending becomes claimable or is cancelled.
LEMMA PendingMoves ==
  ASSUME NEW o \in Owed, NEW n \in 1..o.pending
  PROVE  LET paid     == [o EXCEPT !.pending = @ - n, !.claimable = @ + n]
             dropping == [o EXCEPT !.pending = @ - n, !.cancelled = @ + n]
         IN  /\ paid \in Owed /\ Shown(paid) = [requested |-> Shown(o).requested, claimable |-> o.claimable + n]
             /\ dropping \in Owed /\ Shown(dropping) = Shown(o)
<1> DEFINE paid == [o EXCEPT !.pending = @ - n, !.claimable = @ + n]
           dropping == [o EXCEPT !.pending = @ - n, !.cancelled = @ + n]
<1>1. PICK p \in Nat, c \in Nat, x \in Nat : o = [pending |-> p, claimable |-> c, cancelled |-> x]  BY DEF Owed
<1>2. n \in Nat /\ n <= p  BY <1>1
<1>3. p - n \in Nat /\ c + n \in Nat /\ x + n \in Nat /\ (p - n) + (c + n) + x = p + c + x /\ (p - n) + c + (x + n) = p + c + x
  BY <1>2
<1>4. /\ paid = [pending |-> p - n, claimable |-> c + n, cancelled |-> x]
      /\ dropping = [pending |-> p - n, claimable |-> c, cancelled |-> x + n]
  <2>1. o.pending = p /\ o.claimable = c /\ o.cancelled = x /\ DOMAIN o = {"pending", "claimable", "cancelled"}
    BY <1>1
  <2>2. /\ paid = [o EXCEPT !.pending = p - n, !.claimable = c + n]
        /\ dropping = [o EXCEPT !.pending = p - n, !.cancelled = x + n]
    BY <2>1
  <2> DEFINE a == p - n
             b == c + n
             d == x + n
  <2> HIDE DEF paid, dropping, a, b, d
  <2>3. paid = [o EXCEPT !.pending = a, !.claimable = b] /\ dropping = [o EXCEPT !.pending = a, !.cancelled = d]
    BY <2>2 DEF a, b, d
  <2>4. /\ paid = [pending |-> a, claimable |-> b, cancelled |-> x]
        /\ dropping = [pending |-> a, claimable |-> c, cancelled |-> d]
    BY <1>1, <2>3
  <2> QED BY <2>4 DEF a, b, d
<1>5. Shown(o) = [requested |-> p + c + x, claimable |-> c]  BY <1>1 DEF Shown
<1> HIDE DEF paid, dropping
<1>6. paid \in Owed /\ dropping \in Owed  BY <1>1, <1>3, <1>4 DEF Owed
<1>7. /\ paid.pending = p - n /\ paid.claimable = c + n /\ paid.cancelled = x
      /\ dropping.pending = p - n /\ dropping.claimable = c /\ dropping.cancelled = x + n
  BY <1>4
<1>8. /\ Shown(paid) = [requested |-> p + c + x, claimable |-> c + n]
      /\ Shown(dropping) = [requested |-> p + c + x, claimable |-> c]
  BY <1>3, <1>7 DEF Shown
<1>9. o.claimable = c /\ Shown(o).requested = p + c + x  BY <1>1, <1>5
<1> QED BY <1>5, <1>6, <1>8, <1>9 DEF paid, dropping

LEMMA RowOrDelete ==
  ASSUME NEW t, NEW k, NEW x, NEW new
  PROVE  RowOr(Delete(t, k), x, new) = IF x = k THEN new ELSE RowOr(t, x, new)
  BY DEF RowOr, Delete, Has

LEMMA RowOrPut ==
  ASSUME NEW t, NEW k, NEW row, NEW x, NEW new
  PROVE  RowOr(Put(t, k, row), x, new) = IF x = k THEN row ELSE RowOr(t, x, new)
  BY DEF RowOr, Put, Has

\* A log that adds to a row.
LEMMA AddEffect ==
  ASSUME NEW t, NEW k, NEW n \in Nat, NEW x, RowOr(t, k, NoVaultOrder) \in Rows
  PROVE  LET row == RowOr(t, k, NoVaultOrder)
         IN  /\ RowOr(AddRequested(t, k, n), x, NoVaultOrder)
                  = IF x = k THEN [requested |-> row.requested + n, claimable |-> row.claimable]
                    ELSE RowOr(t, x, NoVaultOrder)
             /\ RowOr(AddClaimable(t, k, n), x, NoVaultOrder)
                  = IF x = k THEN [requested |-> row.requested, claimable |-> row.claimable + n]
                    ELSE RowOr(t, x, NoVaultOrder)
<1> DEFINE row == RowOr(t, k, NoVaultOrder)
<1> HIDE DEF row
<1>1. row \in Rows  BY DEF row
<1>2. [row EXCEPT !.requested = @ + n] = [requested |-> row.requested + n, claimable |-> row.claimable]
  BY <1>1 DEF Rows
<1>3. [row EXCEPT !.claimable = @ + n] = [requested |-> row.requested, claimable |-> row.claimable + n]
  BY <1>1 DEF Rows
<1>4. /\ AddRequested(t, k, n) = Put(t, k, [requested |-> row.requested + n, claimable |-> row.claimable])
      /\ AddClaimable(t, k, n) = Put(t, k, [requested |-> row.requested, claimable |-> row.claimable + n])
  BY <1>2, <1>3 DEF AddRequested, AddClaimable, row
<1> QED BY <1>4, RowOrPut DEF row

\* One that takes from it what it has, and clears it when nothing is left.
LEMMA TakeEffect ==
  ASSUME NEW t, NEW k, NEW n \in Nat, NEW x, RowOr(t, k, NoVaultOrder) \in Rows,
         n <= RowOr(t, k, NoVaultOrder).claimable,
         RowOr(t, k, NoVaultOrder).claimable <= RowOr(t, k, NoVaultOrder).requested
  PROVE  LET row == RowOr(t, k, NoVaultOrder)
         IN  RowOr(Take(t, k, n), x, NoVaultOrder)
               = IF x = k THEN [requested |-> row.requested - n, claimable |-> row.claimable - n]
                 ELSE RowOr(t, x, NoVaultOrder)
<1> DEFINE row == RowOr(t, k, NoVaultOrder)
           new == [requested |-> row.requested - n, claimable |-> row.claimable - n]
<1>1. row \in Rows /\ n <= row.claimable /\ row.claimable <= row.requested  OBVIOUS
<1> HIDE DEF row
<1>2. NonNegative(row.requested - n) = row.requested - n /\ NonNegative(row.claimable - n) = row.claimable - n
  BY <1>1 DEF NonNegative, Rows
<1>3. Take(t, k, n) = SaveOrClear(t, k, new)  BY <1>2 DEF Take, row
<1>4. DOMAIN new = {"requested", "claimable"}  OBVIOUS
<1>5. CASE \A f \in DOMAIN new : new[f] = 0
  <2>1. new.requested = 0 /\ new.claimable = 0  BY <1>4, <1>5
  <2>2. new = NoVaultOrder  BY <2>1 DEF NoVaultOrder
  <2> HIDE DEF new
  <2>3. Take(t, k, n) = Delete(t, k)  BY <1>3, <1>5 DEF SaveOrClear
  <2>4. RowOr(Delete(t, k), x, NoVaultOrder) = IF x = k THEN NoVaultOrder ELSE RowOr(t, x, NoVaultOrder)
    BY RowOrDelete
  <2>5. RowOr(Take(t, k, n), x, NoVaultOrder) = IF x = k THEN new ELSE RowOr(t, x, NoVaultOrder)
    BY <2>2, <2>3, <2>4
  <2> QED BY <2>5 DEF new, row
<1>6. CASE ~ \A f \in DOMAIN new : new[f] = 0
  <2> HIDE DEF new
  <2>1. Take(t, k, n) = Put(t, k, new)  BY <1>3, <1>6 DEF SaveOrClear
  <2>2. RowOr(Take(t, k, n), x, NoVaultOrder) = IF x = k THEN new ELSE RowOr(t, x, NoVaultOrder)
    BY <2>1, RowOrPut
  <2> QED BY <2>2 DEF new, row
<1> QED BY <1>5, <1>6

\* An account's row changes as its part of the vault's requests.
LEMMA VaultStep ==
  ASSUME ShapeInv, VaultInv, NEW u \in Investors, NEW new \in Owed,
         owner' = [owner EXCEPT ![u] = new], flow' = flow, dropped' \in BOOLEAN, dropped => dropped',
         orders'.vault = orders.vault,
         /\ flow \in {"vaultDeposit", "vaultRedeem"} /\ orders.vault = "Async" /\ ~dropped'
              => \A v \in Users : RowOf(v)' = IF v = u THEN Shown(new) ELSE RowOf(v)
  PROVE  VaultInv'
<1>1. Investors' = Investors  BY DEF Investors
<1>2. owner' \in [Investors -> Owed]
  BY DEF VaultInv
<1>3. ASSUME flow \in {"vaultDeposit", "vaultRedeem"}, orders.vault = "Async", ~dropped', NEW v \in Users
      PROVE  RowOf(v)' = Shown(owner'[v])
  <2>1. RowOf(v) = Shown(owner[v])  BY <1>3 DEF VaultInv
  <2>2. Investors = Users  BY <1>3 DEF Investors
  <2>3. owner'[v] = IF v = u THEN new ELSE owner[v]  BY <2>2 DEF VaultInv
  <2> QED BY <1>3, <2>1, <2>3
<1> QED BY <1>1, <1>2, <1>3 DEF VaultInv

\* What a log of a vault does to the vault's rows.
LEMMA VaultLogs ==
  ASSUME Shaped(orders), orders.vault = "Async"
  PROVE  /\ \A u, n, held : OnDepositRequest(orders, Event, Spoke, Asset, u, n, held).vaultInvest
                              = AddRequested(orders.vaultInvest, <<Spoke, Asset, u>>, n)
         /\ \A u, n : OnRedeemRequest(orders, Event, Spoke, Asset, u, n).vaultRedeem
                        = AddRequested(orders.vaultRedeem, <<Spoke, Asset, u>>, n)
         /\ Has(orders.instance, Spoke) =>
              /\ \A u, n : OnDepositClaimable(orders, Event, Spoke, Asset, u, n).vaultInvest
                             = AddClaimable(orders.vaultInvest, <<Spoke, Asset, u>>, n)
              /\ \A u, n : OnRedeemClaimable(orders, Event, Spoke, Asset, u, n).vaultRedeem
                             = AddClaimable(orders.vaultRedeem, <<Spoke, Asset, u>>, n)
              /\ \A u, n : OnDeposit(orders, Event, Spoke, Asset, u, n, n).vaultInvest
                             = Take(orders.vaultInvest, <<Spoke, Asset, u>>, n)
              /\ \A u, n : OnWithdraw(orders, Event, Spoke, Asset, u, n).vaultRedeem
                             = Take(orders.vaultRedeem, <<Spoke, Asset, u>>, n)
<1>1. \A u, n, held : OnDepositRequest(orders, Event, Spoke, Asset, u, n, held).vaultInvest
                       = AddRequested(orders.vaultInvest, <<Spoke, Asset, u>>, n)
  BY DepositRequestEffect
<1>2. \A u, n : OnRedeemRequest(orders, Event, Spoke, Asset, u, n).vaultRedeem
                 = AddRequested(orders.vaultRedeem, <<Spoke, Asset, u>>, n)
  BY RedeemRequestEffect
<1>3. ASSUME Has(orders.instance, Spoke), NEW u, NEW n
      PROVE  OnDepositClaimable(orders, Event, Spoke, Asset, u, n).vaultInvest
               = AddClaimable(orders.vaultInvest, <<Spoke, Asset, u>>, n)
  BY <1>3, DepositClaimableEffect
<1>4. ASSUME Has(orders.instance, Spoke), NEW u, NEW n
      PROVE  OnRedeemClaimable(orders, Event, Spoke, Asset, u, n).vaultRedeem
               = AddClaimable(orders.vaultRedeem, <<Spoke, Asset, u>>, n)
  BY <1>4, RedeemClaimableEffect
<1>5. ASSUME Has(orders.instance, Spoke), NEW u, NEW n
      PROVE  OnDeposit(orders, Event, Spoke, Asset, u, n, n).vaultInvest
               = Take(orders.vaultInvest, <<Spoke, Asset, u>>, n)
  BY <1>5, DepositEffect
<1>6. ASSUME Has(orders.instance, Spoke), NEW u, NEW n
      PROVE  OnWithdraw(orders, Event, Spoke, Asset, u, n).vaultRedeem
               = Take(orders.vaultRedeem, <<Spoke, Asset, u>>, n)
  BY <1>6, WithdrawEffect
<1> QED BY <1>1, <1>2, <1>3, <1>4, <1>5, <1>6

LEMMA VaultRequestOK ==
  ASSUME ShapeInv, VaultInv, NEW u \in Users, NEW n \in Amounts, VaultRequest(u, n), flow' = flow,
         flow \notin HubFlows
  PROVE  VaultInv'
<1> DEFINE new == [owner[u] EXCEPT !.pending = @ + n]
<1>1. n \in Nat /\ Shaped(orders) /\ Investors = Users
  BY OrderSystemAssumption DEF ShapeInv, Investors, HubFlows
<1>2. owner[u] \in Owed  BY <1>1 DEF VaultInv
<1>3. new \in Owed /\ Shown(new) = [requested |-> Shown(owner[u]).requested + n, claimable |-> owner[u].claimable]
  BY <1>1, <1>2 DEF Owed, Shown
<1>4. owner' = [owner EXCEPT ![u] = new]
  BY <1>1 DEF VaultRequest, VaultInv
<1>5. PICK held : orders' = IF flow = "vaultDeposit" THEN OnDepositRequest(orders, Event, Spoke, Asset, u, n, held)
                            ELSE OnRedeemRequest(orders, Event, Spoke, Asset, u, n)
  BY DEF VaultRequest
<1>6. orders'.vault = orders.vault
  BY <1>1, <1>5, DepositRequestEffect, RedeemRequestEffect, ApartFields
<1>7. ASSUME flow \in {"vaultDeposit", "vaultRedeem"}, orders.vault = "Async", ~dropped', NEW v \in Users
      PROVE  RowOf(v)' = IF v = u THEN Shown(new) ELSE RowOf(v)
  <2> DEFINE k == <<Spoke, Asset, u>>
  <2>1. VaultRows' = AddRequested(VaultRows, k, n)
    <3>1. CASE flow = "vaultDeposit"
      <4> DEFINE e == OnDepositRequest(orders, Event, Spoke, Asset, u, n, held)
      <4>1. orders' = e  BY <1>5, <3>1
      <4>2. e.vaultInvest = AddRequested(orders.vaultInvest, k, n)  BY <1>1, <1>7, VaultLogs
      <4> HIDE DEF e, k
      <4> QED BY <3>1, <4>1, <4>2 DEF VaultRows
    <3>2. CASE flow = "vaultRedeem"
      <4> DEFINE e == OnRedeemRequest(orders, Event, Spoke, Asset, u, n)
      <4>1. orders' = e  BY <1>5, <3>2
      <4>2. e.vaultRedeem = AddRequested(orders.vaultRedeem, k, n)  BY <1>1, <1>7, VaultLogs
      <4> HIDE DEF e, k
      <4> QED BY <3>2, <4>1, <4>2 DEF VaultRows
    <3> QED BY <1>7, <3>1, <3>2
  <2>2. dropped' = dropped  BY DEF VaultRequest
  <2>3. RowOf(u) = Shown(owner[u]) /\ Shown(owner[u]) \in Rows
        /\ Shown(owner[u]).claimable = owner[u].claimable /\ Shown(owner[u]).claimable <= Shown(owner[u]).requested
    BY <1>2, <1>7, <2>2, ShownType DEF VaultInv, Shown
  <2>4. <<Spoke, Asset, v>> = k <=> v = u  OBVIOUS
  <2>5. RowOr(AddRequested(VaultRows, k, n), <<Spoke, Asset, v>>, NoVaultOrder)
          = IF <<Spoke, Asset, v>> = k THEN Shown(new) ELSE RowOr(VaultRows, <<Spoke, Asset, v>>, NoVaultOrder)
    BY <1>1, <1>3, <2>3, AddEffect DEF RowOf
  <2>6. RowOf(v)' = RowOr(VaultRows', <<Spoke, Asset, v>>, NoVaultOrder)  BY DEF RowOf
  <2> HIDE DEF k, new
  <2> QED BY <2>1, <2>4, <2>5, <2>6 DEF RowOf
<1>8. dropped' = dropped  BY DEF VaultRequest
<1>9. dropped' \in BOOLEAN /\ (dropped => dropped')  BY <1>8 DEF VaultInv
<1> HIDE DEF new
<1> QED BY <1>1, <1>3, <1>4, <1>6, <1>7, <1>9, VaultStep

LEMMA VaultClaimableOK ==
  ASSUME ShapeInv, VaultInv, NEW u \in Users, NEW n \in 1..owner[u].pending, VaultClaimable(u, n), flow' = flow,
         flow \notin HubFlows
  PROVE  VaultInv'
<1> DEFINE new == [owner[u] EXCEPT !.pending = @ - n, !.claimable = @ + n]
<1>0. Shaped(orders) /\ Investors = Users  BY DEF ShapeInv, Investors, HubFlows
<1>2. owner[u] \in Owed  BY <1>0 DEF VaultInv
<1>1. n \in Nat /\ Shaped(orders) /\ Investors = Users  BY <1>0, <1>2 DEF Owed
<1>3. new \in Owed /\ Shown(new) = [requested |-> Shown(owner[u]).requested, claimable |-> owner[u].claimable + n]
  BY <1>2, PendingMoves
<1>4. owner' = [owner EXCEPT ![u] = new]
  BY <1>1 DEF VaultClaimable, VaultInv
<1>5. orders' = IF flow = "vaultDeposit" THEN OnDepositClaimable(orders, Event, Spoke, Asset, u, n)
                            ELSE OnRedeemClaimable(orders, Event, Spoke, Asset, u, n)
  BY DEF VaultClaimable
<1>6. orders'.vault = orders.vault
  BY <1>1, <1>5, DepositClaimableEffect, RedeemClaimableEffect, ApartFields
<1>7. ASSUME flow \in {"vaultDeposit", "vaultRedeem"}, orders.vault = "Async", ~dropped', NEW v \in Users
      PROVE  RowOf(v)' = IF v = u THEN Shown(new) ELSE RowOf(v)
  <2> DEFINE k == <<Spoke, Asset, u>>
  <2>2. ~dropped /\ Has(orders.instance, Spoke)  BY <1>7 DEF VaultClaimable, VaultDrops
  <2>1. VaultRows' = AddClaimable(VaultRows, k, n)
    <3>1. CASE flow = "vaultDeposit"
      <4> DEFINE e == OnDepositClaimable(orders, Event, Spoke, Asset, u, n)
      <4>1. orders' = e  BY <1>5, <3>1
      <4>2. e.vaultInvest = AddClaimable(orders.vaultInvest, k, n)  BY <1>1, <1>7, <2>2, VaultLogs
      <4> HIDE DEF e, k
      <4> QED BY <3>1, <4>1, <4>2 DEF VaultRows
    <3>2. CASE flow = "vaultRedeem"
      <4> DEFINE e == OnRedeemClaimable(orders, Event, Spoke, Asset, u, n)
      <4>1. orders' = e  BY <1>5, <3>2
      <4>2. e.vaultRedeem = AddClaimable(orders.vaultRedeem, k, n)  BY <1>1, <1>7, <2>2, VaultLogs
      <4> HIDE DEF e, k
      <4> QED BY <3>2, <4>1, <4>2 DEF VaultRows
    <3> QED BY <1>7, <3>1, <3>2
  <2>3. RowOf(u) = Shown(owner[u]) /\ Shown(owner[u]) \in Rows
        /\ Shown(owner[u]).claimable = owner[u].claimable /\ Shown(owner[u]).claimable <= Shown(owner[u]).requested
    BY <1>2, <1>7, <2>2, ShownType DEF VaultInv, Shown
  <2>4. <<Spoke, Asset, v>> = k <=> v = u  OBVIOUS
  <2>5. RowOr(AddClaimable(VaultRows, k, n), <<Spoke, Asset, v>>, NoVaultOrder)
          = IF <<Spoke, Asset, v>> = k THEN Shown(new) ELSE RowOr(VaultRows, <<Spoke, Asset, v>>, NoVaultOrder)
    BY <1>1, <1>3, <2>3, AddEffect DEF RowOf
  <2>6. RowOf(v)' = RowOr(VaultRows', <<Spoke, Asset, v>>, NoVaultOrder)  BY DEF RowOf
  <2> HIDE DEF k, new
  <2> QED BY <2>1, <2>4, <2>5, <2>6 DEF RowOf
<1>8. dropped' = (dropped \/ ~Has(orders.instance, Spoke))  BY DEF VaultClaimable, VaultDrops
<1>9. dropped' \in BOOLEAN /\ (dropped => dropped')  BY <1>8 DEF VaultInv
<1> HIDE DEF new
<1> QED BY <1>1, <1>3, <1>4, <1>6, <1>7, <1>9, VaultStep

LEMMA VaultTakeOK ==
  ASSUME ShapeInv, VaultInv, NEW u \in Users, NEW n \in 1..owner[u].claimable, VaultTake(u, n), flow' = flow,
         flow \notin HubFlows
  PROVE  VaultInv'
<1> DEFINE new == [owner[u] EXCEPT !.claimable = @ - n]
<1>0. Shaped(orders) /\ Investors = Users  BY DEF ShapeInv, Investors, HubFlows
<1>2. owner[u] \in Owed  BY <1>0 DEF VaultInv
<1>1. n \in Nat /\ Shaped(orders) /\ Investors = Users  BY <1>0, <1>2 DEF Owed
<1>3. new \in Owed /\ Shown(new) = [requested |-> Shown(owner[u]).requested - n, claimable |-> owner[u].claimable - n]
  BY <1>1, <1>2 DEF Owed, Shown
<1>4. owner' = [owner EXCEPT ![u] = new]
  BY <1>1 DEF VaultTake, VaultInv
<1>5. orders' = IF flow = "vaultDeposit" THEN OnDeposit(orders, Event, Spoke, Asset, u, n, n)
                            ELSE OnWithdraw(orders, Event, Spoke, Asset, u, n)
  BY DEF VaultTake
<1>6. orders'.vault = orders.vault
  BY <1>1, <1>5, DepositEffect, WithdrawEffect, ApartFields, KeepsFields
<1>7. ASSUME flow \in {"vaultDeposit", "vaultRedeem"}, orders.vault = "Async", ~dropped', NEW v \in Users
      PROVE  RowOf(v)' = IF v = u THEN Shown(new) ELSE RowOf(v)
  <2> DEFINE k == <<Spoke, Asset, u>>
  <2>2. ~dropped /\ Has(orders.instance, Spoke)  BY <1>7 DEF VaultTake, VaultDrops
  <2>1. VaultRows' = Take(VaultRows, k, n)
    <3>1. CASE flow = "vaultDeposit"
      <4> DEFINE e == OnDeposit(orders, Event, Spoke, Asset, u, n, n)
      <4>1. orders' = e  BY <1>5, <3>1
      <4>2. e.vaultInvest = Take(orders.vaultInvest, k, n)  BY <1>1, <1>7, <2>2, VaultLogs
      <4> HIDE DEF e, k
      <4> QED BY <3>1, <4>1, <4>2 DEF VaultRows
    <3>2. CASE flow = "vaultRedeem"
      <4> DEFINE e == OnWithdraw(orders, Event, Spoke, Asset, u, n)
      <4>1. orders' = e  BY <1>5, <3>2
      <4>2. e.vaultRedeem = Take(orders.vaultRedeem, k, n)  BY <1>1, <1>7, <2>2, VaultLogs
      <4> HIDE DEF e, k
      <4> QED BY <3>2, <4>1, <4>2 DEF VaultRows
    <3> QED BY <1>7, <3>1, <3>2
  <2>3. RowOf(u) = Shown(owner[u]) /\ Shown(owner[u]) \in Rows
        /\ Shown(owner[u]).claimable = owner[u].claimable /\ Shown(owner[u]).claimable <= Shown(owner[u]).requested
    BY <1>2, <1>7, <2>2, ShownType DEF VaultInv, Shown
  <2>4. <<Spoke, Asset, v>> = k <=> v = u  OBVIOUS
  <2>5. RowOr(Take(VaultRows, k, n), <<Spoke, Asset, v>>, NoVaultOrder)
          = IF <<Spoke, Asset, v>> = k THEN Shown(new) ELSE RowOr(VaultRows, <<Spoke, Asset, v>>, NoVaultOrder)
    BY <1>1, <1>3, <2>3, TakeEffect DEF RowOf
  <2>6. RowOf(v)' = RowOr(VaultRows', <<Spoke, Asset, v>>, NoVaultOrder)  BY DEF RowOf
  <2> HIDE DEF k, new
  <2> QED BY <2>1, <2>4, <2>5, <2>6 DEF RowOf
<1>8. dropped' = (dropped \/ ~Has(orders.instance, Spoke))  BY DEF VaultTake, VaultDrops
<1>9. dropped' \in BOOLEAN /\ (dropped => dropped')  BY <1>8 DEF VaultInv
<1> HIDE DEF new
<1> QED BY <1>1, <1>3, <1>4, <1>6, <1>7, <1>9, VaultStep

LEMMA VaultCancelOK ==
  ASSUME ShapeInv, VaultInv, NEW u \in Users, NEW n \in 1..owner[u].pending, VaultCancel(u, n), flow' = flow,
         flow \notin HubFlows
  PROVE  VaultInv'
<1> DEFINE new == [owner[u] EXCEPT !.pending = @ - n, !.cancelled = @ + n]
<1>1. Investors = Users  BY DEF Investors, HubFlows
<1>2. owner[u] \in Owed  BY <1>1 DEF VaultInv
<1>3. new \in Owed /\ Shown(new) = Shown(owner[u])  BY <1>2, PendingMoves
<1>4. owner' = [owner EXCEPT ![u] = new] /\ UNCHANGED <<dropped, orders>>
  BY <1>1 DEF VaultCancel, VaultInv
<1>5. ASSUME flow \in {"vaultDeposit", "vaultRedeem"}, orders.vault = "Async", ~dropped', NEW v \in Users
      PROVE  RowOf(v)' = IF v = u THEN Shown(new) ELSE RowOf(v)
  <2>1. RowOf(v)' = RowOf(v)  BY <1>4 DEF RowOf, VaultRows
  <2>2. RowOf(u) = Shown(new)  BY <1>3, <1>4, <1>5 DEF VaultInv
  <2> QED BY <2>1, <2>2
<1>6. dropped' \in BOOLEAN /\ (dropped => dropped')  BY <1>4 DEF VaultInv
<1> HIDE DEF new
<1> QED BY <1>1, <1>3, <1>4, <1>5, <1>6, VaultStep

LEMMA VaultNextOK == ASSUME ShapeInv, VaultInv, OrdersNext PROVE VaultInv'
<1>1. flow' = flow  BY DEF OrdersNext
<1>2. CASE UNCHANGED <<owner, dropped>> /\ orders'.vault = orders.vault
           /\ (flow \in {"vaultDeposit", "vaultRedeem"} => VaultRows' = VaultRows)
  <2>1. Investors' = Investors  BY <1>1 DEF Investors
  <2> QED BY <1>1, <1>2, <2>1 DEF VaultInv, RowOf
<1>3. CASE flow \in HubFlows /\ HubNext
  <2>1. UNCHANGED <<owner, dropped>> /\ orders'.vault = orders.vault
    BY <1>3, HubShape DEF HubNext, ShapeInv
  <2> QED BY <1>2, <1>3, <2>1 DEF HubFlows
<1>4. CASE flow = "basin" /\ RedeemerNext
  <2>1. UNCHANGED <<owner, dropped>> /\ orders'.vault = orders.vault
    BY <1>4, RedeemerShape DEF RedeemerNext, ShapeInv
  <2> QED BY <1>2, <1>4, <2>1
<1>5. CASE Known
  <2>1. UNCHANGED <<owner, dropped>>  BY <1>5 DEF Known
  <2>2. /\ orders'.vault = orders.vault /\ orders'.vaultInvest = orders.vaultInvest
        /\ orders'.vaultRedeem = orders.vaultRedeem
    BY <1>5, KnownShape DEF ShapeInv
  <2>3. VaultRows' = VaultRows  BY <1>1, <2>2 DEF VaultRows
  <2> QED BY <1>2, <2>1, <2>2, <2>3
<1>6. CASE flow \notin HubFlows /\ VaultNext
  <2>1. ASSUME NEW a, NEW u, NEW n, SyncDeposits(a, u, n), flow = "syncDeposit" PROVE VaultInv'
    <3>1. UNCHANGED <<owner, dropped>>  BY <2>1 DEF SyncDeposits
    <3>2. orders'.vault = orders.vault  BY <1>6, VaultShape, KeepsFields DEF ShapeInv
    <3> QED BY <1>2, <2>1, <3>1, <3>2
  <2> QED BY <1>1, <1>6, <2>1, VaultRequestOK, VaultClaimableOK, VaultCancelOK, VaultTakeOK DEF VaultNext
<1> QED BY <1>3, <1>4, <1>5, <1>6 DEF OrdersNext

LEMMA VaultInit == OrdersInit => VaultInv
<1> SUFFICES ASSUME OrdersInit PROVE VaultInv  OBVIOUS
<1>1. owner = [u \in Investors |-> NothingOwed] /\ dropped = FALSE  BY DEF OrdersInit
<1>2. NothingOwed \in Owed /\ Shown(NothingOwed) = NoVaultOrder  BY DEF NothingOwed, NoVaultOrder, Owed, Shown
<1>3. ASSUME flow \in {"vaultDeposit", "vaultRedeem"}, NEW u \in Users PROVE RowOf(u) = Shown(owner[u])
  <2>1. Investors = Users  BY <1>3 DEF Investors
  <2>2. VaultRows = EmptyTable  BY InitTables DEF VaultRows
  <2> QED BY <1>1, <1>2, <2>1, <2>2 DEF RowOf, RowOr, Has, EmptyTable
<1> QED BY <1>1, <1>2, <1>3 DEF VaultInv

\* The row of an account shows what it may claim and all it has asked for and not claimed,
\* whatever is asked for, paid, cancelled and claimed in parts: a row that reaches 0 is
\* deleted and starts again.
THEOREM VaultRowsAdded == OrdersSpec => []VaultRowsAddUp
<1>1. ASSUME VaultInv, UNCHANGED orderVars PROVE VaultInv'
  <2>1. UNCHANGED <<flow, owner, dropped, orders>>  BY <1>1 DEF orderVars
  <2>2. Investors' = Investors  BY <2>1 DEF Investors
  <2>3. VaultRows' = VaultRows  BY <2>1 DEF VaultRows
  <2>4. \A u \in Users : RowOf(u)' = RowOf(u)  BY <2>3 DEF RowOf
  <2> QED BY <1>1, <2>1, <2>2, <2>4 DEF VaultInv
<1>2. ShapeInv /\ VaultInv /\ [OrdersNext]_orderVars => VaultInv'  BY <1>1, VaultNextOK
<1>3. VaultInv => VaultRowsAddUp  BY DEF VaultInv, VaultRowsAddUp, RowOf
<1> QED BY <1>2, <1>3, VaultInit, ShapeHolds, PTL DEF OrdersSpec

-----------------------------------------------------------------------------
(* Synchronous deposits *)

OrdersOf(s, u) == {k \in DOMAIN s.order : k[2] = u}
EpochsOf(s, a) == {k \in DOMAIN s.epoch : k[1] = a}

\* The orders of an account, and the epochs of an asset, are numbered 0, -1, -2...
\* without a gap, so that the next number is free.
Numbered(s) ==
  /\ DOMAIN s = SideFields /\ IsFiniteSet(DOMAIN s.order) /\ IsFiniteSet(DOMAIN s.epoch)
  /\ \A k \in DOMAIN s.order : \E a, u : \E n \in 0..(Cardinality(OrdersOf(s, u)) - 1) : k = <<a, u, -n>>
  /\ \A k \in DOMAIN s.epoch : \E a : \E n \in 0..(Cardinality(EpochsOf(s, a)) - 1) : k = <<a, -n>>

LEMMA NextIndexCounts ==
  ASSUME NEW K, \A k \in K : k[Len(k)] <= 0
  PROVE  NextSyncIndex(K) = -Cardinality(K)
<1>1. {k \in K : k[Len(k)] <= 0} = K  OBVIOUS
<1> QED BY <1>1 DEF NextSyncIndex

LEMMA OrdersOfCount ==
  ASSUME NEW s, Numbered(s), NEW u, NEW a
  PROVE  /\ Cardinality(OrdersOf(s, u)) \in Nat /\ Cardinality(EpochsOf(s, a)) \in Nat
         /\ IsFiniteSet(OrdersOf(s, u)) /\ IsFiniteSet(EpochsOf(s, a))
<1>1. OrdersOf(s, u) \subseteq DOMAIN s.order /\ EpochsOf(s, a) \subseteq DOMAIN s.epoch
  BY DEF OrdersOf, EpochsOf
<1> QED BY <1>1, FS_Subset, FS_CardinalityType DEF Numbered

LEMMA SyncDepositIsNew ==
  ASSUME NEW s, Numbered(s), NEW ev, NEW a, NEW u, NEW n
  PROVE  LET t == SyncDeposit(s, ev, a, u, n, n)
             k == <<a, u, -Cardinality(OrdersOf(s, u))>>
             j == <<a, -Cardinality(EpochsOf(s, a))>>
         IN  /\ k \notin DOMAIN s.order /\ t.order = Put(s.order, k, SyncOrder(ev, n, n))
             /\ j \notin DOMAIN s.epoch /\ t.epoch = Put(s.epoch, j, SyncEpoch(ev, n, n))
             /\ DOMAIN t = SideFields
<1> DEFINE k == <<a, u, -Cardinality(OrdersOf(s, u))>>
           j == <<a, -Cardinality(EpochsOf(s, a))>>
<1>1. ASSUME NEW x \in OrdersOf(s, u) PROVE x[Len(x)] <= 0 /\ x # k
  <2>1. PICK b, v : \E m \in 0..(Cardinality(OrdersOf(s, v)) - 1) : x = <<b, v, -m>>
    BY DEF Numbered, OrdersOf
  <2>2. PICK m \in 0..(Cardinality(OrdersOf(s, v)) - 1) : x = <<b, v, -m>>  BY <2>1
  <2>3. v = u  BY <2>2 DEF OrdersOf
  <2>4. Cardinality(OrdersOf(s, u)) \in Nat  BY OrdersOfCount
  <2>5. m \in Nat /\ m < Cardinality(OrdersOf(s, u))  BY <2>2, <2>3, <2>4
  <2>6. x[Len(x)] = -m /\ x[3] = -m  BY <2>2
  <2>7. k[3] = -Cardinality(OrdersOf(s, u))  OBVIOUS
  <2> HIDE DEF k
  <2> QED BY <2>4, <2>5, <2>6, <2>7
<1>2. ASSUME NEW x \in EpochsOf(s, a) PROVE x[Len(x)] <= 0 /\ x # j
  <2>1. PICK b : \E m \in 0..(Cardinality(EpochsOf(s, b)) - 1) : x = <<b, -m>>
    BY DEF Numbered, EpochsOf
  <2>2. PICK m \in 0..(Cardinality(EpochsOf(s, b)) - 1) : x = <<b, -m>>  BY <2>1
  <2>3. b = a  BY <2>2 DEF EpochsOf
  <2>4. Cardinality(EpochsOf(s, a)) \in Nat  BY OrdersOfCount
  <2>5. m \in Nat /\ m < Cardinality(EpochsOf(s, a))  BY <2>2, <2>3, <2>4
  <2>6. x[Len(x)] = -m /\ x[2] = -m  BY <2>2
  <2>7. j[2] = -Cardinality(EpochsOf(s, a))  OBVIOUS
  <2> HIDE DEF j
  <2> QED BY <2>4, <2>5, <2>6, <2>7
<1>3. k \notin DOMAIN s.order
  <2>1. k[2] = u  OBVIOUS
  <2> HIDE DEF k
  <2> QED BY <1>1, <2>1 DEF OrdersOf
<1>4. j \notin DOMAIN s.epoch
  <2>1. j[1] = a  OBVIOUS
  <2> HIDE DEF j
  <2> QED BY <1>2, <2>1 DEF EpochsOf
<1>5. NextSyncIndex({x \in DOMAIN s.order : x[2] = u}) = -Cardinality(OrdersOf(s, u))
  <2>1. NextSyncIndex(OrdersOf(s, u)) = -Cardinality(OrdersOf(s, u))  BY <1>1, NextIndexCounts
  <2> QED BY <2>1 DEF OrdersOf
<1>6. NextSyncIndex({x \in DOMAIN s.epoch : x[1] = a}) = -Cardinality(EpochsOf(s, a))
  <2>1. NextSyncIndex(EpochsOf(s, a)) = -Cardinality(EpochsOf(s, a))  BY <1>2, NextIndexCounts
  <2> QED BY <2>1 DEF EpochsOf
<1>7. SyncDeposit(s, ev, a, u, n, n)
        = [s EXCEPT !.order = Insert(s.order, k, SyncOrder(ev, n, n)), !.epoch = Insert(s.epoch, j, SyncEpoch(ev, n, n))]
  BY <1>5, <1>6 DEF SyncDeposit
<1> HIDE DEF k, j
<1>8. Insert(s.order, k, SyncOrder(ev, n, n)) = Put(s.order, k, SyncOrder(ev, n, n))  BY <1>3 DEF Insert, Has
<1>9. Insert(s.epoch, j, SyncEpoch(ev, n, n)) = Put(s.epoch, j, SyncEpoch(ev, n, n))  BY <1>4 DEF Insert, Has
<1>10. "order" \in DOMAIN s /\ "epoch" \in DOMAIN s /\ DOMAIN s = SideFields  BY DEF Numbered, SideFields
<1>11. SyncDeposit(s, ev, a, u, n, n).order = Put(s.order, k, SyncOrder(ev, n, n))
  BY <1>7, <1>8, <1>10
<1>12. SyncDeposit(s, ev, a, u, n, n).epoch = Put(s.epoch, j, SyncEpoch(ev, n, n))
  BY <1>7, <1>9, <1>10
<1>13. DOMAIN SyncDeposit(s, ev, a, u, n, n) = SideFields  BY <1>7, <1>10
<1> QED BY <1>3, <1>4, <1>11, <1>12, <1>13 DEF k, j

LEMMA SyncDepositKey ==
  ASSUME NEW s, Numbered(s), NEW ev, NEW a, NEW u, NEW n
  PROVE  \E k : /\ k[2] = u /\ k \notin DOMAIN s.order
                /\ SyncDeposit(s, ev, a, u, n, n).order = Put(s.order, k, SyncOrder(ev, n, n))
<1> DEFINE k == <<a, u, -Cardinality(OrdersOf(s, u))>>
           j == <<a, -Cardinality(EpochsOf(s, a))>>
<1>1. /\ k \notin DOMAIN s.order /\ SyncDeposit(s, ev, a, u, n, n).order = Put(s.order, k, SyncOrder(ev, n, n))
      /\ j \notin DOMAIN s.epoch
  BY SyncDepositIsNew
<1>2. k[2] = u  OBVIOUS
<1> HIDE DEF k
<1> QED BY <1>1, <1>2

LEMMA SyncDepositNumbered ==
  ASSUME NEW s, Numbered(s), NEW ev, NEW a, NEW u, NEW n
  PROVE  LET t == SyncDeposit(s, ev, a, u, n, n)
         IN  /\ Numbered(t)
             /\ Cardinality(DOMAIN t.order) = Cardinality(DOMAIN s.order) + 1
             /\ Cardinality(DOMAIN t.epoch) = Cardinality(DOMAIN s.epoch) + 1
<1> DEFINE t == SyncDeposit(s, ev, a, u, n, n)
           c == Cardinality(OrdersOf(s, u))
           g == Cardinality(EpochsOf(s, a))
           k == <<a, u, -c>>
           j == <<a, -g>>
<1>1. /\ k \notin DOMAIN s.order /\ t.order = Put(s.order, k, SyncOrder(ev, n, n))
      /\ j \notin DOMAIN s.epoch /\ t.epoch = Put(s.epoch, j, SyncEpoch(ev, n, n))
      /\ DOMAIN t = SideFields
  BY SyncDepositIsNew
<1> HIDE DEF t
<1>2. DOMAIN t.order = DOMAIN s.order \cup {k} /\ DOMAIN t.epoch = DOMAIN s.epoch \cup {j}  BY <1>1 DEF Put
<1>3. /\ IsFiniteSet(DOMAIN t.order) /\ Cardinality(DOMAIN t.order) = Cardinality(DOMAIN s.order) + 1
      /\ IsFiniteSet(DOMAIN t.epoch) /\ Cardinality(DOMAIN t.epoch) = Cardinality(DOMAIN s.epoch) + 1
  <2> HIDE DEF k, j, c, g
  <2>1. IsFiniteSet(DOMAIN s.order) /\ IsFiniteSet(DOMAIN s.epoch)  BY DEF Numbered
  <2>2. IsFiniteSet(DOMAIN t.order) /\ Cardinality(DOMAIN t.order) = Cardinality(DOMAIN s.order) + 1
    BY <1>1, <1>2, <2>1, FS_AddElement
  <2>3. IsFiniteSet(DOMAIN t.epoch) /\ Cardinality(DOMAIN t.epoch) = Cardinality(DOMAIN s.epoch) + 1
    BY <1>1, <1>2, <2>1, FS_AddElement
  <2> QED BY <2>2, <2>3
<1>4. c \in Nat /\ g \in Nat  BY OrdersOfCount
<1>5. k[2] = u /\ j[1] = a  OBVIOUS
<1>6. OrdersOf(t, u) = OrdersOf(s, u) \cup {k} /\ \A v : v # u => OrdersOf(t, v) = OrdersOf(s, v)
  <2> HIDE DEF k
  <2> QED BY <1>2, <1>5 DEF OrdersOf
<1>7. EpochsOf(t, a) = EpochsOf(s, a) \cup {j} /\ \A b : b # a => EpochsOf(t, b) = EpochsOf(s, b)
  <2> HIDE DEF j
  <2> QED BY <1>2, <1>5 DEF EpochsOf
<1>8. Cardinality(OrdersOf(t, u)) = c + 1
  <2>1. k \notin OrdersOf(s, u) /\ IsFiniteSet(OrdersOf(s, u))  BY <1>1, OrdersOfCount DEF OrdersOf
  <2> QED BY <1>6, <2>1, FS_AddElement
<1>9. Cardinality(EpochsOf(t, a)) = g + 1
  <2>1. j \notin EpochsOf(s, a) /\ IsFiniteSet(EpochsOf(s, a))  BY <1>1, OrdersOfCount DEF EpochsOf
  <2> QED BY <1>7, <2>1, FS_AddElement
<1>10. ASSUME NEW x \in DOMAIN t.order
       PROVE  \E b, v : \E m \in 0..(Cardinality(OrdersOf(t, v)) - 1) : x = <<b, v, -m>>
  <2>1. CASE x = k  BY <1>4, <1>8, <2>1
  <2>2. CASE x # k
    <3>1. PICK b, v : \E m \in 0..(Cardinality(OrdersOf(s, v)) - 1) : x = <<b, v, -m>>
      BY <1>2, <2>2 DEF Numbered
    <3>2. PICK m \in 0..(Cardinality(OrdersOf(s, v)) - 1) : x = <<b, v, -m>>  BY <3>1
    <3>3. m \in 0..(Cardinality(OrdersOf(t, v)) - 1)
      <4>1. CASE v = u  BY <1>4, <1>8, <3>2, <4>1
      <4>2. CASE v # u  BY <1>6, <3>2, <4>2
      <4> QED BY <4>1, <4>2
    <3> QED BY <3>2, <3>3
  <2> QED BY <2>1, <2>2
<1>11. ASSUME NEW x \in DOMAIN t.epoch
       PROVE  \E b : \E m \in 0..(Cardinality(EpochsOf(t, b)) - 1) : x = <<b, -m>>
  <2>1. CASE x = j  BY <1>4, <1>9, <2>1
  <2>2. CASE x # j
    <3>1. PICK b : \E m \in 0..(Cardinality(EpochsOf(s, b)) - 1) : x = <<b, -m>>
      BY <1>2, <2>2 DEF Numbered
    <3>2. PICK m \in 0..(Cardinality(EpochsOf(s, b)) - 1) : x = <<b, -m>>  BY <3>1
    <3>3. m \in 0..(Cardinality(EpochsOf(t, b)) - 1)
      <4>1. CASE b = a  BY <1>4, <1>9, <3>2, <4>1
      <4>2. CASE b # a  BY <1>7, <3>2, <4>2
      <4> QED BY <4>1, <4>2
    <3> QED BY <3>2, <3>3
  <2> QED BY <2>1, <2>2
<1>12. Numbered(t)  BY <1>1, <1>3, <1>10, <1>11 DEF Numbered
<1> QED BY <1>3, <1>12 DEF t

Logged == Assets \X Users \X Amounts

\* What an account deposited, as the orders have it and as the vault logged it.
Booked(order, u) == [k \in DOMAIN order |-> IF k[2] = u THEN order[k].claimed ELSE 0]
ClaimsCount(order) == \A k \in DOMAIN order : order[k].claimed \in Int
Deposited(log, u) == [i \in DOMAIN log |-> IF log[i][2] = u THEN log[i][3] ELSE 0]

SyncInv ==
  flow = "syncDeposit" =>
    LET s == orders.invest
    IN  /\ \A u \in Users : owner[u] = NothingOwed
        /\ Numbered(s)
        /\ deposits \in Seq(Logged)
        /\ Cardinality(DOMAIN s.order) = Len(deposits) /\ Cardinality(DOMAIN s.epoch) = Len(deposits)
        /\ ClaimsCount(s.order)
        /\ \A u \in Users : SumFunction(Booked(s.order, u)) = SumFunction(Deposited(deposits, u))

LEMMA SyncTotal ==
  ASSUME NEW order, IsFiniteSet(DOMAIN order), \A k \in DOMAIN order : order[k].claimed \in Int,
         NEW k, k \notin DOMAIN order, NEW row, row.claimed \in Int, NEW u
  PROVE  SumFunction(Booked(Put(order, k, row), u))
           = SumFunction(Booked(order, u)) + (IF k[2] = u THEN row.claimed ELSE 0)
<1> DEFINE v == Booked(Put(order, k, row), u)
           w == Booked(order, u)
<1>1. DOMAIN w = DOMAIN order /\ \A x \in DOMAIN order : w[x] = IF x[2] = u THEN order[x].claimed ELSE 0
  BY DEF Booked
<1>2. DOMAIN v = DOMAIN order \cup {k} /\ v[k] = (IF k[2] = u THEN row.claimed ELSE 0)
  BY DEF Booked, Put
<1>3. \A x \in DOMAIN order : v[x] = w[x]  BY DEF Booked, Put
<1> HIDE DEF v, w
<1>4. IsSummable(w)  BY <1>1 DEF IsSummable
<1>5. v[k] \in Int  BY <1>2
<1>6. SumFunction(v) = SumFunction(w) + v[k]  BY <1>1, <1>2, <1>3, <1>4, <1>5, SumOfNew
<1> QED BY <1>2, <1>6 DEF v, w

\* A deposit adds its amount to those of its account.
LEMMA SyncDepositAdds ==
  ASSUME NEW s, Numbered(s), ClaimsCount(s.order),
         NEW ev, NEW a, NEW u, NEW n, n \in Int
  PROVE  LET t == SyncDeposit(s, ev, a, u, n, n)
         IN  /\ Numbered(t) /\ ClaimsCount(t.order)
             /\ Cardinality(DOMAIN t.order) = Cardinality(DOMAIN s.order) + 1
             /\ Cardinality(DOMAIN t.epoch) = Cardinality(DOMAIN s.epoch) + 1
             /\ \A v : SumFunction(Booked(t.order, v)) = SumFunction(Booked(s.order, v)) + (IF u = v THEN n ELSE 0)
<1>0. PICK t : t = SyncDeposit(s, ev, a, u, n, n)  OBVIOUS
<1>1. /\ Numbered(t)
      /\ Cardinality(DOMAIN t.order) = Cardinality(DOMAIN s.order) + 1
      /\ Cardinality(DOMAIN t.epoch) = Cardinality(DOMAIN s.epoch) + 1
  BY <1>0, SyncDepositNumbered
<1>2. PICK k : k[2] = u /\ k \notin DOMAIN s.order /\ t.order = Put(s.order, k, SyncOrder(ev, n, n))
  BY <1>0, SyncDepositKey
<1>3. PICK row : row = SyncOrder(ev, n, n)  OBVIOUS
<1>4. row.claimed = n  BY <1>3 DEF SyncOrder
<1>5. ClaimsCount(t.order)  BY <1>2, <1>3, <1>4 DEF Put, ClaimsCount
<1>6. ASSUME NEW v
      PROVE  SumFunction(Booked(t.order, v)) = SumFunction(Booked(s.order, v)) + (IF u = v THEN n ELSE 0)
  <2>1. SumFunction(Booked(Put(s.order, k, row), v))
          = SumFunction(Booked(s.order, v)) + (IF k[2] = v THEN row.claimed ELSE 0)
    BY <1>2, <1>4, SyncTotal DEF Numbered, ClaimsCount
  <2> QED BY <1>2, <1>3, <1>4, <2>1
<1> QED BY <1>0, <1>1, <1>5, <1>6

LEMMA DepositTotal ==
  ASSUME NEW log \in Seq(Logged), NEW new, NEW x \in Logged,
         DOMAIN new = 1..(Len(log) + 1), new[Len(log) + 1] = x, \A i \in 1..Len(log) : new[i] = log[i], NEW v
  PROVE  SumFunction(Deposited(new, v)) = SumFunction(Deposited(log, v)) + (IF x[2] = v THEN x[3] ELSE 0)
<1> DEFINE w == Deposited(log, v)
           z == Deposited(new, v)
           k == Len(log) + 1
<1>1. DOMAIN log = 1..Len(log) /\ Len(log) \in Nat  OBVIOUS
<1>2. DOMAIN new = DOMAIN log \cup {k} /\ new[k] = x /\ k \notin DOMAIN log  BY <1>1
<1>3. x[3] \in Int /\ \A i \in DOMAIN log : log[i][3] \in Int
  <2>1. \A i \in DOMAIN log : log[i] \in Logged  BY <1>1
  <2>2. \A y \in Logged : y[3] \in Amounts  BY DEF Logged
  <2>3. Amounts \subseteq Int  BY OrderSystemAssumption
  <2> QED BY <2>1, <2>2, <2>3
<1> HIDE DEF k
<1>4. DOMAIN w = DOMAIN log /\ \A i \in DOMAIN log : w[i] = IF log[i][2] = v THEN log[i][3] ELSE 0
  BY DEF Deposited
<1>5. DOMAIN z = DOMAIN log \cup {k} /\ z[k] = (IF x[2] = v THEN x[3] ELSE 0) /\ \A i \in DOMAIN log : z[i] = w[i]
  BY <1>2 DEF Deposited
<1> HIDE DEF w, z
<1>6. IsSummable(w)
  <2>1. IsFiniteSet(DOMAIN log)  BY <1>1, FS_Interval
  <2> QED BY <1>3, <1>4, <2>1 DEF IsSummable
<1>7. z[k] \in Int  BY <1>3, <1>5
<1>8. SumFunction(z) = SumFunction(w) + z[k]  BY <1>2, <1>4, <1>5, <1>6, <1>7, SumOfNew
<1> QED BY <1>5, <1>8 DEF z, w

LEMMA SyncDepositsEffect ==
  ASSUME ShapeInv, flow = "syncDeposit", NEW a, NEW u, NEW n, SyncDeposits(a, u, n)
  PROVE  IF Has(orders.instance, Spoke)
         THEN orders'.invest = SyncDeposit(orders.invest, Event, a, u, n, n) /\ deposits' = Append(deposits, <<a, u, n>>)
         ELSE orders'.invest = orders.invest /\ deposits' = deposits
<1>1. Shaped(orders) /\ orders.vault \notin {"None", "Async"}  BY DEF ShapeInv
<1>2. orders' = OnDeposit(orders, Event, Spoke, a, u, n, n)  BY DEF SyncDeposits
<1>3. deposits' = IF Has(orders.instance, Spoke) THEN Append(deposits, <<a, u, n>>) ELSE deposits
  BY DEF SyncDeposits
<1>4. /\ ~Has(orders.instance, Spoke) => orders'.invest = orders.invest
      /\ Has(orders.instance, Spoke) => orders'.invest = SyncDeposit(orders.invest, Event, a, u, n, n)
  <2>1. PICK k : k = <<Spoke, a, u>>  OBVIOUS
  <2> QED BY <1>1, <1>2, <2>1, DepositEffect
<1> QED BY <1>3, <1>4

LEMMA SyncDepositOK ==
  ASSUME ShapeInv, SyncInv, flow = "syncDeposit", flow' = flow, owner' = owner,
         NEW a \in Assets, NEW u \in Users, NEW n \in Amounts, SyncDeposits(a, u, n)
  PROVE  SyncInv'
<1>1. CASE ~Has(orders.instance, Spoke)
  <2>1. orders'.invest = orders.invest /\ deposits' = deposits  BY <1>1, SyncDepositsEffect
  <2> QED BY <2>1 DEF SyncInv
<1>2. CASE Has(orders.instance, Spoke)
  <2>1. orders'.invest = SyncDeposit(orders.invest, Event, a, u, n, n) /\ deposits' = Append(deposits, <<a, u, n>>)
    BY <1>2, SyncDepositsEffect
  <2>2. PICK s : s = orders.invest  OBVIOUS
  <2>3. PICK t : t = SyncDeposit(s, Event, a, u, n, n)  OBVIOUS
  <2>4. orders'.invest = t  BY <2>1, <2>2, <2>3
  <2>5. /\ Numbered(s) /\ ClaimsCount(s.order)
        /\ Cardinality(DOMAIN s.order) = Len(deposits) /\ Cardinality(DOMAIN s.epoch) = Len(deposits)
        /\ \A v \in Users : SumFunction(Booked(s.order, v)) = SumFunction(Deposited(deposits, v))
    BY <2>2 DEF SyncInv
  <2>6. deposits \in Seq(Logged)  BY DEF SyncInv
  <2>7. n \in Int
    <3>1. Amounts \subseteq Int  BY OrderSystemAssumption
    <3> QED BY <3>1
  <2>8. /\ Numbered(t) /\ ClaimsCount(t.order)
        /\ Cardinality(DOMAIN t.order) = Cardinality(DOMAIN s.order) + 1
        /\ Cardinality(DOMAIN t.epoch) = Cardinality(DOMAIN s.epoch) + 1
        /\ \A v : SumFunction(Booked(t.order, v)) = SumFunction(Booked(s.order, v)) + (IF u = v THEN n ELSE 0)
    <3>1. Numbered(s) /\ ClaimsCount(s.order)  BY <2>5
    <3> QED BY ONLY <2>3, <2>7, <3>1, SyncDepositAdds
  <2>9. PICK x : x = <<a, u, n>>  OBVIOUS
  <2>10. x \in Logged /\ x[2] = u /\ x[3] = n  BY <2>9 DEF Logged
  <2>11. deposits' = Append(deposits, x)  BY <2>1, <2>9
  <2>12. /\ deposits' \in Seq(Logged) /\ Len(deposits') = Len(deposits) + 1
         /\ DOMAIN deposits' = 1..(Len(deposits) + 1) /\ deposits'[Len(deposits) + 1] = x
         /\ \A i \in 1..Len(deposits) : deposits'[i] = deposits[i]
    BY ONLY <2>6, <2>10, <2>11
  <2>13. ASSUME NEW v \in Users
         PROVE  SumFunction(Deposited(deposits', v)) = SumFunction(Deposited(deposits, v)) + (IF u = v THEN n ELSE 0)
    BY ONLY <2>6, <2>10, <2>12, DepositTotal
  <2>14. \A v \in Users : SumFunction(Booked(t.order, v)) = SumFunction(Deposited(deposits', v))
    BY ONLY <2>5, <2>8, <2>13
  <2>15. Cardinality(DOMAIN t.order) = Len(deposits') /\ Cardinality(DOMAIN t.epoch) = Len(deposits')
    BY ONLY <2>5, <2>8, <2>12
  <2>16. \A v \in Users : owner'[v] = NothingOwed  BY DEF SyncInv
  <2> QED BY ONLY <2>4, <2>8, <2>12, <2>14, <2>15, <2>16 DEF SyncInv
<1> QED BY <1>1, <1>2

LEMMA SyncNextOK == ASSUME ShapeInv, SyncInv, OrdersNext PROVE SyncInv'
<1>1. flow' = flow  BY DEF OrdersNext
<1> SUFFICES ASSUME flow = "syncDeposit" PROVE SyncInv'  BY <1>1 DEF SyncInv
<1>2. CASE Known
  <2>1. orders'.invest = orders.invest  BY <1>2, KnownShape DEF ShapeInv
  <2>2. owner' = owner /\ deposits' = deposits  BY <1>2 DEF Known
  <2> QED BY <1>1, <2>1, <2>2 DEF SyncInv
<1>3. CASE VaultNext
  <2>1. ASSUME NEW u \in Users, NEW a \in Assets, NEW n \in Amounts, SyncDeposits(a, u, n) PROVE SyncInv'
    <3>1. owner' = owner  BY <2>1 DEF SyncDeposits
    <3> QED BY <1>1, <2>1, <3>1, SyncDepositOK
  <2>2. \A u \in Users : owner[u] = NothingOwed  BY DEF SyncInv
  <2>3. ASSUME NEW u \in Users
        PROVE  1..owner[u].pending = {} /\ 1..owner[u].claimable = {}
    <3>1. owner[u].pending = 0 /\ owner[u].claimable = 0
      <4>1. owner[u] = NothingOwed  BY <2>2
      <4> QED BY ONLY <4>1 DEF NothingOwed
    <3>2. 1..0 = {}  BY ONLY TRUE
    <3> QED BY ONLY <3>1, <3>2
  <2> QED BY <1>3, <2>1, <2>3 DEF VaultNext
<1> QED BY <1>2, <1>3 DEF OrdersNext, HubFlows

LEMMA SyncInit == OrdersInit => SyncInv
<1> SUFFICES ASSUME OrdersInit, flow = "syncDeposit" PROVE SyncInv  BY DEF SyncInv
<1>1. \A u \in Users : owner[u] = NothingOwed
  <2>1. owner = [u \in Investors |-> NothingOwed]  BY DEF OrdersInit
  <2>2. Investors = Users  BY DEF Investors
  <2> QED BY <2>1, <2>2
<1>2. deposits = <<>>  BY DEF OrdersInit
<1>3. orders.invest = NewSide  BY InitTables
<1> DEFINE s == orders.invest
<1>4. DOMAIN s = SideFields /\ DOMAIN s.order = {} /\ DOMAIN s.epoch = {}
  <2>1. DOMAIN NewSide = SideFields /\ DOMAIN NewSide.order = {} /\ DOMAIN NewSide.epoch = {}
    BY ONLY TRUE DEF NewSide, SideFields, EmptyTable
  <2> QED BY <1>3, <2>1
<1> HIDE DEF s
<1>5. Cardinality(DOMAIN s.order) = 0 /\ Cardinality(DOMAIN s.epoch) = 0 /\ Numbered(s)
  <2>1. IsFiniteSet({}) /\ Cardinality({}) = 0  BY FS_EmptySet
  <2> QED BY <1>4, <2>1 DEF Numbered
<1>6. deposits \in Seq(Logged) /\ Len(deposits) = 0 /\ DOMAIN deposits = {}  BY ONLY <1>2
<1>7. ASSUME NEW u PROVE SumFunction(Booked(s.order, u)) = SumFunction(Deposited(deposits, u))
  <2>1. DOMAIN Booked(s.order, u) = {}  BY <1>4 DEF Booked
  <2>2. DOMAIN Deposited(deposits, u) = {}  BY <1>6 DEF Deposited
  <2> QED BY <2>1, <2>2, SumOfNone
<1>8. ClaimsCount(s.order)  BY <1>4 DEF ClaimsCount
<1> QED BY <1>1, <1>4, <1>5, <1>6, <1>7, <1>8 DEF SyncInv, s

\* Every synchronous deposit has an order and an epoch of its own, and the amounts
\* of an account's orders are what it deposited.
THEOREM SyncDepositsKept == OrdersSpec => []SyncDepositsAreKept
<1>1. ASSUME SyncInv, UNCHANGED orderVars PROVE SyncInv'
  <2>1. UNCHANGED <<flow, owner, deposits, orders>>  BY <1>1 DEF orderVars
  <2> QED BY <1>1, <2>1 DEF SyncInv
<1>2. ShapeInv /\ SyncInv /\ [OrdersNext]_orderVars => SyncInv'  BY <1>1, SyncNextOK
<1>3. SyncInv => SyncDepositsAreKept  BY DEF SyncInv, SyncDepositsAreKept, Booked, Deposited
<1> QED BY <1>2, <1>3, SyncInit, ShapeHolds, PTL DEF OrdersSpec

-----------------------------------------------------------------------------
(* The hub's requests: the rows of the accounts *)

RowKey(u) == <<Asset, u>>
OrderKey(u, i) == <<Asset, u, i>>

LEMMA RowKeyFields == \A u : RowKey(u)[1] = Asset /\ RowKey(u)[2] = u
  BY DEF RowKey

LEMMA OrderKeyFields == \A u, i : OrderKey(u, i)[1] = Asset /\ OrderKey(u, i)[2] = u /\ OrderKey(u, i)[3] = i
  BY DEF OrderKey

AmountsOf(t, k) == RowOr(t, k, NoAmounts)

\* The tables have the same rows but for one key.
SameBut(new, t, k) == \A x : x # k => (x \in DOMAIN new <=> x \in DOMAIN t) /\ (x \in DOMAIN t => new[x] = t[x])

\* A row of amounts is saved, or deleted when they are 0.
LEMMA AmountsSaved ==
  ASSUME NEW t, NEW k, NEW row, row \in AmountsRow
  PROVE  /\ \A x : AmountsOf(SaveOrClear(t, k, row), x) = IF x = k THEN row ELSE AmountsOf(t, x)
         /\ SameBut(SaveOrClear(t, k, row), t, k)
         /\ k \in DOMAIN SaveOrClear(t, k, row) => SaveOrClear(t, k, row)[k] = row
         /\ IsFiniteSet(DOMAIN t) => IsFiniteSet(DOMAIN SaveOrClear(t, k, row))
<1>1. CASE \A f \in DOMAIN row : row[f] = 0
  <2>1. SaveOrClear(t, k, row) = Delete(t, k)  BY <1>1 DEF SaveOrClear
  <2>2. row = NoAmounts
    <3>1. row.pending = 0 /\ row.queued = 0  BY <1>1 DEF AmountsRow
    <3> QED BY <3>1 DEF AmountsRow, NoAmounts
  <2>3. \A x : RowOr(Delete(t, k), x, NoAmounts) = IF x = k THEN NoAmounts ELSE RowOr(t, x, NoAmounts)
    BY RowOrDelete
  <2>4. SameBut(Delete(t, k), t, k) /\ k \notin DOMAIN Delete(t, k)  BY DEF SameBut, Delete
  <2>5. IsFiniteSet(DOMAIN t) => IsFiniteSet(DOMAIN Delete(t, k))
    BY FS_RemoveElement, DOMAIN Delete(t, k) = DOMAIN t \ {k} DEF Delete
  <2> QED BY <2>1, <2>2, <2>3, <2>4, <2>5 DEF AmountsOf
<1>2. CASE ~ \A f \in DOMAIN row : row[f] = 0
  <2>1. SaveOrClear(t, k, row) = Put(t, k, row)  BY <1>2 DEF SaveOrClear
  <2>2. \A x : RowOr(Put(t, k, row), x, NoAmounts) = IF x = k THEN row ELSE RowOr(t, x, NoAmounts)
    BY RowOrPut
  <2>3. SameBut(Put(t, k, row), t, k) /\ Put(t, k, row)[k] = row  BY DEF SameBut, Put
  <2>4. IsFiniteSet(DOMAIN t) => IsFiniteSet(DOMAIN Put(t, k, row))
    BY FS_AddElement, DOMAIN Put(t, k, row) = DOMAIN t \cup {k} DEF Put
  <2> QED BY <2>1, <2>2, <2>3, <2>4 DEF AmountsOf
<1> QED BY <1>1, <1>2

LEMMA AmountsFound ==
  ASSUME NEW t, NEW k
  PROVE  /\ (k \in DOMAIN t => AmountsOf(t, k) = t[k])
         /\ (k \notin DOMAIN t => AmountsOf(t, k) = NoAmounts)
BY DEF AmountsOf, RowOr, Has

\* A sum of naturals is one.
LEMMA SumOfNats ==
  ASSUME NEW w, IsFiniteSet(DOMAIN w), \A x \in DOMAIN w : w[x] \in Nat
  PROVE  SumFunction(w) \in Nat
<1>1. IsSummable(w)  BY DEF IsSummable
<1>2. \A x \in DOMAIN w : w[x] * 0 <= w[x] * 1  OBVIOUS
<1>3. SumFunction(w) * 0 <= SumFunction(w) * 1  BY <1>1, <1>2, SumInProportion
<1>4. SumFunction(w) \in Int  BY <1>1, SumType
<1> QED BY <1>3, <1>4

Account == [pending: Nat, last: Nat, queued: Nat, cancelling: BOOLEAN]

\* The rows the indexer keeps of what the accounts have asked for: all that is
\* queued, and of the pending amounts see below.
PendingOK(t, users) ==
  /\ IsFiniteSet(DOMAIN t)
  /\ \A k \in DOMAIN t : k[2] \in Investors /\ k = RowKey(k[2])
  /\ \A k \in DOMAIN t : t[k] \in AmountsRow
  /\ \A u \in Investors : AmountsOf(t, RowKey(u)).queued = users[u].queued

QueuedOf(t) == [k \in DOMAIN t |-> t[k].queued]
RestOf(t, R, epoch) == [k \in DOMAIN t |-> R[k[2]][epoch]]

Rests == [Investors -> [Nat -> Nat]]

\* Each row covers what is left of the account's pending amount, and together that
\* covers what is outstanding.
Covered(t, R, left, epoch) ==
  /\ \A u \in Investors : R[u][epoch] <= AmountsOf(t, RowKey(u)).pending
  /\ left <= SumFunction(RestOf(t, R, epoch))

LEMMA RowsType ==
  ASSUME NEW t, NEW users, PendingOK(t, users), NEW R, R \in Rests, NEW epoch, epoch \in Nat
  PROVE  /\ \A k : AmountsOf(t, k) \in AmountsRow
         /\ IsSummable(QueuedOf(t)) /\ SumFunction(QueuedOf(t)) \in Nat
         /\ IsSummable(RestOf(t, R, epoch)) /\ SumFunction(RestOf(t, R, epoch)) \in Nat
         /\ \A u \in Investors : R[u][epoch] \in Nat
<1>1. NoAmounts \in AmountsRow  BY DEF NoAmounts, AmountsRow
<1>2. \A k : AmountsOf(t, k) \in AmountsRow  BY <1>1, AmountsFound DEF PendingOK
<1>3. \A u \in Investors : R[u][epoch] \in Nat  BY DEF Rests
<1>4. DOMAIN QueuedOf(t) = DOMAIN t /\ \A k \in DOMAIN t : QueuedOf(t)[k] \in Nat
  BY DEF QueuedOf, PendingOK, AmountsRow
<1>5. DOMAIN RestOf(t, R, epoch) = DOMAIN t /\ \A k \in DOMAIN t : RestOf(t, R, epoch)[k] \in Nat
  BY <1>3 DEF RestOf, PendingOK
<1>6. IsFiniteSet(DOMAIN t)  BY DEF PendingOK
<1> QED BY <1>2, <1>3, <1>4, <1>5, <1>6, SumOfNats DEF IsSummable

\* A request of an account replaces its row and nothing else.
LEMMA RequestKeeps ==
  ASSUME NEW t, NEW users, PendingOK(t, users), users \in [Investors -> Account],
         NEW u, u \in Investors, NEW new, new \in Account, NEW epoch, epoch \in Nat,
         NEW R, R \in Rests, NEW S, S \in Rests, \A v \in Investors : v # u => S[v] = R[v],
         NEW left, left \in Nat, NEW m, m \in Nat, Covered(t, R, left, epoch),
         NEW row, row \in AmountsRow, row.queued = new.queued, S[u][epoch] <= row.pending,
         m <= left + (S[u][epoch] - R[u][epoch]),
         NEW t2, t2 = SaveOrClear(t, RowKey(u), row),
         NEW users2, users2[u] = new, \A v \in Investors : v # u => users2[v] = users[v]
  PROVE  /\ PendingOK(t2, users2)
         /\ Covered(t2, S, m, epoch)
         /\ SumFunction(QueuedOf(t2)) = SumFunction(QueuedOf(t)) + (new.queued - AmountsOf(t, RowKey(u)).queued)
<1>1. PICK k : k = RowKey(u)  OBVIOUS
<1>2. t2 = SaveOrClear(t, k, row)  BY <1>1
<1>3. users2[u] = new /\ \A v \in Investors : v # u => users2[v] = users[v]  OBVIOUS
<1>4. /\ \A x : AmountsOf(t2, x) = IF x = k THEN row ELSE AmountsOf(t, x)
      /\ SameBut(t2, t, k)
      /\ k \in DOMAIN t2 => t2[k] = row
      /\ IsFiniteSet(DOMAIN t2)
  BY <1>2, AmountsSaved DEF PendingOK
<1>5. \A v : RowKey(v) = k <=> v = u  BY <1>1, RowKeyFields
<1>6. k[2] = u  BY <1>1, RowKeyFields
<1>7. PendingOK(t2, users2)
  <2>1. \A x \in DOMAIN t2 : x[2] \in Investors /\ x = RowKey(x[2])
    BY <1>1, <1>4, <1>6 DEF PendingOK, SameBut
  <2>2. \A x \in DOMAIN t2 : t2[x] \in AmountsRow  BY <1>4 DEF PendingOK, SameBut
  <2>3. ASSUME NEW v \in Investors PROVE AmountsOf(t2, RowKey(v)).queued = users2[v].queued
    <3>1. CASE v = u
      <4>1. users2[v] = new  BY <1>3, <3>1
      <4>2. AmountsOf(t2, RowKey(v)) = row  BY <1>4, <1>5, <3>1
      <4> QED BY <4>1, <4>2
    <3>2. CASE v # u
      <4>1. users2[v] = users[v]  BY <1>3, <3>2
      <4>2. AmountsOf(t2, RowKey(v)) = AmountsOf(t, RowKey(v))  BY <1>4, <1>5, <3>2
      <4> QED BY <4>1, <4>2 DEF PendingOK
    <3> QED BY <3>1, <3>2
  <2> QED BY <1>4, <2>1, <2>2, <2>3 DEF PendingOK
<1>8. /\ IsSummable(QueuedOf(t)) /\ IsSummable(RestOf(t, R, epoch)) /\ \A x : AmountsOf(t, x) \in AmountsRow
      /\ SumFunction(QueuedOf(t)) \in Nat /\ SumFunction(RestOf(t, R, epoch)) \in Nat
      /\ \A v \in Investors : R[v][epoch] \in Nat
  BY RowsType
<1>9. /\ IsSummable(QueuedOf(t2)) /\ IsSummable(RestOf(t2, S, epoch))
      /\ \A v \in Investors : S[v][epoch] \in Nat
  BY <1>7, RowsType
<1>10. SumFunction(QueuedOf(t2)) = SumFunction(QueuedOf(t)) + (new.queued - AmountsOf(t, k).queued)
  <2>1. AgreeBut(QueuedOf(t2), QueuedOf(t), k)  BY <1>4 DEF AgreeBut, QueuedOf, SameBut
  <2>2. AmountAt(QueuedOf(t2), k) = new.queued
    <3>1. CASE k \in DOMAIN t2  BY <1>4, <3>1 DEF AmountAt, QueuedOf
    <3>2. CASE k \notin DOMAIN t2
      <4>1. AmountsOf(t2, k) = NoAmounts /\ AmountsOf(t2, k) = row  BY <1>4, <3>2, AmountsFound
      <4>2. new.queued = 0  BY <4>1 DEF NoAmounts
      <4> QED BY <3>2, <4>2 DEF AmountAt, QueuedOf
    <3> QED BY <3>1, <3>2
  <2>3. AmountAt(QueuedOf(t), k) = AmountsOf(t, k).queued
    BY DEF AmountAt, QueuedOf, AmountsOf, RowOr, Has, NoAmounts
  <2> QED BY <1>8, <1>9, <2>1, <2>2, <2>3, SumOfChange
<1>11. Covered(t2, S, m, epoch)
  <2>1. ASSUME NEW v \in Investors PROVE S[v][epoch] <= AmountsOf(t2, RowKey(v)).pending
    <3>1. CASE v = u  BY <1>4, <1>5, <3>1
    <3>2. CASE v # u
      <4>1. AmountsOf(t2, RowKey(v)) = AmountsOf(t, RowKey(v)) /\ S[v] = R[v]  BY <1>4, <1>5, <3>2
      <4> QED BY <4>1 DEF Covered
    <3> QED BY <3>1, <3>2
  <2>2. AgreeBut(RestOf(t2, S, epoch), RestOf(t, R, epoch), k)
    <3>1. \A x \in DOMAIN t : x # k => x[2] \in Investors /\ x[2] # u
      <4>1. \A x \in DOMAIN t : x[2] \in Investors /\ x = RowKey(x[2])  BY DEF PendingOK
      <4> QED BY <1>1, <4>1
    <3> QED BY <1>4, <3>1 DEF AgreeBut, RestOf, SameBut
  <2>3. AmountAt(RestOf(t2, S, epoch), k) = S[u][epoch]
    <3>1. CASE k \in DOMAIN t2  BY <1>6, <3>1 DEF AmountAt, RestOf
    <3>2. CASE k \notin DOMAIN t2
      <4>1. AmountsOf(t2, k) = NoAmounts /\ AmountsOf(t2, k) = row  BY <1>4, <3>2, AmountsFound
      <4>2. row.pending = 0  BY <4>1 DEF NoAmounts
      <4>3. S[u][epoch] = 0  BY <1>9, <4>2
      <4> QED BY <3>2, <4>3 DEF AmountAt, RestOf
    <3> QED BY <3>1, <3>2
  <2>4. AmountAt(RestOf(t, R, epoch), k) = R[u][epoch]
    <3>1. CASE k \in DOMAIN t  BY <1>6, <3>1 DEF AmountAt, RestOf
    <3>2. CASE k \notin DOMAIN t
      <4>1. AmountsOf(t, k) = NoAmounts  BY <3>2, AmountsFound
      <4>2. R[u][epoch] <= 0  BY <1>1, <4>1 DEF Covered, NoAmounts
      <4>3. R[u][epoch] = 0  BY <1>8, <4>2
      <4> QED BY <3>2, <4>3 DEF AmountAt, RestOf
    <3> QED BY <3>1, <3>2
  <2>5. SumFunction(RestOf(t2, S, epoch)) = SumFunction(RestOf(t, R, epoch)) + (S[u][epoch] - R[u][epoch])
    BY <1>8, <1>9, <2>2, <2>3, <2>4, SumOfChange
  <2>6. left <= SumFunction(RestOf(t, R, epoch))  BY DEF Covered
  <2>7. R[u][epoch] \in Nat /\ S[u][epoch] \in Nat  BY <1>8, <1>9
  <2>8. m <= SumFunction(RestOf(t2, S, epoch))
    BY <1>8, <2>5, <2>6, <2>7
  <2> QED BY <2>1, <2>8 DEF Covered
<1> QED BY <1>1, <1>2, <1>3, <1>7, <1>10, <1>11

-----------------------------------------------------------------------------
(* What an approval leaves *)

\* What the contract leaves of an account's amount after an epoch.
AfterEpoch(n, approved, of) == n - (n * approved) \div of

\* What the indexer leaves of a row.
RowAfter(p, approved, left) == p - ApprovedUserAmount(p, ApprovedPercentage(approved, left))

LEMMA CancelFactor ==
  ASSUME NEW a, a \in Int, NEW b, b \in Int, NEW c, c \in Nat \ {0}, a * c <= b * c
  PROVE  a <= b
<1> SUFFICES ASSUME a >= b + 1 PROVE FALSE  OBVIOUS
<1>1. a * c >= (b + 1) * c  OBVIOUS
<1>2. (b + 1) * c = b * c + c  OBVIOUS
<1>3. b * c \in Int /\ a * c \in Int  OBVIOUS
<1> QED BY ONLY <1>1, <1>2, <1>3, a * c <= b * c, c \in Nat \ {0}

LEMMA TimesOrder ==
  ASSUME NEW a, a \in Int, NEW b, b \in Int, a <= b, NEW c, c \in Nat
  PROVE  a * c <= b * c
OBVIOUS

LEMMA AfterEpochType ==
  ASSUME NEW n, n \in Nat, NEW approved, approved \in Nat, NEW of, of \in Nat \ {0}, approved <= of
  PROVE  AfterEpoch(n, approved, of) \in Nat /\ AfterEpoch(n, approved, of) <= n
<1>1. n * approved \in Nat /\ n * of \in Nat  OBVIOUS
<1>2. PICK x : x = n * approved  OBVIOUS
<1>3. PICK q : q = x \div of  OBVIOUS
<1>4. q \in Nat /\ q * of <= x  BY <1>1, <1>2, <1>3, QuotientIs
<1>5. x <= n * of
  <2>1. approved * n <= of * n  BY TimesOrder
  <2>2. approved * n = n * approved /\ of * n = n * of  OBVIOUS
  <2> QED BY <1>2, <2>1, <2>2
<1>6. q * of <= n * of
  <2>1. q * of \in Int  BY <1>4
  <2> QED BY <1>1, <1>2, <1>4, <1>5, <2>1
<1>7. q <= n  BY <1>4, <1>6, CancelFactor
<1>8. AfterEpoch(n, approved, of) = n - q  BY <1>2, <1>3 DEF AfterEpoch
<1> QED BY <1>4, <1>7, <1>8

\* A row that covers an account's amount still does after an approval, although its
\* part is computed from a percentage that is rounded down.
LEMMA RowCovers ==
  ASSUME NEW p, p \in Nat, NEW r, r \in Nat, r <= p, NEW of, of \in Nat \ {0}, NEW n, n \in Nat, n <= of
  PROVE  /\ RowAfter(p, n, of - n) \in Nat
         /\ AfterEpoch(r, n, of) <= RowAfter(p, n, of - n)
<1>1. Percent \in Nat \ {0}  BY OrdersAssumption
<1>2. PICK x : x = n * Percent  OBVIOUS
<1>3. PICK percentage : percentage = x \div of  OBVIOUS
<1>4. x \in Nat  BY <1>1, <1>2
<1>5. percentage \in Nat /\ percentage * of <= x  BY <1>3, <1>4, QuotientIs
<1>6. PICK y : y = p * percentage  OBVIOUS
<1>7. y \in Nat  BY <1>5, <1>6
<1>8. PICK q : q = y \div Percent  OBVIOUS
<1>9. q \in Nat /\ q * Percent <= y  BY <1>1, <1>7, <1>8, QuotientIs
<1>10. RowAfter(p, n, of - n) = p - q
  <2>1. of - n + n = of  OBVIOUS
  <2> QED BY <1>2, <1>3, <1>6, <1>8, <2>1 DEF RowAfter, ApprovedUserAmount, ApprovedPercentage
<1>11. q * of <= p * n
  <2>1. (q * Percent) * of <= y * of  BY <1>1, <1>7, <1>9, TimesOrder
  <2>2. y * of = (percentage * of) * p  BY <1>5, <1>6
  <2>3. (percentage * of) * p <= x * p  BY <1>4, <1>5, TimesOrder
  <2>4. x * p = (p * n) * Percent  BY <1>1, <1>2
  <2>5. (q * Percent) * of = (q * of) * Percent  BY <1>1, <1>9
  <2>6. (q * of) * Percent \in Int /\ (percentage * of) * p \in Int /\ (p * n) * Percent \in Int
    BY <1>1, <1>5, <1>9
  <2>7. (q * of) * Percent <= (p * n) * Percent  BY ONLY <2>1, <2>2, <2>3, <2>4, <2>5, <2>6
  <2>8. q * of \in Int /\ p * n \in Int  BY <1>9
  <2> QED BY <1>1, <2>7, <2>8, CancelFactor
<1>12. q <= p
  <2>1. n * p <= of * p  BY TimesOrder
  <2>2. n * p = p * n /\ of * p = p * of  OBVIOUS
  <2>3. q * of \in Int /\ p * n \in Int /\ p * of \in Int  BY <1>9
  <2>4. q * of <= p * of  BY <1>11, <2>1, <2>2, <2>3
  <2> QED BY <1>9, <2>4, CancelFactor
<1>13. (q - (p - r)) * of <= r * n
  <2>1. (q - (p - r)) * of = q * of - (p - r) * of  BY <1>9
  <2>2. n * (p - r) <= of * (p - r)  BY p - r \in Nat, TimesOrder
  <2>3. n * (p - r) = p * n - r * n /\ of * (p - r) = (p - r) * of  OBVIOUS
  <2>4. q * of \in Int /\ p * n \in Int /\ r * n \in Int /\ (p - r) * of \in Int  BY <1>9
  <2> QED BY <1>11, <2>1, <2>2, <2>3, <2>4
<1>14. q - (p - r) <= (r * n) \div of
  <2>1. r * n \in Nat  OBVIOUS
  <2>2. q - (p - r) \in Int  BY <1>9
  <2> QED BY <1>13, <2>1, <2>2, QuotientIs
<1>15. (r * n) \div of \in Int  BY QuotientIs, r * n \in Nat
<1>16. PICK m : m = (r * n) \div of  OBVIOUS
<1>17. AfterEpoch(r, n, of) = r - m  BY <1>16 DEF AfterEpoch
<1>18. m \in Int /\ q - (p - r) <= m  BY <1>14, <1>15, <1>16
<1> QED BY ONLY <1>9, <1>10, <1>12, <1>17, <1>18, p \in Nat, r \in Nat

\* The amounts that are left cover what is left of what was outstanding.
LEMMA RestCovers ==
  ASSUME NEW w, IsSummable(w), \A x \in DOMAIN w : w[x] \in Nat,
         NEW of, of \in Nat \ {0}, of <= SumFunction(w), NEW n, n \in Nat, n <= of,
         NEW v, IsSummable(v), DOMAIN v = DOMAIN w, \A x \in DOMAIN w : v[x] = AfterEpoch(w[x], n, of)
  PROVE  of - n <= SumFunction(v)
<1>1. ASSUME NEW x \in DOMAIN w PROVE w[x] * (of - n) <= v[x] * of
  <2>1. PICK a : a = w[x]  OBVIOUS
  <2>2. a \in Nat  BY <2>1
  <2>3. a * n \in Nat  BY <2>2
  <2>4. PICK q : q = (a * n) \div of  OBVIOUS
  <2>5. q \in Nat /\ q * of <= a * n  BY <2>3, <2>4, QuotientIs
  <2>6. v[x] = a - q  BY <2>1, <2>4 DEF AfterEpoch
  <2>7. (a - q) * of = a * of - q * of /\ a * (of - n) = a * of - a * n  BY <2>2, <2>5
  <2>8. q * of \in Int /\ a * of \in Int  BY <2>2, <2>5
  <2>9. a * (of - n) <= (a - q) * of  BY <2>3, <2>5, <2>7, <2>8
  <2> QED BY <2>1, <2>6, <2>9
<1>2. of - n \in Nat /\ of \in Int  OBVIOUS
<1>3. SumFunction(w) * (of - n) <= SumFunction(v) * of  BY <1>1, <1>2, SumInProportion
<1>4. SumFunction(w) \in Int /\ SumFunction(v) \in Int  BY SumType
<1>5. PICK a : a = SumFunction(w)  OBVIOUS
<1>6. PICK b : b = SumFunction(v)  OBVIOUS
<1>7. of * (of - n) <= a * (of - n)  BY <1>2, <1>4, <1>5, TimesOrder
<1>8. (of - n) * of <= b * of
  <2>1. of * (of - n) \in Int /\ a * (of - n) \in Int /\ b * of \in Int /\ of * (of - n) = (of - n) * of
    BY <1>2, <1>4, <1>5, <1>6
  <2>2. a * (of - n) <= b * of  BY <1>3, <1>5, <1>6
  <2> QED BY ONLY <1>7, <2>1, <2>2
<1>9. of - n <= b  BY <1>2, <1>4, <1>6, <1>8, CancelFactor
<1> QED BY <1>6, <1>9

-----------------------------------------------------------------------------
(* What the indexer's rows know of the hub's accounts *)

\* What is left of an account's pending amount, r[i] at epoch i, from its last claim
\* to the current epoch.
Path(r, user, epochs, epoch) ==
  /\ user.pending = 0 => r[epoch] = 0
  /\ user.pending > 0 =>
       /\ user.last \in 1..epoch /\ r[user.last] = user.pending
       /\ \A i \in user.last..(epoch - 1) : r[i + 1] = AfterEpoch(r[i], epochs[i].approved, epochs[i].of)
       /\ \A i \in user.last..epoch : r[epoch] <= r[i]

\* Every epoch that will pay the account something has an order for it.
Ready(r, u, user, order, epoch) ==
  user.pending > 0 =>
    \A i \in user.last..(epoch - 1) : r[i] > 0 => /\ OrderKey(u, i) \in DOMAIN order
                                                   /\ order[OrderKey(u, i)].claimedAt = 0

\* An account queues and waits behind an epoch it has not claimed.
Waits(user, epoch) == user.queued > 0 \/ user.cancelling => user.pending > 0 /\ user.last < epoch

Outstanding(s, left) ==
  /\ AmountsOf(s.outstanding, Asset) \in AmountsRow
  /\ AmountsOf(s.outstanding, Asset).pending = left
  /\ AmountsOf(s.outstanding, Asset).queued = SumFunction(QueuedOf(s.pending))

AccountsOK(users, s, left, epoch, epochs, R) ==
  /\ R \in Rests
  /\ PendingOK(s.pending, users)
  /\ Outstanding(s, left)
  /\ Covered(s.pending, R, left, epoch)
  /\ \A u \in Investors : Path(R[u], users[u], epochs, epoch)
  /\ \A u \in Investors : Ready(R[u], u, users[u], s.order, epoch)

\* A request changes the pending amount, or queues and waits.
Changes(user, new, left, left2, epoch) ==
  /\ user.pending = 0 \/ user.last = epoch
  /\ new.queued = 0 /\ ~new.cancelling
  /\ new.pending > 0 => new.last = epoch
  /\ left2 = left + (new.pending - user.pending)

Queues(user, new, left, left2, epoch) ==
  /\ user.pending > 0 /\ user.last < epoch
  /\ new.pending = user.pending /\ new.last = user.last
  /\ left2 = left

LEMMA OutstandingSaved ==
  ASSUME NEW t, NEW row, row \in AmountsRow, NEW s, s.outstanding = SaveOrClear(t, Asset, row),
         NEW left, row.pending = left, row.queued = SumFunction(QueuedOf(s.pending))
  PROVE  Outstanding(s, left)
<1>1. AmountsOf(s.outstanding, Asset) = row
  <2>1. \A x : AmountsOf(SaveOrClear(t, Asset, row), x) = IF x = Asset THEN row ELSE AmountsOf(t, x)
    BY AmountsSaved
  <2> QED BY <2>1
<1> QED BY <1>1 DEF Outstanding

LEMMA RequestOK ==
  ASSUME NEW users, NEW s, NEW left, NEW epoch, NEW epochs, NEW R,
         AccountsOK(users, s, left, epoch, epochs, R), DOMAIN s = SideFields,
         users \in [Investors -> Account], epoch \in Nat \ {0}, left \in Nat,
         NEW u, u \in Investors, NEW new, new \in Account, NEW left2, left2 \in Nat,
         Changes(users[u], new, left, left2, epoch) \/ Queues(users[u], new, left, left2, epoch),
         NEW request, request.pending = new.pending, request.queued = new.queued, request.total = left2
  PROVE  \E S : AccountsOK([users EXCEPT ![u] = new], Request(s, Asset, u, request), left2, epoch, epochs, S)
<1>1. PICK users2 : users2 = [users EXCEPT ![u] = new]  OBVIOUS
<1>2. users2[u] = new /\ \A v \in Investors : v # u => users2[v] = users[v]  BY <1>1
<1>3. PICK t : t = s.pending  OBVIOUS
<1>4. PICK old : old = AmountsOf(t, RowKey(u))  OBVIOUS
<1>5. PICK row : row = [pending |-> IF new.queued = 0 THEN new.pending ELSE old.pending, queued |-> new.queued]
  OBVIOUS
<1>6. PICK t2 : t2 = SaveOrClear(t, RowKey(u), row)  OBVIOUS
<1>7. PICK s2 : s2 = Request(s, Asset, u, request)  OBVIOUS
<1>8. PICK out : out = AmountsOf(s.outstanding, Asset)  OBVIOUS
<1>9. PICK out2 : out2 = [pending |-> left2, queued |-> out.queued + new.queued - old.queued]  OBVIOUS
<1>10. s2.pending = t2 /\ s2.outstanding = SaveOrClear(s.outstanding, Asset, out2) /\ s2.order = s.order
  BY <1>3, <1>4, <1>5, <1>6, <1>7, <1>8, <1>9 DEF Request, RowKey, AmountsOf, SideFields
<1>11. /\ R \in Rests /\ PendingOK(t, users) /\ Covered(t, R, left, epoch) /\ epoch \in Nat
       /\ Outstanding(s, left)
  BY <1>3 DEF AccountsOK
<1>12. /\ old \in AmountsRow /\ SumFunction(QueuedOf(t)) \in Nat
       /\ \A v \in Investors : R[v][epoch] \in Nat
  BY <1>4, <1>11, RowsType
<1>13. row \in AmountsRow /\ row.queued = new.queued  BY <1>5, <1>12 DEF AmountsRow, Account
<1>14. users[u] \in Account /\ Path(R[u], users[u], epochs, epoch) /\ R[u][epoch] <= old.pending
  BY <1>4, <1>11 DEF AccountsOK, Covered
<1>15. \E S : /\ S \in Rests /\ \A v \in Investors : v # u => S[v] = R[v]
              /\ S[u][epoch] <= row.pending /\ left2 <= left + (S[u][epoch] - R[u][epoch])
              /\ Path(S[u], new, epochs, epoch) /\ Ready(S[u], u, new, s.order, epoch)
  <2>1. CASE Changes(users[u], new, left, left2, epoch)
    <3>1. PICK r : r = [i \in Nat |-> new.pending]  OBVIOUS
    <3>2. r \in [Nat -> Nat] /\ \A i \in Nat : r[i] = new.pending  BY <3>1 DEF Account
    <3>3. PICK S : S = [R EXCEPT ![u] = r]  OBVIOUS
    <3>4. S \in Rests /\ S[u] = r /\ \A v \in Investors : v # u => S[v] = R[v]
      BY <1>11, <3>2, <3>3 DEF Rests
    <3>5. new.queued = 0 /\ row.pending = new.pending  BY <1>5, <2>1 DEF Changes
    <3>6. R[u][epoch] = users[u].pending  BY <1>14, <2>1 DEF Path, Changes, Account
    <3>7. r[epoch] = new.pending /\ new.pending \in Nat /\ users[u].pending \in Nat
      BY <1>14, <3>2 DEF Account
    <3>8. left2 <= left + (r[epoch] - R[u][epoch])  BY <2>1, <3>6, <3>7 DEF Changes
    <3>9. new.pending > 0 => new.last = epoch  BY <2>1 DEF Changes
    <3>10. Path(r, new, epochs, epoch)  BY <3>2, <3>7, <3>9 DEF Path
    <3>11. Ready(r, u, new, s.order, epoch)  BY <3>7, <3>9 DEF Ready
    <3> QED BY <3>4, <3>5, <3>7, <3>8, <3>10, <3>11
  <2>2. CASE Queues(users[u], new, left, left2, epoch)
    <3>1. R[u][epoch] <= row.pending
      <4>1. CASE new.queued # 0  BY <1>5, <1>14, <4>1
      <4>2. CASE new.queued = 0
        <5>1. row.pending = users[u].pending  BY <1>5, <2>2, <4>2 DEF Queues
        <5>2. users[u].pending > 0 /\ users[u].last < epoch  BY <2>2 DEF Queues
        <5>3. users[u].last \in 1..epoch /\ R[u][users[u].last] = users[u].pending
              /\ \A i \in users[u].last..epoch : R[u][epoch] <= R[u][i]
          BY <1>14, <5>2 DEF Path
        <5> QED BY <5>1, <5>3
      <4> QED BY <4>1, <4>2
    <3>2. Path(R[u], new, epochs, epoch)  BY <1>14, <2>2 DEF Path, Queues
    <3>3. Ready(R[u], u, users[u], s.order, epoch)  BY DEF AccountsOK
    <3>4. Ready(R[u], u, new, s.order, epoch)  BY <2>2, <3>3 DEF Ready, Queues
    <3>5. left2 <= left + (R[u][epoch] - R[u][epoch])  BY <1>12, <2>2 DEF Queues
    <3> QED BY <1>11, <3>1, <3>2, <3>4, <3>5
  <2> QED BY <2>1, <2>2
<1>16. PICK S : /\ S \in Rests /\ \A v \in Investors : v # u => S[v] = R[v]
                /\ S[u][epoch] <= row.pending /\ left2 <= left + (S[u][epoch] - R[u][epoch])
                /\ Path(S[u], new, epochs, epoch) /\ Ready(S[u], u, new, s.order, epoch)
  BY <1>15
<1>17. /\ PendingOK(t2, users2) /\ Covered(t2, S, left2, epoch)
       /\ SumFunction(QueuedOf(t2)) = SumFunction(QueuedOf(t)) + (new.queued - old.queued)
  <2>1. /\ users \in [Investors -> Account] /\ u \in Investors /\ new \in Account
        /\ epoch \in Nat /\ left \in Nat /\ left2 \in Nat
    OBVIOUS
  <2>2. /\ PendingOK(t, users) /\ R \in Rests /\ S \in Rests /\ \A v \in Investors : v # u => S[v] = R[v]
        /\ Covered(t, R, left, epoch) /\ row \in AmountsRow /\ row.queued = new.queued
        /\ S[u][epoch] <= row.pending /\ left2 <= left + (S[u][epoch] - R[u][epoch])
    BY <1>11, <1>13, <1>16
  <2> QED BY ONLY <1>2, <1>4, <1>6, <2>1, <2>2, RequestKeeps
<1>18. SumFunction(QueuedOf(t2)) \in Nat  BY <1>11, <1>16, <1>17, RowsType
<1>19. out2 \in AmountsRow /\ out2.pending = left2 /\ out2.queued = SumFunction(QueuedOf(t2))
  <2>1. out.queued = SumFunction(QueuedOf(t))  BY <1>3, <1>8, <1>11 DEF Outstanding
  <2>2. out2.queued = SumFunction(QueuedOf(t2))  BY <1>9, <1>12, <1>17, <2>1 DEF AmountsRow, Account
  <2> QED BY <1>9, <1>18, <2>2 DEF AmountsRow
<1>20. Outstanding(s2, left2)  BY <1>10, <1>19, OutstandingSaved
<1>21. \A v \in Investors : Path(S[v], users2[v], epochs, epoch)
  BY <1>2, <1>16 DEF AccountsOK
<1>22. \A v \in Investors : Ready(S[v], v, users2[v], s2.order, epoch)
  BY <1>2, <1>10, <1>16 DEF AccountsOK
<1>23. AccountsOK(users2, s2, left2, epoch, epochs, S)
  BY <1>10, <1>16, <1>17, <1>20, <1>21, <1>22 DEF AccountsOK
<1> QED BY <1>1, <1>7, <1>23

-----------------------------------------------------------------------------
(* The orders and their claims *)

OrderFields == {"approvedAt", "approved", "settledAt", "settled", "claimedAt", "claimed"}

OrdersOK(order, epochs, n) ==
  \A k \in DOMAIN order :
    /\ k = OrderKey(k[2], k[3]) /\ k[3] \in 1..n
    /\ DOMAIN order[k] = OrderFields /\ order[k].approvedAt # 0
    /\ order[k].settledAt # 0 <=> epochs[k[3]].nav # 0 /\ epochs[k[3]].known

ClaimsOK(paid, order) ==
  \A k \in DOMAIN paid : k \in DOMAIN order /\ order[k].claimed = paid[k] /\ order[k].claimedAt # 0

\* A claim writes its order and nothing else.
LEMMA ClaimEffect ==
  ASSUME NEW s, DOMAIN s = SideFields, NEW ev, NEW k, NEW payment, NEW payout,
         k \in DOMAIN s.order => DOMAIN s.order[k] = OrderFields
  PROVE  LET s2 == Claim(s, ev, k, payment, payout)
         IN  /\ s2.pending = s.pending /\ s2.outstanding = s.outstanding
             /\ DOMAIN s2.order = DOMAIN s.order /\ \A x \in DOMAIN s.order : x # k => s2.order[x] = s.order[x]
             /\ k \in DOMAIN s.order =>
                  /\ DOMAIN s2.order[k] = OrderFields
                  /\ s2.order[k].approvedAt = s.order[k].approvedAt /\ s2.order[k].settledAt = s.order[k].settledAt
                  /\ s.order[k].claimedAt = 0 => s2.order[k].claimed = payout /\ s2.order[k].claimedAt = ev.now
<1> DEFINE row == [s.order[k] EXCEPT !.approved = payment, !.settled = payout, !.claimed = payout,
                                     !.claimedAt = ev.now]
<1>1. CASE ~(k \in DOMAIN s.order /\ s.order[k].claimedAt = 0)
  <2>1. Claim(s, ev, k, payment, payout) = s  BY <1>1 DEF Claim, Has
  <2> QED BY <1>1, <2>1
<1>2. CASE k \in DOMAIN s.order /\ s.order[k].claimedAt = 0
  <2>1. Claim(s, ev, k, payment, payout) = [s EXCEPT !.order = [s.order EXCEPT ![k] = row]]
    BY <1>2 DEF Claim, Has, SideFields
  <2>2. /\ DOMAIN row = OrderFields /\ row.approvedAt = s.order[k].approvedAt
        /\ row.settledAt = s.order[k].settledAt /\ row.claimed = payout /\ row.claimedAt = ev.now
    BY <1>2 DEF OrderFields
  <2>3. PICK r : r = row  OBVIOUS
  <2>4. PICK o : o = [s.order EXCEPT ![k] = r]  OBVIOUS
  <2>5. PICK s2 : s2 = [s EXCEPT !.order = o]  OBVIOUS
  <2>6. s2 = Claim(s, ev, k, payment, payout)  BY <2>1, <2>3, <2>4, <2>5
  <2>7. s2.pending = s.pending /\ s2.outstanding = s.outstanding /\ s2.order = o  BY <2>5 DEF SideFields
  <2>8. DOMAIN o = DOMAIN s.order /\ o[k] = r /\ \A x \in DOMAIN s.order : x # k => o[x] = s.order[x]
    BY <1>2, <2>4
  <2> HIDE DEF row
  <2> QED BY <1>2, <2>2, <2>3, <2>6, <2>7, <2>8
<1> QED BY <1>1, <1>2

\* A claim pays the account's part of the oldest epoch it has not claimed.
Pays(users, s, left, epoch, epochs, R, paid, u, rest, ev, there, payment, payout, k, s2, paid2, users2) ==
  /\ AccountsOK(users, s, left, epoch, epochs, R)
  /\ OrdersOK(s.order, epochs, epoch - 1) /\ ClaimsOK(paid, s.order)
  /\ DOMAIN s = SideFields /\ users \in [Investors -> Account] /\ epoch \in Nat \ {0}
  /\ u \in Investors /\ users[u].pending > 0 /\ users[u].last < epoch
  /\ rest \in Account /\ rest.queued = users[u].queued /\ rest.last = users[u].last + 1
  /\ rest.pending = AfterEpoch(users[u].pending, epochs[users[u].last].approved, epochs[users[u].last].of)
  /\ ev.now # 0 /\ k = OrderKey(u, users[u].last)
  /\ s2 = IF there THEN Claim(s, ev, k, payment, payout) ELSE s
  /\ paid2 = IF there THEN Put(paid, k, payout) ELSE paid
  /\ users2[u] = rest /\ \A v \in Investors : v # u => users2[v] = users[v]

LEMMA PayOK ==
  ASSUME NEW users, NEW s, NEW left, NEW epoch, NEW epochs, NEW R, NEW paid, NEW u, NEW rest, NEW ev, NEW there,
         NEW payment, NEW payout, NEW k, NEW s2, NEW paid2, NEW users2,
         Pays(users, s, left, epoch, epochs, R, paid, u, rest, ev, there, payment, payout, k, s2, paid2, users2)
  PROVE  /\ AccountsOK(users2, s2, left, epoch, epochs, R)
         /\ OrdersOK(s2.order, epochs, epoch - 1) /\ ClaimsOK(paid2, s2.order)
<1>0. /\ AccountsOK(users, s, left, epoch, epochs, R)
      /\ OrdersOK(s.order, epochs, epoch - 1) /\ ClaimsOK(paid, s.order)
      /\ DOMAIN s = SideFields /\ users \in [Investors -> Account] /\ epoch \in Nat \ {0}
      /\ u \in Investors /\ users[u].pending > 0 /\ users[u].last < epoch
      /\ rest \in Account /\ rest.queued = users[u].queued /\ rest.last = users[u].last + 1
      /\ rest.pending = AfterEpoch(users[u].pending, epochs[users[u].last].approved, epochs[users[u].last].of)
      /\ ev.now # 0 /\ k = OrderKey(u, users[u].last)
      /\ s2 = IF there THEN Claim(s, ev, k, payment, payout) ELSE s
      /\ paid2 = IF there THEN Put(paid, k, payout) ELSE paid
      /\ users2[u] = rest /\ \A v \in Investors : v # u => users2[v] = users[v]
  BY DEF Pays
<1> USE <1>0
<1>1. PICK last : last = users[u].last  OBVIOUS
<1>2. PICK r : r = R[u]  OBVIOUS
<1>3. Path(r, users[u], epochs, epoch) /\ Ready(r, u, users[u], s.order, epoch) /\ r \in [Nat -> Nat]
  BY <1>2 DEF AccountsOK, Rests
<1>4. /\ last \in 1..epoch /\ last < epoch /\ r[last] = users[u].pending
      /\ \A i \in last..(epoch - 1) : r[i + 1] = AfterEpoch(r[i], epochs[i].approved, epochs[i].of)
      /\ \A i \in last..epoch : r[epoch] <= r[i]
  BY <1>1, <1>3 DEF Path
<1>5. /\ k \in DOMAIN s.order /\ s.order[k].claimedAt = 0
      /\ \A i \in last..(epoch - 1) : r[i] > 0 => OrderKey(u, i) \in DOMAIN s.order
                                                  /\ s.order[OrderKey(u, i)].claimedAt = 0
  <2>1. \A i \in last..(epoch - 1) : r[i] > 0 => OrderKey(u, i) \in DOMAIN s.order
                                                  /\ s.order[OrderKey(u, i)].claimedAt = 0
    BY <1>1, <1>3 DEF Ready
  <2>2. last \in last..(epoch - 1) /\ r[last] > 0  BY <1>4
  <2>3. k = OrderKey(u, last)  BY <1>1
  <2> QED BY <2>1, <2>2, <2>3
<1>6. /\ s2.pending = s.pending /\ s2.outstanding = s.outstanding /\ DOMAIN s2.order = DOMAIN s.order
      /\ \A x \in DOMAIN s.order : x # k => s2.order[x] = s.order[x]
      /\ DOMAIN s2.order[k] = OrderFields
      /\ s2.order[k].approvedAt = s.order[k].approvedAt /\ s2.order[k].settledAt = s.order[k].settledAt
      /\ there => s2.order[k].claimed = payout /\ s2.order[k].claimedAt = ev.now
      /\ ~there => s2 = s
  <2>1. DOMAIN s.order[k] = OrderFields  BY <1>5 DEF OrdersOK
  <2>2. CASE there  BY <1>5, <2>1, <2>2, ClaimEffect
  <2>3. CASE ~there  BY <2>1, <2>3
  <2> QED BY <2>2, <2>3
<1>7. OrdersOK(s2.order, epochs, epoch - 1)  BY <1>5, <1>6 DEF OrdersOK
<1>8. ClaimsOK(paid2, s2.order)
  <2>1. CASE there
    <3>1. paid2 = Put(paid, k, payout)  BY <2>1
    <3>2. ASSUME NEW x, x \in DOMAIN paid2
          PROVE x \in DOMAIN s2.order /\ s2.order[x].claimed = paid2[x] /\ s2.order[x].claimedAt # 0
      <4>1. CASE x = k
        <5>1. paid2[k] = payout  BY <3>1 DEF Put
        <5> QED BY <1>5, <1>6, <2>1, <4>1, <5>1
      <4>2. CASE x # k
        <5>1. x \in DOMAIN paid /\ paid2[x] = paid[x]  BY <3>1, <3>2, <4>2 DEF Put
        <5>2. x \in DOMAIN s.order /\ s.order[x].claimed = paid[x] /\ s.order[x].claimedAt # 0
          BY <5>1 DEF ClaimsOK
        <5> QED BY <1>6, <4>2, <5>1, <5>2
      <4> QED BY <4>1, <4>2
    <3> QED BY <3>2 DEF ClaimsOK
  <2>2. CASE ~there  BY <1>6, <2>2
  <2> QED BY <2>1, <2>2
<1>9. PendingOK(s2.pending, users2)
  <2>1. \A v \in Investors : users2[v].queued = users[v].queued  OBVIOUS
  <2>2. PendingOK(s.pending, users)  BY DEF AccountsOK
  <2> QED BY <1>6, <2>1, <2>2 DEF PendingOK
<1>10. Path(r, rest, epochs, epoch)
  <2>1. rest.pending = r[last + 1] /\ rest.last = last + 1
    <3>1. last \in last..(epoch - 1)  BY <1>4
    <3>2. r[last + 1] = AfterEpoch(r[last], epochs[last].approved, epochs[last].of)  BY <1>4, <3>1
    <3>3. rest.pending = AfterEpoch(r[last], epochs[last].approved, epochs[last].of)  BY <1>1, <1>4
    <3> QED BY <1>1, <3>2, <3>3
  <2>2. rest.last \in 1..epoch  BY <1>4, <2>1
  <2>3. r[epoch] \in Nat /\ r[epoch] <= r[last + 1]
    <3>1. last + 1 \in last..epoch  BY <1>4
    <3> QED BY <1>3, <1>4, <3>1
  <2>4. rest.pending = 0 => r[epoch] = 0  BY <2>1, <2>3
  <2>5. \A i \in rest.last..(epoch - 1) : i \in last..(epoch - 1)  BY <1>4, <2>1
  <2>6. \A i \in rest.last..epoch : i \in last..epoch  BY <1>4, <2>1
  <2> QED BY <1>4, <2>1, <2>2, <2>4, <2>5, <2>6 DEF Path
<1>11. ASSUME NEW v \in Investors PROVE Path(R[v], users2[v], epochs, epoch)
  <2>1. CASE v = u  BY <1>2, <1>10, <2>1
  <2>2. CASE v # u  BY <2>2 DEF AccountsOK
  <2> QED BY <2>1, <2>2
<1>12. ASSUME NEW v \in Investors PROVE Ready(R[v], v, users2[v], s2.order, epoch)
  <2>1. CASE v = u
    <3>1. ASSUME NEW i \in rest.last..(epoch - 1), r[i] > 0
          PROVE  OrderKey(u, i) \in DOMAIN s2.order /\ s2.order[OrderKey(u, i)].claimedAt = 0
      <4>1. i \in last..(epoch - 1) /\ i # last  BY <1>1, <1>4
      <4>2. OrderKey(u, i) \in DOMAIN s.order /\ s.order[OrderKey(u, i)].claimedAt = 0  BY <1>5, <3>1, <4>1
      <4>3. OrderKey(u, i) # k  BY <1>1, <4>1, OrderKeyFields
      <4> QED BY <1>6, <4>2, <4>3
    <3> QED BY <1>2, <2>1, <3>1 DEF Ready
  <2>2. CASE v # u
    <3>1. Ready(R[v], v, users[v], s.order, epoch) /\ users2[v] = users[v]  BY <2>2 DEF AccountsOK
    <3>2. \A i : OrderKey(v, i) # k  BY <2>2, OrderKeyFields
    <3> QED BY <1>6, <3>1, <3>2 DEF Ready
  <2> QED BY <2>1, <2>2
<1>13. Outstanding(s2, left) /\ Covered(s2.pending, R, left, epoch) /\ R \in Rests
  BY <1>6 DEF AccountsOK, Outstanding
<1>14. AccountsOK(users2, s2, left, epoch, epochs, R)
  BY <1>9, <1>11, <1>12, <1>13 DEF AccountsOK
<1> QED BY <1>7, <1>8, <1>14

-----------------------------------------------------------------------------
(* An approval *)

LEMMA RowAfterNone == ASSUME NEW approved \in Nat, NEW left, left \in Nat, left + approved # 0
                      PROVE  RowAfter(0, approved, left) = 0
<1>1. Percent \in Nat \ {0}  BY OrdersAssumption
<1>2. approved * Percent \in Nat /\ left + approved \in Nat \ {0}  BY <1>1
<1>3. PICK x : x = approved * Percent  OBVIOUS
<1>4. PICK of : of = left + approved  OBVIOUS
<1>5. PICK percentage : percentage = x \div of  OBVIOUS
<1>6. percentage \in Nat  BY <1>2, <1>3, <1>4, <1>5
<1>7. 0 * percentage = 0 /\ 0 \div Percent = 0  BY <1>1, <1>6
<1> QED BY <1>3, <1>4, <1>5, <1>7 DEF RowAfter, ApprovedUserAmount, ApprovedPercentage

\* The orders an approval makes.
NewKeys(s, i) == {OrderKey(k[2], i) : k \in PendingOf(s, Asset)}

Remaining(out, left) == [out EXCEPT !.pending = left]

\* The rows and orders after an approval.
RowsApproved(s, s2, ev, i, approved, left) ==
  /\ DOMAIN s2.pending \subseteq DOMAIN s.pending
  /\ \A k \in DOMAIN s.pending :
       /\ AmountsOf(s2.pending, k) \in AmountsRow
       /\ AmountsOf(s2.pending, k).pending = RowAfter(s.pending[k].pending, approved, left)
       /\ AmountsOf(s2.pending, k).queued = s.pending[k].queued
  /\ s2.outstanding = SaveOrClear(s.outstanding, Asset, Remaining(AmountsOf(s.outstanding, Asset), left))
  /\ DOMAIN s2.order = DOMAIN s.order \cup NewKeys(s, i)
  /\ \A x \in NewKeys(s, i) : /\ DOMAIN s2.order[x] = OrderFields /\ s2.order[x].approvedAt = ev.now
                              /\ s2.order[x].settledAt = 0 /\ s2.order[x].claimedAt = 0
  /\ \A x \in DOMAIN s.order : x \notin NewKeys(s, i) => s2.order[x] = s.order[x]

LEMMA ApproveRows ==
  ASSUME NEW s, DOMAIN s = SideFields, NEW users, PendingOK(s.pending, users),
         NEW ev, NEW i, NEW approved, approved \in Nat, NEW left, left \in Nat, left + approved # 0,
         \A k \in DOMAIN s.pending : RowAfter(s.pending[k].pending, approved, left) \in Nat,
         NEW s2, s2 = Approve(s, ev, Asset, i, approved, left)
  PROVE  RowsApproved(s, s2, ev, i, approved, left)
<1> DEFINE K == PendingOf(s, Asset)
           share(k) == ApprovedUserAmount(s.pending[k].pending, ApprovedPercentage(approved, left))
           rest == [k \in K |-> [s.pending[k] EXCEPT !.pending = @ - share(k)]]
           t2 == [k \in {k \in DOMAIN s.pending : k \in K => rest[k] # NoAmounts} |->
                    IF k \in K THEN rest[k] ELSE s.pending[k]]
           made(u) == [NewOrder EXCEPT !.approvedAt = ev.now, !.approved = share(<<Asset, u>>)]
           new == [o \in {<<Asset, k[2], i>> : k \in K} |-> made(o[2])]
           Keys == NewKeys(s, i)
<1>1. /\ s2.pending = t2
      /\ s2.outstanding = SaveOrClear(s.outstanding, Asset, Remaining(AmountsOf(s.outstanding, Asset), left))
      /\ s2.order = PutAll(s.order, new)
  BY DEF Approve, SideFields, AmountsOf, Remaining
<1>2. \A k \in DOMAIN s.pending : s.pending[k] \in AmountsRow  BY DEF PendingOK
<1>3. K \subseteq DOMAIN s.pending /\ \A k \in DOMAIN s.pending : k \notin K => s.pending[k].pending = 0
  <2>1. \A k \in DOMAIN s.pending : k[1] = Asset
    <3>1. \A k \in DOMAIN s.pending : k = RowKey(k[2])  BY DEF PendingOK
    <3>2. \A k : RowKey(k[2])[1] = Asset  BY RowKeyFields
    <3> QED BY <3>1, <3>2
  <2>2. K \subseteq DOMAIN s.pending
        /\ \A k \in DOMAIN s.pending : k \notin K => ~(s.pending[k].pending > 0)
    BY <2>1 DEF PendingOf
  <2> QED BY <1>2, <2>2 DEF AmountsRow
<1>4. \A k \in K : rest[k] = [pending |-> RowAfter(s.pending[k].pending, approved, left), queued |-> s.pending[k].queued]
  BY <1>2, <1>3 DEF RowAfter, AmountsRow
<1> HIDE DEF rest, K
<1>5. DOMAIN t2 \subseteq DOMAIN s.pending  OBVIOUS
<1>6. ASSUME NEW k \in DOMAIN s.pending
      PROVE /\ AmountsOf(t2, k) \in AmountsRow
            /\ AmountsOf(t2, k).pending = RowAfter(s.pending[k].pending, approved, left)
            /\ AmountsOf(t2, k).queued = s.pending[k].queued
  <2>1. CASE k \in K
    <3>1. AmountsOf(t2, k) = rest[k]
      <4>1. CASE rest[k] = NoAmounts
        <5>1. k \notin DOMAIN t2  BY <2>1, <4>1
        <5> HIDE DEF t2
        <5> QED BY <4>1, <5>1, AmountsFound
      <4>2. CASE rest[k] # NoAmounts
        <5>1. k \in DOMAIN t2 /\ t2[k] = rest[k]  BY <2>1, <4>2
        <5> HIDE DEF t2
        <5> QED BY <5>1, AmountsFound
      <4> QED BY <4>1, <4>2
    <3>2. PICK p : p = RowAfter(s.pending[k].pending, approved, left)  OBVIOUS
    <3>3. rest[k] = [pending |-> p, queued |-> s.pending[k].queued] /\ p \in Nat  BY <1>4, <2>1, <3>2
    <3> HIDE DEF t2
    <3> QED BY <1>2, <3>1, <3>2, <3>3 DEF AmountsRow
  <2>2. CASE k \notin K
    <3>1. k \in DOMAIN t2 /\ t2[k] = s.pending[k]  BY <2>2
    <3> HIDE DEF t2
    <3>2. AmountsOf(t2, k) = s.pending[k]  BY <3>1, AmountsFound
    <3>3. s.pending[k].pending = 0  BY <1>3, <2>2
    <3>4. RowAfter(0, approved, left) = 0  BY RowAfterNone
    <3> QED BY <1>2, <3>2, <3>3, <3>4
  <2> QED BY <2>1, <2>2
<1>7. Keys = {<<Asset, k[2], i>> : k \in K}  BY DEF OrderKey, NewKeys, K
<1>8. DOMAIN new = Keys
  <2>1. DOMAIN new = {<<Asset, k[2], i>> : k \in K}  OBVIOUS
  <2> QED BY <1>7, <2>1
<1>9. ASSUME NEW x \in Keys
      PROVE  /\ DOMAIN new[x] = OrderFields /\ new[x].approvedAt = ev.now
             /\ new[x].settledAt = 0 /\ new[x].claimedAt = 0
  <2>1. new[x] = made(x[2])  BY <1>7
  <2> HIDE DEF new
  <2>2. PICK a : a = share(<<Asset, x[2]>>)  OBVIOUS
  <2>3. new[x] = [NewOrder EXCEPT !.approvedAt = ev.now, !.approved = a]  BY <2>1, <2>2
  <2> QED BY <2>3 DEF NewOrder, OrderFields
<1> HIDE DEF t2, new, Keys
<1>10. /\ DOMAIN s2.order = DOMAIN s.order \cup Keys
       /\ \A x \in DOMAIN s2.order : s2.order[x] = IF x \in Keys THEN new[x] ELSE s.order[x]
  BY <1>1, <1>8 DEF PutAll
<1>11. \A x \in Keys : /\ DOMAIN s2.order[x] = OrderFields /\ s2.order[x].approvedAt = ev.now
                       /\ s2.order[x].settledAt = 0 /\ s2.order[x].claimedAt = 0
  BY <1>9, <1>10
<1>12. \A x \in DOMAIN s.order : x \notin Keys => s2.order[x] = s.order[x]  BY <1>10
<1> QED BY <1>1, <1>5, <1>6, <1>10, <1>11, <1>12 DEF Keys, RowsApproved

\* An approval pays the accounts' parts and covers what it leaves.
Approves(users, s, left, epoch, epochs, R, paid, n, ev, epochs2, s2) ==
  /\ AccountsOK(users, s, left, epoch, epochs, R)
  /\ OrdersOK(s.order, epochs, epoch - 1) /\ ClaimsOK(paid, s.order)
  /\ DOMAIN s = SideFields /\ users \in [Investors -> Account]
  /\ epoch \in Nat \ {0} /\ left \in Nat \ {0} /\ n \in Nat /\ n <= left /\ ev.now # 0
  /\ \A i \in 1..(epoch - 1) : epochs2[i] = epochs[i]
  /\ epochs2[epoch].approved = n /\ epochs2[epoch].of = left /\ epochs2[epoch].nav = 0
  /\ s2 = Approve(s, ev, Asset, epoch, n, left - n)

LEMMA ApproveOK ==
  ASSUME NEW users, NEW s, NEW left, NEW epoch, NEW epochs, NEW R, NEW paid, NEW n, NEW ev, NEW epochs2, NEW s2,
         Approves(users, s, left, epoch, epochs, R, paid, n, ev, epochs2, s2)
  PROVE  /\ \E S : AccountsOK(users, s2, left - n, epoch + 1, epochs2, S)
         /\ OrdersOK(s2.order, epochs2, epoch) /\ ClaimsOK(paid, s2.order)
<1>a. /\ AccountsOK(users, s, left, epoch, epochs, R)
      /\ OrdersOK(s.order, epochs, epoch - 1) /\ ClaimsOK(paid, s.order)
      /\ DOMAIN s = SideFields /\ users \in [Investors -> Account]
      /\ epoch \in Nat \ {0} /\ left \in Nat \ {0} /\ n \in Nat /\ n <= left /\ ev.now # 0
      /\ \A i \in 1..(epoch - 1) : epochs2[i] = epochs[i]
      /\ epochs2[epoch].approved = n /\ epochs2[epoch].of = left /\ epochs2[epoch].nav = 0
      /\ s2 = Approve(s, ev, Asset, epoch, n, left - n)
  BY DEF Approves
<1> USE <1>a
<1> DEFINE Part(x) == AfterEpoch(x, n, left)
<1>0. PICK m : m = left - n  OBVIOUS
<1>1. PICK t : t = s.pending  OBVIOUS
<1>2. /\ R \in Rests /\ PendingOK(t, users) /\ Covered(t, R, left, epoch) /\ Outstanding(s, left)
      /\ epoch \in Nat /\ m \in Nat /\ m + n = left /\ s2 = Approve(s, ev, Asset, epoch, n, m)
  BY <1>0, <1>1 DEF AccountsOK
<1>3. \A x \in Nat : Part(x) \in Nat /\ Part(x) <= x  BY AfterEpochType
<1>4. \A k : AmountsOf(t, k) \in AmountsRow  BY <1>2, RowsType
<1>5. \A p, r \in Nat : r <= p => RowAfter(p, n, m) \in Nat /\ Part(r) <= RowAfter(p, n, m)
  BY <1>0, RowCovers
<1>6. \A k \in DOMAIN t : t[k] \in AmountsRow /\ t[k].pending \in Nat /\ AmountsOf(t, k) = t[k]
  BY <1>2, AmountsFound DEF PendingOK, AmountsRow
<1>7. \A k \in DOMAIN t : RowAfter(t[k].pending, n, m) \in Nat  BY <1>5, <1>6
<1> HIDE DEF Part
<1>8. PICK Keys : Keys = NewKeys(s, epoch)  OBVIOUS
<1>9. /\ DOMAIN s2.pending \subseteq DOMAIN t
      /\ \A k \in DOMAIN t : /\ AmountsOf(s2.pending, k) \in AmountsRow
                             /\ AmountsOf(s2.pending, k).pending = RowAfter(t[k].pending, n, m)
                             /\ AmountsOf(s2.pending, k).queued = t[k].queued
      /\ s2.outstanding = SaveOrClear(s.outstanding, Asset, Remaining(AmountsOf(s.outstanding, Asset), m))
      /\ DOMAIN s2.order = DOMAIN s.order \cup Keys
      /\ \A x \in Keys : /\ DOMAIN s2.order[x] = OrderFields /\ s2.order[x].approvedAt = ev.now
                         /\ s2.order[x].settledAt = 0 /\ s2.order[x].claimedAt = 0
      /\ \A x \in DOMAIN s.order : x \notin Keys => s2.order[x] = s.order[x]
  <2>1. DOMAIN s = SideFields /\ PendingOK(s.pending, users) /\ n \in Nat /\ m \in Nat /\ m + n # 0
    BY <1>1, <1>2
  <2>2. \A k \in DOMAIN s.pending : RowAfter(s.pending[k].pending, n, m) \in Nat  BY <1>1, <1>7
  <2>3. RowsApproved(s, s2, ev, epoch, n, m)  BY ONLY <1>2, <2>1, <2>2, ApproveRows
  <2> QED BY ONLY <1>1, <1>8, <2>3 DEF RowsApproved
<1>10. PICK t2 : t2 = s2.pending  OBVIOUS
<1>11. /\ DOMAIN t2 \subseteq DOMAIN t
       /\ \A k \in DOMAIN t : /\ AmountsOf(t2, k) \in AmountsRow
                              /\ AmountsOf(t2, k).pending = RowAfter(t[k].pending, n, m)
                              /\ AmountsOf(t2, k).queued = t[k].queued
  BY <1>9, <1>10
<1>12. \A v \in Investors : R[v] \in [Nat -> Nat] /\ R[v][epoch] \in Nat  BY <1>2 DEF Rests
<1>13. PICK S : S = [v \in Investors |-> [R[v] EXCEPT ![epoch + 1] = Part(R[v][epoch])]]  OBVIOUS
<1>14. S \in Rests /\ \A v \in Investors : /\ S[v][epoch + 1] = Part(R[v][epoch])
                                           /\ \A i \in Nat : i # epoch + 1 => S[v][i] = R[v][i]
  BY <1>2, <1>3, <1>12, <1>13 DEF Rests
<1>15. PendingOK(t2, users)
  <2>1. IsFiniteSet(DOMAIN t2)  BY <1>2, <1>11, FS_Subset DEF PendingOK
  <2>2. \A k \in DOMAIN t2 : k[2] \in Investors /\ k = RowKey(k[2])  BY <1>2, <1>11 DEF PendingOK
  <2>3. \A k \in DOMAIN t2 : t2[k] \in AmountsRow
    <3>1. \A k \in DOMAIN t2 : t2[k] = AmountsOf(t2, k)  BY AmountsFound
    <3> QED BY <1>11, <3>1
  <2>4. ASSUME NEW v \in Investors PROVE AmountsOf(t2, RowKey(v)).queued = users[v].queued
    <3>1. AmountsOf(t, RowKey(v)).queued = users[v].queued  BY <1>2 DEF PendingOK
    <3>2. PICK k : k = RowKey(v)  OBVIOUS
    <3>3. CASE k \in DOMAIN t  BY <1>6, <1>11, <3>1, <3>2, <3>3
    <3>4. CASE k \notin DOMAIN t
      <4>1. k \notin DOMAIN t2  BY <1>11, <3>4
      <4>2. AmountsOf(t, k) = NoAmounts /\ AmountsOf(t2, k) = NoAmounts  BY <3>4, <4>1, AmountsFound
      <4> QED BY <3>1, <3>2, <4>2
    <3> QED BY <3>3, <3>4
  <2> QED BY <2>1, <2>2, <2>3, <2>4 DEF PendingOK
<1>16. ASSUME NEW v \in Investors PROVE S[v][epoch + 1] <= AmountsOf(t2, RowKey(v)).pending
  <2>1. R[v][epoch] <= AmountsOf(t, RowKey(v)).pending  BY <1>2 DEF Covered
  <2>2. PICK k : k = RowKey(v)  OBVIOUS
  <2>3. CASE k \in DOMAIN t
    <3>1. Part(R[v][epoch]) <= RowAfter(t[k].pending, n, m)  BY <1>5, <1>6, <1>12, <2>1, <2>2, <2>3
    <3> QED BY <1>11, <1>14, <2>2, <2>3, <3>1
  <2>4. CASE k \notin DOMAIN t
    <3>1. k \notin DOMAIN t2  BY <1>11, <2>4
    <3>2. AmountsOf(t, k) = NoAmounts /\ AmountsOf(t2, k) = NoAmounts  BY <2>4, <3>1, AmountsFound
    <3>3. R[v][epoch] <= 0  BY <2>1, <2>2, <3>2 DEF NoAmounts
    <3>4. R[v][epoch] = 0  BY <1>12, <3>3
    <3>5. Part(0) <= 0  BY <1>3
    <3> QED BY <1>14, <2>2, <3>2, <3>4, <3>5 DEF NoAmounts
  <2> QED BY <2>3, <2>4
<1>17. \A k \in DOMAIN t : k[2] \in Investors /\ k = RowKey(k[2])  BY <1>2 DEF PendingOK
<1>18. ASSUME NEW k \in DOMAIN t \ DOMAIN t2 PROVE S[k[2]][epoch + 1] = 0 /\ t[k].queued = 0
  <2>1. AmountsOf(t2, k) = NoAmounts  BY AmountsFound
  <2>2. AmountsOf(t2, k).pending = 0 /\ AmountsOf(t2, k).queued = 0  BY <2>1 DEF NoAmounts
  <2>3. S[k[2]][epoch + 1] <= 0  BY <1>16, <1>17, <2>2
  <2>4. S[k[2]][epoch + 1] \in Nat  BY <1>3, <1>12, <1>14, <1>17
  <2> QED BY <1>11, <2>2, <2>3, <2>4
<1>19. IsFiniteSet(DOMAIN t)  BY <1>2 DEF PendingOK
<1>20. m <= SumFunction(RestOf(t2, S, epoch + 1))
  <2>1. PICK w : w = RestOf(t, R, epoch)  OBVIOUS
  <2>2. IsSummable(w) /\ left <= SumFunction(w)  BY <1>2, <2>1, RowsType DEF Covered
  <2>3. DOMAIN w = DOMAIN t /\ \A k \in DOMAIN t : w[k] = R[k[2]][epoch]  BY <2>1 DEF RestOf
  <2>4. PICK v : v = [k \in DOMAIN t |-> Part(w[k])]  OBVIOUS
  <2>5. DOMAIN v = DOMAIN w /\ \A k \in DOMAIN w : v[k] = Part(w[k]) /\ w[k] \in Nat /\ v[k] \in Nat
    BY <1>3, <1>12, <1>17, <2>3, <2>4
  <2>6. IsSummable(v)  BY <1>19, <2>3, <2>5 DEF IsSummable
  <2>7. m <= SumFunction(v)  BY <1>0, <2>2, <2>5, <2>6, RestCovers DEF Part
  <2>8. PICK x : x = RestOf(t2, S, epoch + 1)  OBVIOUS
  <2>9. DOMAIN x = DOMAIN t2 /\ \A k \in DOMAIN t2 : x[k] = S[k[2]][epoch + 1]  BY <2>8 DEF RestOf
  <2>10. \A k \in DOMAIN t : v[k] = S[k[2]][epoch + 1]  BY <1>14, <1>17, <2>3, <2>5
  <2>11. DOMAIN x \subseteq DOMAIN v /\ \A k \in DOMAIN x : x[k] = v[k]
    BY <1>11, <2>3, <2>5, <2>9, <2>10
  <2>12. \A k \in DOMAIN v \ DOMAIN x : v[k] = 0  BY <1>18, <2>3, <2>5, <2>9, <2>10
  <2>13. SumFunction(x) = SumFunction(v)  BY <2>6, <2>11, <2>12, SumOfRest
  <2> QED BY <2>7, <2>8, <2>13
<1>21. SumFunction(QueuedOf(t2)) = SumFunction(QueuedOf(t))
  <2>1. IsSummable(QueuedOf(t)) /\ DOMAIN QueuedOf(t) = DOMAIN t /\ DOMAIN QueuedOf(t2) = DOMAIN t2
    BY <1>2, RowsType DEF QueuedOf
  <2>2. \A k \in DOMAIN t2 : QueuedOf(t2)[k] = QueuedOf(t)[k]
    <3>1. \A k \in DOMAIN t2 : t2[k] = AmountsOf(t2, k)  BY AmountsFound
    <3> QED BY <1>11, <3>1 DEF QueuedOf
  <2>3. \A k \in DOMAIN t \ DOMAIN t2 : QueuedOf(t)[k] = 0  BY <1>18 DEF QueuedOf
  <2> QED BY <1>11, <2>1, <2>2, <2>3, SumOfRest
<1>22. Outstanding(s2, m)
  <2>1. PICK out : out = AmountsOf(s.outstanding, Asset)  OBVIOUS
  <2>2. out \in AmountsRow /\ out.queued = SumFunction(QueuedOf(t))  BY <1>1, <1>2, <2>1 DEF Outstanding
  <2>3. PICK row : row = [out EXCEPT !.pending = m] /\ s2.outstanding = SaveOrClear(s.outstanding, Asset, row)
    BY <1>9, <2>1 DEF Remaining
  <2>4. row \in AmountsRow /\ row.pending = m /\ row.queued = out.queued  BY <1>2, <2>2, <2>3 DEF AmountsRow
  <2>5. row.queued = SumFunction(QueuedOf(s2.pending))  BY <1>10, <1>21, <2>2, <2>4
  <2> QED BY ONLY <2>3, <2>4, <2>5, OutstandingSaved
<1>23. ASSUME NEW v \in Investors PROVE Path(S[v], users[v], epochs2, epoch + 1)
  <2>1. PICK r : r = R[v]  OBVIOUS
  <2>2. PICK z : z = S[v]  OBVIOUS
  <2>3. z[epoch + 1] = Part(r[epoch]) /\ r[epoch] \in Nat /\ \A i \in Nat : i # epoch + 1 => z[i] = r[i]
    BY <1>12, <1>14, <2>1, <2>2
  <2>4. Path(r, users[v], epochs, epoch)  BY <2>1 DEF AccountsOK
  <2>5. users[v].pending = 0 => z[epoch + 1] = 0
    <3>1. Part(0) = 0  BY <1>3
    <3> QED BY <2>3, <2>4, <3>1 DEF Path
  <2>6. ASSUME users[v].pending > 0
        PROVE  /\ users[v].last \in 1..(epoch + 1) /\ z[users[v].last] = users[v].pending
               /\ \A i \in users[v].last..(epoch + 1 - 1) : z[i + 1] = AfterEpoch(z[i], epochs2[i].approved, epochs2[i].of)
               /\ \A i \in users[v].last..(epoch + 1) : z[epoch + 1] <= z[i]
    <3>1. PICK last : last = users[v].last  OBVIOUS
    <3>2. /\ last \in 1..epoch /\ r[last] = users[v].pending
          /\ \A i \in last..(epoch - 1) : r[i + 1] = AfterEpoch(r[i], epochs[i].approved, epochs[i].of)
          /\ \A i \in last..epoch : r[epoch] <= r[i]
      BY <2>4, <2>6, <3>1 DEF Path
    <3>3. last \in 1..(epoch + 1) /\ z[last] = users[v].pending  BY <2>3, <3>2
    <3>4. ASSUME NEW i \in last..(epoch + 1 - 1)
          PROVE  z[i + 1] = AfterEpoch(z[i], epochs2[i].approved, epochs2[i].of)
      <4>1. CASE i = epoch
        <5>1. z[i] = r[epoch]  BY <2>3, <4>1
        <5> QED BY <2>3, <4>1, <5>1 DEF Part
      <4>2. CASE i # epoch
        <5>1. i \in last..(epoch - 1) /\ i \in 1..(epoch - 1)  BY <3>2, <4>2
        <5>2. z[i] = r[i] /\ z[i + 1] = r[i + 1] /\ epochs2[i] = epochs[i]  BY <2>3, <3>2, <5>1
        <5> QED BY <3>2, <5>1, <5>2
      <4> QED BY <4>1, <4>2
    <3>5. ASSUME NEW i \in last..(epoch + 1) PROVE z[epoch + 1] <= z[i]
      <4>1. z[epoch + 1] \in Nat /\ z[epoch + 1] <= r[epoch]  BY <1>3, <2>3
      <4>2. CASE i = epoch + 1  BY <4>1, <4>2
      <4>3. CASE i # epoch + 1
        <5>1. i \in last..epoch /\ i \in Nat  BY <3>2, <4>3
        <5>2. z[i] = r[i] /\ r[epoch] <= r[i] /\ r[i] \in Nat  BY <1>12, <2>1, <2>3, <3>2, <4>3, <5>1
        <5> QED BY <2>3, <4>1, <5>2
      <4> QED BY <4>2, <4>3
    <3> QED BY <3>1, <3>3, <3>4, <3>5
  <2> QED BY <2>2, <2>5, <2>6 DEF Path
<1>24. \A x \in DOMAIN s.order : x \notin Keys
  <2>1. \A x \in DOMAIN s.order : x[3] \in 1..(epoch - 1)  BY DEF OrdersOK
  <2>2. \A x \in Keys : x[3] = epoch  BY <1>8, OrderKeyFields DEF NewKeys
  <2> QED BY <2>1, <2>2
<1>25. ASSUME NEW v \in Investors PROVE Ready(S[v], v, users[v], s2.order, epoch + 1)
  <2>1. Ready(R[v], v, users[v], s.order, epoch) /\ Path(R[v], users[v], epochs, epoch)  BY DEF AccountsOK
  <2>2. ASSUME users[v].pending > 0, NEW i \in users[v].last..(epoch + 1 - 1), S[v][i] > 0
        PROVE  OrderKey(v, i) \in DOMAIN s2.order /\ s2.order[OrderKey(v, i)].claimedAt = 0
    <3>1. users[v].last \in 1..epoch  BY <2>1, <2>2 DEF Path
    <3>2. i \in Nat /\ i # epoch + 1 /\ S[v][i] = R[v][i]  BY <1>14, <3>1
    <3>3. CASE i = epoch
      <4>1. PICK k : k = RowKey(v)  OBVIOUS
      <4>2. R[v][epoch] > 0  BY <2>2, <3>2, <3>3
      <4>3. AmountsOf(t, k).pending > 0
        <5>1. R[v][epoch] <= AmountsOf(t, k).pending  BY <1>2, <4>1 DEF Covered
        <5>2. AmountsOf(t, k).pending \in Nat  BY <1>4 DEF AmountsRow
        <5> QED BY <1>12, <4>2, <5>1, <5>2
      <4>4. k \in DOMAIN t
        <5>1. SUFFICES ASSUME k \notin DOMAIN t PROVE FALSE  OBVIOUS
        <5>2. AmountsOf(t, k) = NoAmounts  BY <5>1, AmountsFound
        <5> QED BY <4>3, <5>2 DEF NoAmounts
      <4>5. k[1] = Asset /\ k[2] = v  BY <4>1, RowKeyFields
      <4>6. k \in PendingOf(s, Asset)  BY <1>1, <1>6, <4>3, <4>4, <4>5 DEF PendingOf
      <4>7. OrderKey(v, epoch) \in Keys  BY <1>8, <4>5, <4>6 DEF NewKeys
      <4> QED BY <1>9, <3>3, <4>7
    <3>4. CASE i # epoch
      <4>1. i \in users[v].last..(epoch - 1)  BY <3>1, <3>4
      <4>2. OrderKey(v, i) \in DOMAIN s.order /\ s.order[OrderKey(v, i)].claimedAt = 0
        BY <2>1, <2>2, <3>2, <4>1 DEF Ready
      <4> QED BY <1>9, <1>24, <4>2
    <3> QED BY <3>3, <3>4
  <2> QED BY <2>2 DEF Ready
<1>26. Covered(t2, S, m, epoch + 1)  BY <1>16, <1>20 DEF Covered
<1>27. AccountsOK(users, s2, m, epoch + 1, epochs2, S)
  BY <1>10, <1>14, <1>15, <1>22, <1>23, <1>25, <1>26 DEF AccountsOK
<1>28. OrdersOK(s2.order, epochs2, epoch)
  <2>1. ASSUME NEW x \in DOMAIN s2.order
        PROVE  /\ x = OrderKey(x[2], x[3]) /\ x[3] \in 1..epoch
               /\ DOMAIN s2.order[x] = OrderFields /\ s2.order[x].approvedAt # 0
               /\ s2.order[x].settledAt # 0 <=> epochs2[x[3]].nav # 0 /\ epochs2[x[3]].known
    <3>1. CASE x \in Keys
      <4>1. PICK v : x = OrderKey(v, epoch)  BY <1>8, <3>1 DEF NewKeys
      <4>2. x[2] = v /\ x[3] = epoch  BY <4>1, OrderKeyFields
      <4>3. /\ DOMAIN s2.order[x] = OrderFields /\ s2.order[x].approvedAt # 0 /\ s2.order[x].settledAt = 0
        BY <1>9, <3>1
      <4> QED BY <4>1, <4>2, <4>3
    <3>2. CASE x \notin Keys
      <4>1. x \in DOMAIN s.order /\ s2.order[x] = s.order[x]  BY <1>9, <3>2
      <4>2. x[3] \in 1..(epoch - 1) /\ epochs2[x[3]] = epochs[x[3]]  BY <4>1 DEF OrdersOK
      <4>3. x[3] \in 1..epoch  BY <4>2
      <4> QED BY <4>1, <4>2, <4>3 DEF OrdersOK
    <3> QED BY <3>1, <3>2
  <2> QED BY <2>1 DEF OrdersOK
<1>29. ClaimsOK(paid, s2.order)  BY <1>9, <1>24 DEF ClaimsOK
<1> QED BY <1>0, <1>27, <1>28, <1>29

\* An epoch's orders are settled with it.
Settles(users, s, left, epoch, epochs, R, paid, i, nav, ev, d, amount, epochs2, s2) ==
  /\ AccountsOK(users, s, left, epoch, epochs, R)
  /\ OrdersOK(s.order, epochs, epoch - 1) /\ ClaimsOK(paid, s.order)
  /\ DOMAIN s = SideFields /\ epoch \in Nat \ {0}
  /\ epochs[i].nav = 0 /\ nav # 0 /\ ev.now # 0
  /\ \A j \in 1..(epoch - 1) : j # i => epochs2[j] = epochs[j]
  /\ epochs2[i].approved = epochs[i].approved /\ epochs2[i].of = epochs[i].of
  /\ epochs2[i].nav = nav /\ (epochs2[i].known <=> HasDecimalsOf(d))
  /\ s2 = Settle(s, ev, Asset, i, amount, PayoutsOf(d, s, i, nav))

LEMMA SettleOK ==
  ASSUME NEW users, NEW s, NEW left, NEW epoch, NEW epochs, NEW R, NEW paid, NEW i, NEW nav, NEW ev, NEW d,
         NEW amount, NEW epochs2, NEW s2,
         Settles(users, s, left, epoch, epochs, R, paid, i, nav, ev, d, amount, epochs2, s2)
  PROVE  AccountsOK(users, s2, left, epoch, epochs2, R) /\ OrdersOK(s2.order, epochs2, epoch - 1)
         /\ ClaimsOK(paid, s2.order)
<1>a. /\ AccountsOK(users, s, left, epoch, epochs, R)
      /\ OrdersOK(s.order, epochs, epoch - 1) /\ ClaimsOK(paid, s.order)
      /\ DOMAIN s = SideFields /\ epoch \in Nat \ {0}
      /\ epochs[i].nav = 0 /\ nav # 0 /\ ev.now # 0
      /\ \A j \in 1..(epoch - 1) : j # i => epochs2[j] = epochs[j]
      /\ epochs2[i].approved = epochs[i].approved /\ epochs2[i].of = epochs[i].of
      /\ epochs2[i].nav = nav /\ (epochs2[i].known <=> HasDecimalsOf(d))
      /\ s2 = Settle(s, ev, Asset, i, amount, PayoutsOf(d, s, i, nav))
  BY DEF Settles
<1> USE <1>a
<1> DEFINE K == ToSettle(d, s, Asset, i)
           rows == [k \in K |-> [s.order[k] EXCEPT !.settledAt = ev.now, !.settled = PayoutsOf(d, s, i, nav)[k]]]
<1>1. s2.pending = s.pending /\ s2.outstanding = s.outstanding /\ s2.order = PutAll(s.order, rows)
  BY DEF Settle, SideFields, PayoutsOf
<1>2. \A k \in DOMAIN s.order : k \in K <=> HasDecimalsOf(d) /\ k[3] = i /\ s.order[k].settledAt = 0
  <2>1. \A k \in DOMAIN s.order : k \in Where(s.order, [settledAt |-> 0]) <=> s.order[k].settledAt = 0
    BY DEF Where, Matches
  <2>2. \A k \in DOMAIN s.order : k[1] = Asset /\ s.order[k].approvedAt # 0
    <3>1. \A k \in DOMAIN s.order : k = OrderKey(k[2], k[3]) /\ s.order[k].approvedAt # 0  BY DEF OrdersOK
    <3>2. \A k : OrderKey(k[2], k[3])[1] = Asset  BY OrderKeyFields
    <3> QED BY <3>1, <3>2
  <2>3. K = {k \in Where(s.order, [settledAt |-> 0]) : /\ HasDecimalsOf(d) /\ k[1] = Asset /\ k[3] = i
                                                     /\ s.order[k].approvedAt # 0}
    BY DEF ToSettle
  <2> HIDE DEF K
  <2> QED BY <2>1, <2>2, <2>3
<1>3. K \subseteq DOMAIN s.order  BY DEF ToSettle, Where
<1> HIDE DEF K
<1>4. \A k \in DOMAIN s.order : DOMAIN s.order[k] = OrderFields  BY DEF OrdersOK
<1>5. \A k \in K : /\ DOMAIN rows[k] = OrderFields /\ rows[k].settledAt = ev.now
                   /\ rows[k].approvedAt = s.order[k].approvedAt
                   /\ rows[k].claimedAt = s.order[k].claimedAt /\ rows[k].claimed = s.order[k].claimed
  <2>1. ASSUME NEW k \in K
        PROVE /\ DOMAIN rows[k] = OrderFields /\ rows[k].settledAt = ev.now
              /\ rows[k].approvedAt = s.order[k].approvedAt
              /\ rows[k].claimedAt = s.order[k].claimedAt /\ rows[k].claimed = s.order[k].claimed
    <3>1. PICK o : o = s.order[k]  OBVIOUS
    <3>2. PICK x : x = PayoutsOf(d, s, i, nav)[k]  OBVIOUS
    <3>3. rows[k] = [o EXCEPT !.settledAt = ev.now, !.settled = x]  BY <3>1, <3>2
    <3>4. DOMAIN o = OrderFields  BY <1>3, <1>4, <3>1
    <3> HIDE DEF rows
    <3> QED BY <3>1, <3>3, <3>4 DEF OrderFields
  <2> QED BY <2>1
<1>6. DOMAIN rows = K  OBVIOUS
<1> HIDE DEF rows
<1>7. DOMAIN s2.order = DOMAIN s.order
      /\ \A k \in DOMAIN s.order : s2.order[k] = IF k \in K THEN rows[k] ELSE s.order[k]
  BY <1>1, <1>3, <1>6 DEF PutAll
<1>8. \A k \in DOMAIN s.order :
        /\ DOMAIN s2.order[k] = OrderFields /\ s2.order[k].approvedAt = s.order[k].approvedAt
        /\ s2.order[k].claimedAt = s.order[k].claimedAt /\ s2.order[k].claimed = s.order[k].claimed
        /\ s2.order[k].settledAt = IF k \in K THEN ev.now ELSE s.order[k].settledAt
  BY <1>4, <1>5, <1>7
<1>9. \A j \in 1..(epoch - 1) : epochs2[j].approved = epochs[j].approved /\ epochs2[j].of = epochs[j].of
  OBVIOUS
<1>10. ASSUME NEW k \in DOMAIN s2.order
       PROVE  /\ k = OrderKey(k[2], k[3]) /\ k[3] \in 1..(epoch - 1)
              /\ DOMAIN s2.order[k] = OrderFields /\ s2.order[k].approvedAt # 0
              /\ s2.order[k].settledAt # 0 <=> epochs2[k[3]].nav # 0 /\ epochs2[k[3]].known
  <2>1. /\ k \in DOMAIN s.order /\ k = OrderKey(k[2], k[3]) /\ k[3] \in 1..(epoch - 1)
        /\ s.order[k].approvedAt # 0
        /\ s.order[k].settledAt # 0 <=> epochs[k[3]].nav # 0 /\ epochs[k[3]].known
    BY <1>7 DEF OrdersOK
  <2>2. CASE k[3] = i
    <3>1. s.order[k].settledAt = 0  BY <2>1, <2>2
    <3>2. k \in K <=> HasDecimalsOf(d)  BY <1>2, <2>1, <2>2, <3>1
    <3>3. s2.order[k].settledAt # 0 <=> HasDecimalsOf(d)
      <4>1. s2.order[k].settledAt = IF k \in K THEN ev.now ELSE 0  BY <1>8, <2>1, <3>1
      <4> QED BY <3>2, <4>1
    <3> QED BY <1>8, <2>1, <2>2, <3>3
  <2>3. CASE k[3] # i
    <3>1. k \notin K  BY <1>2, <2>1, <2>3
    <3>2. epochs2[k[3]] = epochs[k[3]]  BY <2>1, <2>3
    <3> QED BY <1>8, <2>1, <3>1, <3>2
  <2> QED BY <2>2, <2>3
<1>11. ASSUME NEW v \in Investors PROVE Path(R[v], users[v], epochs2, epoch)
  <2>1. Path(R[v], users[v], epochs, epoch)  BY DEF AccountsOK
  <2>2. CASE users[v].pending > 0
    <3>1. users[v].last \in 1..epoch  BY <2>1, <2>2 DEF Path
    <3>2. \A j \in users[v].last..(epoch - 1) : j \in 1..(epoch - 1)  BY <3>1
    <3> QED BY <1>9, <2>1, <3>2 DEF Path
  <2>3. CASE ~(users[v].pending > 0)  BY <2>1, <2>3 DEF Path
  <2> QED BY <2>2, <2>3
<1>12. \A v \in Investors : Ready(R[v], v, users[v], s2.order, epoch)
  BY <1>7, <1>8 DEF AccountsOK, Ready
<1>13. Outstanding(s2, left) /\ PendingOK(s2.pending, users) /\ Covered(s2.pending, R, left, epoch) /\ R \in Rests
  BY <1>1 DEF AccountsOK, Outstanding
<1>14. AccountsOK(users, s2, left, epoch, epochs2, R)  BY <1>11, <1>12, <1>13 DEF AccountsOK
<1>15. OrdersOK(s2.order, epochs2, epoch - 1)  BY <1>10 DEF OrdersOK
<1>16. ClaimsOK(paid, s2.order)  BY <1>7, <1>8 DEF ClaimsOK
<1> QED BY <1>14, <1>15, <1>16

-----------------------------------------------------------------------------
(* The hub and its tables *)

HubFields == {"epoch", "left", "epochs", "user"}
EpochRow == [approved: Nat, of: Nat \ {0}, nav: Nat, known: BOOLEAN]

HubType(h) ==
  /\ DOMAIN h = HubFields
  /\ h.epoch \in Nat \ {0} /\ h.left \in Nat
  /\ h.epochs \in Seq(EpochRow) /\ Len(h.epochs) = h.epoch - 1
  /\ \A i \in 1..(h.epoch - 1) : h.epochs[i].approved <= h.epochs[i].of
  /\ h.user \in [Investors -> Account]

HubOK(h, s, paid) ==
  /\ HubType(h)
  /\ \A u \in Investors : Waits(h.user[u], h.epoch)
  /\ OrdersOK(s.order, h.epochs, h.epoch - 1)
  /\ ClaimsOK(paid, s.order)
  /\ \E R : AccountsOK(h.user, s, h.left, h.epoch, h.epochs, R)

HubInv == HubOK(hub, Side, claims)

LEMMA HubPrimed == ASSUME flow' = flow, HubOK(hub', Side', claims') PROVE HubInv'
<1>1. Investors' = Investors  BY DEF Investors
<1>2. HubType(hub)'  BY <1>1 DEF HubOK, HubType
<1>3. (\A u \in Investors : Waits(hub.user[u], hub.epoch))'  BY <1>1 DEF HubOK
<1>4. OrdersOK(Side.order, hub.epochs, hub.epoch - 1)' /\ ClaimsOK(claims, Side.order)'  BY DEF HubOK
<1>5. PICK R : AccountsOK(hub'.user, Side', hub'.left, hub'.epoch, hub'.epochs, R)  BY DEF HubOK
<1>6. AccountsOK(hub.user, Side, hub.left, hub.epoch, hub.epochs, R)'
  <2>1. (R \in Rests)'  BY <1>1, <1>5 DEF AccountsOK, Rests
  <2>2. PendingOK(Side.pending, hub.user)'  BY <1>1, <1>5 DEF AccountsOK, PendingOK
  <2>3. Outstanding(Side, hub.left)'  BY <1>5 DEF AccountsOK
  <2>4. Covered(Side.pending, R, hub.left, hub.epoch)'  BY <1>1, <1>5 DEF AccountsOK, Covered
  <2>5. (\A u \in Investors : Path(R[u], hub.user[u], hub.epochs, hub.epoch))'  BY <1>1, <1>5 DEF AccountsOK
  <2>6. (\A u \in Investors : Ready(R[u], u, hub.user[u], Side.order, hub.epoch))'  BY <1>1, <1>5 DEF AccountsOK
  <2> QED BY <2>1, <2>2, <2>3, <2>4, <2>5, <2>6 DEF AccountsOK
<1>7. (\E S : AccountsOK(hub.user, Side, hub.left, hub.epoch, hub.epochs, S))'  BY <1>6
<1> QED BY <1>2, <1>3, <1>4, <1>7 DEF HubInv, HubOK

\* The accounts a request leaves.
LEMMA AccountChanges ==
  ASSUME NEW user, user \in Account, NEW n, n \in Nat, NEW epoch, epoch \in Nat
  PROVE  /\ [user EXCEPT !.pending = @ + n, !.last = epoch] \in Account
         /\ [user EXCEPT !.queued = @ + n] \in Account
         /\ [user EXCEPT !.cancelling = TRUE] \in Account
         /\ NoRequest \in Account
<1>1. PICK more : more = user.pending + n  OBVIOUS
<1>2. more \in Nat /\ user.queued + n \in Nat  BY <1>1 DEF Account
<1>3. PICK x : x = [user EXCEPT !.pending = more]  OBVIOUS
<1>4. x \in Account  BY <1>2, <1>3 DEF Account
<1>5. [x EXCEPT !.last = epoch] \in Account  BY <1>4 DEF Account
<1>6. [user EXCEPT !.pending = more, !.last = epoch] = [x EXCEPT !.last = epoch]  BY <1>3 DEF Account
<1>7. [user EXCEPT !.queued = @ + n] \in Account  BY <1>2 DEF Account
<1>8. [user EXCEPT !.cancelling = TRUE] \in Account  BY DEF Account
<1>9. NoRequest \in Account  BY DEF Account, NoRequest
<1> QED BY <1>1, <1>5, <1>6, <1>7, <1>8, <1>9

LEMMA RequestOrder == ASSUME NEW s, DOMAIN s = SideFields, NEW u, NEW request
                      PROVE  Request(s, Asset, u, request).order = s.order
  BY DEF Request, SideFields

\* A request of an account, and the log of it.
LEMMA RequestStep ==
  ASSUME NEW h, NEW s, NEW paid, HubOK(h, s, paid), DOMAIN s = SideFields,
         NEW u, u \in Investors, NEW new, new \in Account, NEW left, left \in Nat,
         \/ Changes(h.user[u], new, h.left, left, h.epoch)
         \/ Queues(h.user[u], new, h.left, left, h.epoch),
         NEW h2, h2 = [h EXCEPT !.user[u] = new, !.left = left],
         NEW request, request.pending = new.pending, request.queued = new.queued, request.total = left
  PROVE  HubOK(h2, Request(s, Asset, u, request), paid)
<1>1. /\ h.epoch \in Nat \ {0} /\ h.left \in Nat /\ DOMAIN h = HubFields /\ h.user \in [Investors -> Account]
  BY DEF HubOK, HubType
<1>2. PICK users2 : users2 = [h.user EXCEPT ![u] = new]  OBVIOUS
<1>3. h2 = [h EXCEPT !.user = users2, !.left = left]  BY <1>2
<1>4. /\ DOMAIN h2 = HubFields /\ h2.user = users2 /\ h2.left = left
      /\ h2.epoch = h.epoch /\ h2.epochs = h.epochs
  BY <1>1, <1>3 DEF HubFields
<1>5. users2 \in [Investors -> Account] /\ users2[u] = new /\ \A v \in Investors : v # u => users2[v] = h.user[v]
  BY <1>1, <1>2
<1>6. PICK s2 : s2 = Request(s, Asset, u, request)  OBVIOUS
<1>7. s2.order = s.order  BY <1>6, RequestOrder
<1>8. PICK R : AccountsOK(h.user, s, h.left, h.epoch, h.epochs, R)  BY DEF HubOK
<1>9. \E S : AccountsOK(users2, s2, left, h.epoch, h.epochs, S)
  BY <1>1, <1>2, <1>6, <1>8, RequestOK
<1>10. HubType(h2)  BY <1>4, <1>5 DEF HubOK, HubType
<1>11. Waits(new, h.epoch)
  <2>1. CASE Changes(h.user[u], new, h.left, left, h.epoch)
    <3>1. new.queued = 0 /\ ~new.cancelling  BY <2>1 DEF Changes
    <3> QED BY <3>1 DEF Waits
  <2>2. CASE Queues(h.user[u], new, h.left, left, h.epoch)
    <3>1. new.pending > 0 /\ new.last < h.epoch  BY <2>2 DEF Queues
    <3> QED BY <3>1 DEF Waits
  <2> QED BY <2>1, <2>2
<1>12. \A v \in Investors : Waits(h2.user[v], h2.epoch)
  BY <1>4, <1>5, <1>11 DEF HubOK
<1>13. OrdersOK(s2.order, h2.epochs, h2.epoch - 1) /\ ClaimsOK(paid, s2.order)
  BY <1>4, <1>7 DEF HubOK
<1>14. \E S : AccountsOK(h2.user, s2, h2.left, h2.epoch, h2.epochs, S)  BY <1>4, <1>9
<1>15. HubOK(h2, s2, paid)  BY <1>10, <1>12, <1>13, <1>14 DEF HubOK
<1> QED BY <1>6, <1>15

\* What the accounts of the hub satisfy.
LEMMA AccountKnown ==
  ASSUME NEW h, NEW s, NEW paid, HubOK(h, s, paid), NEW u, u \in Investors
  PROVE  /\ h.user[u] \in Account /\ Waits(h.user[u], h.epoch) /\ h.epoch \in Nat \ {0} /\ h.left \in Nat
         /\ h.user[u].pending > 0 => h.user[u].last \in 1..h.epoch
<1>1. PICK R : AccountsOK(h.user, s, h.left, h.epoch, h.epochs, R)  BY DEF HubOK
<1>2. Path(R[u], h.user[u], h.epochs, h.epoch)  BY <1>1 DEF AccountsOK
<1>3. h.user[u].pending > 0 => h.user[u].last \in 1..h.epoch  BY <1>2 DEF Path
<1> QED BY <1>3 DEF HubOK, HubType

LEMMA IncreaseOK ==
  ASSUME NEW d, Shaped(d), HubOK(hub, SideOf(d), claims), NEW u, u \in Investors, NEW n, n \in Nat,
         Increase(d, u, n), flow' = flow, claims' = claims
  PROVE  HubOK(hub', Side', claims')
<1>1. PICK user : user = hub.user[u]  OBVIOUS
<1>2. /\ user \in Account /\ Waits(user, hub.epoch) /\ hub.epoch \in Nat \ {0} /\ hub.left \in Nat
      /\ user.pending > 0 => user.last \in 1..hub.epoch
  BY <1>1, AccountKnown
<1>3. PICK new : new = IF MayChange(user) THEN [user EXCEPT !.pending = @ + n, !.last = hub.epoch]
                       ELSE [user EXCEPT !.queued = @ + n]
  OBVIOUS
<1>4. PICK left : left = hub.left + (IF MayChange(user) THEN n ELSE 0)  OBVIOUS
<1>5. ~user.cancelling /\ hub' = [hub EXCEPT !.user[u] = new, !.left = left] /\ orders' = Requested(d, u, new, left)
  BY <1>1, <1>3, <1>4 DEF Increase
<1>6. new \in Account /\ left \in Nat
  <2>1. new \in Account
    <3>1. hub.epoch \in Nat  BY <1>2
    <3> QED BY ONLY <1>2, <1>3, <3>1, n \in Nat, AccountChanges
  <2>2. left \in Nat  BY <1>2, <1>4
  <2> QED BY <2>1, <2>2
<1>7. \/ Changes(user, new, hub.left, left, hub.epoch)
      \/ Queues(user, new, hub.left, left, hub.epoch)
  <2>1. CASE MayChange(user)
    <3>1. new.pending = user.pending + n /\ new.last = hub.epoch /\ new.queued = user.queued
          /\ new.cancelling = user.cancelling /\ left = hub.left + n
      BY <1>2, <1>3, <1>4, <2>1 DEF Account
    <3>2. user.pending = 0 \/ user.last = hub.epoch  BY <2>1 DEF MayChange
    <3>3. user.queued = 0  BY <1>2, <3>2 DEF Waits, Account
    <3> QED BY <1>2, <1>5, <3>1, <3>2, <3>3 DEF Changes, Account
  <2>2. CASE ~MayChange(user)
    <3>1. new.pending = user.pending /\ new.last = user.last /\ left = hub.left
      BY <1>2, <1>3, <1>4, <2>2 DEF Account
    <3>2. user.pending > 0 /\ user.last < hub.epoch  BY <1>2, <2>2 DEF MayChange, Account
    <3> QED BY <3>1, <3>2 DEF Queues
  <2> QED BY <2>1, <2>2
<1>8. PICK request : request = [pending |-> new.pending, queued |-> new.queued, total |-> left]  OBVIOUS
<1>9. DOMAIN SideOf(d) = SideFields  BY SideShaped
<1>10. HubOK(hub', Request(SideOf(d), Asset, u, request), claims)
  BY <1>1, <1>5, <1>6, <1>7, <1>8, <1>9, RequestStep
<1>11. SideOf(orders') = Request(SideOf(d), Asset, u, request)
  BY <1>5, <1>8, RequestedEffect DEF Becomes
<1>12. Side' = SideOf(orders')  BY DEF Side, SideOf
<1> QED BY <1>10, <1>11, <1>12

LEMMA CancelOK ==
  ASSUME Shaped(orders), HubOK(hub, Side, claims), NEW u, u \in Investors, Cancel(u), flow' = flow
  PROVE  HubOK(hub', Side', claims')
<1>1. PICK user : user = hub.user[u]  OBVIOUS
<1>2. /\ user \in Account /\ Waits(user, hub.epoch) /\ hub.epoch \in Nat \ {0} /\ hub.left \in Nat
      /\ user.pending > 0 => user.last \in 1..hub.epoch
  BY <1>1, AccountKnown
<1>3. PICK new : new = IF MayChange(user) THEN NoRequest ELSE [user EXCEPT !.cancelling = TRUE]
  OBVIOUS
<1>4. PICK left : left = IF MayChange(user) THEN hub.left - user.pending ELSE hub.left  OBVIOUS
<1>5. /\ user.pending > 0 /\ ~user.cancelling /\ left >= 0 /\ claims' = claims
      /\ hub' = [hub EXCEPT !.user[u] = new, !.left = left] /\ orders' = Requested(orders, u, new, left)
  BY <1>1, <1>3, <1>4 DEF Cancel
<1>6. new \in Account /\ left \in Nat
  <2>1. new \in Account
    <3>1. hub.epoch \in Nat /\ 0 \in Nat  BY <1>2
    <3> QED BY ONLY <1>2, <1>3, <3>1, AccountChanges
  <2>2. left \in Nat  BY <1>2, <1>4, <1>5 DEF Account
  <2> QED BY <2>1, <2>2
<1>7. \/ Changes(user, new, hub.left, left, hub.epoch)
      \/ Queues(user, new, hub.left, left, hub.epoch)
  <2>1. CASE MayChange(user)
    <3>1. new.pending = 0 /\ new.queued = 0 /\ ~new.cancelling /\ left = hub.left - user.pending
      BY <1>3, <1>4, <2>1 DEF NoRequest
    <3>2. user.pending = 0 \/ user.last = hub.epoch  BY <2>1 DEF MayChange
    <3> QED BY <1>2, <3>1, <3>2 DEF Changes, Account
  <2>2. CASE ~MayChange(user)
    <3>1. new.pending = user.pending /\ new.last = user.last /\ left = hub.left
      BY <1>2, <1>3, <1>4, <2>2 DEF Account
    <3>2. user.pending > 0 /\ user.last < hub.epoch  BY <1>2, <2>2 DEF MayChange, Account
    <3> QED BY <3>1, <3>2 DEF Queues
  <2> QED BY <2>1, <2>2
<1>8. PICK request : request = [pending |-> new.pending, queued |-> new.queued, total |-> left]  OBVIOUS
<1>9. DOMAIN SideOf(orders) = SideFields /\ Side = SideOf(orders)  BY SideShaped DEF Side, SideOf
<1>10. HubOK(hub', Request(SideOf(orders), Asset, u, request), claims)
  BY <1>1, <1>5, <1>6, <1>7, <1>8, <1>9, RequestStep
<1>11. SideOf(orders') = Request(SideOf(orders), Asset, u, request)
  BY <1>5, <1>8, RequestedEffect DEF Becomes
<1>12. Side' = SideOf(orders')  BY DEF Side, SideOf
<1> QED BY <1>5, <1>10, <1>11, <1>12

\* A claim, and the request that follows it.
LEMMA ClaimOK ==
  ASSUME ShapeInv, HubOK(hub, Side, claims), NEW u, u \in Investors, ClaimEpoch(u), flow' = flow
  PROVE  HubOK(hub', Side', claims')
<1> DEFINE user    == hub.user[u]
           i       == user.last
           epoch   == hub.epochs[i]
           payment == (user.pending * epoch.approved) \div epoch.of
           payout  == Payout(payment, epoch.nav)
           rest    == [user EXCEPT !.pending = @ - payment, !.last = i + 1]
           final   == rest.pending = 0 \/ rest.last = hub.epoch
           moves   == final /\ (user.queued > 0 \/ user.cancelling)
           new     == IF ~moves THEN rest
                      ELSE IF user.cancelling THEN NoRequest
                      ELSE [rest EXCEPT !.pending = @ + user.queued, !.queued = 0, !.last = hub.epoch]
           left    == IF ~moves THEN hub.left
                      ELSE IF user.cancelling THEN hub.left - rest.pending ELSE hub.left + user.queued
           d       == Claimed(orders, u, i, payment, payout)
<1>1. user = hub.user[u] /\ i = user.last /\ epoch = hub.epochs[i]  OBVIOUS
<1>2. payment = (user.pending * epoch.approved) \div epoch.of /\ d = Claimed(orders, u, i, payment, payout)  OBVIOUS
<1>3. rest = [user EXCEPT !.pending = @ - payment, !.last = i + 1]  OBVIOUS
<1>4. moves <=> final /\ (user.queued > 0 \/ user.cancelling)  OBVIOUS
<1>5. final <=> rest.pending = 0 \/ rest.last = hub.epoch  OBVIOUS
<1>6. ~moves => new = rest /\ left = hub.left  OBVIOUS
<1>7. moves /\ user.cancelling => new = NoRequest /\ left = hub.left - rest.pending  OBVIOUS
<1>8. moves /\ ~user.cancelling =>
        /\ new = [rest EXCEPT !.pending = @ + user.queued, !.queued = 0, !.last = hub.epoch]
        /\ left = hub.left + user.queued
  OBVIOUS
<1>9. /\ user.pending > 0 /\ i < hub.epoch /\ left >= 0
      /\ hub' = [hub EXCEPT !.user[u] = new, !.left = left]
      /\ claims' = IF orders.token.there THEN Put(claims, <<Asset, u, i>>, payout) ELSE claims
  BY DEF ClaimEpoch
<1>10. orders' = IF moves THEN Requested(d, u, new, left) ELSE d
  BY DEF ClaimEpoch, Claimed
<1> HIDE DEF user, i, epoch, payment, payout, rest, final, moves, new, left, d
<1>11. /\ user.pending > 0 /\ i < hub.epoch /\ left >= 0
       /\ hub' = [hub EXCEPT !.user[u] = new, !.left = left]
       /\ claims' = IF orders.token.there THEN Put(claims, OrderKey(u, i), payout) ELSE claims
       /\ (moves => orders' = Requested(d, u, new, left)) /\ (~moves => orders' = d)
  BY <1>9, <1>10 DEF OrderKey
<1>12. /\ user \in Account /\ Waits(user, hub.epoch) /\ hub.epoch \in Nat \ {0} /\ hub.left \in Nat
       /\ user.pending > 0 => i \in 1..hub.epoch
  BY <1>1, AccountKnown
<1>13. i \in 1..(hub.epoch - 1)  BY <1>11, <1>12
<1>14. /\ epoch.approved \in Nat /\ epoch.of \in Nat \ {0} /\ epoch.approved <= epoch.of
       /\ Len(hub.epochs) = hub.epoch - 1 /\ hub.epochs \in Seq(EpochRow)
       /\ DOMAIN hub = HubFields /\ hub.user \in [Investors -> Account]
  <2>1. /\ hub.epochs \in Seq(EpochRow) /\ Len(hub.epochs) = hub.epoch - 1
        /\ \A j \in 1..(hub.epoch - 1) : hub.epochs[j].approved <= hub.epochs[j].of
        /\ DOMAIN hub = HubFields /\ hub.user \in [Investors -> Account]
    BY DEF HubOK, HubType
  <2>2. epoch \in EpochRow  BY <1>1, <1>13, <2>1
  <2> QED BY <1>1, <1>13, <2>1, <2>2 DEF EpochRow
<1>15. PICK p : p = AfterEpoch(user.pending, epoch.approved, epoch.of)  OBVIOUS
<1>16. p \in Nat /\ p = user.pending - payment
  BY <1>2, <1>12, <1>14, <1>15, AfterEpochType DEF AfterEpoch, Account
<1>17. /\ rest \in Account /\ rest.pending = p /\ rest.last = i + 1
       /\ rest.queued = user.queued /\ rest.cancelling = user.cancelling
  <2>1. rest = [user EXCEPT !.pending = p, !.last = i + 1]  BY <1>3, <1>16
  <2>2. PICK x : x = [user EXCEPT !.pending = p]  OBVIOUS
  <2>3. x \in Account  BY <1>12, <1>16, <2>2 DEF Account
  <2>4. i + 1 \in Nat  BY <1>13
  <2>5. [x EXCEPT !.last = i + 1] \in Account  BY <2>3, <2>4 DEF Account
  <2>6. [user EXCEPT !.pending = p, !.last = i + 1] = [x EXCEPT !.last = i + 1]  BY <1>12, <2>2 DEF Account
  <2>7. rest.pending = p /\ rest.last = i + 1 /\ rest.queued = user.queued /\ rest.cancelling = user.cancelling
    BY <1>12, <2>1 DEF Account
  <2> QED BY <2>1, <2>5, <2>6, <2>7
<1>18. PICK users1 : users1 = [hub.user EXCEPT ![u] = rest]  OBVIOUS
<1>19. users1 \in [Investors -> Account] /\ users1[u] = rest /\ \A v \in Investors : v # u => users1[v] = hub.user[v]
  BY <1>14, <1>17, <1>18
<1>20. PICK s : s = Side  OBVIOUS
<1>21. DOMAIN s = SideFields /\ SideOf(orders) = s  BY <1>20, SideShaped DEF Side, SideOf, ShapeInv
<1>22. PICK s1 : s1 = SideOf(d)  OBVIOUS
<1>23. /\ Shaped(d) /\ DOMAIN s1 = SideFields
       /\ s1 = IF orders.token.there THEN Claim(s, Event, OrderKey(u, i), payment, payout) ELSE s
  <2>1. Becomes(orders, d, IF orders.token.there THEN Claim(SideOf(orders), Event, <<Asset, u, i>>, payment, payout)
                           ELSE SideOf(orders))
    BY <1>2, ClaimedEffect DEF ShapeInv
  <2>2. Shaped(d)  BY <2>1 DEF Becomes
  <2>3. SideOf(d) = IF orders.token.there THEN Claim(SideOf(orders), Event, <<Asset, u, i>>, payment, payout)
                    ELSE SideOf(orders)
    BY <2>1 DEF Becomes
  <2>4. DOMAIN SideOf(d) = SideFields  BY <2>2, SideShaped
  <2> QED BY <1>21, <1>22, <2>2, <2>3, <2>4 DEF OrderKey
<1>24. PICK R : AccountsOK(hub.user, s, hub.left, hub.epoch, hub.epochs, R)  BY <1>20 DEF HubOK
<1>25. /\ AccountsOK(users1, s1, hub.left, hub.epoch, hub.epochs, R)
       /\ OrdersOK(s1.order, hub.epochs, hub.epoch - 1) /\ ClaimsOK(claims', s1.order)
  <2>1. OrdersOK(s.order, hub.epochs, hub.epoch - 1) /\ ClaimsOK(claims, s.order)  BY <1>20 DEF HubOK
  <2>2. /\ hub.user[u].pending > 0 /\ hub.user[u].last < hub.epoch /\ rest.queued = hub.user[u].queued
        /\ rest.last = hub.user[u].last + 1
        /\ rest.pending = AfterEpoch(hub.user[u].pending, hub.epochs[hub.user[u].last].approved,
                                     hub.epochs[hub.user[u].last].of)
    BY <1>1, <1>11, <1>15, <1>17
  <2>3. PICK k : k = OrderKey(u, hub.user[u].last)  OBVIOUS
  <2>4. k = OrderKey(u, i)  BY <1>1, <2>3
  <2>5. PICK ev : ev = Event  OBVIOUS
  <2>6. ev.now # 0  BY <2>5 DEF Event, ShapeInv
  <2>7. s1 = IF orders.token.there THEN Claim(s, ev, k, payment, payout) ELSE s  BY <1>23, <2>4, <2>5
  <2>8. claims' = IF orders.token.there THEN Put(claims, k, payout) ELSE claims  BY <1>11, <2>4
  <2>9. Pays(hub.user, s, hub.left, hub.epoch, hub.epochs, R, claims, u, rest, ev, orders.token.there,
              payment, payout, k, s1, claims', users1)
    BY <1>12, <1>14, <1>17, <1>19, <1>21, <1>24, <2>1, <2>2, <2>3, <2>6, <2>7, <2>8 DEF Pays
  <2> QED BY ONLY <2>9, PayOK
<1>26. CASE ~moves
  <2>1. new = rest /\ left = hub.left /\ orders' = d  BY <1>6, <1>11, <1>26
  <2>2. /\ DOMAIN hub' = HubFields /\ hub'.user = users1 /\ hub'.left = hub.left
        /\ hub'.epoch = hub.epoch /\ hub'.epochs = hub.epochs
    <3>1. hub' = [hub EXCEPT !.user = users1, !.left = hub.left]  BY <1>11, <1>18, <2>1
    <3> QED BY <1>14, <3>1 DEF HubFields
  <2>3. HubType(hub')  BY <1>19, <2>2 DEF HubOK, HubType
  <2>4. Waits(rest, hub.epoch)
    <3>1. CASE rest.pending = 0 \/ rest.last = hub.epoch
      <4>1. ~(rest.queued > 0 \/ rest.cancelling)  BY <1>4, <1>5, <1>17, <1>26, <3>1
      <4> QED BY <4>1 DEF Waits
    <3>2. CASE ~(rest.pending = 0 \/ rest.last = hub.epoch)
      <4>1. rest.pending > 0 /\ rest.last < hub.epoch  BY <1>12, <1>13, <1>16, <1>17, <3>2
      <4> QED BY <4>1 DEF Waits
    <3> QED BY <3>1, <3>2
  <2>5. \A v \in Investors : Waits(hub'.user[v], hub'.epoch)  BY <1>19, <2>2, <2>4 DEF HubOK
  <2>6. Side' = s1  BY <1>22, <2>1 DEF Side, SideOf
  <2>7. OrdersOK(s1.order, hub'.epochs, hub'.epoch - 1) /\ ClaimsOK(claims', s1.order)  BY <1>25, <2>2
  <2>8. \E S : AccountsOK(hub'.user, s1, hub'.left, hub'.epoch, hub'.epochs, S)  BY <1>25, <2>2
  <2>9. HubOK(hub', s1, claims')  BY <2>3, <2>5, <2>7, <2>8 DEF HubOK
  <2> QED BY <2>6, <2>9
<1>27. CASE moves
  <2>1. rest.pending = 0 \/ rest.last = hub.epoch  BY <1>4, <1>5, <1>27
  <2>2. /\ new \in Account /\ left \in Nat /\ new.queued = 0 /\ ~new.cancelling
        /\ new.pending > 0 => new.last = hub.epoch
        /\ left = hub.left + (new.pending - rest.pending)
    <3>1. CASE user.cancelling
      <4>1. new = NoRequest /\ left = hub.left - rest.pending  BY <1>7, <1>27, <3>1
      <4>2. 0 \in Nat  OBVIOUS
      <4>3. new \in Account  BY ONLY <1>12, <4>1, <4>2, AccountChanges
      <4>4. new.pending = 0 /\ new.queued = 0 /\ ~new.cancelling  BY <4>1 DEF NoRequest
      <4> QED BY <1>11, <1>12, <1>16, <1>17, <4>1, <4>3, <4>4
    <3>2. CASE ~user.cancelling
      <4>1. new = [rest EXCEPT !.pending = @ + user.queued, !.queued = 0, !.last = hub.epoch]
            /\ left = hub.left + user.queued
        BY <1>8, <1>27, <3>2
      <4>2. PICK q : q = rest.pending + user.queued  OBVIOUS
      <4>3. q \in Nat /\ user.queued \in Nat  BY <1>12, <1>17, <4>2 DEF Account
      <4>4. new = [rest EXCEPT !.pending = q, !.queued = 0, !.last = hub.epoch]  BY <4>1, <4>2
      <4>5. PICK x : x = [rest EXCEPT !.pending = q]  OBVIOUS
      <4>6. PICK y : y = [x EXCEPT !.queued = 0]  OBVIOUS
      <4>7. x \in Account  BY <1>17, <4>3, <4>5 DEF Account
      <4>8. y \in Account  BY <4>6, <4>7 DEF Account
      <4>9. [y EXCEPT !.last = hub.epoch] \in Account  BY <1>12, <4>8 DEF Account
      <4>10. new = [y EXCEPT !.last = hub.epoch]  BY <1>17, <4>4, <4>5, <4>6 DEF Account
      <4>11. new.pending = q /\ new.queued = 0 /\ new.last = hub.epoch /\ new.cancelling = rest.cancelling
        BY <1>17, <4>4 DEF Account
      <4>12. ~new.cancelling  BY <1>17, <3>2, <4>11
      <4>13. left = hub.left + (new.pending - rest.pending) /\ left \in Nat
        <5>1. rest.pending \in Nat  BY <1>16, <1>17
        <5> QED BY <1>12, <4>1, <4>2, <4>3, <4>11, <5>1
      <4> QED BY <4>9, <4>10, <4>11, <4>12, <4>13
    <3> QED BY <3>1, <3>2
  <2>3. Changes(users1[u], new, hub.left, left, hub.epoch)  BY <1>19, <2>1, <2>2 DEF Changes
  <2>4. PICK request : request = [pending |-> new.pending, queued |-> new.queued, total |-> left]  OBVIOUS
  <2>5. request.pending = new.pending /\ request.queued = new.queued /\ request.total = left  BY <2>4
  <2>6. PICK s2 : s2 = Request(s1, Asset, u, request)  OBVIOUS
  <2>7. PICK users2 : users2 = [users1 EXCEPT ![u] = new]  OBVIOUS
  <2>8. \E S : AccountsOK(users2, s2, left, hub.epoch, hub.epochs, S)
    BY ONLY <1>12, <1>19, <1>23, <1>25, <2>2, <2>3, <2>5, <2>6, <2>7, u \in Investors, RequestOK
  <2>9. orders' = Requested(d, u, new, left)  BY <1>11, <1>27
  <2>10. SideOf(orders') = s2
    <3>1. Becomes(d, Requested(d, u, new, left), Request(SideOf(d), Asset, u, request))
      BY ONLY <1>23, <2>4, RequestedEffect
    <3> QED BY <1>22, <2>6, <2>9, <3>1 DEF Becomes
  <2>11. Side' = s2  BY <2>10 DEF Side, SideOf
  <2>12. users2 = [hub.user EXCEPT ![u] = new]  BY <1>14, <1>18, <2>7
  <2>13. /\ DOMAIN hub' = HubFields /\ hub'.user = users2 /\ hub'.left = left
         /\ hub'.epoch = hub.epoch /\ hub'.epochs = hub.epochs
    <3>1. hub' = [hub EXCEPT !.user = users2, !.left = left]  BY <1>11, <2>12
    <3> QED BY <1>14, <3>1 DEF HubFields
  <2>14. users2 \in [Investors -> Account] /\ users2[u] = new /\ \A v \in Investors : v # u => users2[v] = hub.user[v]
    BY <1>19, <2>2, <2>7
  <2>15. HubType(hub')  BY <2>2, <2>13, <2>14 DEF HubOK, HubType
  <2>16. Waits(new, hub.epoch)  BY <2>2 DEF Waits
  <2>17. \A v \in Investors : Waits(hub'.user[v], hub'.epoch)  BY <2>13, <2>14, <2>16 DEF HubOK
  <2>18. s2.order = s1.order  BY <1>23, <2>6, RequestOrder
  <2>19. OrdersOK(s2.order, hub'.epochs, hub'.epoch - 1) /\ ClaimsOK(claims', s2.order)
    BY <1>25, <2>13, <2>18
  <2>20. \E S : AccountsOK(hub'.user, s2, hub'.left, hub'.epoch, hub'.epochs, S)  BY <2>8, <2>13
  <2>21. HubOK(hub', s2, claims')  BY <2>15, <2>17, <2>19, <2>20 DEF HubOK
  <2> QED BY <2>11, <2>21
<1> QED BY <1>26, <1>27

LEMMA ApproveEpochOK ==
  ASSUME ShapeInv, HubOK(hub, Side, claims), NEW n, n \in 1..hub.left, ApproveEpoch(n), flow' = flow
  PROVE  HubOK(hub', Side', claims')
<1>1. PICK s : s = Side  OBVIOUS
<1>2. DOMAIN s = SideFields /\ SideOf(orders) = s  BY <1>1, SideShaped DEF Side, SideOf, ShapeInv
<1>3. /\ hub.epoch \in Nat \ {0} /\ hub.left \in Nat /\ DOMAIN hub = HubFields /\ hub.user \in [Investors -> Account]
      /\ hub.epochs \in Seq(EpochRow) /\ Len(hub.epochs) = hub.epoch - 1
      /\ \A i \in 1..(hub.epoch - 1) : hub.epochs[i].approved <= hub.epochs[i].of
  BY DEF HubOK, HubType
<1>4. PICK left : left = hub.left  OBVIOUS
<1>5. n \in Nat /\ left \in Nat \ {0} /\ n <= left /\ left - n \in Nat  BY <1>3, <1>4
<1>6. PICK e : e = [approved |-> n, of |-> left, nav |-> 0, known |-> FALSE]  OBVIOUS
<1>7. e \in EpochRow /\ e.approved = n /\ e.of = left /\ e.nav = 0  BY <1>5, <1>6 DEF EpochRow
<1>8. PICK epochs2 : epochs2 = Append(hub.epochs, e)  OBVIOUS
<1>9. /\ epochs2 \in Seq(EpochRow) /\ Len(epochs2) = hub.epoch
      /\ epochs2[hub.epoch] = e /\ \A i \in 1..(hub.epoch - 1) : epochs2[i] = hub.epochs[i]
  BY <1>3, <1>7, <1>8
<1>10. hub' = [hub EXCEPT !.left = left - n, !.epoch = hub.epoch + 1, !.epochs = epochs2]
       /\ claims' = claims /\ orders' = Approved(orders, hub.epoch, n, left - n)
  BY <1>3, <1>4, <1>6, <1>8 DEF ApproveEpoch, Approved, HubFields
<1>11. /\ DOMAIN hub' = HubFields /\ hub'.user = hub.user /\ hub'.left = left - n
       /\ hub'.epoch = hub.epoch + 1 /\ hub'.epochs = epochs2
  BY <1>3, <1>10 DEF HubFields
<1>12. PICK ev : ev = Event  OBVIOUS
<1>13. ev.now # 0  BY <1>12 DEF Event, ShapeInv
<1>14. PICK s2 : s2 = Approve(s, ev, Asset, hub.epoch, n, left - n)  OBVIOUS
<1>15. Side' = s2
  <2>1. Becomes(orders, Approved(orders, hub.epoch, n, left - n), Approve(SideOf(orders), Event, Asset, hub.epoch, n, left - n))
    BY ApprovedEffect DEF ShapeInv
  <2> QED BY <1>2, <1>10, <1>12, <1>14, <2>1 DEF Becomes, Side, SideOf
<1>16. PICK R : AccountsOK(hub.user, s, left, hub.epoch, hub.epochs, R)  BY <1>1, <1>4 DEF HubOK
<1>17. OrdersOK(s.order, hub.epochs, hub.epoch - 1) /\ ClaimsOK(claims, s.order)  BY <1>1 DEF HubOK
<1>18. epochs2[hub.epoch].approved = n /\ epochs2[hub.epoch].of = left /\ epochs2[hub.epoch].nav = 0
  BY <1>7, <1>9
<1>19. PICK epoch : epoch = hub.epoch  OBVIOUS
<1>20. /\ \E S : AccountsOK(hub.user, s2, left - n, epoch + 1, epochs2, S)
       /\ OrdersOK(s2.order, epochs2, epoch) /\ ClaimsOK(claims, s2.order)
  <2>1. Approves(hub.user, s, left, epoch, hub.epochs, R, claims, n, ev, epochs2, s2)
    BY <1>2, <1>3, <1>5, <1>9, <1>13, <1>14, <1>16, <1>17, <1>18, <1>19, <1>4 DEF Approves
  <2>2. \E S : AccountsOK(hub.user, s2, left - n, epoch + 1, epochs2, S)  BY ONLY <2>1, ApproveOK
  <2>3. OrdersOK(s2.order, epochs2, epoch) /\ ClaimsOK(claims, s2.order)  BY ONLY <2>1, ApproveOK
  <2> QED BY <2>2, <2>3
<1>21. HubType(hub')
  <2>1. hub'.epoch - 1 = hub.epoch /\ hub'.epoch \in Nat \ {0}  BY <1>3, <1>11
  <2>2. \A i \in 1..hub.epoch : epochs2[i].approved <= epochs2[i].of
    <3>1. ASSUME NEW i \in 1..hub.epoch PROVE epochs2[i].approved <= epochs2[i].of
      <4>1. CASE i = hub.epoch  BY <1>5, <1>18, <4>1
      <4>2. CASE i # hub.epoch
        <5>1. i \in 1..(hub.epoch - 1)  BY <1>3, <4>2
        <5> QED BY <1>3, <1>9, <5>1
      <4> QED BY <4>1, <4>2
    <3> QED BY <3>1
  <2> QED BY <1>3, <1>5, <1>9, <1>11, <2>1, <2>2 DEF HubType
<1>22. ASSUME NEW v \in Investors PROVE Waits(hub'.user[v], hub'.epoch)
  <2>1. Waits(hub.user[v], hub.epoch) /\ hub.user[v] \in Account  BY <1>3 DEF HubOK
  <2>2. hub.user[v].last \in Nat  BY <2>1 DEF Account
  <2> QED BY <1>3, <1>11, <2>1, <2>2 DEF Waits
<1>23. OrdersOK(s2.order, hub'.epochs, hub'.epoch - 1)
  <2>1. hub'.epoch - 1 = epoch  BY <1>3, <1>11, <1>19
  <2> QED BY <1>11, <1>20, <2>1
<1>24. \E S : AccountsOK(hub'.user, s2, hub'.left, hub'.epoch, hub'.epochs, S)  BY <1>11, <1>19, <1>20
<1> QED BY <1>10, <1>15, <1>20, <1>21, <1>22, <1>23, <1>24 DEF HubOK

LEMMA SettleEpochOK ==
  ASSUME ShapeInv, HubOK(hub, Side, claims), NEW i, i \in DOMAIN hub.epochs, NEW nav, nav \in Navs,
         SettleEpoch(i, nav), flow' = flow
  PROVE  HubOK(hub', Side', claims')
<1>1. PICK s : s = Side  OBVIOUS
<1>2. DOMAIN s = SideFields /\ SideOf(orders) = s  BY <1>1, SideShaped DEF Side, SideOf, ShapeInv
<1>3. /\ hub.epoch \in Nat \ {0} /\ hub.left \in Nat /\ DOMAIN hub = HubFields /\ hub.user \in [Investors -> Account]
      /\ hub.epochs \in Seq(EpochRow) /\ Len(hub.epochs) = hub.epoch - 1
      /\ \A j \in 1..(hub.epoch - 1) : hub.epochs[j].approved <= hub.epochs[j].of
  BY DEF HubOK, HubType
<1>4. i \in 1..(hub.epoch - 1) /\ nav \in Nat \ {0}  BY <1>3, OrderSystemAssumption
<1>5. PICK b \in BOOLEAN : b = HasDecimalsOf(orders)  BY DEF HasDecimalsOf
<1>6. PICK e : e = hub.epochs[i]  OBVIOUS
<1>7. e \in EpochRow /\ e.nav = 0  BY <1>3, <1>4, <1>6 DEF SettleEpoch
<1>8. PICK e2 : e2 = [[e EXCEPT !.nav = nav] EXCEPT !.known = b]  OBVIOUS
<1>9. e2 \in EpochRow /\ e2.approved = e.approved /\ e2.of = e.of /\ e2.nav = nav /\ e2.known = b
  <2>1. PICK x : x = [e EXCEPT !.nav = nav]  OBVIOUS
  <2>2. x \in EpochRow /\ x.approved = e.approved /\ x.of = e.of /\ x.nav = nav  BY <1>4, <1>7, <2>1 DEF EpochRow
  <2>3. e2 = [x EXCEPT !.known = b]  BY <1>8, <2>1
  <2>4. e2 \in EpochRow /\ e2.approved = x.approved /\ e2.of = x.of /\ e2.nav = x.nav /\ e2.known = b
    BY <2>2, <2>3 DEF EpochRow
  <2> QED BY <2>2, <2>4
<1>10. PICK epochs2 : epochs2 = [hub.epochs EXCEPT ![i] = e2]  OBVIOUS
<1>11. /\ epochs2 \in Seq(EpochRow) /\ Len(epochs2) = hub.epoch - 1
       /\ epochs2[i] = e2 /\ \A j \in 1..(hub.epoch - 1) : j # i => epochs2[j] = hub.epochs[j]
  BY <1>3, <1>4, <1>9, <1>10
<1>12. hub' = [hub EXCEPT !.epochs = epochs2]
  BY <1>3, <1>4, <1>5, <1>6, <1>8, <1>10 DEF SettleEpoch, HubFields
<1>13. claims' = claims  BY DEF SettleEpoch
<1>14. /\ DOMAIN hub' = HubFields /\ hub'.user = hub.user /\ hub'.left = hub.left
       /\ hub'.epoch = hub.epoch /\ hub'.epochs = epochs2
  BY <1>3, <1>12 DEF HubFields
<1>15. PICK ev : ev = Event  OBVIOUS
<1>16. ev.now # 0  BY <1>15 DEF Event, ShapeInv
<1>17. PICK amount : amount = Payout(hub.epochs[i].approved, nav)  OBVIOUS
<1>18. orders' = Settled(orders, i, amount, nav)  BY <1>17 DEF SettleEpoch, Settled
<1>19. PICK s2 : s2 = Settle(s, ev, Asset, i, amount, PayoutsOf(orders, s, i, nav))  OBVIOUS
<1>20. Side' = s2
  <2>1. Becomes(orders, Settled(orders, i, amount, nav),
                Settle(SideOf(orders), Event, Asset, i, amount, PayoutsOf(orders, SideOf(orders), i, nav)))
    BY SettledEffect DEF ShapeInv
  <2> QED BY <1>2, <1>15, <1>18, <1>19, <2>1 DEF Becomes, Side, SideOf
<1>21. PICK R : AccountsOK(hub.user, s, hub.left, hub.epoch, hub.epochs, R)  BY <1>1 DEF HubOK
<1>22. OrdersOK(s.order, hub.epochs, hub.epoch - 1) /\ ClaimsOK(claims, s.order)  BY <1>1 DEF HubOK
<1>23. /\ hub.epochs[i].nav = 0 /\ nav # 0 /\ epochs2[i].approved = hub.epochs[i].approved
       /\ epochs2[i].of = hub.epochs[i].of /\ epochs2[i].nav = nav
       /\ epochs2[i].known <=> HasDecimalsOf(orders)
  BY <1>4, <1>5, <1>6, <1>7, <1>9, <1>11
<1>25. /\ AccountsOK(hub.user, s2, hub.left, hub.epoch, epochs2, R)
       /\ OrdersOK(s2.order, epochs2, hub.epoch - 1) /\ ClaimsOK(claims, s2.order)
  <2>1. Settles(hub.user, s, hub.left, hub.epoch, hub.epochs, R, claims, i, nav, ev, orders, amount, epochs2, s2)
    BY <1>2, <1>3, <1>11, <1>16, <1>19, <1>21, <1>22, <1>23 DEF Settles
  <2> QED BY ONLY <2>1, SettleOK
<1>26. \A j \in 1..(hub.epoch - 1) : epochs2[j].approved <= epochs2[j].of  BY <1>3, <1>6, <1>9, <1>11
<1>27. HubType(hub')  BY <1>3, <1>11, <1>14, <1>26 DEF HubType
<1>28. \A v \in Investors : Waits(hub'.user[v], hub'.epoch)  BY <1>14 DEF HubOK
<1>29. \E S : AccountsOK(hub'.user, s2, hub'.left, hub'.epoch, hub'.epochs, S)  BY <1>14, <1>25
<1> QED BY <1>13, <1>14, <1>20, <1>25, <1>27, <1>28, <1>29 DEF HubOK

LEMMA HubInit == OrdersInit => HubInv
<1> SUFFICES ASSUME OrdersInit PROVE HubInv  OBVIOUS
<1>1. /\ hub = [epoch |-> 1, left |-> 0, epochs |-> <<>>, user |-> [u \in Investors |-> NoRequest]]
      /\ claims = EmptyTable
  BY DEF OrdersInit
<1>2. PICK s : s = Side  OBVIOUS
<1>3. s = NewSide  BY <1>2, InitTables DEF Side
<1>4. s.pending = EmptyTable /\ s.outstanding = EmptyTable /\ s.order = EmptyTable  BY <1>3 DEF NewSide
<1>5. NoRequest \in Account /\ NoRequest.pending = 0 /\ NoRequest.queued = 0 /\ ~NoRequest.cancelling
  BY DEF NoRequest, Account
<1>6. PICK none \in [Investors -> Account] : none = [u \in Investors |-> NoRequest]  BY <1>5
<1>7. /\ DOMAIN hub = HubFields /\ hub.epoch = 1 /\ hub.left = 0 /\ hub.epochs = <<>> /\ hub.user = none
      /\ \A u \in Investors : none[u] = NoRequest
  BY <1>1, <1>6 DEF HubFields
<1>8. HubType(hub)
  <2>1. hub.epochs \in Seq(EpochRow) /\ Len(hub.epochs) = 0  BY <1>7
  <2> QED BY <1>7, <2>1 DEF HubType
<1>9. \A u \in Investors : Waits(hub.user[u], hub.epoch)  BY <1>5, <1>7 DEF Waits
<1>10. OrdersOK(s.order, hub.epochs, hub.epoch - 1)  BY <1>4 DEF OrdersOK, EmptyTable
<1>11. ClaimsOK(claims, s.order)  BY <1>1 DEF ClaimsOK, EmptyTable
<1>12. PICK R \in Rests : \A u \in Investors : \A i \in Nat : R[u][i] = 0
  <2>1. PICK zeros \in [Nat -> Nat] : zeros = [i \in Nat |-> 0]  OBVIOUS
  <2>2. [u \in Investors |-> zeros] \in Rests  BY <2>1 DEF Rests
  <2> QED BY <2>1, <2>2
<1>13. DOMAIN s.pending = {}  BY <1>4 DEF EmptyTable
<1>14. AmountsOf(s.outstanding, Asset) = NoAmounts /\ \A k : AmountsOf(s.pending, k) = NoAmounts
  BY <1>4, AmountsFound DEF EmptyTable
<1>15. NoAmounts \in AmountsRow /\ NoAmounts.pending = 0 /\ NoAmounts.queued = 0  BY DEF NoAmounts, AmountsRow
<1>16. PendingOK(s.pending, hub.user)
  <2>1. IsFiniteSet(DOMAIN s.pending)  BY <1>13, FS_EmptySet
  <2> QED BY <1>5, <1>7, <1>13, <1>14, <1>15, <2>1 DEF PendingOK
<1>17. Outstanding(s, 0)
  <2>1. PICK w : w = QueuedOf(s.pending)  OBVIOUS
  <2>2. DOMAIN w = {}  BY <1>13, <2>1 DEF QueuedOf
  <2>3. SumFunction(w) = 0  BY <2>2, SumOfNone
  <2> QED BY <1>14, <1>15, <2>1, <2>3 DEF Outstanding
<1>18. Covered(s.pending, R, 0, 1)
  <2>1. PICK w : w = RestOf(s.pending, R, 1)  OBVIOUS
  <2>2. DOMAIN w = {}  BY <1>13, <2>1 DEF RestOf
  <2>3. SumFunction(w) = 0  BY <2>2, SumOfNone
  <2>4. \A u \in Investors : R[u][1] <= AmountsOf(s.pending, RowKey(u)).pending  BY <1>12, <1>14, <1>15
  <2> QED BY <2>1, <2>3, <2>4 DEF Covered
<1>19. \A u \in Investors : Path(R[u], hub.user[u], hub.epochs, 1) /\ Ready(R[u], u, hub.user[u], s.order, 1)
  BY <1>5, <1>7, <1>12 DEF Path, Ready
<1>20. AccountsOK(hub.user, s, hub.left, hub.epoch, hub.epochs, R)
  BY <1>7, <1>16, <1>17, <1>18, <1>19 DEF AccountsOK
<1> QED BY <1>2, <1>8, <1>9, <1>10, <1>11, <1>20 DEF HubInv, HubOK

LEMMA HubStep == ASSUME ShapeInv, HubInv, HubNext, flow' = flow PROVE HubInv'
<1>1. HubOK(hub, Side, claims) /\ Shaped(orders)  BY DEF HubInv, ShapeInv
<1>2. ASSUME NEW u \in Investors, NEW n \in Amounts, Increase(orders, u, n), claims' = claims
      PROVE  HubOK(hub', Side', claims')
  <2>1. n \in Nat  BY OrderSystemAssumption
  <2>2. SideOf(orders) = Side  BY DEF SideOf, Side
  <2> QED BY <1>1, <1>2, <2>1, <2>2, IncreaseOK
<1>3. HubOK(hub', Side', claims')
  BY <1>1, <1>2, CancelOK, ClaimOK, ApproveEpochOK, SettleEpochOK DEF HubNext
<1> QED BY <1>3, HubPrimed

\* Steps that leave the hub and its side alone.
LEMMA HubUntouched == ASSUME HubInv, UNCHANGED <<flow, hub, claims>>, Side' = Side PROVE HubInv'
  BY HubPrimed DEF HubInv

LEMMA RedeemerHub == ASSUME ShapeInv, HubInv, RedeemerNext, flow = "basin", flow' = flow PROVE HubInv'
<1>1. ASSUME NEW n \in Amounts, NEW quote, AskRedeemer(n, quote) PROVE HubInv'
  <2>1. PICK initiated : initiated = OnRedeemInitiated(orders, Event, n, quote)  OBVIOUS
  <2>2. PICK handed : handed = OnRedeemRequest(initiated, [Event EXCEPT !.log = 2], Spoke, BasinAsset, Redeemer, n)
    OBVIOUS
  <2>3. Increase(handed, Redeemer, n) /\ claims' = claims  BY <1>1, <2>1, <2>2 DEF AskRedeemer
  <2>4. Apart(orders, handed)  BY <2>1, <2>2, HandedApart DEF ShapeInv
  <2>5. Shaped(handed) /\ handed.redeem = orders.redeem  BY <2>4, ApartFields
  <2>6. SideOf(handed) = Side  BY <2>5 DEF SideOf, Side
  <2>7. n \in Nat /\ Redeemer \in Investors  BY OrderSystemAssumption DEF Investors
  <2>8. HubOK(hub', Side', claims')  BY <2>3, <2>5, <2>6, <2>7, IncreaseOK DEF HubInv
  <2> QED BY <2>8, HubPrimed
<1>2. CASE RedeemerReturns
  <2>1. PICK x : x = OnStablecoinTransfer(orders, Event, "COLLATERAL", Redeemer, redeeming.amount)  OBVIOUS
  <2>2. Apart(orders, x)  BY <2>1, TransferApart DEF ShapeInv
  <2>3. orders' = OnRedeemCompleted(x, [Event EXCEPT !.log = 2], redeeming.amount) /\ UNCHANGED <<hub, claims>>
    BY <1>2, <2>1 DEF RedeemerReturns
  <2>4. Apart(x, orders')  BY <2>2, <2>3, CompletedApart, ApartFields
  <2>5. orders'.redeem = orders.redeem  BY <2>2, <2>4, ApartFields
  <2>6. Side' = Side  BY <2>5 DEF Side
  <2> QED BY <2>3, <2>6, HubUntouched
<1> QED BY <1>1, <1>2 DEF RedeemerNext

LEMMA HubNextOK == ASSUME ShapeInv, HubInv, OrdersNext PROVE HubInv'
<1>1. flow' = flow  BY DEF OrdersNext
<1>2. CASE flow \notin HubFlows /\ VaultNext
  <2>1. Keeps(orders, orders')  BY <1>2, VaultShape DEF ShapeInv
  <2>2. orders'.redeem = orders.redeem  BY <2>1, KeepsFields
  <2>3. Side' = Side  BY <1>1, <1>2, <2>2 DEF Side, HubFlows
  <2>4. UNCHANGED <<hub, claims>>  BY <1>2 DEF VaultNext
  <2> QED BY <1>1, <2>3, <2>4, HubUntouched
<1>3. CASE Known
  <2>1. orders'.invest = orders.invest /\ orders'.redeem = orders.redeem  BY <1>3, KnownShape DEF ShapeInv
  <2>2. Side' = Side  BY <1>1, <2>1 DEF Side
  <2>3. UNCHANGED <<hub, claims>>  BY <1>3 DEF Known
  <2> QED BY <1>1, <2>2, <2>3, HubUntouched
<1> QED BY <1>1, <1>2, <1>3, HubStep, RedeemerHub DEF OrdersNext

LEMMA HubHolds == OrdersSpec => []HubInv
<1>1. ASSUME HubInv, UNCHANGED orderVars PROVE HubInv'
  <2>1. UNCHANGED <<flow, hub, claims, orders>>  BY <1>1 DEF orderVars
  <2>2. Side' = Side  BY <2>1 DEF Side
  <2> QED BY <1>1, <2>1, <2>2, HubUntouched
<1>2. ShapeInv /\ HubInv /\ [OrdersNext]_orderVars => HubInv'  BY <1>1, HubNextOK
<1> QED BY <1>2, HubInit, ShapeHolds, PTL DEF OrdersSpec

\* An epoch's orders are settled when the epoch is, with the net asset value it was
\* settled at, unless the indexer knew no decimals then: an order belongs to an
\* epoch that was approved, and no approval, claim or other epoch settles it.
THEOREM OrdersSettled == OrdersSpec => []OrdersSettleWithEpoch
<1>1. HubInv => OrdersSettleWithEpoch  BY DEF HubInv, HubOK, OrdersOK, OrdersSettleWithEpoch
<1> QED BY <1>1, HubHolds, PTL

\* A claim the hub pays finds the order of its epoch: the approval made one for
\* every account that the epoch pays, from rows that requests, queued amounts and
\* what the approvals rounded off had changed, and what the order shows as claimed
\* is what the hub paid.
THEOREM ClaimsFound == OrdersSpec => []ClaimsFindTheirOrders
<1>1. HubInv => ClaimsFindTheirOrders
  BY DEF HubInv, HubOK, ClaimsOK, ClaimsFindTheirOrders, Has
<1> QED BY <1>1, HubHolds, PTL

\* What is outstanding is all that the accounts have queued, and no more than they
\* have pending, through approvals that round each account's part and its row in
\* different ways, claims in any order, and cancellations that wait.
THEOREM OutstandingCovered == OrdersSpec => []OutstandingIsCovered
<1>1. ASSUME HubInv PROVE OutstandingIsCovered
  <2>1. PICK s : s = Side  OBVIOUS
  <2>2. PICK R : AccountsOK(hub.user, s, hub.left, hub.epoch, hub.epochs, R)  BY <1>1, <2>1 DEF HubInv, HubOK
  <2>3. hub.epoch \in Nat /\ hub.left \in Nat  BY <1>1 DEF HubInv, HubOK, HubType
  <2>4. R \in Rests /\ PendingOK(s.pending, hub.user) /\ Outstanding(s, hub.left)
        /\ Covered(s.pending, R, hub.left, hub.epoch)
    BY <2>2 DEF AccountsOK
  <2>5. PICK t : t = s.pending  OBVIOUS
  <2>6. PICK w : w = RestOf(t, R, hub.epoch)  OBVIOUS
  <2>7. PICK v : v = [k \in DOMAIN t |-> t[k].pending]  OBVIOUS
  <2>8. hub.left <= SumFunction(w) /\ IsSummable(w) /\ SumFunction(w) \in Nat
    BY <2>3, <2>4, <2>5, <2>6, RowsType DEF Covered
  <2>9. DOMAIN w = DOMAIN t /\ DOMAIN v = DOMAIN t /\ \A k \in DOMAIN t : v[k] = t[k].pending
    BY <2>6, <2>7 DEF RestOf
  <2>10. ASSUME NEW k \in DOMAIN t PROVE v[k] \in Nat /\ w[k] <= v[k]
    <3>1. k[2] \in Investors /\ k = RowKey(k[2]) /\ t[k] \in AmountsRow  BY <2>4, <2>5 DEF PendingOK
    <3>2. R[k[2]][hub.epoch] <= AmountsOf(t, k).pending  BY <2>4, <2>5, <3>1 DEF Covered
    <3>3. AmountsOf(t, k) = t[k]  BY AmountsFound
    <3>4. w[k] = R[k[2]][hub.epoch]  BY <2>6 DEF RestOf
    <3>5. t[k].pending \in Nat  BY <3>1 DEF AmountsRow
    <3> QED BY <2>9, <3>2, <3>3, <3>4, <3>5
  <2>11. IsSummable(v)  BY <2>4, <2>5, <2>9, <2>10 DEF IsSummable, PendingOK
  <2>12. SumFunction(w) <= SumFunction(v)  BY <2>8, <2>9, <2>10, <2>11, SumOfSmaller
  <2>13. SumFunction(w) \in Int /\ SumFunction(v) \in Int  BY <2>8, <2>11, SumType
  <2>14. hub.left <= SumFunction(v)  BY <2>3, <2>8, <2>12, <2>13
  <2>15. PICK out : out = AmountsOf(s.outstanding, Asset)  OBVIOUS
  <2>16. out.queued = SumFunction(QueuedOf(t)) /\ out.pending = hub.left
    BY <2>4, <2>5, <2>15 DEF Outstanding
  <2>17. out = RowOr(Side.outstanding, Asset, NoAmounts)  BY <2>1, <2>15 DEF AmountsOf
  <2>18. QueuedOf(t) = [k \in DOMAIN Side.pending |-> Side.pending[k].queued]  BY <2>1, <2>5 DEF QueuedOf
  <2>19. v = [k \in DOMAIN Side.pending |-> Side.pending[k].pending]  BY <2>1, <2>5, <2>7
  <2> QED BY ONLY <2>14, <2>16, <2>17, <2>18, <2>19 DEF OutstandingIsCovered
<1> QED BY <1>1, HubHolds, PTL

-----------------------------------------------------------------------------
(* The basin's requests and the orders they are linked with *)

RequestFields == {"open", "credit", "initiatedAt", "completedAt", "spokeRequestedAt", "linked", "returned"}

\* A request that is linked has an order of the redeemer, approved while it was open.
LinkOK(row, order, now) ==
  /\ DOMAIN row = RequestFields
  /\ row.initiatedAt \in Nat /\ row.initiatedAt < now
  /\ row.open => row.completedAt = Never
  /\ row.linked # Never =>
       LET k == OrderKey(Redeemer, row.linked)
       IN  /\ k \in DOMAIN order /\ order[k].approvedAt >= row.initiatedAt
           /\ row.completedAt # Never => order[k].approvedAt < row.completedAt

LinksOK(q, order, now) ==
  /\ \A k \in DOMAIN order : order[k].approvedAt \in Nat /\ order[k].approvedAt < now
  /\ \A r \in DOMAIN q : LinkOK(q[r], order, now)

RequestsInv ==
  /\ flow # "basin" => DOMAIN orders.request = {}
  /\ flow = "basin" => LinksOK(orders.request, orders.redeem.order, time)

\* The requests are the same ones, open or completed and linked as before.
SameLinks(q, q2) ==
  /\ DOMAIN q2 = DOMAIN q
  /\ \A r \in DOMAIN q : DOMAIN q[r] = RequestFields =>
       /\ DOMAIN q2[r] = RequestFields
       /\ q2[r].open = q[r].open /\ q2[r].linked = q[r].linked
       /\ q2[r].initiatedAt = q[r].initiatedAt /\ q2[r].completedAt = q[r].completedAt

\* The orders are there still, with the times they were approved at.
SameApprovals(order, order2) ==
  /\ DOMAIN order2 = DOMAIN order
  /\ \A k \in DOMAIN order : order2[k].approvedAt = order[k].approvedAt

LEMMA LinksCarried ==
  ASSUME NEW q, NEW order, NEW now, LinksOK(q, order, now), NEW q2, SameLinks(q, q2)
  PROVE  LinksOK(q2, order, now)
<1>1. ASSUME NEW r \in DOMAIN q2 PROVE LinkOK(q2[r], order, now)
  <2>1. r \in DOMAIN q  BY DEF SameLinks
  <2>2. PICK old : old = q[r]  OBVIOUS
  <2>3. PICK new : new = q2[r]  OBVIOUS
  <2>4. LinkOK(old, order, now)  BY <2>1, <2>2 DEF LinksOK
  <2>5. /\ DOMAIN new = RequestFields /\ new.open = old.open /\ new.linked = old.linked
        /\ new.initiatedAt = old.initiatedAt /\ new.completedAt = old.completedAt
    BY <2>1, <2>2, <2>3, <2>4 DEF SameLinks, LinkOK
  <2> QED BY <2>3, <2>4, <2>5 DEF LinkOK
<1> QED BY <1>1 DEF LinksOK

LEMMA LinksKept ==
  ASSUME NEW q, NEW order, NEW now, now \in Nat, LinksOK(q, order, now),
         NEW q2, SameLinks(q, q2), NEW order2, SameApprovals(order, order2)
  PROVE  LinksOK(q2, order2, now + 1)
<1>1. ASSUME NEW r \in DOMAIN q2 PROVE LinkOK(q2[r], order2, now + 1)
  <2>1. r \in DOMAIN q  BY DEF SameLinks
  <2>2. PICK row : row = q[r]  OBVIOUS
  <2>3. PICK row2 : row2 = q2[r]  OBVIOUS
  <2>4. LinkOK(row, order, now)  BY <2>1, <2>2 DEF LinksOK
  <2>5. /\ DOMAIN row2 = RequestFields /\ row2.open = row.open /\ row2.linked = row.linked
        /\ row2.initiatedAt = row.initiatedAt /\ row2.completedAt = row.completedAt
    BY <2>1, <2>2, <2>3, <2>4 DEF SameLinks, LinkOK
  <2>6. row2.initiatedAt < now + 1  BY <2>4, <2>5 DEF LinkOK
  <2> QED BY <2>3, <2>4, <2>5, <2>6 DEF LinkOK, SameApprovals
<1>2. ASSUME NEW k \in DOMAIN order2 PROVE order2[k].approvedAt \in Nat /\ order2[k].approvedAt < now + 1
  BY DEF SameApprovals, LinksOK
<1> QED BY <1>1, <1>2 DEF LinksOK

\* The vault's log of the redeemer's request only dates the request it is for.
LEMMA LinkSpokeKeeps ==
  ASSUME NEW d, Shaped(d), NEW ev
  PROVE  SameLinks(d.request, LinkSpokeRedeem(d, ev).request)
<1> DEFINE rows == [r \in Unlinked(d) |-> [d.request[r] EXCEPT !.spokeRequestedAt = ev.now]]
           linked == PutAll(d.request, rows)
           warned == Insert(d.warning, ChangeOf(ev), "spokeRedeemLinkAmbiguous")
<1>1. LinkSpokeRedeem(d, ev) = [d EXCEPT !.request = linked] \/ LinkSpokeRedeem(d, ev) = [d EXCEPT !.warning = warned]
  BY DEF LinkSpokeRedeem, Warn
<1>2. SameLinks(d.request, linked)
  <2>1. Unlinked(d) \subseteq DOMAIN d.request  BY DEF Unlinked, Where
  <2>2. DOMAIN linked = DOMAIN d.request
        /\ \A r \in DOMAIN d.request : linked[r] = IF r \in Unlinked(d) THEN rows[r] ELSE d.request[r]
    BY <2>1 DEF PutAll
  <2>3. ASSUME NEW r \in DOMAIN d.request, DOMAIN d.request[r] = RequestFields
        PROVE  /\ DOMAIN linked[r] = RequestFields
               /\ linked[r].open = d.request[r].open /\ linked[r].linked = d.request[r].linked
               /\ linked[r].initiatedAt = d.request[r].initiatedAt /\ linked[r].completedAt = d.request[r].completedAt
    <3>1. PICK row : row = d.request[r]  OBVIOUS
    <3>2. PICK row2 : row2 = [row EXCEPT !.spokeRequestedAt = ev.now]  OBVIOUS
    <3>3. linked[r] = row \/ linked[r] = row2  BY <2>2, <3>1, <3>2
    <3> HIDE DEF linked
    <3> QED BY <2>3, <3>1, <3>2, <3>3 DEF RequestFields
  <2> HIDE DEF linked
  <2> QED BY <2>2, <2>3 DEF SameLinks
<1>3. SameLinks(d.request, d.request)  BY DEF SameLinks
<1> HIDE DEF linked, warned
<1>4. [d EXCEPT !.request = linked].request = linked /\ [d EXCEPT !.warning = warned].request = d.request
  BY DEF Shaped, Fields
<1> QED BY <1>1, <1>2, <1>3, <1>4

\* The logs of a vault make, complete and link no request.
LEMMA VaultKeepsRequests ==
  ASSUME NEW d, Shaped(d), NEW ev, NEW c, NEW a, NEW u, NEW n, NEW m
  PROVE  /\ OnDepositRequest(d, ev, c, a, u, n, m).request = d.request
         /\ SameLinks(d.request, OnRedeemRequest(d, ev, c, a, u, n).request)
         /\ OnDepositClaimable(d, ev, c, a, u, n).request = d.request
         /\ OnRedeemClaimable(d, ev, c, a, u, n).request = d.request
         /\ OnDeposit(d, ev, c, a, u, n, m).request = d.request
         /\ OnWithdraw(d, ev, c, a, u, n).request = d.request
<1>1. \A e, type, i : Shaped(e) => /\ Transact(e, ev, u, type, i).request = e.request
                                   /\ Shaped(Transact(e, ev, u, type, i))
  BY DEF Transact, Shaped, Fields, SideFields
<1>2. \A e : Shaped(e) =>
        \A t : /\ [e EXCEPT !.vaultInvest = t].request = e.request /\ [e EXCEPT !.vaultRedeem = t].request = e.request
               /\ [e EXCEPT !.account = t].request = e.request /\ [e EXCEPT !.invest = t].request = e.request
               /\ Shaped([e EXCEPT !.vaultRedeem = t])
  BY DEF Shaped, Fields, SideFields
<1>3. InitPosition(d, c, u, m).request = d.request /\ Shaped(InitPosition(d, c, u, m))
  BY DEF InitPosition, Shaped, Fields, SideFields
<1>4. OnDepositRequest(d, ev, c, a, u, n, m).request = d.request  BY <1>1, <1>2, <1>3 DEF OnDepositRequest
<1>5. SameLinks(d.request, OnRedeemRequest(d, ev, c, a, u, n).request)
  <2> DEFINE x == Transact(d, ev, u, "REDEEM_REQUEST_UPDATED", n)
             y == [x EXCEPT !.vaultRedeem = AddRequested(x.vaultRedeem, <<c, a, u>>, n)]
  <2>1. OnRedeemRequest(d, ev, c, a, u, n) \in {d, y, LinkSpokeRedeem(y, ev)}  BY DEF OnRedeemRequest
  <2>2. Shaped(x) /\ x.request = d.request  BY <1>1
  <2> HIDE DEF x
  <2>3. Shaped(y) /\ y.request = d.request  BY <1>2, <2>2
  <2> HIDE DEF y
  <2>4. SameLinks(d.request, LinkSpokeRedeem(y, ev).request)  BY <2>3, LinkSpokeKeeps
  <2>5. SameLinks(d.request, d.request)  BY DEF SameLinks
  <2> QED BY <2>1, <2>3, <2>4, <2>5
<1>6. OnDepositClaimable(d, ev, c, a, u, n).request = d.request  BY <1>1, <1>2 DEF OnDepositClaimable
<1>7. OnRedeemClaimable(d, ev, c, a, u, n).request = d.request  BY <1>1, <1>2 DEF OnRedeemClaimable
<1>8. OnDeposit(d, ev, c, a, u, n, m).request = d.request  BY <1>1, <1>2 DEF OnDeposit
<1>9. OnWithdraw(d, ev, c, a, u, n).request = d.request  BY <1>1, <1>2 DEF OnWithdraw
<1> QED BY <1>4, <1>5, <1>6, <1>7, <1>8, <1>9

\* The redeemer asks: a new request, dated before it could be linked.
LEMMA InitiatedLinks ==
  ASSUME NEW d, Shaped(d), NEW order, NEW now, now \in Nat, LinksOK(d.request, order, now),
         NEW ev, ev.now = now, NEW n, NEW quote
  PROVE  LinksOK(OnRedeemInitiated(d, ev, n, quote).request, order, now + 1)
<1> DEFINE inserted == Insert(d.request, <<ev.now, n, quote>>, NewRequest(ev, n))
           debt == [LoadDebt(d, ev) EXCEPT !.pending = @ + n]
           x == [d EXCEPT !.request = inserted, !.debt = debt]
<1>1. LinksOK(d.request, order, now + 1)
  BY LinksKept DEF SameLinks, SameApprovals
<1>2. CASE quote = NoAnswer  BY <1>1, <1>2 DEF OnRedeemInitiated
<1>3. CASE quote # NoAnswer
  <2>1. OnRedeemInitiated(d, ev, n, quote) = LinkSpokeRedeem(x, ev)  BY <1>3 DEF OnRedeemInitiated
  <2>2. PICK row : row = NewRequest(ev, n)  OBVIOUS
  <2>3. /\ DOMAIN row = RequestFields /\ row.initiatedAt = now /\ row.completedAt = Never /\ row.linked = Never
    BY <2>2 DEF NewRequest, RequestFields
  <2>4. LinkOK(row, order, now + 1)  BY <2>3 DEF LinkOK
  <2>5. \A r \in DOMAIN inserted : (r \in DOMAIN d.request /\ inserted[r] = d.request[r]) \/ inserted[r] = row
    BY <2>2 DEF Insert, Put, Has
  <2> HIDE DEF inserted
  <2>6. LinksOK(inserted, order, now + 1)  BY <1>1, <2>4, <2>5 DEF LinksOK
  <2>7. Shaped(x) /\ x.request = inserted  BY DEF Shaped, Fields, SideFields
  <2> HIDE DEF x
  <2>8. PICK q2 : q2 = LinkSpokeRedeem(x, ev).request  OBVIOUS
  <2>9. SameLinks(inserted, q2)  BY <2>7, <2>8, LinkSpokeKeeps
  <2>10. LinksOK(q2, order, now + 1)  BY <2>6, <2>9, LinksCarried
  <2> QED BY <2>1, <2>8, <2>10
<1> QED BY <1>2, <1>3

\* A completion: the orders the open requests are linked with were approved before.
LEMMA CompletedLinks ==
  ASSUME NEW d, Shaped(d), NEW order, NEW now, now \in Nat, LinksOK(d.request, order, now),
         NEW ev, ev.now = now, NEW n
  PROVE  LinksOK(OnRedeemCompleted(d, ev, n).request, order, now + 1)
<1> DEFINE completed == Completed(d, ev, n)
<1>1. OnRedeemCompleted(d, ev, n).request = PutAll(d.request, completed)  BY CompletedApart
<1>2. PICK q2 : q2 = PutAll(d.request, completed)  OBVIOUS
<1>3. Open(d) \subseteq DOMAIN d.request  BY DEF Open, Where
<1>4. DOMAIN q2 = DOMAIN d.request
      /\ \A r \in DOMAIN d.request : q2[r] = IF r \in Open(d) THEN completed[r] ELSE d.request[r]
  <2>1. DOMAIN completed = Open(d)  BY DEF Completed
  <2> HIDE DEF completed
  <2> QED BY <1>2, <1>3, <2>1 DEF PutAll
<1>5. LinksOK(d.request, order, now + 1)  BY LinksKept DEF SameLinks, SameApprovals
<1>6. ASSUME NEW r \in Open(d) PROVE LinkOK(q2[r], order, now + 1)
  <2>1. PICK row : row = d.request[r]  OBVIOUS
  <2>3. LinkOK(row, order, now)  BY <1>3, <2>1 DEF LinksOK
  <2>4. r \in Open(d) /\ row.open = TRUE  BY <2>1 DEF Open, Where, Matches
  <2>5. row.open => row.completedAt = Never  BY <2>3 DEF LinkOK
  <2>6. PICK x : completed[r] = [row EXCEPT !.open = FALSE, !.completedAt = ev.now, !.returned = x]
    BY <2>1 DEF Completed
  <2>7. PICK row2 : row2 = [row EXCEPT !.open = FALSE, !.completedAt = ev.now, !.returned = x] /\ q2[r] = row2
    BY <1>3, <1>4, <2>6
  <2>8. /\ DOMAIN row2 = RequestFields /\ row2.open = FALSE /\ row2.completedAt = now
        /\ row2.initiatedAt = row.initiatedAt /\ row2.linked = row.linked
    BY <2>3, <2>7 DEF LinkOK, RequestFields
  <2>9. row2.linked # Never =>
           LET k == OrderKey(Redeemer, row2.linked)
           IN  k \in DOMAIN order /\ order[k].approvedAt >= row2.initiatedAt /\ order[k].approvedAt < now
    BY <2>3, <2>8 DEF LinkOK, LinksOK
  <2>10. row2.initiatedAt \in Nat /\ row2.initiatedAt < now + 1  BY <2>3, <2>8 DEF LinkOK
  <2> QED BY <2>7, <2>8, <2>9, <2>10 DEF LinkOK
<1> HIDE DEF completed
<1>7. \A r \in DOMAIN q2 : LinkOK(q2[r], order, now + 1)  BY <1>4, <1>5, <1>6 DEF LinksOK
<1> QED BY <1>1, <1>2, <1>5, <1>7 DEF LinksOK

\* The orders an approval makes are new ones, of the block.
LEMMA ApprovedOrders ==
  ASSUME NEW s, DOMAIN s = SideFields, NEW ev, NEW i, NEW approved, NEW left,
         NEW s2, s2 = Approve(s, ev, Asset, i, approved, left)
  PROVE  /\ DOMAIN s2.order = DOMAIN s.order \cup NewKeys(s, i)
         /\ \A x \in NewKeys(s, i) : s2.order[x].approvedAt = ev.now
         /\ \A x \in DOMAIN s.order : x \notin NewKeys(s, i) => s2.order[x] = s.order[x]
<1> DEFINE K == PendingOf(s, Asset)
           share(k) == ApprovedUserAmount(s.pending[k].pending, ApprovedPercentage(approved, left))
           made(u) == [NewOrder EXCEPT !.approvedAt = ev.now, !.approved = share(<<Asset, u>>)]
           new == [o \in {<<Asset, k[2], i>> : k \in K} |-> made(o[2])]
           Keys == NewKeys(s, i)
<1>1. s2.order = PutAll(s.order, new)  BY DEF Approve, SideFields
<1>2. Keys = {<<Asset, k[2], i>> : k \in K}  BY DEF OrderKey, NewKeys
<1>3. DOMAIN new = Keys
  <2>1. DOMAIN new = {<<Asset, k[2], i>> : k \in K}  OBVIOUS
  <2> QED BY <1>2, <2>1
<1>4. ASSUME NEW x \in Keys PROVE new[x].approvedAt = ev.now
  <2>1. new[x] = made(x[2])  BY <1>2
  <2> HIDE DEF new
  <2>2. PICK a : a = share(<<Asset, x[2]>>)  OBVIOUS
  <2>3. new[x] = [NewOrder EXCEPT !.approvedAt = ev.now, !.approved = a]  BY <2>1, <2>2
  <2> QED BY <2>3 DEF NewOrder
<1> HIDE DEF new, Keys
<1>5. /\ DOMAIN s2.order = DOMAIN s.order \cup Keys
      /\ \A x \in DOMAIN s2.order : s2.order[x] = IF x \in Keys THEN new[x] ELSE s.order[x]
  BY <1>1, <1>3 DEF PutAll
<1> QED BY <1>4, <1>5 DEF Keys

\* A settlement and a claim change no time of approval.
LEMMA SettleApprovals ==
  ASSUME NEW s, DOMAIN s = SideFields, \A k \in DOMAIN s.order : DOMAIN s.order[k] = OrderFields,
         NEW ev, NEW i, NEW amount, NEW payouts, DOMAIN payouts \subseteq DOMAIN s.order
  PROVE  SameApprovals(s.order, Settle(s, ev, Asset, i, amount, payouts).order)
<1> DEFINE rows == [k \in DOMAIN payouts |-> [s.order[k] EXCEPT !.settledAt = ev.now, !.settled = payouts[k]]]
<1>1. PICK o2 : o2 = Settle(s, ev, Asset, i, amount, payouts).order  OBVIOUS
<1>2. o2 = PutAll(s.order, rows)  BY <1>1 DEF Settle, SideFields
<1>3. ASSUME NEW k \in DOMAIN payouts PROVE rows[k].approvedAt = s.order[k].approvedAt
  <2>1. PICK o : o = s.order[k]  OBVIOUS
  <2>2. PICK x : x = payouts[k]  OBVIOUS
  <2>3. rows[k] = [o EXCEPT !.settledAt = ev.now, !.settled = x] /\ DOMAIN o = OrderFields  BY <2>1, <2>2
  <2> HIDE DEF rows
  <2> QED BY <2>1, <2>3 DEF OrderFields
<1>4. DOMAIN rows = DOMAIN payouts  OBVIOUS
<1> HIDE DEF rows
<1>5. DOMAIN o2 = DOMAIN s.order
      /\ \A k \in DOMAIN s.order : o2[k] = IF k \in DOMAIN payouts THEN rows[k] ELSE s.order[k]
  BY <1>2, <1>4 DEF PutAll
<1> QED BY <1>1, <1>3, <1>5 DEF SameApprovals

LEMMA ClaimApprovals ==
  ASSUME NEW s, DOMAIN s = SideFields, \A k \in DOMAIN s.order : DOMAIN s.order[k] = OrderFields,
         NEW ev, NEW k, NEW payment, NEW payout
  PROVE  SameApprovals(s.order, Claim(s, ev, k, payment, payout).order)
<1>1. PICK s2 : s2 = Claim(s, ev, k, payment, payout)  OBVIOUS
<1>2. /\ DOMAIN s2.order = DOMAIN s.order /\ \A x \in DOMAIN s.order : x # k => s2.order[x] = s.order[x]
      /\ k \in DOMAIN s.order => s2.order[k].approvedAt = s.order[k].approvedAt
  BY <1>1, ClaimEffect
<1> QED BY <1>1, <1>2 DEF SameApprovals

LEMMA RequestsAfter ==
  ASSUME flow' = flow, flow = "basin", time' = time + 1, time \in Nat,
         LinksOK(orders.request, orders.redeem.order, time), SameLinks(orders.request, orders'.request),
         SameApprovals(orders.redeem.order, orders'.redeem.order)
  PROVE  RequestsInv'
<1>1. LinksOK(orders'.request, orders'.redeem.order, time + 1)  BY LinksKept
<1> QED BY <1>1 DEF RequestsInv

\* An approval links the open request with the order it makes in the same log.
LEMMA ApprovedLinks ==
  ASSUME ShapeInv, HubInv, RequestsInv, NEW n, ApproveEpoch(n), flow = "basin", flow' = flow, time' = time + 1
  PROVE  RequestsInv'
<1>1. /\ time \in Nat /\ LinksOK(orders.request, orders.redeem.order, time) /\ Shaped(orders)
  BY DEF ShapeInv, RequestsInv
<1>2. PICK i : i = hub.epoch  OBVIOUS
<1>3. PICK s : s = orders.redeem  OBVIOUS
<1>4. PICK s2 : s2 = Approve(s, Event, Asset, i, n, hub.left - n)  OBVIOUS
<1>5. orders' = Approved(orders, i, n, hub.left - n)  BY <1>2 DEF ApproveEpoch, Approved
<1>6. SideOf(orders) = s  BY <1>3 DEF SideOf
<1>7. orders'.redeem = s2
  <2>1. SideOf(orders') = s2  BY <1>1, <1>4, <1>5, <1>6, ApprovedEffect DEF Becomes
  <2> QED BY <2>1 DEF SideOf
<1>8. orders'.request = (IF Asset = BasinAsset /\ <<Asset, Redeemer>> \in PendingOf(s, Asset)
                         THEN LinkRedeemOrder(orders, Event, Redeemer, i) ELSE orders).request
  BY <1>1, <1>3, <1>5, ApprovedEffect
<1>9. Event.now = time  BY DEF Event
<1>10. PICK ev : ev = Event  OBVIOUS
<1>11. /\ DOMAIN s2.order = DOMAIN s.order \cup NewKeys(s, i)
       /\ \A x \in NewKeys(s, i) : s2.order[x].approvedAt = time
       /\ \A x \in DOMAIN s.order : x \notin NewKeys(s, i) => s2.order[x] = s.order[x]
  <2>1. DOMAIN s = SideFields /\ s2 = Approve(s, ev, Asset, i, n, hub.left - n) /\ ev.now = time
    BY <1>1, <1>3, <1>4, <1>9, <1>10 DEF Shaped
  <2> QED BY <2>1, ApprovedOrders
<1>12. \A k \in DOMAIN s.order : k \notin NewKeys(s, i)
  <2>1. OrdersOK(s.order, hub.epochs, hub.epoch - 1) /\ hub.epoch \in Nat
    BY <1>3 DEF HubInv, HubOK, Side, HubType
  <2>2. \A k \in DOMAIN s.order : k[3] \in 1..(i - 1)  BY <1>2, <2>1 DEF OrdersOK
  <2>3. \A k \in NewKeys(s, i) : k[3] = i  BY OrderKeyFields DEF NewKeys
  <2> QED BY <1>2, <2>1, <2>2, <2>3
<1>13. \A k \in DOMAIN s2.order : s2.order[k].approvedAt \in Nat /\ s2.order[k].approvedAt < time + 1
  BY <1>1, <1>3, <1>11, <1>12 DEF LinksOK
<1>14. \A k \in DOMAIN s.order : s2.order[k].approvedAt = s.order[k].approvedAt  BY <1>11, <1>12
<1>15. ASSUME NEW row, LinkOK(row, s.order, time) PROVE LinkOK(row, s2.order, time + 1)
  <2>1. row.initiatedAt < time + 1  BY <1>1, <1>15 DEF LinkOK
  <2> QED BY <1>11, <1>14, <1>15, <2>1 DEF LinkOK
<1>16. \A r \in DOMAIN orders.request : LinkOK(orders.request[r], s2.order, time + 1)
  BY <1>1, <1>3, <1>15 DEF LinksOK
<1>17. PICK q2 : q2 = orders'.request  OBVIOUS
<1>18. CASE q2 = orders.request
  BY <1>7, <1>13, <1>16, <1>17, <1>18 DEF LinksOK, RequestsInv
<1>19. CASE q2 # orders.request
  <2> DEFINE rows == [r \in Unlinked(orders) |-> [orders.request[r] EXCEPT !.linked = i]]
             warned == Insert(orders.warning, ChangeOf(Event), "redeemOrderLinkAmbiguous")
  <2>1. <<Asset, Redeemer>> \in PendingOf(s, Asset) /\ q2 = LinkRedeemOrder(orders, Event, Redeemer, i).request
    BY <1>8, <1>17, <1>19
  <2>2. \/ LinkRedeemOrder(orders, Event, Redeemer, i) = [orders EXCEPT !.request = PutAll(orders.request, rows)]
        \/ LinkRedeemOrder(orders, Event, Redeemer, i) = [orders EXCEPT !.warning = warned]
    BY DEF LinkRedeemOrder, Warn
  <2>3. q2 = PutAll(orders.request, rows)
    <3> HIDE DEF rows, warned
    <3>1. [orders EXCEPT !.warning = warned].request = orders.request
          /\ [orders EXCEPT !.request = PutAll(orders.request, rows)].request = PutAll(orders.request, rows)
      BY <1>1 DEF Shaped, Fields
    <3> QED BY <1>19, <2>1, <2>2, <3>1
  <2>4. Unlinked(orders) \subseteq DOMAIN orders.request /\ DOMAIN rows = Unlinked(orders)
    BY DEF Unlinked, Where
  <2>5. DOMAIN q2 = DOMAIN orders.request
        /\ \A r \in DOMAIN q2 : q2[r] = IF r \in Unlinked(orders) THEN rows[r] ELSE orders.request[r]
    <3> HIDE DEF rows
    <3> QED BY <2>3, <2>4 DEF PutAll
  <2>6. PICK k : k = OrderKey(Redeemer, i)  OBVIOUS
  <2>7. k \in DOMAIN s2.order /\ s2.order[k].approvedAt = time
    <3>1. k \in NewKeys(s, i)
      <4>1. PICK p : p = <<Asset, Redeemer>>  OBVIOUS
      <4>2. p \in PendingOf(s, Asset) /\ p[2] = Redeemer  BY <2>1, <4>1
      <4> QED BY <2>6, <4>2 DEF NewKeys
    <3> QED BY <1>11, <3>1
  <2>8. ASSUME NEW r \in Unlinked(orders) PROVE LinkOK(q2[r], s2.order, time + 1)
    <3>1. PICK row : row = orders.request[r]  OBVIOUS
    <3>2. PICK row2 : row2 = [row EXCEPT !.linked = i]  OBVIOUS
    <3>3. q2[r] = row2  BY <2>4, <2>5, <3>1, <3>2
    <3>4. row.open = TRUE  BY <3>1 DEF Unlinked, Where, Matches
    <3>5. LinkOK(row, s.order, time)  BY <1>1, <1>3, <2>4, <3>1 DEF LinksOK
    <3>6. /\ DOMAIN row = RequestFields /\ row.initiatedAt \in Nat /\ row.initiatedAt < time
          /\ row.completedAt = Never
      BY <3>4, <3>5 DEF LinkOK
    <3>7. /\ DOMAIN row2 = RequestFields /\ row2.initiatedAt = row.initiatedAt
          /\ row2.completedAt = Never /\ row2.linked = i
      BY <3>2, <3>6 DEF RequestFields
    <3>8. OrderKey(Redeemer, row2.linked) = k  BY <2>6, <3>7
    <3>9. s2.order[k].approvedAt >= row2.initiatedAt /\ row2.initiatedAt < time + 1  BY <1>1, <2>7, <3>6, <3>7
    <3> QED BY <2>7, <3>3, <3>6, <3>7, <3>8, <3>9 DEF LinkOK
  <2>9. \A r \in DOMAIN q2 : LinkOK(q2[r], s2.order, time + 1)  BY <1>16, <2>5, <2>8
  <2> QED BY <1>7, <1>13, <1>17, <2>9 DEF LinksOK, RequestsInv
<1> QED BY <1>18, <1>19

\* The hub's logs outside the basin's flow make no request.
LEMMA NoRequests ==
  ASSUME Shaped(orders), flow # "basin", DOMAIN orders.request = {}, HubNext
  PROVE  DOMAIN orders'.request = {}
<1>1. ASSUME NEW u, NEW n, Increase(orders, u, n) PROVE DOMAIN orders'.request = {}
  <2>1. PICK new, left : orders' = Requested(orders, u, new, left)  BY <1>1 DEF Increase
  <2> QED BY <2>1, RequestedEffect
<1>2. ASSUME NEW u, Cancel(u) PROVE DOMAIN orders'.request = {}
  <2>1. PICK new, left : orders' = Requested(orders, u, new, left)  BY <1>2 DEF Cancel
  <2> QED BY <2>1, RequestedEffect
<1>3. ASSUME NEW u, ClaimEpoch(u) PROVE DOMAIN orders'.request = {}
  <2>1. PICK paid, payment, payout : /\ paid = Claimed(orders, u, hub.user[u].last, payment, payout)
                                     /\ orders' = paid \/ \E new, left : orders' = Requested(paid, u, new, left)
    BY <1>3, ClaimSteps
  <2>2. Shaped(paid)  BY <2>1, HandlersShape
  <2>3. paid.request = orders.request
    <3>1. PICK i : i = hub.user[u].last  OBVIOUS
    <3>2. /\ Becomes(orders, Claimed(orders, u, i, payment, payout),
                     IF orders.token.there THEN Claim(SideOf(orders), Event, <<Asset, u, i>>, payment, payout)
                     ELSE SideOf(orders))
          /\ Claimed(orders, u, i, payment, payout).request = orders.request
      BY ClaimedEffect
    <3> QED BY <2>1, <3>1, <3>2
  <2>4. \A new, left : Requested(paid, u, new, left).request = paid.request  BY <2>2, RequestedEffect
  <2> QED BY <2>1, <2>3, <2>4
<1>4. ASSUME NEW n, ApproveEpoch(n) PROVE DOMAIN orders'.request = {}
  <2>1. PICK i, left : orders' = Approved(orders, i, n, left)  BY <1>4 DEF ApproveEpoch, Approved
  <2>2. orders'.request = orders.request \/ orders'.request = LinkRedeemOrder(orders, Event, Redeemer, i).request
    BY <2>1, ApprovedEffect
  <2>3. DOMAIN LinkRedeemOrder(orders, Event, Redeemer, i).request = {}
    <3> DEFINE rows == [r \in Unlinked(orders) |-> [orders.request[r] EXCEPT !.linked = i]]
               warned == Insert(orders.warning, ChangeOf(Event), "redeemOrderLinkAmbiguous")
               linked == PutAll(orders.request, rows)
    <3>1. \/ LinkRedeemOrder(orders, Event, Redeemer, i) = orders
          \/ LinkRedeemOrder(orders, Event, Redeemer, i) = [orders EXCEPT !.request = linked]
          \/ LinkRedeemOrder(orders, Event, Redeemer, i) = [orders EXCEPT !.warning = warned]
      BY DEF LinkRedeemOrder, Warn
    <3>2. DOMAIN rows = {}  BY DEF Unlinked, Where
    <3> HIDE DEF rows
    <3>3. DOMAIN linked = {}  BY <3>2 DEF PutAll
    <3> HIDE DEF linked, warned
    <3>4. [orders EXCEPT !.warning = warned].request = orders.request
          /\ [orders EXCEPT !.request = linked].request = linked
      BY DEF Shaped, Fields
    <3> QED BY <3>1, <3>3, <3>4
  <2> QED BY <2>2, <2>3
<1>5. ASSUME NEW i, NEW nav, SettleEpoch(i, nav) PROVE DOMAIN orders'.request = {}
  <2>1. orders' = Settled(orders, i, Payout(hub.epochs[i].approved, nav), nav)  BY <1>5 DEF SettleEpoch, Settled
  <2> QED BY <2>1, SettledEffect
<1> QED BY <1>1, <1>2, <1>3, <1>4, <1>5 DEF HubNext

LEMMA VaultRequests ==
  ASSUME Shaped(orders), VaultNext
  PROVE  DOMAIN orders'.request = DOMAIN orders.request
<1>1. ASSUME NEW u, NEW a, NEW n, SyncDeposits(a, u, n) PROVE DOMAIN orders'.request = DOMAIN orders.request
  BY <1>1, VaultKeepsRequests DEF SyncDeposits
<1>2. ASSUME NEW u, NEW n, VaultRequest(u, n) PROVE DOMAIN orders'.request = DOMAIN orders.request
  <2>1. \/ \E held : orders' = OnDepositRequest(orders, Event, Spoke, Asset, u, n, held)
        \/ orders' = OnRedeemRequest(orders, Event, Spoke, Asset, u, n)
    BY <1>2 DEF VaultRequest
  <2>2. \A held : OnDepositRequest(orders, Event, Spoke, Asset, u, n, held).request = orders.request
    BY VaultKeepsRequests
  <2>3. SameLinks(orders.request, OnRedeemRequest(orders, Event, Spoke, Asset, u, n).request)
    BY VaultKeepsRequests
  <2> QED BY <2>1, <2>2, <2>3 DEF SameLinks
<1>3. ASSUME NEW u, NEW n, VaultClaimable(u, n) PROVE DOMAIN orders'.request = DOMAIN orders.request
  BY <1>3, VaultKeepsRequests DEF VaultClaimable
<1>4. ASSUME NEW u, NEW n, VaultTake(u, n) PROVE DOMAIN orders'.request = DOMAIN orders.request
  BY <1>4, VaultKeepsRequests DEF VaultTake
<1>5. ASSUME NEW u, NEW n, VaultCancel(u, n) PROVE DOMAIN orders'.request = DOMAIN orders.request
  BY <1>5 DEF VaultCancel
<1> QED BY <1>1, <1>2, <1>3, <1>4, <1>5 DEF VaultNext

\* The hub's logs of the redeemer's request.
LEMMA HubLinks ==
  ASSUME ShapeInv, HubInv, RequestsInv, HubNext, flow = "basin", flow' = flow, time' = time + 1
  PROVE  RequestsInv'
<1>1. time \in Nat /\ LinksOK(orders.request, orders.redeem.order, time) /\ Shaped(orders)
  BY DEF ShapeInv, RequestsInv
<1>2. PICK s : s = orders.redeem  OBVIOUS
<1>3. DOMAIN s = SideFields /\ SideOf(orders) = s /\ \A k \in DOMAIN s.order : DOMAIN s.order[k] = OrderFields
  BY <1>1, <1>2 DEF Shaped, SideOf, HubInv, HubOK, Side, OrdersOK
<1>4. SameLinks(orders.request, orders.request) /\ SameApprovals(s.order, s.order)  BY DEF SameLinks, SameApprovals
<1>5. ASSUME NEW u, ClaimEpoch(u) PROVE RequestsInv'
  <2>1. PICK paid, payment, payout : /\ paid = Claimed(orders, u, hub.user[u].last, payment, payout)
                                     /\ orders' = paid \/ \E new, left : orders' = Requested(paid, u, new, left)
    BY <1>5, ClaimSteps
  <2>2. PICK k : k = <<Asset, u, hub.user[u].last>>  OBVIOUS
  <2>3. PICK ev : ev = Event  OBVIOUS
  <2>4. /\ Shaped(paid) /\ paid.request = orders.request
        /\ paid.redeem = IF orders.token.there THEN Claim(s, ev, k, payment, payout) ELSE s
    <3>1. Becomes(orders, paid, IF orders.token.there THEN Claim(SideOf(orders), Event, k, payment, payout) ELSE SideOf(orders))
          /\ paid.request = orders.request
      BY <1>1, <2>1, <2>2, ClaimedEffect
    <3> QED BY <1>3, <2>3, <3>1 DEF Becomes, SideOf
  <2>5. SameApprovals(s.order, paid.redeem.order)  BY <1>3, <1>4, <2>4, ClaimApprovals
  <2>6. orders'.request = orders.request /\ orders'.redeem.order = paid.redeem.order
    <3>1. CASE orders' = paid  BY <2>4, <3>1
    <3>2. ASSUME NEW new, NEW left, orders' = Requested(paid, u, new, left)
          PROVE  orders'.request = orders.request /\ orders'.redeem.order = paid.redeem.order
      <4>1. PICK request : request = [pending |-> new.pending, queued |-> new.queued, total |-> left]  OBVIOUS
      <4>2. PICK p : p = paid.redeem  OBVIOUS
      <4>3. DOMAIN p = SideFields /\ SideOf(paid) = p  BY <2>4, <4>2 DEF Shaped, SideOf
      <4>4. Becomes(paid, orders', Request(p, Asset, u, request)) /\ orders'.request = paid.request
        <5>1. Becomes(paid, orders', Request(SideOf(paid), Asset, u,
                        [pending |-> new.pending, queued |-> new.queued, total |-> left]))
              /\ orders'.request = paid.request
          BY <2>4, <3>2, RequestedEffect
        <5> QED BY <4>1, <4>3, <5>1
      <4>5. orders'.redeem = Request(p, Asset, u, request)  BY <4>4 DEF Becomes, SideOf
      <4>6. Request(p, Asset, u, request).order = p.order  BY <4>3, RequestOrder
      <4> QED BY <2>4, <4>2, <4>4, <4>5, <4>6
    <3> QED BY <2>1, <3>1, <3>2
  <2>7. SameLinks(orders.request, orders'.request) /\ SameApprovals(orders.redeem.order, orders'.redeem.order)
    BY <1>2, <1>4, <2>5, <2>6
  <2> QED BY <1>1, <2>7, RequestsAfter
<1>6. ASSUME NEW i, NEW nav, SettleEpoch(i, nav) PROVE RequestsInv'
  <2>1. PICK amount : orders' = Settled(orders, i, amount, nav)  BY <1>6 DEF SettleEpoch, Settled
  <2>2. PICK payouts : payouts = PayoutsOf(orders, s, i, nav)  OBVIOUS
  <2>3. PICK ev : ev = Event  OBVIOUS
  <2>4. orders'.redeem = Settle(s, ev, Asset, i, amount, payouts) /\ orders'.request = orders.request
    <3>1. Becomes(orders, orders', Settle(SideOf(orders), Event, Asset, i, amount, PayoutsOf(orders, SideOf(orders), i, nav)))
          /\ orders'.request = orders.request
      BY <1>1, <2>1, SettledEffect
    <3> QED BY <1>3, <2>2, <2>3, <3>1 DEF Becomes, SideOf
  <2>5. DOMAIN payouts \subseteq DOMAIN s.order  BY <2>2 DEF PayoutsOf, ToSettle, Where
  <2>6. SameApprovals(s.order, orders'.redeem.order)  BY <1>3, <2>4, <2>5, SettleApprovals
  <2> QED BY <1>1, <1>2, <1>4, <2>4, <2>6, RequestsAfter
<1> QED BY <1>5, <1>6, ApprovedLinks DEF HubNext

LEMMA RedeemerLinks ==
  ASSUME ShapeInv, RequestsInv, RedeemerNext, flow = "basin", flow' = flow, time' = time + 1
  PROVE  RequestsInv'
<1>1. time \in Nat /\ LinksOK(orders.request, orders.redeem.order, time) /\ Shaped(orders)
  BY DEF ShapeInv, RequestsInv
<1>2. PICK ev : ev = Event  OBVIOUS
<1>3. ev.now = time  BY <1>2 DEF Event
<1>4. PICK o : o = orders.redeem.order  OBVIOUS
<1>5. ASSUME NEW n, NEW quote, AskRedeemer(n, quote) PROVE RequestsInv'
  <2>1. PICK initiated : initiated = OnRedeemInitiated(orders, ev, n, quote)  OBVIOUS
  <2>2. PICK ev2 : ev2 = [Event EXCEPT !.log = 2]  OBVIOUS
  <2>3. PICK handed : handed = OnRedeemRequest(initiated, ev2, Spoke, BasinAsset, Redeemer, n)  OBVIOUS
  <2>4. Increase(handed, Redeemer, n)  BY <1>2, <1>5, <2>1, <2>2, <2>3 DEF AskRedeemer
  <2>5. Shaped(initiated) /\ Apart(orders, handed)  BY <1>1, <2>1, <2>3, HandedApart
  <2>6. Shaped(handed) /\ handed.redeem = orders.redeem  BY <2>5, ApartFields
  <2>7. LinksOK(initiated.request, o, time + 1)  BY <1>1, <1>3, <1>4, <2>1, InitiatedLinks
  <2>8. SameLinks(initiated.request, handed.request)  BY <2>3, <2>5, VaultKeepsRequests
  <2>9. PICK new, left : orders' = Requested(handed, Redeemer, new, left)  BY <2>4 DEF Increase
  <2>10. PICK request : request = [pending |-> new.pending, queued |-> new.queued, total |-> left]  OBVIOUS
  <2>11. PICK p : p = handed.redeem  OBVIOUS
  <2>12. DOMAIN p = SideFields /\ SideOf(handed) = p  BY <2>6, <2>11 DEF Shaped, SideOf
  <2>13. Becomes(handed, orders', Request(p, Asset, Redeemer, request)) /\ orders'.request = handed.request
    <3>1. Becomes(handed, orders', Request(SideOf(handed), Asset, Redeemer,
                    [pending |-> new.pending, queued |-> new.queued, total |-> left]))
          /\ orders'.request = handed.request
      BY <2>6, <2>9, RequestedEffect
    <3> QED BY <2>10, <2>12, <3>1
  <2>14. orders'.redeem = Request(p, Asset, Redeemer, request)  BY <2>13 DEF Becomes, SideOf
  <2>15. Request(p, Asset, Redeemer, request).order = p.order  BY <2>12, RequestOrder
  <2>16. orders'.redeem.order = o  BY <1>4, <2>6, <2>11, <2>14, <2>15
  <2>17. LinksOK(handed.request, o, time + 1)  BY <2>7, <2>8, LinksCarried
  <2> QED BY <2>13, <2>16, <2>17 DEF RequestsInv
<1>6. CASE RedeemerReturns
  <2>1. PICK x : x = OnStablecoinTransfer(orders, Event, "COLLATERAL", Redeemer, redeeming.amount)  OBVIOUS
  <2>2. PICK ev2 : ev2 = [Event EXCEPT !.log = 2]  OBVIOUS
  <2>3. ev2.now = time  BY <2>2 DEF Event
  <2>4. Apart(orders, x) /\ x.request = orders.request  BY <1>1, <2>1, TransferApart
  <2>5. Shaped(x) /\ x.redeem = orders.redeem  BY <2>4, ApartFields
  <2>6. orders' = OnRedeemCompleted(x, ev2, redeeming.amount)  BY <1>6, <2>1, <2>2 DEF RedeemerReturns
  <2>7. Apart(x, orders')  BY <2>5, <2>6, CompletedApart
  <2>8. orders'.redeem.order = o  BY <1>4, <2>5, <2>7, ApartFields
  <2>9. LinksOK(x.request, o, time)  BY <1>1, <1>4, <2>4
  <2>10. LinksOK(orders'.request, o, time + 1)  BY <1>1, <2>3, <2>5, <2>6, <2>9, CompletedLinks
  <2> QED BY <2>8, <2>10 DEF RequestsInv
<1> QED BY <1>5, <1>6 DEF RedeemerNext

LEMMA RequestsNext == ASSUME ShapeInv, HubInv, RequestsInv, OrdersNext PROVE RequestsInv'
<1>1. flow' = flow /\ (flow = "basin" => time' = time + 1)  BY DEF OrdersNext
<1>2. CASE flow = "basin"
  <2>1. CASE Known
    <3>1. orders'.redeem = orders.redeem /\ orders'.request = orders.request  BY <2>1, KnownShape DEF ShapeInv
    <3>2. SameLinks(orders.request, orders'.request) /\ SameApprovals(orders.redeem.order, orders'.redeem.order)
      BY <3>1 DEF SameLinks, SameApprovals
    <3>3. LinksOK(orders.request, orders.redeem.order, time) /\ time \in Nat  BY <1>2 DEF RequestsInv, ShapeInv
    <3> QED BY <1>1, <1>2, <3>2, <3>3, RequestsAfter
  <2> QED BY <1>1, <1>2, <2>1, HubLinks, RedeemerLinks DEF OrdersNext, HubFlows
<1>3. CASE flow # "basin"
  <2>1. DOMAIN orders.request = {} /\ Shaped(orders)  BY <1>3 DEF RequestsInv, ShapeInv
  <2>2. DOMAIN orders'.request = {}
    <3>1. CASE Known  BY <2>1, <3>1, KnownShape
    <3> QED BY <1>3, <2>1, <3>1, NoRequests, VaultRequests DEF OrdersNext
  <2> QED BY <1>1, <1>3, <2>2 DEF RequestsInv
<1> QED BY <1>2, <1>3

LEMMA RequestsInit == OrdersInit => RequestsInv
<1> SUFFICES ASSUME OrdersInit PROVE RequestsInv  OBVIOUS
<1>1. orders.request = EmptyTable /\ orders.redeem = NewSide  BY InitTables
<1>2. DOMAIN orders.request = {} /\ DOMAIN orders.redeem.order = {}  BY <1>1 DEF EmptyTable, NewSide
<1> QED BY <1>2 DEF RequestsInv, LinksOK

\* A request of the basin is linked with an order of its redeemer that was approved
\* while the request was open: not before it was made, nor once it was completed,
\* through approvals of parts, claims and requests that follow one another.
THEOREM LinksHold == OrdersSpec => []LinkedWhileOpen
<1>1. ASSUME RequestsInv, UNCHANGED orderVars PROVE RequestsInv'
  <2>1. UNCHANGED <<flow, time, orders>>  BY <1>1 DEF orderVars
  <2> QED BY <1>1, <2>1 DEF RequestsInv
<1>2. ShapeInv /\ HubInv /\ RequestsInv /\ [OrdersNext]_orderVars => RequestsInv'  BY <1>1, RequestsNext
<1>3. ASSUME RequestsInv PROVE LinkedWhileOpen
  <2>1. ASSUME NEW r \in DOMAIN orders.request PROVE LinkOK(orders.request[r], orders.redeem.order, time)
    BY <1>3, <2>1 DEF RequestsInv, LinksOK
  <2> QED BY <2>1 DEF LinkedWhileOpen, LinkOK, OrderKey, Asset, Has
<1> QED BY <1>2, <1>3, RequestsInit, ShapeHolds, HubHolds, PTL DEF OrdersSpec

-----------------------------------------------------------------------------
(* The types of the rows *)

OrderRow == [OrderFields -> Nat]
EpochColumns == [{"approvedAt", "approved", "settledAt", "settled"} -> Nat]

OrderRows(t) == \A k \in DOMAIN t : k[2] \in Investors /\ t[k] \in OrderRow
EpochRows(t) == \A k \in DOMAIN t : t[k] \in EpochColumns

\* What the invariant of the hub does not say of the side of the flow.
FlowTyped(s) == DOMAIN s.outstanding \subseteq {Asset} /\ OrderRows(s.order) /\ EpochRows(s.epoch)

\* The other side has no rows but those of synchronous deposits.
OtherTyped(s) ==
  /\ s.pending = EmptyTable /\ s.outstanding = EmptyTable
  /\ DOMAIN s.order \subseteq Assets \X Investors \X Int
  /\ OrderRows(s.order) /\ EpochRows(s.epoch)

SidesTyped == FlowTyped(SideOf(orders)) /\ OtherTyped(OtherOf(orders))

CountsTyped == flow \in Flows /\ asks \in 0..MaxAsks

LEMMA RowsPut ==
  ASSUME NEW t, NEW k, NEW row
  PROVE  /\ OrderRows(t) /\ k[2] \in Investors /\ row \in OrderRow => OrderRows(Put(t, k, row))
         /\ EpochRows(t) /\ row \in EpochColumns => EpochRows(Put(t, k, row))
BY DEF OrderRows, EpochRows, Put

LEMMA OutstandingKey ==
  ASSUME NEW t, DOMAIN t \subseteq {Asset}, NEW row
  PROVE  DOMAIN SaveOrClear(t, Asset, row) \subseteq {Asset}
<1>1. SaveOrClear(t, Asset, row) = Delete(t, Asset) \/ SaveOrClear(t, Asset, row) = Put(t, Asset, row)
  BY DEF SaveOrClear
<1>2. DOMAIN Delete(t, Asset) \subseteq {Asset} /\ DOMAIN Put(t, Asset, row) \subseteq {Asset}  BY DEF Delete, Put
<1> QED BY <1>1, <1>2

LEMMA RequestTyped ==
  ASSUME NEW s, DOMAIN s = SideFields, FlowTyped(s), NEW u, NEW request
  PROVE  FlowTyped(Request(s, Asset, u, request))
<1>1. PICK s2 : s2 = Request(s, Asset, u, request)  OBVIOUS
<1>2. s2.order = s.order /\ s2.epoch = s.epoch  BY <1>1 DEF Request, SideFields
<1>3. \E row : s2.outstanding = SaveOrClear(s.outstanding, Asset, row)  BY <1>1 DEF Request, SideFields
<1>4. DOMAIN s2.outstanding \subseteq {Asset}  BY <1>3, OutstandingKey DEF FlowTyped
<1> QED BY <1>1, <1>2, <1>4 DEF FlowTyped

\* A quotient of naturals.
LEMMA QuotientNatural == ASSUME NEW n \in Nat, NEW m \in Nat \ {0} PROVE n \div m \in Nat
OBVIOUS

LEMMA ProductQuotient == ASSUME NEW a \in Nat, NEW b \in Nat, NEW m \in Nat \ {0} PROVE (a * b) \div m \in Nat
<1>1. a * b \in Nat  OBVIOUS
<1> QED BY <1>1, QuotientNatural

LEMMA ApproveTyped ==
  ASSUME NEW s, DOMAIN s = SideFields, FlowTyped(s), NEW users, PendingOK(s.pending, users),
         NEW ev, ev.now \in Nat, NEW i, NEW n \in Nat, NEW left \in Nat, left + n # 0
  PROVE  FlowTyped(Approve(s, ev, Asset, i, n, left))
<1> DEFINE K == PendingOf(s, Asset)
           share(k) == ApprovedUserAmount(s.pending[k].pending, ApprovedPercentage(n, left))
           order(u) == [NewOrder EXCEPT !.approvedAt = ev.now, !.approved = share(<<Asset, u>>)]
           made == [o \in {<<Asset, k[2], i>> : k \in K} |-> order(o[2])]
<1>1. PICK s2 : s2 = Approve(s, ev, Asset, i, n, left)  OBVIOUS
<1>2. /\ s2.order = PutAll(s.order, made)
      /\ s2.epoch = Upsert(s.epoch, <<Asset, i>>, [approvedAt |-> ev.now, approved |-> n], NewEpoch)
      /\ \E row : s2.outstanding = SaveOrClear(s.outstanding, Asset, row)
  BY <1>1 DEF Approve, SideFields
<1>3. ASSUME NEW o \in DOMAIN made PROVE o[2] \in Investors /\ made[o] \in OrderRow
  <2>1. PICK k \in K : o = <<Asset, k[2], i>>  OBVIOUS
  <2>2. k \in DOMAIN s.pending /\ k[2] \in Investors /\ k = RowKey(k[2]) /\ s.pending[k] \in AmountsRow
    BY <2>1 DEF PendingOf, PendingOK
  <2>3. o[2] = k[2] /\ <<Asset, o[2]>> = k  BY <2>1, <2>2 DEF RowKey
  <2>4. s.pending[k].pending \in Nat  BY <2>2 DEF AmountsRow
  <2>5. PICK p : p = ApprovedPercentage(n, left)  OBVIOUS
  <2>6. p \in Nat
    <3>1. Percent \in Nat \ {0} /\ left + n \in Nat \ {0}  BY OrdersAssumption
    <3> QED BY <2>5, <3>1, ProductQuotient DEF ApprovedPercentage
  <2>7. PICK part : part = share(k)  OBVIOUS
  <2>8. part \in Nat
    <3>1. part = (s.pending[k].pending * p) \div Percent  BY <2>5, <2>7 DEF ApprovedUserAmount
    <3> QED BY <2>4, <2>6, <3>1, ProductQuotient, OrdersAssumption
  <2>9. made[o] = [NewOrder EXCEPT !.approvedAt = ev.now, !.approved = part]  BY <2>3, <2>7
  <2>10. [NewOrder EXCEPT !.approvedAt = ev.now, !.approved = part] \in OrderRow
    <3>1. NewOrder \in OrderRow  BY DEF NewOrder, OrderRow, OrderFields
    <3> HIDE DEF NewOrder
    <3> QED BY <2>8, <3>1 DEF OrderRow
  <2> QED BY <2>2, <2>3, <2>9, <2>10
<1> HIDE DEF made
<1>4. OrderRows(s2.order)  BY <1>2, <1>3 DEF OrderRows, FlowTyped, PutAll
<1>5. EpochRows(s2.epoch)
  <2>1. PICK old : old = RowOr(s.epoch, <<Asset, i>>, NewEpoch)  OBVIOUS
  <2>2. NewEpoch \in EpochColumns  BY DEF NewEpoch, EpochColumns
  <2>3. old \in EpochColumns  BY <2>1, <2>2 DEF FlowTyped, EpochRows, RowOr, Has
  <2>4. PICK values : values = [approvedAt |-> ev.now, approved |-> n]  OBVIOUS
  <2>5. Overwrite(old, values) \in EpochColumns
    <3>1. DOMAIN values = {"approvedAt", "approved"} /\ values.approvedAt \in Nat /\ values.approved \in Nat
      BY <2>4
    <3> QED BY <2>3, <3>1 DEF Overwrite, EpochColumns
  <2>6. s2.epoch = Put(s.epoch, <<Asset, i>>, Overwrite(old, values))  BY <1>2, <2>1, <2>4 DEF Upsert
  <2> QED BY <2>5, <2>6, RowsPut DEF FlowTyped
<1>6. DOMAIN s2.outstanding \subseteq {Asset}  BY <1>2, OutstandingKey DEF FlowTyped
<1> QED BY <1>1, <1>4, <1>5, <1>6 DEF FlowTyped

LEMMA SettleTyped ==
  ASSUME NEW s, DOMAIN s = SideFields, FlowTyped(s), NEW d, NEW ev, ev.now \in Nat, NEW i,
         NEW amount \in Nat, NEW nav \in Nat \ {0}
  PROVE  FlowTyped(Settle(s, ev, Asset, i, amount, PayoutsOf(d, s, i, nav)))
<1>0. PICK pays : pays = PayoutsOf(d, s, i, nav)  OBVIOUS
<1>1. PICK s2 : s2 = Settle(s, ev, Asset, i, amount, pays)  OBVIOUS
<1>2. DOMAIN pays \subseteq DOMAIN s.order /\ \A k \in DOMAIN pays : pays[k] \in Nat
  <2>1. DOMAIN pays = ToSettle(d, s, Asset, i) /\ \A k \in DOMAIN pays : pays[k] = PaidOut(s.order[k], nav)
    BY <1>0 DEF PayoutsOf
  <2>2. DOMAIN pays \subseteq DOMAIN s.order  BY <2>1 DEF ToSettle, Where
  <2>3. ASSUME NEW k \in DOMAIN pays PROVE PaidOut(s.order[k], nav) \in Nat
    <3>1. s.order[k].approved \in Nat  BY <2>2 DEF FlowTyped, OrderRows, OrderRow, OrderFields
    <3>2. NavUnit \in Nat \ {0}  BY OrdersAssumption
    <3>3. Issued(s.order[k], nav) \in Nat /\ Revoked(s.order[k], nav) \in Nat
      BY <3>1, <3>2, ProductQuotient DEF Issued, Revoked
    <3> QED BY <3>3 DEF PaidOut
  <2> QED BY <2>1, <2>2, <2>3
<1>3. PICK made : made = [k \in DOMAIN pays |-> [s.order[k] EXCEPT !.settledAt = ev.now, !.settled = pays[k]]]
  OBVIOUS
<1>4. PICK row : row = [RowOr(s.epoch, <<Asset, i>>, NewEpoch) EXCEPT !.settledAt = ev.now, !.settled = amount]
  OBVIOUS
<1>5. s2.order = PutAll(s.order, made) /\ s2.epoch = Put(s.epoch, <<Asset, i>>, row) /\ s2.outstanding = s.outstanding
  BY <1>1, <1>3, <1>4 DEF Settle, SideFields
<1>6. OrderRows(s2.order)
  <2>1. ASSUME NEW k \in DOMAIN pays PROVE k[2] \in Investors /\ made[k] \in OrderRow
    <3>1. k \in DOMAIN s.order /\ pays[k] \in Nat  BY <1>2
    <3>2. k[2] \in Investors /\ s.order[k] \in OrderRow  BY <3>1 DEF FlowTyped, OrderRows
    <3>3. made[k] = [s.order[k] EXCEPT !.settledAt = ev.now, !.settled = pays[k]]  BY <1>3
    <3> QED BY <3>1, <3>2, <3>3 DEF OrderRow
  <2>2. DOMAIN made = DOMAIN pays  BY <1>3
  <2> QED BY <1>5, <2>1, <2>2 DEF FlowTyped, OrderRows, PutAll
<1>7. EpochRows(s2.epoch)
  <2>1. PICK old : old = RowOr(s.epoch, <<Asset, i>>, NewEpoch)  OBVIOUS
  <2>2. NewEpoch \in EpochColumns  BY DEF NewEpoch, EpochColumns
  <2>3. old \in EpochColumns  BY <2>1, <2>2 DEF FlowTyped, EpochRows, RowOr, Has
  <2>4. row = [old EXCEPT !.settledAt = ev.now, !.settled = amount]  BY <1>4, <2>1
  <2>5. row \in EpochColumns  BY <2>3, <2>4 DEF EpochColumns
  <2> QED BY <1>5, <2>5, RowsPut DEF FlowTyped
<1> QED BY <1>0, <1>1, <1>5, <1>6, <1>7 DEF FlowTyped

LEMMA ClaimTyped ==
  ASSUME NEW s, DOMAIN s = SideFields, FlowTyped(s), NEW ev, ev.now \in Nat, NEW k,
         NEW payment \in Nat, NEW payout \in Nat
  PROVE  FlowTyped(Claim(s, ev, k, payment, payout))
<1>1. CASE ~(Has(s.order, k) /\ s.order[k].claimedAt = 0)  BY <1>1 DEF Claim
<1>2. CASE Has(s.order, k) /\ s.order[k].claimedAt = 0
  <2>1. PICK s2 : s2 = Claim(s, ev, k, payment, payout)  OBVIOUS
  <2>2. PICK row : row = [s.order[k] EXCEPT !.approved = payment, !.settled = payout, !.claimed = payout,
                                            !.claimedAt = ev.now]
    OBVIOUS
  <2>3. s2 = [s EXCEPT !.order = [s.order EXCEPT ![k] = row]]  BY <1>2, <2>1, <2>2 DEF Claim, SideFields
  <2>4. s2.order = [s.order EXCEPT ![k] = row] /\ s2.epoch = s.epoch /\ s2.outstanding = s.outstanding
    BY <2>3 DEF SideFields
  <2>5. k \in DOMAIN s.order /\ k[2] \in Investors /\ s.order[k] \in OrderRow
    BY <1>2 DEF FlowTyped, OrderRows, Has
  <2>6. row \in OrderRow  BY <2>2, <2>5 DEF OrderRow
  <2>7. OrderRows(s2.order)  BY <2>4, <2>5, <2>6 DEF FlowTyped, OrderRows
  <2> QED BY <2>1, <2>4, <2>7 DEF FlowTyped
<1> QED BY <1>1, <1>2

LEMMA IncreaseTyped ==
  ASSUME NEW d, Shaped(d), FlowTyped(SideOf(d)), NEW u, NEW n, Increase(d, u, n)
  PROVE  FlowTyped(SideOf(orders')) /\ OtherOf(orders') = OtherOf(d)
<1>1. PICK new, left : orders' = Requested(d, u, new, left)  BY DEF Increase
<1>2. Becomes(d, Requested(d, u, new, left),
              Request(SideOf(d), Asset, u, [pending |-> new.pending, queued |-> new.queued, total |-> left]))
  BY RequestedEffect
<1>3. FlowTyped(Request(SideOf(d), Asset, u, [pending |-> new.pending, queued |-> new.queued, total |-> left]))
  BY RequestTyped, SideShaped
<1> QED BY <1>1, <1>2, <1>3 DEF Becomes

LEMMA CancelTyped ==
  ASSUME Shaped(orders), FlowTyped(SideOf(orders)), NEW u, Cancel(u)
  PROVE  FlowTyped(SideOf(orders')) /\ OtherOf(orders') = OtherOf(orders)
<1>1. PICK new, left : orders' = Requested(orders, u, new, left)  BY DEF Cancel
<1>2. Becomes(orders, Requested(orders, u, new, left),
              Request(SideOf(orders), Asset, u, [pending |-> new.pending, queued |-> new.queued, total |-> left]))
  BY RequestedEffect
<1>3. FlowTyped(Request(SideOf(orders), Asset, u, [pending |-> new.pending, queued |-> new.queued, total |-> left]))
  BY RequestTyped, SideShaped
<1> QED BY <1>1, <1>2, <1>3 DEF Becomes

LEMMA PayoutType == ASSUME NEW n \in Nat, NEW nav \in Nat \ {0} PROVE Payout(n, nav) \in Nat
<1>1. NavUnit \in Nat \ {0}  BY OrdersAssumption
<1>2. (n * NavUnit) \div nav \in Nat /\ (n * nav) \div NavUnit \in Nat  BY <1>1, ProductQuotient
<1> QED BY <1>2 DEF Payout

LEMMA ClaimEpochTyped ==
  ASSUME ShapeInv, HubInv, FlowTyped(SideOf(orders)), NEW u \in Investors, ClaimEpoch(u)
  PROVE  FlowTyped(SideOf(orders')) /\ OtherOf(orders') = OtherOf(orders)
<1>1. PICK user : user = hub.user[u]  OBVIOUS
<1>2. PICK epoch : epoch = hub.epochs[user.last]  OBVIOUS
<1>3. /\ hub.epoch \in Nat \ {0} /\ hub.epochs \in Seq(EpochRow) /\ Len(hub.epochs) = hub.epoch - 1
      /\ hub.user \in [Investors -> Account]
  BY DEF HubInv, HubOK, HubType
<1>4. user \in Account  BY <1>1, <1>3
<1>5. user.pending \in Nat /\ user.last \in Nat  BY <1>4 DEF Account
<1>6. user.pending > 0 /\ user.last < hub.epoch /\ epoch.nav # 0  BY <1>1, <1>2 DEF ClaimEpoch
<1>7. user.last \in 1..(hub.epoch - 1)
  <2>1. PICK R : AccountsOK(hub.user, Side, hub.left, hub.epoch, hub.epochs, R)  BY DEF HubInv, HubOK
  <2>2. Path(R[u], user, hub.epochs, hub.epoch)  BY <1>1, <2>1 DEF AccountsOK
  <2>3. user.last \in 1..hub.epoch  BY <1>6, <2>2 DEF Path
  <2> QED BY <1>3, <1>6, <2>3
<1>8. epoch \in EpochRow  BY <1>2, <1>3, <1>7
<1>9. epoch.approved \in Nat /\ epoch.of \in Nat \ {0} /\ epoch.nav \in Nat \ {0}  BY <1>6, <1>8 DEF EpochRow
<1>10. PICK payment : payment = (user.pending * epoch.approved) \div epoch.of  OBVIOUS
<1>11. payment \in Nat  BY <1>5, <1>9, <1>10, ProductQuotient
<1>12. PICK payout : payout = Payout(payment, epoch.nav)  OBVIOUS
<1>13. payout \in Nat  BY <1>9, <1>11, <1>12, PayoutType
<1>14. PICK paid : paid = Claimed(orders, u, user.last, payment, payout)  OBVIOUS
<1>15. orders' = paid \/ \E new, left : orders' = Requested(paid, u, new, left)
  BY <1>1, <1>2, <1>10, <1>12, <1>14, ClaimSteps
<1>16. PICK ev : ev = Event  OBVIOUS
<1>17. ev.now \in Nat  BY <1>16 DEF Event, ShapeInv
<1>18. Becomes(orders, paid, IF orders.token.there
                             THEN Claim(SideOf(orders), ev, <<Asset, u, user.last>>, payment, payout) ELSE SideOf(orders))
  BY <1>14, <1>16, ClaimedEffect DEF ShapeInv
<1>19. FlowTyped(Claim(SideOf(orders), ev, <<Asset, u, user.last>>, payment, payout))
  BY <1>11, <1>13, <1>17, ClaimTyped, SideShaped DEF ShapeInv
<1>20. Shaped(paid) /\ FlowTyped(SideOf(paid)) /\ OtherOf(paid) = OtherOf(orders)  BY <1>18, <1>19 DEF Becomes
<1>21. ASSUME NEW new, NEW left
       PROVE  /\ FlowTyped(SideOf(Requested(paid, u, new, left)))
              /\ OtherOf(Requested(paid, u, new, left)) = OtherOf(paid)
  <2>1. PICK request : request = [pending |-> new.pending, queued |-> new.queued, total |-> left]  OBVIOUS
  <2>2. Becomes(paid, Requested(paid, u, new, left), Request(SideOf(paid), Asset, u, request))
    BY <1>20, <2>1, RequestedEffect
  <2>3. FlowTyped(Request(SideOf(paid), Asset, u, request))  BY <1>20, RequestTyped, SideShaped
  <2> QED BY <2>2, <2>3 DEF Becomes
<1> QED BY <1>15, <1>20, <1>21

LEMMA ApproveEpochTyped ==
  ASSUME ShapeInv, HubInv, FlowTyped(SideOf(orders)), NEW n \in 1..hub.left, ApproveEpoch(n)
  PROVE  FlowTyped(SideOf(orders')) /\ OtherOf(orders') = OtherOf(orders)
<1>1. hub.left \in Nat  BY DEF HubInv, HubOK, HubType
<1>2. PICK left : left = hub.left - n  OBVIOUS
<1>3. n \in Nat /\ left \in Nat /\ left + n # 0  BY <1>1, <1>2
<1>4. orders' = Approved(orders, hub.epoch, n, left)  BY <1>2 DEF ApproveEpoch, Approved
<1>5. PICK ev : ev = Event  OBVIOUS
<1>6. ev.now \in Nat  BY <1>5 DEF Event, ShapeInv
<1>7. Becomes(orders, Approved(orders, hub.epoch, n, left), Approve(SideOf(orders), ev, Asset, hub.epoch, n, left))
  BY <1>5, ApprovedEffect DEF ShapeInv
<1>8. SideOf(orders) = Side  BY DEF SideOf, Side
<1>9. PendingOK(SideOf(orders).pending, hub.user)  BY <1>8 DEF HubInv, HubOK, AccountsOK
<1>10. FlowTyped(Approve(SideOf(orders), ev, Asset, hub.epoch, n, left))
  BY <1>3, <1>6, <1>9, ApproveTyped, SideShaped DEF ShapeInv
<1> QED BY <1>4, <1>7, <1>10 DEF Becomes

LEMMA SettleEpochTyped ==
  ASSUME ShapeInv, HubInv, FlowTyped(SideOf(orders)), NEW i \in DOMAIN hub.epochs, NEW nav \in Navs, SettleEpoch(i, nav)
  PROVE  FlowTyped(SideOf(orders')) /\ OtherOf(orders') = OtherOf(orders)
<1>1. hub.epochs \in Seq(EpochRow)  BY DEF HubInv, HubOK, HubType
<1>2. hub.epochs[i].approved \in Nat /\ nav \in Nat \ {0}
  <2>1. hub.epochs[i] \in EpochRow  BY <1>1
  <2> QED BY <2>1, OrderSystemAssumption DEF EpochRow
<1>3. PICK amount : amount = Payout(hub.epochs[i].approved, nav)  OBVIOUS
<1>4. amount \in Nat  BY <1>2, <1>3, PayoutType
<1>5. orders' = Settled(orders, i, amount, nav)  BY <1>3 DEF SettleEpoch, Settled
<1>6. PICK ev : ev = Event  OBVIOUS
<1>7. ev.now \in Nat  BY <1>6 DEF Event, ShapeInv
<1>8. Becomes(orders, Settled(orders, i, amount, nav),
              Settle(SideOf(orders), ev, Asset, i, amount, PayoutsOf(orders, SideOf(orders), i, nav)))
  BY <1>6, SettledEffect DEF ShapeInv
<1>9. FlowTyped(Settle(SideOf(orders), ev, Asset, i, amount, PayoutsOf(orders, SideOf(orders), i, nav)))
  BY <1>2, <1>4, <1>7, SettleTyped, SideShaped DEF ShapeInv
<1> QED BY <1>5, <1>8, <1>9 DEF Becomes

LEMMA HubTyped ==
  ASSUME ShapeInv, HubInv, FlowTyped(SideOf(orders)), HubNext
  PROVE  FlowTyped(SideOf(orders')) /\ OtherOf(orders') = OtherOf(orders)
<1>1. Shaped(orders)  BY DEF ShapeInv
<1> QED BY <1>1, IncreaseTyped, CancelTyped, ClaimEpochTyped, ApproveEpochTyped, SettleEpochTyped DEF HubNext

LEMMA RedeemerTyped ==
  ASSUME ShapeInv, FlowTyped(SideOf(orders)), RedeemerNext
  PROVE  FlowTyped(SideOf(orders')) /\ OtherOf(orders') = OtherOf(orders)
<1>1. \A d, e : Apart(d, e) => SideOf(e) = SideOf(d) /\ OtherOf(e) = OtherOf(d) /\ Shaped(e)
  BY ApartFields DEF SideOf, OtherOf
<1>2. ASSUME NEW n, NEW quote, AskRedeemer(n, quote)
      PROVE  FlowTyped(SideOf(orders')) /\ OtherOf(orders') = OtherOf(orders)
  <2>1. PICK handed : handed = OnRedeemRequest(OnRedeemInitiated(orders, Event, n, quote), [Event EXCEPT !.log = 2],
                                               Spoke, BasinAsset, Redeemer, n)
    OBVIOUS
  <2>2. Increase(handed, Redeemer, n)  BY <1>2, <2>1 DEF AskRedeemer
  <2>3. Apart(orders, handed)  BY <2>1, HandedApart DEF ShapeInv
  <2> QED BY <1>1, <2>2, <2>3, IncreaseTyped
<1>3. CASE RedeemerReturns
  <2>1. PICK x : x = OnStablecoinTransfer(orders, Event, "COLLATERAL", Redeemer, redeeming.amount)  OBVIOUS
  <2>2. orders' = OnRedeemCompleted(x, [Event EXCEPT !.log = 2], redeeming.amount)
    BY <1>3, <2>1 DEF RedeemerReturns
  <2>3. Apart(orders, x)  BY <2>1, TransferApart DEF ShapeInv
  <2>4. Apart(x, orders')  BY <1>1, <2>2, <2>3, CompletedApart
  <2> QED BY <1>1, <2>3, <2>4
<1> QED BY <1>2, <1>3 DEF RedeemerNext

\* A synchronous deposit makes an order and an epoch of typed amounts.
LEMMA SyncDepositTyped ==
  ASSUME NEW s, OtherTyped(s), Numbered(s), NEW ev, ev.now \in Nat,
         NEW a \in Assets, NEW u \in Investors, NEW n \in Nat
  PROVE  OtherTyped(SyncDeposit(s, ev, a, u, n, n))
<1>1. PICK t : t = SyncDeposit(s, ev, a, u, n, n)  OBVIOUS
<1>2. PICK k : k = <<a, u, -Cardinality(OrdersOf(s, u))>>  OBVIOUS
<1>3. PICK j : j = <<a, -Cardinality(EpochsOf(s, a))>>  OBVIOUS
<1>4. t.order = Put(s.order, k, SyncOrder(ev, n, n)) /\ t.epoch = Put(s.epoch, j, SyncEpoch(ev, n, n))
  BY <1>1, <1>2, <1>3, SyncDepositIsNew
<1>5. t.pending = s.pending /\ t.outstanding = s.outstanding  BY <1>1 DEF SyncDeposit, Numbered, SideFields
<1>6. k \in Assets \X Investors \X Int /\ k[2] \in Investors
  <2>1. Cardinality(OrdersOf(s, u)) \in Nat  BY OrdersOfCount
  <2> QED BY <1>2, <2>1
<1>7. SyncOrder(ev, n, n) \in OrderRow  BY DEF SyncOrder, OrderRow, OrderFields
<1>8. SyncEpoch(ev, n, n) \in EpochColumns  BY DEF SyncEpoch, EpochColumns
<1>9. OrderRows(t.order) /\ EpochRows(t.epoch)  BY <1>4, <1>6, <1>7, <1>8, RowsPut DEF OtherTyped
<1>10. DOMAIN t.order \subseteq Assets \X Investors \X Int
  <2>1. DOMAIN t.order = DOMAIN s.order \cup {k}  BY <1>4 DEF Put
  <2> QED BY <1>6, <2>1 DEF OtherTyped
<1> QED BY <1>1, <1>5, <1>9, <1>10 DEF OtherTyped

LEMMA VaultTyped ==
  ASSUME ShapeInv, SyncInv, flow \notin HubFlows, OtherTyped(orders.invest), VaultNext
  PROVE  OtherTyped(orders'.invest)
<1>1. Users = Investors  BY DEF Investors, HubFlows
<1>2. ASSUME NEW u \in Users, NEW a \in Assets, NEW n \in Amounts, flow = "syncDeposit", SyncDeposits(a, u, n)
      PROVE  OtherTyped(orders'.invest)
  <2>1. PICK ev : ev = Event  OBVIOUS
  <2>2. ev.now \in Nat /\ n \in Nat  BY <2>1, OrderSystemAssumption DEF Event, ShapeInv
  <2>3. orders'.invest = SyncDeposit(orders.invest, ev, a, u, n, n) \/ orders'.invest = orders.invest
    BY <1>2, <2>1, SyncDepositsEffect
  <2>4. Numbered(orders.invest)  BY <1>2 DEF SyncInv
  <2>5. OtherTyped(SyncDeposit(orders.invest, ev, a, u, n, n))  BY <1>1, <2>2, <2>4, SyncDepositTyped
  <2> QED BY <2>3, <2>5
<1>3. ASSUME NEW u, NEW n, VaultRequest(u, n) PROVE OtherTyped(orders'.invest)
  <2>1. \/ \E held : orders' = OnDepositRequest(orders, Event, Spoke, Asset, u, n, held)
        \/ orders' = OnRedeemRequest(orders, Event, Spoke, Asset, u, n)
    BY <1>3 DEF VaultRequest
  <2>2. Shaped(orders)  BY DEF ShapeInv
  <2>3. Apart(orders, orders')  BY ONLY <2>1, <2>2, DepositRequestEffect, RedeemRequestEffect
  <2> QED BY <2>3, ApartFields
<1>4. ASSUME NEW u, NEW n, VaultClaimable(u, n) PROVE OtherTyped(orders'.invest)
  <2>1. \/ orders' = OnDepositClaimable(orders, Event, Spoke, Asset, u, n)
        \/ orders' = OnRedeemClaimable(orders, Event, Spoke, Asset, u, n)
    BY <1>4 DEF VaultClaimable
  <2>2. Shaped(orders)  BY DEF ShapeInv
  <2>3. Apart(orders, orders')  BY ONLY <2>1, <2>2, DepositClaimableEffect, RedeemClaimableEffect
  <2> QED BY <2>3, ApartFields
<1>5. ASSUME NEW u \in Users, NEW n \in 1..owner[u].claimable, VaultTake(u, n) PROVE OtherTyped(orders'.invest)
  <2>1. CASE flow = "syncDeposit"
    <3>1. owner[u] = NothingOwed  BY <2>1 DEF SyncInv
    <3>2. owner[u].claimable = 0  BY ONLY <3>1 DEF NothingOwed
    <3> QED BY <3>2
  <2>2. CASE flow # "syncDeposit"
    <3>1. orders.vault \in {"None", "Async"} /\ Shaped(orders)  BY <2>2 DEF ShapeInv
    <3>2. \/ orders' = OnDeposit(orders, Event, Spoke, Asset, u, n, n)
          \/ orders' = OnWithdraw(orders, Event, Spoke, Asset, u, n)
      BY <1>5 DEF VaultTake
    <3>3. CASE orders' = OnDeposit(orders, Event, Spoke, Asset, u, n, n)
      <4>0. PICK k : k = <<Spoke, Asset, u>>  OBVIOUS
      <4>1. orders'.invest = orders.invest  BY ONLY <3>1, <3>3, <4>0, DepositEffect
      <4> QED BY <4>1
    <3>4. CASE orders' = OnWithdraw(orders, Event, Spoke, Asset, u, n)
      <4>1. Apart(orders, orders')  BY <3>1, <3>4, WithdrawEffect
      <4> QED BY <4>1, ApartFields
    <3> QED BY <3>2, <3>3, <3>4
  <2> QED BY <2>1, <2>2
<1>6. ASSUME NEW u, NEW n, VaultCancel(u, n) PROVE OtherTyped(orders'.invest)
  BY <1>6 DEF VaultCancel
<1> QED BY <1>2, <1>3, <1>4, <1>5, <1>6 DEF VaultNext

LEMMA TypedPrimed ==
  ASSUME flow' = flow, FlowTyped(SideOf(orders')), OtherTyped(OtherOf(orders')) PROVE SidesTyped'
BY DEF SidesTyped, FlowTyped, OtherTyped, SideOf, OtherOf, OrderRows, Investors

LEMMA SidesTypedNext == ASSUME ShapeInv, HubInv, SyncInv, SidesTyped, OrdersNext PROVE SidesTyped'
<1>1. flow' = flow  BY DEF OrdersNext
<1>2. FlowTyped(SideOf(orders)) /\ OtherTyped(OtherOf(orders))  BY DEF SidesTyped
<1>3. ASSUME FlowTyped(SideOf(orders')), OtherOf(orders') = OtherOf(orders) PROVE SidesTyped'
  BY <1>1, <1>2, <1>3, TypedPrimed
<1>4. CASE HubNext  BY <1>2, <1>3, <1>4, HubTyped
<1>5. CASE RedeemerNext  BY <1>2, <1>3, <1>5, RedeemerTyped
<1>6. CASE flow \notin HubFlows /\ VaultNext
  <2>1. Keeps(orders, orders')  BY <1>6, VaultShape DEF ShapeInv
  <2>2. orders'.redeem = orders.redeem  BY <2>1, KeepsFields
  <2>3. flow # "deposit"  BY <1>6 DEF HubFlows
  <2>4. OtherOf(orders) = orders.invest /\ OtherOf(orders') = orders'.invest /\ SideOf(orders') = SideOf(orders)
    BY <2>2, <2>3 DEF OtherOf, SideOf
  <2>5. OtherTyped(orders'.invest)  BY <1>2, <1>6, <2>4, VaultTyped
  <2> QED BY <1>1, <1>2, <2>4, <2>5, TypedPrimed
<1>7. CASE Known
  <2>1. orders'.invest = orders.invest /\ orders'.redeem = orders.redeem  BY <1>7, KnownShape DEF ShapeInv
  <2>2. SideOf(orders') = SideOf(orders) /\ OtherOf(orders') = OtherOf(orders)  BY <2>1 DEF SideOf, OtherOf
  <2> QED BY <1>2, <1>3, <2>2
<1> QED BY <1>4, <1>5, <1>6, <1>7 DEF OrdersNext

LEMMA SidesTypedInit == OrdersInit => SidesTyped
<1> SUFFICES ASSUME OrdersInit PROVE SidesTyped  OBVIOUS
<1>1. SideOf(orders) = NewSide /\ OtherOf(orders) = NewSide  BY InitTables DEF SideOf, OtherOf
<1>2. FlowTyped(NewSide) /\ OtherTyped(NewSide)
  BY DEF FlowTyped, OtherTyped, NewSide, OrderRows, EpochRows, EmptyTable
<1> QED BY <1>1, <1>2 DEF SidesTyped

LEMMA CountsNext == ASSUME CountsTyped, OrdersNext PROVE CountsTyped'
<1>1. asks' = asks \/ Ask
  <2>1. CASE HubNext
    BY <2>1 DEF HubNext, Increase, Cancel, ClaimEpoch, ApproveEpoch, SettleEpoch
  <2>2. CASE VaultNext
    BY <2>2 DEF VaultNext, SyncDeposits, VaultRequest, VaultClaimable, VaultCancel, VaultTake
  <2>3. CASE RedeemerNext
    BY <2>3 DEF RedeemerNext, AskRedeemer, RedeemerReturns, Increase
  <2>4. CASE Known  BY <2>4 DEF Known
  <2> QED BY <2>1, <2>2, <2>3, <2>4 DEF OrdersNext
<1>2. MaxAsks \in Nat  BY OrderSystemAssumption
<1>3. asks' \in 0..MaxAsks  BY <1>1, <1>2 DEF CountsTyped, Ask
<1>4. flow' = flow  BY DEF OrdersNext
<1> QED BY <1>3, <1>4 DEF CountsTyped

LEMMA CountsInit == OrdersInit => CountsTyped
  BY OrderSystemAssumption DEF OrdersInit, CountsTyped

\* The columns of the orders, the epochs and what is pending are naturals under keys
\* of the accounts and assets: no approval takes more from a row than it has.
THEOREM OrdersTypeCorrect == OrdersSpec => []OrdersTypeOK
<1>1. SidesTyped /\ CountsTyped /\ UNCHANGED orderVars => SidesTyped' /\ CountsTyped'
  <2> SUFFICES ASSUME SidesTyped, CountsTyped, UNCHANGED orderVars PROVE SidesTyped' /\ CountsTyped'  OBVIOUS
  <2>1. UNCHANGED <<flow, asks, orders>>  BY DEF orderVars
  <2>2. SidesTyped'  BY <2>1, TypedPrimed DEF SidesTyped
  <2> QED BY <2>1, <2>2 DEF CountsTyped
<1>2. ShapeInv /\ HubInv /\ SyncInv /\ SidesTyped /\ CountsTyped /\ [OrdersNext]_orderVars => SidesTyped' /\ CountsTyped'
  BY <1>1, SidesTypedNext, CountsNext
<1>3. ASSUME ShapeInv, HubInv, SidesTyped, CountsTyped PROVE OrdersTypeOK
  <2>1. Asset \in Assets  BY OrderSystemAssumption DEF Asset
  <2>2. DOMAIN NewOrder = OrderFields /\ DOMAIN NewEpoch = {"approvedAt", "approved", "settledAt", "settled"}
    BY DEF NewOrder, NewEpoch, OrderFields
  <2>3. ASSUME NEW s, s = Side \/ OtherTyped(s), s = Side => FlowTyped(s)
        PROVE  /\ DOMAIN s.pending \subseteq Assets \X Investors
               /\ \A k \in DOMAIN s.pending : s.pending[k] \in AmountsRow
               /\ \A k \in DOMAIN s.outstanding : s.outstanding[k] \in AmountsRow
               /\ DOMAIN s.order \subseteq Assets \X Investors \X Int
               /\ \A k \in DOMAIN s.order : s.order[k] \in [DOMAIN NewOrder -> Nat]
               /\ \A k \in DOMAIN s.epoch : s.epoch[k] \in [DOMAIN NewEpoch -> Nat]
    <3>1. CASE s = Side
      <4>1. PICK R : AccountsOK(hub.user, s, hub.left, hub.epoch, hub.epochs, R)  BY <1>3, <3>1 DEF HubInv, HubOK
      <4>2. PendingOK(s.pending, hub.user) /\ Outstanding(s, hub.left)  BY <4>1 DEF AccountsOK
      <4>3. DOMAIN s.pending \subseteq Assets \X Investors  BY <2>1, <4>2 DEF PendingOK, RowKey
      <4>4. \A k \in DOMAIN s.pending : s.pending[k] \in AmountsRow  BY <4>2 DEF PendingOK
      <4>5. FlowTyped(s)  BY <2>3, <3>1
      <4>6. \A k \in DOMAIN s.outstanding : s.outstanding[k] \in AmountsRow
        BY <4>2, <4>5, AmountsFound DEF Outstanding, FlowTyped
      <4>7. OrdersOK(s.order, hub.epochs, hub.epoch - 1) /\ hub.epoch \in Nat
        BY <1>3, <3>1 DEF HubInv, HubOK, HubType
      <4>8. DOMAIN s.order \subseteq Assets \X Investors \X Int
        <5>1. ASSUME NEW k \in DOMAIN s.order PROVE k \in Assets \X Investors \X Int
          <6>1. k = <<Asset, k[2], k[3]>> /\ k[3] \in Int  BY <4>7 DEF OrdersOK, OrderKey
          <6>2. k[2] \in Investors  BY <4>5 DEF FlowTyped, OrderRows
          <6> QED BY <2>1, <6>1, <6>2
        <5> QED BY <5>1
      <4> QED BY <2>2, <4>3, <4>4, <4>5, <4>6, <4>8 DEF FlowTyped, OrderRows, EpochRows, OrderRow, EpochColumns
    <3>2. CASE OtherTyped(s)
      BY <2>2, <3>2 DEF OtherTyped, OrderRows, EpochRows, OrderRow, EpochColumns, EmptyTable
    <3> QED BY <2>3, <3>1, <3>2
  <2>4. FlowTyped(Side) /\ OtherTyped(OtherOf(orders))  BY <1>3 DEF SidesTyped, SideOf, Side
  <2>5. \A s \in {orders.invest, orders.redeem} : s = Side \/ OtherTyped(s)  BY <2>4 DEF Side, OtherOf
  <2>6. flow \in Flows /\ asks \in 0..MaxAsks /\ time \in Nat  BY <1>3 DEF CountsTyped, ShapeInv
  <2> QED BY <2>3, <2>4, <2>5, <2>6 DEF OrdersTypeOK
<1>4. OrdersSpec => []SyncInv
  <2>1. ASSUME SyncInv, UNCHANGED orderVars PROVE SyncInv'
    <3>1. UNCHANGED <<flow, owner, deposits, orders>>  BY <2>1 DEF orderVars
    <3> QED BY <2>1, <3>1 DEF SyncInv
  <2>2. ShapeInv /\ SyncInv /\ [OrdersNext]_orderVars => SyncInv'  BY <2>1, SyncNextOK
  <2> QED BY <2>2, SyncInit, ShapeHolds, PTL DEF OrdersSpec
<1> QED BY <1>2, <1>3, <1>4, SidesTypedInit, CountsInit, ShapeHolds, HubHolds, PTL DEF OrdersSpec

=============================================================================
