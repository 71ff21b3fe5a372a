------------------------------ MODULE ShareSystem ------------------------------
(***************************************************************************)
(* The share tokens of the spoke chains and the indexer behind them.  A     *)
(* chain may have mined one block more than the one that is being indexed.  *)
(* An eth_call of a handler is answered at the end of the log's block, or   *)
(* (the second try of readContractSafe) of the next, or not at all.         *)
(***************************************************************************)
EXTENDS Shares, Sequences

CONSTANTS Chains, Amounts, SpokePrices,
          MaxOps, MaxOpsOfTwo,   \* what happens on one chain, and on several
          RpcReliable            \* every call is answered at once

ASSUME ShareSystemAssumption == /\ Amounts \subseteq Nat \ {0} /\ SpokePrices \subseteq Nat
                                /\ MaxOps \in Nat /\ MaxOpsOfTwo \in 0..MaxOps

Escrow == "escrow"     \* an address of the protocol
Addresses == Users \cup {Escrow}

VARIABLES tip,      \* supply and balances of the token on each chain
          blocks,   \* blocks of each chain that are mined and not indexed to the end
          emitted,  \* logs of each chain so far; none before the token is known
          ops,      \* what was done on the chains so far
          db,       \* the tables
          hubKnown  \* the hub's own AddShareClass was handled, not refused

sharesVars == <<tip, blocks, emitted, ops, db, hubKnown>>

-----------------------------------------------------------------------------
(* The chains *)

NoShares == [supply |-> 0, held |-> [a \in Addresses |-> 0]]

Move(t, from, to, n) ==
  [supply |-> t.supply + (IF from = Zero THEN n ELSE 0) - (IF to = Zero THEN n ELSE 0),
   held   |-> [a \in Addresses |-> t.held[a] + (IF a = to THEN n ELSE 0) - (IF a = from THEN n ELSE 0)]]

Tracked(c) == emitted[c] > 0

Act(c) == /\ ops < IF \E other \in Chains \ {c} : Tracked(other) THEN MaxOpsOfTwo ELSE MaxOps
          /\ ops' = ops + 1

Log(kind, from, to, n, no) == [kind |-> kind, from |-> from, to |-> to, n |-> n, no |-> no]

Adds(c) == blocks[c] # <<>> /\ blocks[c][1].logs[1].kind = "AddShareClass"
Requests(c) == blocks[c] # <<>> /\ blocks[c][1].logs[1].kind = "DepositRequest"

\* Logs go into the block that is open, or into a new one.  Only the handlers of
\* AddShareClass and DepositRequest call the chain, so only behind their logs
\* may others wait.
Emit(c, logs, after, new) ==
  LET last  == Len(blocks[c])
      open  == blocks[c] # <<>> /\ ~blocks[c][last].begun
      block == [logs |-> IF new THEN logs ELSE blocks[c][last].logs \o logs, at |-> after, begun |-> FALSE]
  IN  /\ blocks[c] = <<>> \/ Adds(c) \/ Requests(c)
      /\ IF new THEN Len(blocks[c]) < 2 ELSE open
      /\ Act(c)
      /\ tip' = [tip EXCEPT ![c] = after]
      /\ blocks' = [blocks EXCEPT ![c] = IF new THEN Append(@, block) ELSE [@ EXCEPT ![last] = block]]
      /\ emitted' = [emitted EXCEPT ![c] = @ + Len(logs)]
      /\ UNCHANGED <<db, hubKnown>>

\* The token of a chain is registered, again by a later version of the spoke.
AddShareClass(c, new) ==
  Emit(c, <<Log("AddShareClass", Zero, Zero, 0, emitted[c] + 1)>>, tip[c], new)

\* An account asks a vault of the token for shares: it is told its account only,
\* and no share moves.
DepositRequest(c, a, new) ==
  /\ Tracked(c)
  /\ Emit(c, <<Log("DepositRequest", Zero, a, 0, emitted[c] + 1)>>, tip[c], new)

\* Shares that are there before the spoke knows the token.
Existing(c, a, n) == /\ ~Tracked(c)
                     /\ Act(c)
                     /\ tip' = [tip EXCEPT ![c] = Move(@, Zero, a, n)]
                     /\ UNCHANGED <<blocks, emitted, db, hubKnown>>

\* A transfer, after a new share price or at the last.
Transfer(c, from, to, n, newPrice, new) ==
  LET update == IF newPrice = {} THEN <<>>
                ELSE <<Log("UpdateSharePrice", Zero, Zero, CHOOSE p \in newPrice : TRUE, emitted[c] + 1)>>
      log    == Log("Transfer", from, to, n, emitted[c] + Len(update) + 1)
  IN  /\ Tracked(c)
      /\ {from, to} \cap Users # {} /\ (from # Zero => tip[c].held[from] >= n)
      /\ Emit(c, Append(update, log), Move(tip[c], from, to, n), new)

-----------------------------------------------------------------------------
(* The indexer *)

\* What an eth_call of a log in the first block of a chain may return.
Answers(c) == IF RpcReliable THEN {blocks[c][1].at}
              ELSE {blocks[c][i].at : i \in DOMAIN blocks[c]} \cup {NoShares}

IndexSpoke(c) ==
  LET log  == blocks[c][1].logs[1]
      rest == [logs |-> Tail(blocks[c][1].logs), at |-> blocks[c][1].at, begun |-> TRUE]
  IN  /\ blocks[c] # <<>>
      /\ blocks' = [blocks EXCEPT ![c] = IF rest.logs = <<>> THEN Tail(@) ELSE [@ EXCEPT ![1] = rest]]
      /\ \/ log.kind = "Transfer" /\ db' = OnTransfer(db, c, log)
         \/ log.kind = "UpdateSharePrice" /\ db' = OnUpdateSharePrice(db, c, log.n)
         \/ log.kind = "AddShareClass" /\ \E total, held \in Answers(c), decimals \in BOOLEAN :
                 db' = OnAddShareClass(db, c, total.supply, held.held, decimals)
         \/ log.kind = "DepositRequest" /\ \E answer \in Answers(c) :
                 db' = InitPosition(db, c, log.to, answer.held[log.to])
      /\ UNCHANGED <<tip, emitted, ops, hubKnown>>

\* The hub's logs are indexed between any two logs of the spokes.
IndexHub == \E decimals \in BOOLEAN :
              /\ \/ ~db.pool /\ db' = OnNewPool(db, decimals) /\ hubKnown' = hubKnown
                 \/ db' = OnHubAddShareClass(db, decimals) /\ hubKnown' = (hubKnown \/ (db.pool /\ decimals))
              /\ UNCHANGED <<tip, blocks, emitted, ops>>

SharesInit ==
  /\ tip = [c \in Chains |-> NoShares]
  /\ blocks = [c \in Chains |-> <<>>]
  /\ emitted = [c \in Chains |-> 0]
  /\ ops = 0 /\ hubKnown = FALSE
  /\ db = [pool |-> FALSE, token |-> [there |-> FALSE, active |-> FALSE, issuance |-> 0],
           instance |-> EmptyTable, position |-> EmptyTable, checkpoint |-> EmptyTable]

SharesNext ==
  \/ \E c \in Chains : \/ IndexSpoke(c)
                       \/ \E a \in Users, n \in Amounts : Existing(c, a, n)
                       \/ \E new \in BOOLEAN :
                            \/ AddShareClass(c, new)
                            \/ \E a \in Users : DepositRequest(c, a, new)
                            \/ \E from, to \in Addresses \cup {Zero}, n \in Amounts,
                                  newPrice \in {{}} \cup {{p} : p \in SpokePrices} :
                                 Transfer(c, from, to, n, newPrice, new)
  \/ IndexHub

SharesSpec == SharesInit /\ [][SharesNext]_sharesVars

-----------------------------------------------------------------------------
(* Properties *)

SharesTypeOK ==
  /\ \A c \in Chains : tip[c] \in [supply: Nat, held: [Addresses -> Nat]]
  /\ emitted \in [Chains -> Nat] /\ ops \in 0..MaxOps
  /\ db.pool \in BOOLEAN /\ db.token \in [there: BOOLEAN, active: BOOLEAN, issuance: Int]
  /\ DOMAIN db.instance \subseteq Chains
  /\ \A c \in DOMAIN db.instance : db.instance[c] \in [issuance: Int, active: BOOLEAN, price: Nat]
  /\ DOMAIN db.position \subseteq Chains \X Users
  /\ \A k \in DOMAIN db.position :
       db.position[k] \in [balance: Nat, lastPrice: Nat, earnings: Int, cost: Nat, realized: Int]

\* The hub's issuance is the sum over the chains after every log, although the
\* chains are indexed independently and each instance restarts from a call.
TotalIsSum == db.token.issuance = SumFunction([c \in DOMAIN db.instance |-> db.instance[c].issuance])

\* The transfers of chain c that are still to be indexed.
Coming(c) == UNION {{blocks[c][i].logs[j] : j \in DOMAIN blocks[c][i].logs} : i \in DOMAIN blocks[c]}
ComingTransfers(c) == {l \in Coming(c) : l.kind = "Transfer"}

\* Supply and balances as of the logs indexed so far.
SupplyNow(c) == tip[c].supply - SumFunction([l \in ComingTransfers(c) |->
                                             (IF l.from = Zero THEN l.n ELSE 0) - (IF l.to = Zero THEN l.n ELSE 0)])
BalanceNow(c, a) == tip[c].held[a] - SumFunction([l \in ComingTransfers(c) |->
                                                 (IF l.to = a THEN l.n ELSE 0) - (IF l.from = a THEN l.n ELSE 0)])

\* test/smoke/specs/issuance.md: an instance has the supply of its token.  Here:
\* once it has, no order of the logs, of the chains and of the hub takes it away,
\* except for a call at the end of a block that is answered too late or not.
IssuanceStaysRight ==
  [][\A c \in Chains :
       Has(db.instance, c) /\ ~Adds(c) /\ db.instance[c].issuance = SupplyNow(c)
         => db'.instance[c].issuance = SupplyNow(c)']_sharesVars

\* The next log makes a row for a that starts from a call.
Starts(c, a) ==
  /\ ~Has(db.position, <<c, a>>)
  /\ \/ Adds(c) /\ a \in InitialHolders
     \/ Requests(c) /\ blocks[c][1].logs[1].to = a

\* The call may see a transfer of a that the indexer has yet to read.
Hasty(c, a) == Starts(c, a) /\ \E l \in ComingTransfers(c) : a \in {l.from, l.to}

\* The balance of a position follows the token's once it was right, and of a
\* holder who had nothing before the token was known it always is: no order of
\* the logs and no answer of a call takes it away, but for the row that starts
\* from a call while a transfer of its account is still to be indexed.
PositionOf(d, c, a) == RowOr(d.position, <<c, a>>, NewPosition).balance
PositionsStayRight ==
  [][\A c \in Chains, a \in Users :
       Has(db.instance, c) /\ ~Hasty(c, a) /\ PositionOf(db, c, a) = BalanceNow(c, a)
         => PositionOf(db', c, a) = BalanceNow(c, a)']_sharesVars

\* test/smoke/specs/archive/position-balance.md: TokenInstancePosition.balance is
\* balanceOf(), so no account is shown more than it holds.
NoMoreThanHeld ==
  \A k \in DOMAIN db.position : blocks[k[1]] = <<>> => db.position[k].balance <= tip[k[1]].held[k[2]]

\* Every instance is active once the hub's share class is indexed, whichever
\* came first and however often the spokes register theirs again.
ActiveTogether == hubKnown => db.token.active /\ \A c \in DOMAIN db.instance : db.instance[c].active

\* The checkpoints of a position explain it: what they earned and realized adds
\* up to its totals, and no cost came in that the position does not carry.  A
\* transfer of an account to itself has one checkpoint for two changes.
OfPosition(k) == {x \in DOMAIN db.checkpoint : <<x[1], x[2]>> = k}
CheckpointsAddUp ==
  \A k \in DOMAIN db.position :
    /\ db.position[k].earnings = SumFunction([x \in OfPosition(k) |-> db.checkpoint[x].earnings])
    /\ db.position[k].realized = SumFunction([x \in OfPosition(k) |-> db.checkpoint[x].realized])
    /\ db.position[k].cost >= SumFunction([x \in OfPosition(k) |-> db.checkpoint[x].cost])

\* test/smoke/specs/issuance.md: TokenInstance.totalIssuance is totalSupply().
IssuanceIsSupply == \A c \in DOMAIN db.instance : blocks[c] = <<>> => db.instance[c].issuance = tip[c].supply

=============================================================================
