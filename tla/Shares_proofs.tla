----------------------------- MODULE Shares_proofs -----------------------------
(***************************************************************************)
(* For any chains, holders and number of logs.  Once the hub's share class  *)
(* is indexed the token and every instance are active, also an instance     *)
(* that a spoke registers later or again.  The token's issuance is the sum  *)
(* of its instances, whatever order the chains' blocks are indexed in.  The *)
(* checkpoints of a holder add up to the position, log by log.  An issuance *)
(* or a balance that was right stays right with every log of every chain.   *)
(***************************************************************************)
EXTENDS ShareSystem, Tables_proofs

\* The columns that an update of a part of a row relies on.
Shaped(d) ==
  /\ DOMAIN d = {"pool", "token", "instance", "position", "checkpoint"}
  /\ DOMAIN d.token = {"there", "active", "issuance"}
  /\ \A c \in DOMAIN d.instance : DOMAIN d.instance[c] = {"issuance", "active", "price"}

\* A spoke activates its instance only if it finds the pool.
AllActive(d) == /\ d.pool = TRUE
                /\ d.token.active = TRUE
                /\ \A c \in DOMAIN d.instance : d.instance[c].active = TRUE

\* What every handler keeps, whatever its log says.
Kept(d, e) == Shaped(e) /\ (AllActive(d) => AllActive(e))

\* The inductive invariant.
Inv == Shaped(db) /\ (hubKnown => AllActive(db))

-----------------------------------------------------------------------------
(* The tables that do not matter, and the issuance *)

LEMMA KeptTwice == ASSUME NEW d, NEW e, NEW f, Kept(d, e), Kept(e, f) PROVE Kept(d, f)
  BY DEF Kept

LEMMA KeptItself == ASSUME NEW d, Shaped(d) PROVE Kept(d, d)
  BY DEF Kept

LEMMA PositionKept == ASSUME NEW d, Shaped(d), NEW t PROVE Kept(d, [d EXCEPT !.position = t])
  BY DEF Kept, Shaped, AllActive

LEMMA CheckpointKept == ASSUME NEW d, Shaped(d), NEW t PROVE Kept(d, [d EXCEPT !.checkpoint = t])
  BY DEF Kept, Shaped, AllActive

LEMMA SumKept == ASSUME NEW d, Shaped(d), NEW n PROVE Kept(d, [d EXCEPT !.token.issuance = n])
  BY DEF Kept, Shaped, AllActive

LEMMA InstanceKept ==
  ASSUME NEW d, Shaped(d), NEW c \in DOMAIN d.instance, NEW n
  PROVE  /\ Kept(d, [d EXCEPT !.instance[c].issuance = n])
         /\ Kept(d, [d EXCEPT !.instance[c].price = n])
  BY DEF Kept, Shaped, AllActive

LEMMA SyncKept == ASSUME NEW d, Shaped(d), NEW c PROVE Kept(d, SyncIssuance(d, c))
  BY SumKept DEF SyncIssuance

LEMMA ChangeKept ==
  ASSUME NEW d, Shaped(d), NEW c \in DOMAIN d.instance, NEW n PROVE Kept(d, ChangeIssuance(d, c, n))
<1> DEFINE e == [d EXCEPT !.instance[c].issuance = @ + n]
<1>1. Kept(d, e)
  BY DEF Kept, Shaped, AllActive
<1>2. Kept(e, SyncIssuance(e, c))  BY <1>1, SyncKept DEF Kept
<1>3. ChangeIssuance(d, c, n) = SyncIssuance(e, c)  BY DEF ChangeIssuance
<1> HIDE DEF e
<1> QED BY <1>1, <1>2, <1>3, KeptTwice

\* One side of a transfer writes a position and perhaps a checkpoint.
LEMMA PositionChangeKept ==
  ASSUME NEW d, Shaped(d), NEW c, NEW a, NEW net, NEW log
  PROVE  /\ Kept(d, ApplyNetPositionChange(d, c, a, net, log))
         /\ ApplyNetPositionChange(d, c, a, net, log).instance = d.instance
<1> DEFINE p == RowOr(d.position, <<c, a>>, NewPosition)
           price == d.instance[c].price
           cp == Checkpoint(p, net, price)
           row == [balance |-> p.balance + net, lastPrice |-> price, earnings |-> p.earnings + cp.earnings,
                   cost |-> p.cost + cp.cost, realized |-> p.realized + cp.realized]
           same == Put(d.position, <<c, a>>, p)
           moved == Put(d.position, <<c, a>>, [p EXCEPT !.balance = @ + net])
           valued == Put(d.position, <<c, a>>, row)
           marks == Insert(d.checkpoint, <<c, a, log>>, cp)
<1>1. \/ ApplyNetPositionChange(d, c, a, net, log) = [d EXCEPT !.position = same]
      \/ ApplyNetPositionChange(d, c, a, net, log) = [d EXCEPT !.position = moved]
      \/ ApplyNetPositionChange(d, c, a, net, log) = [d EXCEPT !.checkpoint = marks, !.position = valued]
  BY DEF ApplyNetPositionChange
<1> HIDE DEF p, price, cp, row, same, moved, valued, marks
<1> QED BY <1>1 DEF Kept, Shaped, AllActive

-----------------------------------------------------------------------------
(* The handlers *)

LEMMA TransferKept == ASSUME NEW d, Shaped(d), NEW c, NEW log PROVE Kept(d, OnTransfer(d, c, log))
<1>1. CASE ~Has(d.instance, c)
  BY <1>1, KeptItself DEF OnTransfer
<1>2. CASE Has(d.instance, c)
  <2> DEFINE d1 == IF log.from = Zero THEN ChangeIssuance(d, c, log.n)
                   ELSE IF log.to = Zero THEN ChangeIssuance(d, c, -log.n) ELSE d
             d2 == IF log.from \in Users THEN ApplyNetPositionChange(d1, c, log.from, -log.n, log.no) ELSE d1
             d3 == IF log.to \in Users THEN ApplyNetPositionChange(d2, c, log.to, log.n, log.no) ELSE d2
  <2>1. Kept(d, d1)  BY <1>2, ChangeKept, KeptItself DEF Has
  <2> HIDE DEF d1
  <2>2. Shaped(d1)  BY <2>1 DEF Kept
  <2>3. Kept(d1, d2)  BY <2>2, PositionChangeKept, KeptItself
  <2> HIDE DEF d2
  <2>4. Shaped(d2)  BY <2>3 DEF Kept
  <2>5. Kept(d2, d3)  BY <2>4, PositionChangeKept, KeptItself
  <2>6. OnTransfer(d, c, log) = d3  BY <1>2 DEF OnTransfer, d1, d2
  <2> HIDE DEF d3
  <2> QED BY <2>1, <2>3, <2>5, <2>6, KeptTwice
<1> QED BY <1>1, <1>2

LEMMA PriceKept == ASSUME NEW d, Shaped(d), NEW c, NEW price PROVE Kept(d, OnUpdateSharePrice(d, c, price))
  BY InstanceKept, KeptItself DEF OnUpdateSharePrice, Has

\* An instance that is registered again, or first, while the pool is known is active.
LEMMA SpokeClassKept ==
  ASSUME NEW d, Shaped(d), NEW c, NEW supply, NEW held, NEW decimals \in BOOLEAN
  PROVE  Kept(d, OnAddShareClass(d, c, supply, held, decimals))
<1> DEFINE row == RowOr(d.instance, c, NewInstance)
           holders == IF d.pool /\ row.issuance = 0 THEN InitialHolders ELSE {}
           rows == [k \in {c} \X holders |-> [NewPosition EXCEPT !.balance = held[k[2]]]]
           new == [row EXCEPT !.issuance = supply, !.active = @ \/ d.pool]
           instances == Put(d.instance, c, new)
           token == [d.token EXCEPT !.there = TRUE, !.active = @ \/ d.pool]
           positions == InsertAll(d.position, rows)
           e == [d EXCEPT !.instance = instances, !.token = token, !.position = positions]
<1>1. DOMAIN row = {"issuance", "active", "price"}
  BY DEF RowOr, Has, NewInstance, Shaped
<1>2. DOMAIN new = {"issuance", "active", "price"} /\ (d.pool = TRUE => new.active = TRUE)
  <2> HIDE DEF row
  <2> QED BY <1>1
<1>3. DOMAIN token = {"there", "active", "issuance"} /\ (d.pool = TRUE => token.active = TRUE)
  BY DEF Shaped
<1>4. /\ DOMAIN instances = DOMAIN d.instance \cup {c}
      /\ \A i \in DOMAIN instances : instances[i] = IF i = c THEN new ELSE d.instance[i]
  <2> HIDE DEF new
  <2> QED BY DEF Put
<1>5. Kept(d, e)
  <2> HIDE DEF instances, token, positions, new
  <2>1. Shaped(e)  BY <1>2, <1>3, <1>4 DEF Shaped
  <2>2. ASSUME AllActive(d) PROVE AllActive(e)
    BY <2>2, <1>2, <1>3, <1>4 DEF AllActive, Shaped
  <2> QED BY <2>1, <2>2 DEF Kept
<1>6. Kept(e, SyncIssuance(e, c))  BY <1>5, SyncKept DEF Kept
<1>7. OnAddShareClass(d, c, supply, held, decimals) = IF decimals THEN SyncIssuance(e, c) ELSE d
  BY DEF OnAddShareClass
<1> HIDE DEF e
<1> QED BY <1>5, <1>6, <1>7, KeptTwice, KeptItself

LEMMA InitPositionKept == ASSUME NEW d, Shaped(d), NEW c, NEW a, NEW held PROVE Kept(d, InitPosition(d, c, a, held))
  BY PositionKept, KeptItself DEF InitPosition

LEMMA NewPoolKept == ASSUME NEW d, Shaped(d), NEW decimals \in BOOLEAN PROVE Kept(d, OnNewPool(d, decimals))
  BY DEF OnNewPool, Kept, Shaped, AllActive

\* The hub activates what it finds.
LEMMA HubClassActivates ==
  ASSUME NEW d, Shaped(d), NEW decimals \in BOOLEAN
  PROVE  /\ Kept(d, OnHubAddShareClass(d, decimals))
         /\ d.pool = TRUE /\ decimals => AllActive(OnHubAddShareClass(d, decimals))
<1> DEFINE token == [d.token EXCEPT !.there = TRUE, !.active = TRUE]
           instances == [i \in DOMAIN d.instance |-> [d.instance[i] EXCEPT !.active = TRUE]]
           e == [d EXCEPT !.token = token, !.instance = instances]
<1>1. DOMAIN token = {"there", "active", "issuance"} /\ token.active = TRUE
  BY DEF Shaped
<1>2. /\ DOMAIN instances = DOMAIN d.instance
      /\ \A i \in DOMAIN instances : DOMAIN instances[i] = {"issuance", "active", "price"} /\ instances[i].active = TRUE
  BY DEF Shaped
<1>3. OnHubAddShareClass(d, decimals) = IF d.pool /\ decimals THEN e ELSE d
  BY DEF OnHubAddShareClass
<1> HIDE DEF token, instances
<1>4. Shaped(e)  BY <1>1, <1>2 DEF Shaped
<1>5. d.pool = TRUE => AllActive(e)  BY <1>1, <1>2 DEF AllActive, Shaped
<1> HIDE DEF e
<1>6. CASE d.pool = TRUE /\ decimals  BY <1>3, <1>4, <1>5, <1>6 DEF Kept
<1>7. CASE ~(d.pool = TRUE /\ decimals)
  BY <1>3, <1>4, <1>5, <1>7, KeptItself DEF Kept, AllActive
<1> QED BY <1>6, <1>7

-----------------------------------------------------------------------------

\* An indexed log of a spoke.
LEMMA SpokeKeepsInv == ASSUME Inv, NEW c \in Chains, IndexSpoke(c) PROVE Inv'
<1> DEFINE log == blocks[c][1].logs[1]
<1>1. hubKnown' = hubKnown  BY DEF IndexSpoke
<1>2. Shaped(db)  BY DEF Inv
<1>3. \/ db' = OnTransfer(db, c, log)
      \/ db' = OnUpdateSharePrice(db, c, log.n)
      \/ \E total, held \in Answers(c), decimals \in BOOLEAN :
            db' = OnAddShareClass(db, c, total.supply, held.held, decimals)
      \/ \E answer \in Answers(c) : db' = InitPosition(db, c, log.to, answer.held[log.to])
  BY DEF IndexSpoke
<1> HIDE DEF log
<1>4. Kept(db, db')
  <2>1. CASE db' = OnTransfer(db, c, log)  BY <2>1, <1>2, TransferKept
  <2>2. CASE db' = OnUpdateSharePrice(db, c, log.n)  BY <2>2, <1>2, PriceKept
  <2>3. CASE \E total, held \in Answers(c), decimals \in BOOLEAN :
               db' = OnAddShareClass(db, c, total.supply, held.held, decimals)
    BY <2>3, <1>2, SpokeClassKept
  <2>4. CASE \E answer \in Answers(c) : db' = InitPosition(db, c, log.to, answer.held[log.to])
    BY <2>4, <1>2, InitPositionKept
  <2> QED BY <1>3, <2>1, <2>2, <2>3, <2>4
<1> QED BY <1>1, <1>4 DEF Inv, Kept

\* A log of the hub.  A share class whose pool is not known is refused.
LEMMA HubKeepsInv == ASSUME Inv, IndexHub PROVE Inv'
<1>1. Shaped(db)  BY DEF Inv
<1>2. PICK decimals \in BOOLEAN :
        \/ db' = OnNewPool(db, decimals) /\ hubKnown' = hubKnown
        \/ db' = OnHubAddShareClass(db, decimals) /\ hubKnown' = (hubKnown \/ (db.pool /\ decimals))
  BY DEF IndexHub
<1>3. CASE db' = OnNewPool(db, decimals) /\ hubKnown' = hubKnown
  BY <1>1, <1>3, NewPoolKept DEF Inv, Kept
<1>4. CASE db' = OnHubAddShareClass(db, decimals) /\ hubKnown' = (hubKnown \/ (db.pool /\ decimals))
  <2>1. Kept(db, db')  BY <1>1, <1>4, HubClassActivates
  <2>2. ASSUME hubKnown' PROVE AllActive(db')
    <3>1. hubKnown \/ (db.pool = TRUE /\ decimals)  BY <1>4, <2>2
    <3>2. CASE hubKnown  BY <3>2, <2>1 DEF Inv, Kept
    <3>3. CASE db.pool = TRUE /\ decimals  BY <3>3, <1>1, <1>4, HubClassActivates
    <3> QED BY <3>1, <3>2, <3>3
  <2> QED BY <2>1, <2>2 DEF Inv, Kept
<1> QED BY <1>2, <1>3, <1>4

LEMMA InitInv == SharesInit => Inv
  BY DEF SharesInit, Inv, Shaped, EmptyTable

LEMMA StepKeepsInv == Inv /\ [SharesNext]_sharesVars => Inv'
<1> SUFFICES ASSUME Inv, [SharesNext]_sharesVars PROVE Inv'  OBVIOUS
<1>1. CASE IndexHub  BY <1>1, HubKeepsInv
<1>2. ASSUME NEW c \in Chains, IndexSpoke(c) PROVE Inv'  BY <1>2, SpokeKeepsInv
<1>3. ASSUME NEW c \in Chains, NEW a \in Users, NEW n \in Amounts, Existing(c, a, n) PROVE Inv'
  BY <1>3 DEF Existing, Inv
<1>4. ASSUME NEW c \in Chains, NEW new \in BOOLEAN, AddShareClass(c, new) PROVE Inv'
  BY <1>4 DEF AddShareClass, Emit, Inv
<1>5. ASSUME NEW c \in Chains, NEW new \in BOOLEAN, NEW from \in Addresses \cup {Zero},
             NEW to \in Addresses \cup {Zero}, NEW n \in Amounts,
             NEW newPrice \in {{}} \cup {{p} : p \in SpokePrices}, Transfer(c, from, to, n, newPrice, new)
      PROVE  Inv'
  BY <1>5 DEF Transfer, Emit, Inv
<1>6. ASSUME NEW c \in Chains, NEW a \in Users, NEW new \in BOOLEAN, DepositRequest(c, a, new) PROVE Inv'
  BY <1>6 DEF DepositRequest, Emit, Inv
<1>7. CASE UNCHANGED sharesVars  BY <1>7 DEF sharesVars, Inv
<1> QED BY <1>1, <1>2, <1>3, <1>4, <1>5, <1>6, <1>7 DEF SharesNext

\* ActiveTogether: spokeHandlers.ts and shareClassManagerHandlers.ts
\* activate the token and its instances in whichever order their logs come.
THEOREM ActiveOnceKnown == SharesSpec => []ActiveTogether
<1>1. Inv => ActiveTogether  BY DEF Inv, AllActive, ActiveTogether
<1> QED BY <1>1, InitInv, StepKeepsInv, PTL DEF SharesSpec

-----------------------------------------------------------------------------
(* The hub's issuance *)

IssuanceOf(d) == SumFunction([c \in DOMAIN d.instance |-> d.instance[c].issuance])

Summed(d) == d.token.issuance = IssuanceOf(d)

LEMMA SyncSums == ASSUME NEW d, Shaped(d), NEW c PROVE Summed(SyncIssuance(d, c))
<1> DEFINE n == IssuanceOf(d)
           e == [d EXCEPT !.token.issuance = n]
<1>1. SyncIssuance(d, c) = e  BY DEF SyncIssuance, IssuanceOf
<1> HIDE DEF n
<1>2. e.instance = d.instance /\ e.token.issuance = n  BY DEF Shaped
<1> HIDE DEF e
<1> QED BY <1>1, <1>2 DEF Summed, IssuanceOf, n

LEMMA ChangeSums ==
  ASSUME NEW d, Shaped(d), NEW c \in DOMAIN d.instance, NEW n PROVE Summed(ChangeIssuance(d, c, n))
<1> DEFINE e == [d EXCEPT !.instance[c].issuance = @ + n]
<1>1. Shaped(e)
  BY DEF Shaped
<1>2. ChangeIssuance(d, c, n) = SyncIssuance(e, c)  BY DEF ChangeIssuance
<1> HIDE DEF e
<1> QED BY <1>1, <1>2, SyncSums

\* The issuance of the token and of the instances stays.
LEMMA SumsCarry ==
  ASSUME NEW d, NEW e, Summed(d), e.token.issuance = d.token.issuance, DOMAIN e.instance = DOMAIN d.instance,
         \A c \in DOMAIN d.instance : e.instance[c].issuance = d.instance[c].issuance
  PROVE  Summed(e)
<1>1. [c \in DOMAIN e.instance |-> e.instance[c].issuance] = [c \in DOMAIN d.instance |-> d.instance[c].issuance]
  OBVIOUS
<1>2. IssuanceOf(e) = IssuanceOf(d)  BY <1>1 DEF IssuanceOf
<1> QED BY <1>2 DEF Summed

LEMMA PositionChangeSums ==
  ASSUME NEW d, Shaped(d), Summed(d), NEW c, NEW a, NEW net, NEW log
  PROVE  Summed(ApplyNetPositionChange(d, c, a, net, log))
<1> DEFINE e == ApplyNetPositionChange(d, c, a, net, log)
<1>1. e.instance = d.instance  BY PositionChangeKept
<1>2. e.token = d.token
  <2> DEFINE p == RowOr(d.position, <<c, a>>, NewPosition)
             price == d.instance[c].price
             cp == Checkpoint(p, net, price)
             same == Put(d.position, <<c, a>>, p)
             moved == Put(d.position, <<c, a>>, [p EXCEPT !.balance = @ + net])
             valued == Put(d.position, <<c, a>>, [balance |-> p.balance + net, lastPrice |-> price, earnings |-> p.earnings + cp.earnings,
                         cost |-> p.cost + cp.cost, realized |-> p.realized + cp.realized])
             marks == Insert(d.checkpoint, <<c, a, log>>, cp)
  <2>1. e \in {[d EXCEPT !.position = same], [d EXCEPT !.position = moved],
               [d EXCEPT !.checkpoint = marks, !.position = valued]}
    BY DEF ApplyNetPositionChange
  <2> HIDE DEF p, price, cp, same, moved, valued, marks, e
  <2> QED BY <2>1 DEF Shaped
<1> HIDE DEF e
<1> QED BY <1>1, <1>2, SumsCarry DEF e

LEMMA TransferSums == ASSUME NEW d, Shaped(d), Summed(d), NEW c, NEW log PROVE Summed(OnTransfer(d, c, log))
<1>1. CASE ~Has(d.instance, c)
  BY <1>1 DEF OnTransfer
<1>2. CASE Has(d.instance, c)
  <2> DEFINE d1 == IF log.from = Zero THEN ChangeIssuance(d, c, log.n)
                   ELSE IF log.to = Zero THEN ChangeIssuance(d, c, -log.n) ELSE d
             d2 == IF log.from \in Users THEN ApplyNetPositionChange(d1, c, log.from, -log.n, log.no) ELSE d1
             d3 == IF log.to \in Users THEN ApplyNetPositionChange(d2, c, log.to, log.n, log.no) ELSE d2
  <2>1. Shaped(d1) /\ Summed(d1)  BY <1>2, ChangeKept, ChangeSums DEF Has, Kept
  <2> HIDE DEF d1
  <2>2. Shaped(d2) /\ Summed(d2)  BY <2>1, PositionChangeKept, PositionChangeSums DEF Kept
  <2> HIDE DEF d2
  <2>3. Summed(d3)  BY <2>2, PositionChangeSums
  <2>4. OnTransfer(d, c, log) = d3  BY <1>2 DEF OnTransfer, d1, d2
  <2> HIDE DEF d3
  <2> QED BY <2>3, <2>4
<1> QED BY <1>1, <1>2

LEMMA PriceSums ==
  ASSUME NEW d, Shaped(d), Summed(d), NEW c, NEW price PROVE Summed(OnUpdateSharePrice(d, c, price))
<1>1. CASE ~Has(d.instance, c)  BY <1>1 DEF OnUpdateSharePrice
<1>2. CASE Has(d.instance, c)
  <2> DEFINE e == [d EXCEPT !.instance[c].price = price]
  <2>1. /\ e.token = d.token /\ DOMAIN e.instance = DOMAIN d.instance
        /\ \A i \in DOMAIN d.instance : e.instance[i].issuance = d.instance[i].issuance
    BY <1>2 DEF Shaped, Has
  <2>2. OnUpdateSharePrice(d, c, price) = e  BY <1>2 DEF OnUpdateSharePrice
  <2> HIDE DEF e
  <2> QED BY <2>1, <2>2, SumsCarry
<1> QED BY <1>1, <1>2

LEMMA SpokeClassSums ==
  ASSUME NEW d, Shaped(d), Summed(d), NEW c, NEW supply, NEW held, NEW decimals \in BOOLEAN
  PROVE  Summed(OnAddShareClass(d, c, supply, held, decimals))
<1> DEFINE row == RowOr(d.instance, c, NewInstance)
           holders == IF d.pool /\ row.issuance = 0 THEN InitialHolders ELSE {}
           rows == [k \in {c} \X holders |-> [NewPosition EXCEPT !.balance = held[k[2]]]]
           new == [row EXCEPT !.issuance = supply, !.active = @ \/ d.pool]
           instances == Put(d.instance, c, new)
           token == [d.token EXCEPT !.there = TRUE, !.active = @ \/ d.pool]
           positions == InsertAll(d.position, rows)
           e == [d EXCEPT !.instance = instances, !.token = token, !.position = positions]
<1>1. DOMAIN row = {"issuance", "active", "price"}
  BY DEF RowOr, Has, NewInstance, Shaped
<1>2. DOMAIN new = {"issuance", "active", "price"}
  <2> HIDE DEF row
  <2> QED BY <1>1
<1>3. DOMAIN token = {"there", "active", "issuance"}
  BY DEF Shaped
<1>4. \A i \in DOMAIN instances : DOMAIN instances[i] = {"issuance", "active", "price"}
  <2> HIDE DEF new
  <2> QED BY <1>2 DEF Put, Shaped
<1>5. Shaped(e)
  <2> HIDE DEF instances, token, positions
  <2> QED BY <1>3, <1>4 DEF Shaped
<1>6. OnAddShareClass(d, c, supply, held, decimals) = IF decimals THEN SyncIssuance(e, c) ELSE d
  BY DEF OnAddShareClass
<1> HIDE DEF e
<1> QED BY <1>5, <1>6, SyncSums

LEMMA InitPositionSums ==
  ASSUME NEW d, Shaped(d), Summed(d), NEW c, NEW a, NEW held PROVE Summed(InitPosition(d, c, a, held))
<1> DEFINE e == InitPosition(d, c, a, held)
<1>1. e.token = d.token /\ e.instance = d.instance  BY DEF InitPosition, Shaped
<1> HIDE DEF e
<1>2. Summed(e)  BY <1>1, SumsCarry
<1> QED BY <1>2 DEF e

LEMMA HubClassSums ==
  ASSUME NEW d, Shaped(d), Summed(d), NEW decimals \in BOOLEAN PROVE Summed(OnHubAddShareClass(d, decimals))
<1> DEFINE token == [d.token EXCEPT !.there = TRUE, !.active = TRUE]
           instances == [i \in DOMAIN d.instance |-> [d.instance[i] EXCEPT !.active = TRUE]]
           e == [d EXCEPT !.token = token, !.instance = instances]
<1>1. /\ token.issuance = d.token.issuance
      /\ DOMAIN instances = DOMAIN d.instance
      /\ \A i \in DOMAIN d.instance : instances[i].issuance = d.instance[i].issuance
  BY DEF Shaped
<1>2. OnHubAddShareClass(d, decimals) = IF d.pool /\ decimals THEN e ELSE d
  BY DEF OnHubAddShareClass
<1> HIDE DEF token, instances
<1>3. e.token = token /\ e.instance = instances  BY DEF Shaped
<1> HIDE DEF e
<1> QED BY <1>1, <1>2, <1>3, SumsCarry

\* What happens on a chain leaves the tables alone.
LEMMA TablesOrChains == [SharesNext]_sharesVars => IndexHub \/ (\E c \in Chains : IndexSpoke(c)) \/ UNCHANGED db
<1> SUFFICES ASSUME [SharesNext]_sharesVars PROVE IndexHub \/ (\E c \in Chains : IndexSpoke(c)) \/ UNCHANGED db
  OBVIOUS
<1>1. \A c, logs, after, new : Emit(c, logs, after, new) => UNCHANGED db  BY DEF Emit
<1>2. ASSUME NEW c \in Chains, NEW a \in Users, NEW n \in Amounts, Existing(c, a, n) PROVE UNCHANGED db
  BY <1>2 DEF Existing
<1>3. ASSUME NEW c \in Chains, NEW new \in BOOLEAN, AddShareClass(c, new) PROVE UNCHANGED db
  BY <1>1, <1>3 DEF AddShareClass
<1>4. ASSUME NEW c \in Chains, NEW new \in BOOLEAN, NEW from \in Addresses \cup {Zero},
             NEW to \in Addresses \cup {Zero}, NEW n \in Amounts,
             NEW newPrice \in {{}} \cup {{p} : p \in SpokePrices}, Transfer(c, from, to, n, newPrice, new)
      PROVE  UNCHANGED db
  BY <1>1, <1>4 DEF Transfer
<1>5. ASSUME NEW c \in Chains, NEW a \in Users, NEW new \in BOOLEAN, DepositRequest(c, a, new) PROVE UNCHANGED db
  BY <1>1, <1>5 DEF DepositRequest
<1>6. CASE UNCHANGED sharesVars  BY <1>6 DEF sharesVars
<1> QED BY <1>2, <1>3, <1>4, <1>5, <1>6 DEF SharesNext

LEMMA StepKeepsSums == Inv /\ Summed(db) /\ [SharesNext]_sharesVars => Summed(db)'
<1> SUFFICES ASSUME Inv, Summed(db), [SharesNext]_sharesVars PROVE Summed(db')
  OBVIOUS
<1>1. Shaped(db)  BY DEF Inv
<1>2. ASSUME NEW c \in Chains, IndexSpoke(c) PROVE Summed(db')
  <2> DEFINE log == blocks[c][1].logs[1]
  <2>1. \/ db' = OnTransfer(db, c, log)
        \/ db' = OnUpdateSharePrice(db, c, log.n)
        \/ \E total, held \in Answers(c), decimals \in BOOLEAN :
              db' = OnAddShareClass(db, c, total.supply, held.held, decimals)
        \/ \E answer \in Answers(c) : db' = InitPosition(db, c, log.to, answer.held[log.to])
    BY <1>2 DEF IndexSpoke
  <2> HIDE DEF log
  <2> QED BY <1>1, <2>1, TransferSums, PriceSums, SpokeClassSums, InitPositionSums
<1>3. CASE IndexHub
  <2>1. PICK decimals \in BOOLEAN : db' = OnNewPool(db, decimals) \/ db' = OnHubAddShareClass(db, decimals)
    BY <1>3 DEF IndexHub
  <2>2. CASE db' = OnNewPool(db, decimals)
    <3>1. db'.token = db.token /\ db'.instance = db.instance  BY <1>1, <2>2 DEF OnNewPool, Shaped
    <3> QED BY <3>1, SumsCarry
  <2> QED BY <1>1, <2>1, <2>2, HubClassSums
<1>4. CASE UNCHANGED db  BY <1>4
<1> QED BY <1>2, <1>3, <1>4, TablesOrChains

\* TotalIsSum: syncTotalIssuanceFromInstances keeps the hub's row right although every
\* chain is indexed on its own and an instance may restart from a call.
THEOREM TotalSummed == SharesSpec => []TotalIsSum
<1>1. SharesInit => Summed(db)
  <2> SUFFICES ASSUME SharesInit PROVE Summed(db)
    OBVIOUS
  <2> DEFINE w == [c \in DOMAIN db.instance |-> db.instance[c].issuance]
  <2>1. DOMAIN w = {} /\ db.token.issuance = 0  BY DEF SharesInit, EmptyTable
  <2> HIDE DEF w
  <2>2. SumFunction(w) = 0  BY <2>1, SumOfNone
  <2> QED BY <2>1, <2>2 DEF Summed, IssuanceOf, w
<1>2. Summed(db) => TotalIsSum  BY DEF Summed, IssuanceOf, TotalIsSum
<1> QED BY <1>1, <1>2, InitInv, StepKeepsInv, StepKeepsSums, PTL DEF SharesSpec

-----------------------------------------------------------------------------
(* The checkpoints of the positions *)

LEMMA QuotientType ==
  ASSUME NEW n \in Int, NEW m \in Nat \ {0}
  PROVE  Quotient(n, m) \in Int /\ (n >= 0 => Quotient(n, m) >= 0) /\ Quotient(0, m) = 0
<1>1. \A k \in Nat : k \div m \in Nat  OBVIOUS
<1>2. 0 \div m = 0  OBVIOUS
<1>3. n < 0 => -n \in Nat  OBVIOUS
<1> QED BY <1>1, <1>2, <1>3 DEF Quotient

LEMMA ValueType ==
  ASSUME NEW n \in Int, NEW price \in Int
  PROVE  Value(n, price) \in Int /\ (n >= 0 /\ price >= 0 => Value(n, price) >= 0)
<1>1. n * price \in Int /\ (n >= 0 /\ price >= 0 => n * price >= 0)  OBVIOUS
<1> QED BY <1>1, QuotientType, SharesAssumption DEF Value

IsPosition(p) ==
  /\ DOMAIN p = {"balance", "lastPrice", "earnings", "cost", "realized"}
  /\ p.balance \in Nat /\ p.lastPrice \in Nat /\ p.earnings \in Int /\ p.cost \in Int /\ p.realized \in Int

IsCheckpoint(cp) == cp.earnings \in Int /\ cp.realized \in Int /\ cp.cost \in Int

LEMMA CheckpointType ==
  ASSUME NEW p, IsPosition(p), NEW net \in Int, NEW price \in Nat
  PROVE  IsCheckpoint(Checkpoint(p, net, price))
<1>1. PeriodEarnings(p, price) \in Int
  <2>1. p.balance \in Int /\ price - p.lastPrice \in Int  BY DEF IsPosition
  <2>2. Value(p.balance, price - p.lastPrice) \in Int  BY <2>1, ValueType
  <2> QED BY <2>2 DEF PeriodEarnings
<1>2. RemovedCost(p, -net) \in Int
  <2>1. (-net) * p.cost \in Int  BY DEF IsPosition
  <2>2. p.balance # 0 => Quotient((-net) * p.cost, p.balance) \in Int  BY <2>1, QuotientType DEF IsPosition
  <2> QED BY <2>2 DEF RemovedCost
<1>3. Value(-net, price) \in Int /\ Value(net, price) \in Int  BY ValueType
<1> DEFINE removed == RemovedCost(p, -net)
<1> HIDE DEF removed
<1>4. removed \in Int /\ p.cost \in Int  BY <1>2 DEF removed, IsPosition
<1>5. NonNegative(p.cost - removed) \in Int  BY <1>4 DEF NonNegative
<1> QED BY <1>1, <1>3, <1>4, <1>5 DEF Checkpoint, IsCheckpoint, removed

\* A second change by the same log, after one at the same price, earns and realizes
\* nothing, and only adds to the cost.
LEMMA SecondCheckpoint ==
  ASSUME NEW p, IsPosition(p), NEW net \in Nat \ {0}, NEW price \in Nat, p.lastPrice = price
  PROVE  LET cp == Checkpoint(p, net, price) IN cp.earnings = 0 /\ cp.realized = 0 /\ cp.cost >= 0
<1>1. Value(p.balance, price - p.lastPrice) = 0
  <2>1. p.balance * (price - p.lastPrice) = 0  BY DEF IsPosition
  <2> QED BY <2>1, QuotientType, SharesAssumption DEF Value
<1>2. Value(net, price) >= 0 /\ net > 0  BY ValueType
<1> QED BY <1>1, <1>2 DEF Checkpoint, PeriodEarnings

Earned(t) == [x \in DOMAIN t |-> t[x].earnings]
Realized(t) == [x \in DOMAIN t |-> t[x].realized]
Costs(t) == [x \in DOMAIN t |-> t[x].cost]

\* The sum over the checkpoints of one position.
OfKey(w, k) == {x \in DOMAIN w : <<x[1], x[2]>> = k}
Part(w, k) == SumFunction([x \in OfKey(w, k) |-> w[x]])

LEMMA PartOfNone == ASSUME NEW w, NEW k, \A x \in DOMAIN w : <<x[1], x[2]>> # k PROVE Part(w, k) = 0
<1> DEFINE v == [x \in OfKey(w, k) |-> w[x]]
<1>1. DOMAIN v = {}  BY DEF OfKey
<1> HIDE DEF v
<1> QED BY <1>1, SumOfNone DEF Part, v

LEMMA PartSummable ==
  ASSUME NEW w, IsSummable(w), NEW k PROVE IsSummable([x \in OfKey(w, k) |-> w[x]]) /\ Part(w, k) \in Int
<1> DEFINE v == [x \in OfKey(w, k) |-> w[x]]
<1>1. OfKey(w, k) \in SUBSET DOMAIN w  BY DEF OfKey
<1>2. IsFiniteSet(OfKey(w, k))  BY <1>1, FS_Subset DEF IsSummable
<1>3. IsSummable(v)  BY <1>1, <1>2 DEF IsSummable
<1> HIDE DEF v
<1>4. SumFunction(v) \in Int  BY <1>3, SumType
<1> QED BY <1>3, <1>4 DEF Part, v

\* A new checkpoint counts for its own position.
LEMMA PartOfNew ==
  ASSUME NEW v, NEW w, IsSummable(w), NEW y, y \notin DOMAIN w, DOMAIN v = DOMAIN w \cup {y},
         v[y] \in Int, \A x \in DOMAIN w : v[x] = w[x], NEW k
  PROVE  Part(v, k) = IF k = <<y[1], y[2]>> THEN Part(w, k) + v[y] ELSE Part(w, k)
<1> DEFINE f == [x \in OfKey(v, k) |-> v[x]]
           g == [x \in OfKey(w, k) |-> w[x]]
<1>1. IsSummable(g)  BY PartSummable
<1>2. CASE k = <<y[1], y[2]>>
  <2>1. OfKey(v, k) = OfKey(w, k) \cup {y} /\ y \notin OfKey(w, k)  BY <1>2 DEF OfKey
  <2>2. DOMAIN f = DOMAIN g \cup {y} /\ y \notin DOMAIN g /\ f[y] = v[y] /\ \A x \in DOMAIN g : f[x] = g[x]
    BY <2>1 DEF OfKey
  <2> HIDE DEF f, g
  <2>3. SumFunction(f) = SumFunction(g) + v[y]  BY <1>1, <2>2, SumOfNew
  <2> QED BY <1>2, <2>3 DEF Part, f, g
<1>3. CASE k # <<y[1], y[2]>>
  <2>1. OfKey(v, k) = OfKey(w, k)  BY <1>3 DEF OfKey
  <2>2. DOMAIN f = DOMAIN g /\ \A x \in DOMAIN g : f[x] = g[x]
    BY <2>1 DEF OfKey
  <2> HIDE DEF f, g
  <2>3. SumFunction(f) = SumFunction(g)  BY <1>1, <2>2, SumOfEqual DEF IsSummable
  <2> QED BY <1>3, <2>3 DEF Part, f, g
<1> QED BY <1>2, <1>3

\* What a position's row says, or a new row, is what checkpoints t add up to.
Tells(p, t, k) ==
  p.earnings = Part(Earned(t), k) /\ p.realized = Part(Realized(t), k) /\ p.cost >= Part(Costs(t), k)

Explained(d) ==
  /\ \A c \in DOMAIN d.instance : d.instance[c].price \in Nat
  /\ IsSummable(Earned(d.checkpoint)) /\ IsSummable(Realized(d.checkpoint)) /\ IsSummable(Costs(d.checkpoint))
  /\ \A x \in DOMAIN d.checkpoint : <<x[1], x[2]>> \in DOMAIN d.position
  /\ \A k \in DOMAIN d.position : IsPosition(d.position[k]) /\ Tells(d.position[k], d.checkpoint, k)

Was(d, k) == RowOr(d.position, k, NewPosition)

LEMMA ExplainedOr ==
  ASSUME NEW d, Explained(d), NEW k PROVE IsPosition(Was(d, k)) /\ Tells(Was(d, k), d.checkpoint, k)
<1>1. CASE Has(d.position, k)  BY <1>1 DEF Explained, Was, RowOr, Has
<1>2. CASE ~Has(d.position, k)
  <2> DEFINE t == d.checkpoint
  <2>1. \A x \in DOMAIN t : <<x[1], x[2]>> # k  BY <1>2 DEF Explained, Has
  <2>2. Part(Earned(t), k) = 0  BY <2>1, PartOfNone DEF Earned
  <2>3. Part(Realized(t), k) = 0  BY <2>1, PartOfNone DEF Realized
  <2>4. Part(Costs(t), k) = 0  BY <2>1, PartOfNone DEF Costs
  <2>5. Was(d, k) = NewPosition  BY <1>2 DEF Was, RowOr
  <2>6. IsPosition(NewPosition) /\ NewPosition.earnings = 0 /\ NewPosition.realized = 0 /\ NewPosition.cost = 0
    BY DEF NewPosition, IsPosition, NoPrice
  <2> QED BY <2>2, <2>3, <2>4, <2>5, <2>6 DEF Tells
<1> QED BY <1>1, <1>2

\* Positions may come and change their balance, and add to their cost.
LEMMA ExplainedCarries ==
  ASSUME NEW d, NEW e, Explained(d), e.checkpoint = d.checkpoint,
         \A c \in DOMAIN e.instance : e.instance[c].price \in Nat,
         DOMAIN d.position \subseteq DOMAIN e.position,
         \A k \in DOMAIN e.position :
           /\ IsPosition(e.position[k])
           /\ e.position[k].earnings = Was(d, k).earnings /\ e.position[k].realized = Was(d, k).realized
           /\ e.position[k].cost >= Was(d, k).cost
  PROVE  Explained(e)
<1>1. ASSUME NEW k \in DOMAIN e.position PROVE Tells(e.position[k], d.checkpoint, k)
  <2>1. IsPosition(Was(d, k)) /\ Tells(Was(d, k), d.checkpoint, k)  BY ExplainedOr
  <2>2. Part(Costs(d.checkpoint), k) \in Int  BY PartSummable DEF Explained
  <2>3. e.position[k].cost \in Int /\ Was(d, k).cost \in Int  BY <2>1 DEF IsPosition
  <2> QED BY <2>1, <2>2, <2>3 DEF Tells
<1> QED BY <1>1 DEF Explained

\* A new checkpoint of a log, and the position with its gains.
LEMMA ExplainedEnters ==
  ASSUME NEW d, NEW e, Explained(d), NEW c, NEW a, NEW no, <<c, a, no>> \notin DOMAIN d.checkpoint,
         NEW cp, IsCheckpoint(cp), e.checkpoint = Put(d.checkpoint, <<c, a, no>>, cp),
         NEW row, IsPosition(row), e.position = Put(d.position, <<c, a>>, row), e.instance = d.instance,
         row.earnings = Was(d, <<c, a>>).earnings + cp.earnings,
         row.realized = Was(d, <<c, a>>).realized + cp.realized,
         row.cost = Was(d, <<c, a>>).cost + cp.cost
  PROVE  Explained(e)
<1> DEFINE y == <<c, a, no>>
           k == <<c, a>>
           t == d.checkpoint
           u == e.checkpoint
<1>1. DOMAIN u = DOMAIN t \cup {y} /\ u[y] = cp /\ \A x \in DOMAIN t : u[x] = t[x]
  BY DEF Put
<1>2. <<y[1], y[2]>> = k /\ y \notin DOMAIN t  OBVIOUS
<1>3. IsSummable(Earned(t)) /\ IsSummable(Realized(t)) /\ IsSummable(Costs(t))  BY DEF Explained
<1>4. DOMAIN e.position = DOMAIN d.position \cup {k} /\ e.position[k] = row
      /\ \A j \in DOMAIN d.position : j # k => e.position[j] = d.position[j]
  BY DEF Put
<1>5. IsPosition(Was(d, k)) /\ Tells(Was(d, k), t, k)  BY ExplainedOr
<1> HIDE DEF y, t, u, k
<1>6. /\ IsSummable(Earned(u))
      /\ \A j : Part(Earned(u), j) = IF j = k THEN Part(Earned(t), j) + cp.earnings ELSE Part(Earned(t), j)
  <2> DEFINE v == Earned(u)
             w == Earned(t)
  <2>1. DOMAIN v = DOMAIN w \cup {y} /\ y \notin DOMAIN w /\ v[y] = cp.earnings /\ \A x \in DOMAIN w : v[x] = w[x]
    BY <1>1, <1>2 DEF Earned
  <2>2. cp.earnings \in Int  BY DEF IsCheckpoint
  <2> HIDE DEF v, w
  <2>3. IsSummable(v)  BY <1>3, <2>1, <2>2, SumOfNew DEF w
  <2>4. \A j : Part(v, j) = IF j = <<y[1], y[2]>> THEN Part(w, j) + v[y] ELSE Part(w, j)
    BY <1>3, <2>1, <2>2, PartOfNew DEF w
  <2> QED BY <1>2, <2>1, <2>3, <2>4 DEF v, w
<1>7. /\ IsSummable(Realized(u))
      /\ \A j : Part(Realized(u), j) = IF j = k THEN Part(Realized(t), j) + cp.realized ELSE Part(Realized(t), j)
  <2> DEFINE v == Realized(u)
             w == Realized(t)
  <2>1. DOMAIN v = DOMAIN w \cup {y} /\ y \notin DOMAIN w /\ v[y] = cp.realized /\ \A x \in DOMAIN w : v[x] = w[x]
    BY <1>1, <1>2 DEF Realized
  <2>2. cp.realized \in Int  BY DEF IsCheckpoint
  <2> HIDE DEF v, w
  <2>3. IsSummable(v)  BY <1>3, <2>1, <2>2, SumOfNew DEF w
  <2>4. \A j : Part(v, j) = IF j = <<y[1], y[2]>> THEN Part(w, j) + v[y] ELSE Part(w, j)
    BY <1>3, <2>1, <2>2, PartOfNew DEF w
  <2> QED BY <1>2, <2>1, <2>3, <2>4 DEF v, w
<1>8. /\ IsSummable(Costs(u))
      /\ \A j : Part(Costs(u), j) = IF j = k THEN Part(Costs(t), j) + cp.cost ELSE Part(Costs(t), j)
  <2> DEFINE v == Costs(u)
             w == Costs(t)
  <2>1. DOMAIN v = DOMAIN w \cup {y} /\ y \notin DOMAIN w /\ v[y] = cp.cost /\ \A x \in DOMAIN w : v[x] = w[x]
    BY <1>1, <1>2 DEF Costs
  <2>2. cp.cost \in Int  BY DEF IsCheckpoint
  <2> HIDE DEF v, w
  <2>3. IsSummable(v)  BY <1>3, <2>1, <2>2, SumOfNew DEF w
  <2>4. \A j : Part(v, j) = IF j = <<y[1], y[2]>> THEN Part(w, j) + v[y] ELSE Part(w, j)
    BY <1>3, <2>1, <2>2, PartOfNew DEF w
  <2> QED BY <1>2, <2>1, <2>3, <2>4 DEF v, w
<1>9. Tells(row, u, k)
  <2>1. Part(Costs(t), k) \in Int  BY <1>3, PartSummable
  <2>2. Was(d, k).cost \in Int /\ cp.cost \in Int  BY <1>5 DEF IsPosition, IsCheckpoint
  <2>3. row.earnings = Was(d, k).earnings + cp.earnings /\ row.realized = Was(d, k).realized + cp.realized
        /\ row.cost = Was(d, k).cost + cp.cost
    BY DEF k
  <2> QED BY <1>5, <1>6, <1>7, <1>8, <2>1, <2>2, <2>3 DEF Tells
<1>10. \A j \in DOMAIN d.position : j # k => IsPosition(d.position[j]) /\ Tells(d.position[j], u, j)
  BY <1>6, <1>7, <1>8 DEF Explained, Tells, t
<1>11. \A x \in DOMAIN u : <<x[1], x[2]>> \in DOMAIN e.position
  BY <1>1, <1>2, <1>4 DEF Explained, t
<1> QED BY <1>4, <1>6, <1>7, <1>8, <1>9, <1>10, <1>11 DEF Explained, u

\* One side of a transfer: a new checkpoint, or the second of the same log.
LEMMA ChangeExplains ==
  ASSUME NEW d, Shaped(d), Explained(d), NEW c \in DOMAIN d.instance, NEW a, NEW net \in Int, NEW no,
         <<c, a, no>> \in DOMAIN d.checkpoint => net \in Nat \ {0} /\ Was(d, <<c, a>>).lastPrice = d.instance[c].price
  PROVE  LET e == ApplyNetPositionChange(d, c, a, net, no)
         IN  /\ Explained(e)
             /\ \A x \in DOMAIN e.checkpoint : x \in DOMAIN d.checkpoint \/ x = <<c, a, no>>
             /\ <<c, a, no>> \in DOMAIN e.checkpoint /\ <<c, a, no>> \notin DOMAIN d.checkpoint
                  => Was(e, <<c, a>>).lastPrice = d.instance[c].price
<1> DEFINE k == <<c, a>>
           y == <<c, a, no>>
           p == RowOr(d.position, k, NewPosition)
           price == d.instance[c].price
           cp == Checkpoint(p, net, price)
           m == [p EXCEPT !.balance = p.balance + net]
           row == [balance |-> p.balance + net, lastPrice |-> price, earnings |-> p.earnings + cp.earnings,
                   cost |-> p.cost + cp.cost, realized |-> p.realized + cp.realized]
           same == Put(d.position, k, p)
           moved == Put(d.position, k, m)
           valued == Put(d.position, k, row)
           marks == Insert(d.checkpoint, y, cp)
           e == ApplyNetPositionChange(d, c, a, net, no)
<1>1. p = Was(d, k) /\ IsPosition(p) /\ price \in Nat
  BY ExplainedOr DEF Was, Explained
<1>2. IsCheckpoint(cp)
  <2> HIDE DEF p, price
  <2> QED BY <1>1, CheckpointType
<1>3. \/ p.balance + net < 0 /\ e = [d EXCEPT !.position = same]
      \/ p.balance + net >= 0 /\ e = [d EXCEPT !.position = moved]
      \/ p.balance + net >= 0 /\ e = [d EXCEPT !.checkpoint = marks, !.position = valued]
  <2>1. p.balance + net < 0 \/ p.balance + net >= 0
    <3> HIDE DEF p
    <3> QED BY <1>1 DEF IsPosition
  <2> QED BY <2>1 DEF ApplyNetPositionChange
<1>4. \A j \in DOMAIN d.position : d.position[j] = Was(d, j)  BY DEF Was, RowOr, Has
<1>5. /\ DOMAIN same = DOMAIN d.position \cup {k} /\ same[k] = p /\ \A j \in DOMAIN d.position : j # k => same[j] = d.position[j]
      /\ DOMAIN moved = DOMAIN d.position \cup {k} /\ moved[k] = m
      /\ \A j \in DOMAIN d.position : j # k => moved[j] = d.position[j]
      /\ DOMAIN valued = DOMAIN d.position \cup {k} /\ valued[k] = row
      /\ \A j \in DOMAIN d.position : j # k => valued[j] = d.position[j]
  <2> HIDE DEF p, m, row, k
  <2> QED BY DEF Put
<1>6. \A j \in DOMAIN d.position : IsPosition(d.position[j])  BY DEF Explained
<1> HIDE DEF p, price
<1>7. p.balance + net >= 0 => IsPosition(m) /\ m.earnings = p.earnings /\ m.realized = p.realized /\ m.cost = p.cost
  BY <1>1 DEF IsPosition
<1>8. p.balance + net >= 0 => IsPosition(row)
  <2> HIDE DEF cp
  <2> QED BY <1>1, <1>2 DEF IsPosition, IsCheckpoint
<1>9. \A i \in DOMAIN d.instance : d.instance[i].price \in Nat  BY DEF Explained
<1> HIDE DEF k, y, e, m, same, moved, valued
<1>10. CASE e = [d EXCEPT !.position = same]
  <2>1. e.position = same /\ e.checkpoint = d.checkpoint /\ e.instance = d.instance  BY <1>10 DEF Shaped
  <2>2. DOMAIN d.position \subseteq DOMAIN e.position  BY <1>5, <2>1
  <2>3. \A j \in DOMAIN e.position : e.position[j] = Was(d, j) /\ IsPosition(e.position[j])
    BY <1>1, <1>4, <1>5, <1>6, <2>1
  <2>4. \A j \in DOMAIN e.position : e.position[j].cost >= Was(d, j).cost  BY <2>3 DEF IsPosition
  <2>5. Explained(e)  BY <1>9, <2>1, <2>2, <2>3, <2>4, ExplainedCarries
  <2> QED BY <2>1, <2>5 DEF e, y, k
<1>11. CASE p.balance + net >= 0 /\ e = [d EXCEPT !.position = moved]
  <2>1. e.position = moved /\ e.checkpoint = d.checkpoint /\ e.instance = d.instance  BY <1>11 DEF Shaped
  <2>2. DOMAIN d.position \subseteq DOMAIN e.position  BY <1>5, <2>1
  <2>3. \A j \in DOMAIN e.position :
           /\ IsPosition(e.position[j])
           /\ e.position[j].earnings = Was(d, j).earnings /\ e.position[j].realized = Was(d, j).realized
           /\ e.position[j].cost = Was(d, j).cost
    BY <1>1, <1>4, <1>5, <1>6, <1>7, <1>11, <2>1
  <2>4. \A j \in DOMAIN e.position : e.position[j].cost >= Was(d, j).cost  BY <2>3 DEF IsPosition
  <2>5. Explained(e)  BY <1>9, <2>1, <2>2, <2>3, <2>4, ExplainedCarries
  <2> QED BY <2>1, <2>5 DEF e, y, k
<1>12. CASE p.balance + net >= 0 /\ e = [d EXCEPT !.checkpoint = marks, !.position = valued]
  <2>1. e.position = valued /\ e.checkpoint = marks /\ e.instance = d.instance
    <3> HIDE DEF marks
    <3> QED BY <1>12 DEF Shaped
  <2>2. row.lastPrice = price /\ row.earnings = p.earnings + cp.earnings /\ row.realized = p.realized + cp.realized
        /\ row.cost = p.cost + cp.cost
    OBVIOUS
  <2>3. Was(e, k) = row  BY <1>5, <2>1 DEF Was, RowOr, Has
  <2> HIDE DEF row
  <2>4. CASE y \in DOMAIN d.checkpoint
    <3>1. marks = d.checkpoint  BY <2>4 DEF Insert, Has
    <3>2. net \in Nat \ {0} /\ p.lastPrice = price  BY <1>1, <2>4 DEF k, y, price
    <3>3. cp.earnings = 0 /\ cp.realized = 0 /\ cp.cost >= 0  BY <1>1, <3>2, SecondCheckpoint
    <3> HIDE DEF cp
    <3>4. DOMAIN d.position \subseteq DOMAIN e.position  BY <1>5, <2>1
    <3>5. row.earnings = p.earnings /\ row.realized = p.realized /\ row.cost >= p.cost
      BY <1>1, <1>2, <2>2, <3>3 DEF IsPosition, IsCheckpoint
    <3>6. \A j \in DOMAIN e.position :
             /\ IsPosition(e.position[j])
             /\ e.position[j].earnings = Was(d, j).earnings /\ e.position[j].realized = Was(d, j).realized
             /\ j # k => e.position[j].cost = Was(d, j).cost
      BY <1>1, <1>4, <1>5, <1>6, <1>8, <1>12, <2>1, <3>5
    <3>7. \A j \in DOMAIN e.position : e.position[j].cost >= Was(d, j).cost
      BY <1>1, <1>5, <2>1, <3>5, <3>6 DEF IsPosition
    <3>8. Explained(e)  BY <1>9, <2>1, <3>1, <3>4, <3>6, <3>7, ExplainedCarries
    <3> QED BY <2>1, <2>4, <3>1, <3>8 DEF e, y, k
  <2>5. CASE y \notin DOMAIN d.checkpoint
    <3>1. marks = Put(d.checkpoint, y, cp)  BY <2>5 DEF Insert, Has
    <3> HIDE DEF cp, marks
    <3>2. Explained(e)
      <4>1. <<c, a, no>> \notin DOMAIN d.checkpoint /\ e.checkpoint = Put(d.checkpoint, <<c, a, no>>, cp)
        BY <2>1, <2>5, <3>1 DEF y
      <4>2. e.position = Put(d.position, <<c, a>>, row) /\ e.instance = d.instance  BY <2>1 DEF valued, k
      <4>3. /\ row.earnings = Was(d, <<c, a>>).earnings + cp.earnings
            /\ row.realized = Was(d, <<c, a>>).realized + cp.realized
            /\ row.cost = Was(d, <<c, a>>).cost + cp.cost
        BY <1>1, <2>2 DEF k
      <4>4. IsPosition(row)  BY <1>8, <1>12
      <4> QED BY ONLY Explained(d), <1>2, <4>1, <4>2, <4>3, <4>4, ExplainedEnters
    <3>3. \A x \in DOMAIN e.checkpoint : x \in DOMAIN d.checkpoint \/ x = y  BY <2>1, <3>1 DEF Put
    <3> QED BY <2>2, <2>3, <3>2, <3>3 DEF e, y, k, price
  <2> QED BY <2>4, <2>5
<1> QED BY <1>3, <1>10, <1>11, <1>12

\* The issuance does not matter.
LEMMA ChangeIssuanceExplains ==
  ASSUME NEW d, Shaped(d), Explained(d), NEW c \in DOMAIN d.instance, NEW n
  PROVE  LET e == ChangeIssuance(d, c, n)
         IN  /\ Explained(e) /\ DOMAIN e.instance = DOMAIN d.instance
             /\ e.checkpoint = d.checkpoint /\ e.position = d.position
<1> DEFINE sum == SumFunction([i \in DOMAIN d.instance |-> [d EXCEPT !.instance[c].issuance = @ + n].instance[i].issuance])
           f == [d EXCEPT !.instance[c].issuance = @ + n]
           e == [f EXCEPT !.token.issuance = IssuanceOf(f)]
<1>1. ChangeIssuance(d, c, n) = e  BY DEF ChangeIssuance, SyncIssuance, IssuanceOf
<1>2. /\ DOMAIN f.instance = DOMAIN d.instance /\ f.checkpoint = d.checkpoint /\ f.position = d.position
      /\ \A i \in DOMAIN d.instance : f.instance[i].price = d.instance[i].price
      /\ Shaped(f)
  BY DEF Shaped
<1> HIDE DEF f
<1>3. e.instance = f.instance /\ e.checkpoint = f.checkpoint /\ e.position = f.position
  BY <1>2 DEF Shaped
<1> HIDE DEF e
<1>4. Explained(e)  BY <1>2, <1>3 DEF Explained
<1> QED BY <1>1, <1>2, <1>3, <1>4

\* Log no of chain c has no checkpoint yet.
IsNew(d, c, no) == \A x \in DOMAIN d.checkpoint : ~(x[1] = c /\ x[3] = no)

LEMMA TransferExplains ==
  ASSUME NEW d, Shaped(d), Explained(d), NEW c, NEW log, log.n \in Nat \ {0}, IsNew(d, c, log.no)
  PROVE  LET e == OnTransfer(d, c, log)
         IN  Explained(e) /\ \A x \in DOMAIN e.checkpoint : x \in DOMAIN d.checkpoint \/ (x[1] = c /\ x[3] = log.no)
<1>1. CASE ~Has(d.instance, c)
  BY <1>1 DEF OnTransfer
<1>2. CASE Has(d.instance, c)
  <2> DEFINE d1 == IF log.from = Zero THEN ChangeIssuance(d, c, log.n)
                   ELSE IF log.to = Zero THEN ChangeIssuance(d, c, -log.n) ELSE d
             d2 == IF log.from \in Users THEN ApplyNetPositionChange(d1, c, log.from, -log.n, log.no) ELSE d1
             d3 == IF log.to \in Users THEN ApplyNetPositionChange(d2, c, log.to, log.n, log.no) ELSE d2
             x1 == <<c, log.from, log.no>>
             x2 == <<c, log.to, log.no>>
             n == log.n
             m == -n
  <2>0. OnTransfer(d, c, log) = d3  BY <1>2 DEF OnTransfer
  <2>1. Shaped(d1) /\ Explained(d1) /\ d1.checkpoint = d.checkpoint /\ c \in DOMAIN d1.instance
    BY <1>2, ChangeKept, ChangeIssuanceExplains DEF Has, Kept
  <2> HIDE DEF d1
  <2>2. m \in Int /\ n \in Int /\ n \in Nat \ {0}  OBVIOUS
  <2>3. x1 \notin DOMAIN d1.checkpoint /\ x2 \notin DOMAIN d1.checkpoint
    <3>1. x1[1] = c /\ x1[3] = log.no /\ x2[1] = c /\ x2[3] = log.no  OBVIOUS
    <3> HIDE DEF x1, x2
    <3> QED BY <2>1, <3>1 DEF IsNew
  <2> HIDE DEF n, m
  <2>4. /\ Shaped(d2) /\ Explained(d2) /\ d2.instance = d1.instance
        /\ \A x \in DOMAIN d2.checkpoint : x \in DOMAIN d.checkpoint \/ x = x1
        /\ x1 \in DOMAIN d2.checkpoint => Was(d2, <<c, log.from>>).lastPrice = d1.instance[c].price
    <3>1. CASE log.from \in Users
      <4> DEFINE e == ApplyNetPositionChange(d1, c, log.from, m, log.no)
      <4>1. Kept(d1, e) /\ e.instance = d1.instance  BY <2>1, PositionChangeKept
      <4>2. /\ Explained(e)
            /\ \A x \in DOMAIN e.checkpoint : x \in DOMAIN d1.checkpoint \/ x = x1
            /\ x1 \in DOMAIN e.checkpoint /\ x1 \notin DOMAIN d1.checkpoint
                  => Was(e, <<c, log.from>>).lastPrice = d1.instance[c].price
        BY <2>1, <2>2, <2>3, ChangeExplains
      <4>3. d2 = e  BY <3>1 DEF m, n
      <4> HIDE DEF e, d2
      <4> QED BY <2>1, <2>3, <4>1, <4>2, <4>3 DEF Kept
    <3>2. CASE log.from \notin Users
      <4>1. d2 = d1  BY <3>2
      <4> HIDE DEF d2
      <4> QED BY <2>1, <2>3, <4>1
    <3> QED BY <3>1, <3>2
  <2> HIDE DEF d2
  <2>5. x2 \in DOMAIN d2.checkpoint => Was(d2, <<c, log.to>>).lastPrice = d2.instance[c].price
    <3>1. x2 = x1 => log.to = log.from  OBVIOUS
    <3> QED BY <2>1, <2>3, <2>4, <3>1
  <2>6. Explained(d3) /\ \A x \in DOMAIN d3.checkpoint : x \in DOMAIN d2.checkpoint \/ x = x2
    <3>1. CASE log.to \in Users
      <4> DEFINE e == ApplyNetPositionChange(d2, c, log.to, n, log.no)
      <4>1. c \in DOMAIN d2.instance  BY <2>1, <2>4
      <4>2. Explained(e) /\ \A x \in DOMAIN e.checkpoint : x \in DOMAIN d2.checkpoint \/ x = x2
        BY <2>2, <2>4, <2>5, <4>1, ChangeExplains
      <4>3. d3 = e  BY <3>1 DEF n
      <4> HIDE DEF e, d3
      <4> QED BY <4>2, <4>3
    <3>2. CASE log.to \notin Users
      <4>1. d3 = d2  BY <3>2
      <4> HIDE DEF d3
      <4> QED BY <2>4, <4>1
    <3> QED BY <3>1, <3>2
  <2>7. x1[1] = c /\ x1[3] = log.no /\ x2[1] = c /\ x2[3] = log.no  OBVIOUS
  <2> HIDE DEF d3, x1, x2
  <2> QED BY <2>0, <2>4, <2>6, <2>7 DEF d3
<1> QED BY <1>1, <1>2

\* The tables of the positions stay.
LEMMA ExplainedSame ==
  ASSUME NEW d, NEW e, Explained(d), e.checkpoint = d.checkpoint, e.position = d.position,
         \A c \in DOMAIN e.instance : e.instance[c].price \in Nat
  PROVE  Explained(e)
  BY DEF Explained

LEMMA PriceExplains ==
  ASSUME NEW d, Shaped(d), Explained(d), NEW c, NEW price \in Nat
  PROVE  LET e == OnUpdateSharePrice(d, c, price) IN Explained(e) /\ e.checkpoint = d.checkpoint
<1> DEFINE e == [d EXCEPT !.instance[c].price = price]
<1>1. CASE ~Has(d.instance, c)  BY <1>1 DEF OnUpdateSharePrice
<1>2. CASE Has(d.instance, c)
  <2>1. OnUpdateSharePrice(d, c, price) = e  BY <1>2 DEF OnUpdateSharePrice
  <2>2. /\ e.checkpoint = d.checkpoint /\ e.position = d.position
        /\ \A i \in DOMAIN e.instance : e.instance[i].price \in Nat
    BY <1>2 DEF Shaped, Has, Explained
  <2> HIDE DEF e
  <2> QED BY <2>1, <2>2, ExplainedSame
<1> QED BY <1>1, <1>2

\* Positions start from the balances of a call, without gains.
LEMMA SpokeClassExplains ==
  ASSUME NEW d, Shaped(d), Explained(d), NEW c, NEW supply, NEW held, \A a \in InitialHolders : held[a] \in Nat,
         NEW decimals \in BOOLEAN
  PROVE  LET e == OnAddShareClass(d, c, supply, held, decimals) IN Explained(e) /\ e.checkpoint = d.checkpoint
<1> DEFINE row == RowOr(d.instance, c, NewInstance)
           holders == IF d.pool /\ row.issuance = 0 THEN InitialHolders ELSE {}
           rows == [k \in {c} \X holders |-> [NewPosition EXCEPT !.balance = held[k[2]]]]
           new == [row EXCEPT !.issuance = supply, !.active = @ \/ d.pool]
           instances == Put(d.instance, c, new)
           token == [d.token EXCEPT !.there = TRUE, !.active = @ \/ d.pool]
           positions == InsertAll(d.position, rows)
           f == [d EXCEPT !.instance = instances, !.token = token, !.position = positions]
           e == [f EXCEPT !.token.issuance = IssuanceOf(f)]
<1>1. OnAddShareClass(d, c, supply, held, decimals) = IF decimals THEN e ELSE d
  BY DEF OnAddShareClass, SyncIssuance, IssuanceOf
<1>2. DOMAIN row = {"issuance", "active", "price"} /\ row.price \in Nat
  BY DEF RowOr, Has, NewInstance, Shaped, Explained, NoPrice
<1>3. new.price \in Nat
  <2> HIDE DEF row
  <2> QED BY <1>2
<1>4. \A i \in DOMAIN instances : instances[i].price \in Nat
  <2> HIDE DEF new
  <2> QED BY <1>3 DEF Put, Explained
<1>5. \A k \in DOMAIN rows : /\ IsPosition(rows[k])
                              /\ rows[k].earnings = NewPosition.earnings /\ rows[k].realized = NewPosition.realized
                              /\ rows[k].cost = NewPosition.cost
  <2> SUFFICES ASSUME NEW k \in DOMAIN rows
               PROVE  /\ IsPosition(rows[k])
                      /\ rows[k].earnings = NewPosition.earnings /\ rows[k].realized = NewPosition.realized
                      /\ rows[k].cost = NewPosition.cost
    OBVIOUS
  <2> DEFINE n == held[k[2]]
  <2>1. n \in Nat /\ rows[k] = [NewPosition EXCEPT !.balance = n]  OBVIOUS
  <2> HIDE DEF n, rows
  <2> QED BY <2>1 DEF NewPosition, IsPosition, NoPrice
<1> HIDE DEF row, holders, rows, new, instances, token
<1>6. /\ DOMAIN positions = DOMAIN d.position \cup DOMAIN rows
      /\ \A k \in DOMAIN positions : positions[k] = IF k \in DOMAIN d.position THEN d.position[k] ELSE rows[k]
  BY DEF InsertAll
<1>7. \A k \in DOMAIN positions :
           /\ IsPosition(positions[k])
           /\ positions[k].earnings = Was(d, k).earnings /\ positions[k].realized = Was(d, k).realized
           /\ positions[k].cost = Was(d, k).cost
  BY <1>5, <1>6 DEF Was, RowOr, Has, Explained
<1> HIDE DEF positions
<1>8. f.instance = instances /\ f.checkpoint = d.checkpoint /\ f.position = positions /\ DOMAIN f = DOMAIN d
  BY DEF Shaped
<1> HIDE DEF f
<1>9. e.instance = instances /\ e.checkpoint = d.checkpoint /\ e.position = positions
  BY <1>8 DEF Shaped
<1> HIDE DEF e
<1>10. \A k \in DOMAIN e.position : e.position[k].cost >= Was(d, k).cost
  BY <1>7, <1>9 DEF IsPosition
<1>11. Explained(e)  BY <1>4, <1>6, <1>7, <1>9, <1>10, ExplainedCarries
<1> QED BY <1>1, <1>9, <1>11

LEMMA InitPositionExplains ==
  ASSUME NEW d, Shaped(d), Explained(d), NEW c, NEW a, NEW held \in Nat
  PROVE  LET e == InitPosition(d, c, a, held) IN Explained(e) /\ e.checkpoint = d.checkpoint
<1> DEFINE row == [NewPosition EXCEPT !.balance = held]
           positions == Insert(d.position, <<c, a>>, row)
           e == [d EXCEPT !.position = positions]
<1>1. InitPosition(d, c, a, held) = IF Has(d.instance, c) THEN e ELSE d  BY DEF InitPosition
<1>2. /\ IsPosition(row) /\ row.earnings = NewPosition.earnings /\ row.realized = NewPosition.realized
      /\ row.cost = NewPosition.cost
  BY DEF NewPosition, IsPosition, NoPrice
<1> HIDE DEF row
<1>3. /\ DOMAIN positions = DOMAIN d.position \cup {<<c, a>>}
      /\ \A k \in DOMAIN positions : positions[k] = IF k \in DOMAIN d.position THEN d.position[k] ELSE row
  BY DEF Insert, Put, Has
<1> HIDE DEF positions
<1>4. \A k \in DOMAIN positions :
           /\ IsPosition(positions[k])
           /\ positions[k].earnings = Was(d, k).earnings /\ positions[k].realized = Was(d, k).realized
           /\ positions[k].cost = Was(d, k).cost
  BY <1>2, <1>3 DEF Was, RowOr, Has, Explained
<1>5. e.instance = d.instance /\ e.checkpoint = d.checkpoint /\ e.position = positions
  BY DEF Shaped
<1> HIDE DEF e
<1>6. \A k \in DOMAIN e.position : e.position[k].cost >= Was(d, k).cost
  BY <1>4, <1>5 DEF IsPosition
<1>7. \A i \in DOMAIN e.instance : e.instance[i].price \in Nat  BY <1>5 DEF Explained
<1>8. Explained(e)  BY <1>3, <1>4, <1>5, <1>6, <1>7, ExplainedCarries
<1> QED BY <1>1, <1>5, <1>8

LEMMA HubClassExplains ==
  ASSUME NEW d, Shaped(d), Explained(d), NEW decimals \in BOOLEAN
  PROVE  LET e == OnHubAddShareClass(d, decimals) IN Explained(e) /\ e.checkpoint = d.checkpoint
<1> DEFINE token == [d.token EXCEPT !.there = TRUE, !.active = TRUE]
           instances == [i \in DOMAIN d.instance |-> [d.instance[i] EXCEPT !.active = TRUE]]
           e == [d EXCEPT !.token = token, !.instance = instances]
<1>1. \A i \in DOMAIN instances : instances[i].price \in Nat
  BY DEF Shaped, Explained
<1>2. OnHubAddShareClass(d, decimals) = IF d.pool /\ decimals THEN e ELSE d
  BY DEF OnHubAddShareClass
<1> HIDE DEF token, instances
<1>3. e.checkpoint = d.checkpoint /\ e.instance = instances /\ e.position = d.position  BY DEF Shaped
<1> HIDE DEF e
<1>4. Explained(e)  BY <1>1, <1>3, ExplainedSame
<1> QED BY <1>2, <1>3, <1>4

-----------------------------------------------------------------------------
(* The logs of a chain are numbered, and indexed in that order *)

TokenLogs == {"AddShareClass", "DepositRequest", "UpdateSharePrice", "Transfer"}
Logs == [kind: TokenLogs, from: Addresses \cup {Zero}, to: Addresses \cup {Zero}, n: Nat, no: Nat]
States == [supply: Int, held: [Addresses -> Nat]]
Blocks == [logs: Seq(Logs), at: States, begun: BOOLEAN]

IsLog(l) == (l.kind = "Transfer" => l.n # 0) /\ (l.kind = "DepositRequest" => l.to \in Users)

\* The blocks that wait, with logs up to number top.
Numbered(bs, top) ==
  /\ bs \in Seq(Blocks)
  /\ \A i \in 1..Len(bs) : bs[i].logs # <<>>
  /\ \A i \in 1..Len(bs) : \A j \in 1..Len(bs[i].logs) : bs[i].logs[j].no <= top /\ IsLog(bs[i].logs[j])
  /\ \A i, h \in 1..Len(bs) : \A j \in 1..Len(bs[i].logs) : \A l \in 1..Len(bs[h].logs) :
       i < h \/ (i = h /\ j < l) => bs[i].logs[j].no < bs[h].logs[l].no

\* Every log that waits comes after number m.
After(bs, m) == \A i \in 1..Len(bs) : \A j \in 1..Len(bs[i].logs) : m < bs[i].logs[j].no

\* Logs that come after number top.
Following(logs, top) ==
  logs \in Seq(Logs) /\ logs # <<>> /\ \A j \in 1..Len(logs) : logs[j].no = top + j /\ IsLog(logs[j])

LEMMA NumbersType ==
  ASSUME NEW bs, NEW top, Numbered(bs, top), NEW i \in 1..Len(bs)
  PROVE  /\ bs[i] \in Blocks /\ bs[i].logs \in Seq(Logs) /\ Len(bs[i].logs) \in Nat \ {0}
         /\ \A j \in 1..Len(bs[i].logs) : bs[i].logs[j] \in Logs /\ bs[i].logs[j].no \in Nat
<1>1. bs \in Seq(Blocks) /\ bs[i].logs # <<>>  BY DEF Numbered
<1>2. bs[i] \in Blocks  BY <1>1
<1>3. bs[i].logs \in Seq(Logs)  BY <1>2 DEF Blocks
<1>4. \A j \in 1..Len(bs[i].logs) : bs[i].logs[j] \in Logs  BY <1>3
<1>5. Len(bs[i].logs) \in Nat \ {0}  BY <1>1, <1>3
<1> QED BY <1>2, <1>3, <1>4, <1>5 DEF Logs

\* They open a block, or go into the last.
LEMMA NumberedAppend ==
  ASSUME NEW bs, NEW top \in Nat, Numbered(bs, top), NEW logs, Following(logs, top), NEW after \in States
  PROVE  LET new == Append(bs, [logs |-> logs, at |-> after, begun |-> FALSE])
         IN  Numbered(new, top + Len(logs)) /\ \A m \in 0..top : After(bs, m) => After(new, m)
<1> DEFINE block == [logs |-> logs, at |-> after, begun |-> FALSE]
           new == Append(bs, block)
           n == Len(bs)
<1>1. block \in Blocks /\ block.logs = logs  BY DEF Following, Blocks
<1> HIDE DEF block
<1>2. /\ n \in Nat /\ new \in Seq(Blocks) /\ Len(new) = n + 1 /\ new[n + 1] = block
      /\ \A i \in 1..n : new[i] = bs[i]
  BY <1>1 DEF Numbered
<1> HIDE DEF new
<1>3. Len(logs) \in Nat /\ top <= top + Len(logs)  BY DEF Following
<1>4. \A i \in 1..n : \A j \in 1..Len(bs[i].logs) : bs[i].logs[j].no \in Nat  BY NumbersType
<1>5. \A i \in 1..(n + 1) : i \in 1..n \/ i = n + 1  BY <1>2
<1>6. \A i \in 1..(n + 1) : new[i].logs # <<>>
  BY <1>1, <1>2, <1>5 DEF Numbered, Following
<1>7. \A i \in 1..(n + 1) : \A j \in 1..Len(new[i].logs) : new[i].logs[j].no <= top + Len(logs) /\ IsLog(new[i].logs[j])
  <2> SUFFICES ASSUME NEW i \in 1..(n + 1), NEW j \in 1..Len(new[i].logs)
               PROVE  new[i].logs[j].no <= top + Len(logs) /\ IsLog(new[i].logs[j])
    OBVIOUS
  <2>1. CASE i \in 1..n  BY <1>2, <1>3, <1>4, <2>1 DEF Numbered
  <2>2. CASE i = n + 1  BY <1>1, <1>2, <1>3, <2>2 DEF Following
  <2> QED BY <1>5, <2>1, <2>2
<1>8. ASSUME NEW i \in 1..(n + 1), NEW h \in 1..(n + 1), NEW j \in 1..Len(new[i].logs), NEW l \in 1..Len(new[h].logs),
             i < h \/ (i = h /\ j < l)
      PROVE  new[i].logs[j].no < new[h].logs[l].no
  <2>1. CASE h \in 1..n
    <3>1. i \in 1..n  BY <1>2, <1>8, <2>1
    <3> QED BY <1>2, <1>8, <2>1, <3>1 DEF Numbered
  <2>2. CASE h = n + 1 /\ i = n + 1
    <3>1. j < l /\ new[i].logs = logs /\ new[h].logs = logs  BY <1>1, <1>2, <1>8, <2>2
    <3> QED BY <1>3, <3>1 DEF Following
  <2>3. CASE h = n + 1 /\ i \in 1..n
    <3>1. new[h].logs[l].no = top + l /\ l >= 1 /\ l \in Nat  BY <1>1, <1>2, <1>3, <2>3 DEF Following
    <3>2. new[i].logs[j].no <= top /\ new[i].logs[j].no \in Nat  BY <1>2, <1>4, <2>3 DEF Numbered
    <3> QED BY <3>1, <3>2
  <2> QED BY <1>5, <2>1, <2>2, <2>3
<1>9. ASSUME NEW m \in 0..top, After(bs, m), NEW i \in 1..(n + 1), NEW j \in 1..Len(new[i].logs)
      PROVE  m < new[i].logs[j].no
  <2>1. CASE i \in 1..n  BY <1>2, <1>9, <2>1 DEF After
  <2>2. CASE i = n + 1
    <3>1. new[i].logs[j].no = top + j /\ j \in Nat \ {0}  BY <1>1, <1>2, <1>3, <2>2 DEF Following
    <3> QED BY <3>1
  <2> QED BY <1>5, <2>1, <2>2
<1>10. \A m \in 0..top : After(bs, m) => After(new, m)  BY <1>2, <1>9 DEF After
<1> QED BY <1>2, <1>6, <1>7, <1>8, <1>10 DEF Numbered, block, new

LEMMA NumberedExtend ==
  ASSUME NEW bs, NEW top \in Nat, Numbered(bs, top), bs # <<>>, NEW logs, Following(logs, top), NEW after \in States
  PROVE  LET new == [bs EXCEPT ![Len(bs)] = [logs |-> bs[Len(bs)].logs \o logs, at |-> after, begun |-> FALSE]]
         IN  Numbered(new, top + Len(logs)) /\ \A m \in 0..top : After(bs, m) => After(new, m)
<1> DEFINE n == Len(bs)
           old == bs[n].logs
           both == old \o logs
           block == [logs |-> both, at |-> after, begun |-> FALSE]
           new == [bs EXCEPT ![n] = block]
<1>1. n \in 1..Len(bs) /\ n \in Nat /\ Len(new) = n  BY DEF Numbered
<1>2. old \in Seq(Logs) /\ Len(old) \in Nat \ {0} /\ \A j \in 1..Len(old) : old[j].no \in Nat
  BY <1>1, NumbersType
<1>3. logs \in Seq(Logs) /\ Len(logs) \in Nat /\ \A j \in 1..Len(logs) : logs[j].no = top + j /\ IsLog(logs[j])
  BY DEF Following
<1>4. \A j \in 1..Len(old) : old[j].no <= top /\ IsLog(old[j])  BY <1>1 DEF Numbered
<1> HIDE DEF old
<1>5. /\ both \in Seq(Logs) /\ Len(both) = Len(old) + Len(logs) /\ both # <<>>
      /\ \A j \in 1..Len(old) : both[j] = old[j]
      /\ \A j \in 1..Len(both) : j \notin 1..Len(old) => j - Len(old) \in 1..Len(logs) /\ both[j] = logs[j - Len(old)]
  BY <1>2, <1>3
<1> HIDE DEF both
<1>6. block \in Blocks /\ block.logs = both  BY <1>5 DEF Blocks
<1> HIDE DEF block
<1>7. new \in Seq(Blocks) /\ new[n] = block /\ \A i \in 1..n : i # n => new[i] = bs[i]
  BY <1>1, <1>6 DEF Numbered
<1> HIDE DEF new
<1> DEFINE at(l) == l - Len(old)
<1>8. \A l \in 1..Len(both) : l \notin 1..Len(old) =>
         at(l) \in 1..Len(logs) /\ both[l].no = top + at(l) /\ IsLog(both[l])
  <2> SUFFICES ASSUME NEW l \in 1..Len(both), l \notin 1..Len(old)
               PROVE  at(l) \in 1..Len(logs) /\ both[l].no = top + at(l) /\ IsLog(both[l])
    OBVIOUS
  <2>1. at(l) \in 1..Len(logs) /\ both[l] = logs[at(l)]  BY <1>5
  <2> HIDE DEF at
  <2> QED BY <1>3, <2>1
<1>9. \A j \in 1..Len(both) : both[j].no <= top + Len(logs) /\ IsLog(both[j])
  <2> SUFFICES ASSUME NEW j \in 1..Len(both) PROVE both[j].no <= top + Len(logs) /\ IsLog(both[j])
    OBVIOUS
  <2>1. CASE j \in 1..Len(old)  BY <1>2, <1>3, <1>4, <1>5, <2>1
  <2>2. CASE j \notin 1..Len(old)  BY <1>3, <1>8, <2>2
  <2> QED BY <2>1, <2>2
<1>10. \A j, l \in 1..Len(both) : j < l => both[j].no < both[l].no
  <2> SUFFICES ASSUME NEW j \in 1..Len(both), NEW l \in 1..Len(both), j < l PROVE both[j].no < both[l].no
    OBVIOUS
  <2>1. CASE l \in 1..Len(old)
    <3>1. j \in 1..Len(old)  BY <1>2, <1>5, <2>1
    <3>2. old[j].no < old[l].no  BY <1>1, <2>1, <3>1 DEF Numbered, old
    <3> QED BY <1>5, <2>1, <3>1, <3>2
  <2>2. CASE j \notin 1..Len(old) /\ l \notin 1..Len(old)
    <3>1. at(j) < at(l)  BY <1>2, <1>5
    <3>2. at(j) \in 1..Len(logs) /\ both[j].no = top + at(j) /\ at(l) \in 1..Len(logs) /\ both[l].no = top + at(l)
      BY <1>8, <2>2
    <3> HIDE DEF at
    <3> QED BY <1>3, <3>1, <3>2
  <2>3. CASE j \in 1..Len(old) /\ l \notin 1..Len(old)
    <3>1. both[j].no <= top /\ both[j].no \in Nat  BY <1>2, <1>4, <1>5, <2>3
    <3>2. both[l].no = top + at(l) /\ at(l) \in 1..Len(logs)  BY <1>8, <2>3
    <3> HIDE DEF at
    <3> QED BY <1>3, <3>1, <3>2
  <2> QED BY <2>1, <2>2, <2>3
\* The last block only grows.
<1>11. \A i \in 1..n : i # n => \A j \in 1..Len(bs[i].logs) :
          /\ bs[i].logs[j].no \in Nat /\ bs[i].logs[j].no <= top /\ IsLog(bs[i].logs[j])
          /\ \A l \in 1..Len(both) : bs[i].logs[j].no < both[l].no
  <2> SUFFICES ASSUME NEW i \in 1..n, i # n, NEW j \in 1..Len(bs[i].logs)
               PROVE  /\ bs[i].logs[j].no \in Nat /\ bs[i].logs[j].no <= top /\ IsLog(bs[i].logs[j])
                      /\ \A l \in 1..Len(both) : bs[i].logs[j].no < both[l].no
    OBVIOUS
  <2>1. bs[i].logs[j].no \in Nat /\ bs[i].logs[j].no <= top /\ IsLog(bs[i].logs[j])
    BY NumbersType DEF Numbered
  <2>2. ASSUME NEW l \in 1..Len(both) PROVE bs[i].logs[j].no < both[l].no
    <3>1. CASE l \in 1..Len(old)
      <4>1. i < n  BY <1>1
      <4>2. bs[i].logs[j].no < old[l].no  BY <1>1, <3>1, <4>1 DEF Numbered, old
      <4> QED BY <1>5, <3>1, <4>2
    <3>2. CASE l \notin 1..Len(old)
      <4>1. both[l].no = top + at(l) /\ at(l) \in 1..Len(logs)  BY <1>8, <2>2, <3>2
      <4> HIDE DEF at
      <4> QED BY <1>3, <2>1, <4>1
    <3> QED BY <3>1, <3>2
  <2> QED BY <2>1, <2>2
<1>12. \A i \in 1..n : new[i].logs # <<>>  BY <1>5, <1>6, <1>7 DEF Numbered
<1>13. \A i \in 1..n : \A j \in 1..Len(new[i].logs) : new[i].logs[j].no <= top + Len(logs) /\ IsLog(new[i].logs[j])
  <2> SUFFICES ASSUME NEW i \in 1..n, NEW j \in 1..Len(new[i].logs)
               PROVE  new[i].logs[j].no <= top + Len(logs) /\ IsLog(new[i].logs[j])
    OBVIOUS
  <2>1. CASE i = n  BY <1>6, <1>7, <1>9, <2>1
  <2>2. CASE i # n
    <3>1. new[i] = bs[i]  BY <1>7, <2>2
    <3>2. bs[i].logs[j].no \in Nat /\ bs[i].logs[j].no <= top /\ IsLog(bs[i].logs[j])  BY <1>11, <2>2, <3>1
    <3> QED BY <1>3, <3>1, <3>2
  <2> QED BY <2>1, <2>2
<1>14. ASSUME NEW i \in 1..n, NEW h \in 1..n, NEW j \in 1..Len(new[i].logs), NEW l \in 1..Len(new[h].logs),
             i < h \/ (i = h /\ j < l)
       PROVE  new[i].logs[j].no < new[h].logs[l].no
  <2>1. CASE i = n
    <3>1. h = n /\ j < l  BY <1>1, <1>14, <2>1
    <3> QED BY <1>6, <1>7, <1>10, <2>1, <3>1
  <2>2. CASE i # n /\ h = n
    <3>1. new[i] = bs[i] /\ new[h].logs = both  BY <1>6, <1>7, <2>2
    <3> QED BY <1>11, <2>2, <3>1
  <2>3. CASE i # n /\ h # n
    <3>1. new[i] = bs[i] /\ new[h] = bs[h]  BY <1>7, <2>3
    <3> QED BY <1>14, <3>1 DEF Numbered
  <2> QED BY <2>1, <2>2, <2>3
<1>15. Len(new) = n  BY <1>1 DEF new
<1>16. ASSUME NEW m \in 0..top, After(bs, m), NEW i \in 1..n, NEW j \in 1..Len(new[i].logs)
       PROVE  m < new[i].logs[j].no
  <2>1. CASE i # n  BY <1>7, <1>16, <2>1 DEF After
  <2>2. CASE i = n /\ j \in 1..Len(old)
    <3>1. m < old[j].no  BY <1>1, <1>16, <2>2 DEF After, old
    <3> QED BY <1>5, <1>6, <1>7, <2>2, <3>1
  <2>3. CASE i = n /\ j \notin 1..Len(old)
    <3>1. new[i].logs[j].no = top + at(j) /\ at(j) \in 1..Len(logs)  BY <1>6, <1>7, <1>8, <2>3
    <3> HIDE DEF at
    <3> QED BY <1>3, <3>1
  <2> QED BY <2>1, <2>2, <2>3
<1>17. \A m \in 0..top : After(bs, m) => After(new, m)  BY <1>15, <1>16 DEF After
<1> QED BY <1>7, <1>12, <1>13, <1>14, <1>15, <1>17 DEF Numbered, block, both, new, old

\* The first log is taken out of its block, and the block when it was the last.
Rest(bs) ==
  LET rest == [logs |-> Tail(bs[1].logs), at |-> bs[1].at, begun |-> TRUE]
  IN  IF rest.logs = <<>> THEN Tail(bs) ELSE [bs EXCEPT ![1] = rest]

LEMMA NumberedRest ==
  ASSUME NEW bs, NEW top \in Nat, Numbered(bs, top), bs # <<>>
  PROVE  Numbered(Rest(bs), top) /\ After(Rest(bs), bs[1].logs[1].no)
<1> DEFINE logs == bs[1].logs
           tail == Tail(logs)
           rest == [logs |-> tail, at |-> bs[1].at, begun |-> TRUE]
           new == Rest(bs)
<1>1. bs \in Seq(Blocks) /\ Len(bs) \in Nat \ {0} /\ 1 \in 1..Len(bs)  BY DEF Numbered
<1>2. logs \in Seq(Logs) /\ Len(logs) \in Nat \ {0} /\ bs[1].at \in States
  BY <1>1, NumbersType DEF Blocks
<1>3. 1 \in 1..Len(logs)  BY <1>2
<1> HIDE DEF logs
<1>4. CASE tail = <<>>
  <2>1. new = Tail(bs)  BY <1>4 DEF Rest, logs
  <2>2. new \in Seq(Blocks) /\ Len(new) = Len(bs) - 1
        /\ \A i \in 1..Len(new) : i + 1 \in 1..Len(bs) /\ new[i] = bs[i + 1]
    BY <1>1, <2>1
  <2> HIDE DEF new
  <2>3. \A i \in 1..Len(new) : new[i].logs # <<>>  BY <2>2 DEF Numbered
  <2>4. \A i \in 1..Len(new) : \A j \in 1..Len(new[i].logs) : new[i].logs[j].no <= top /\ IsLog(new[i].logs[j])
    BY <2>2 DEF Numbered
  <2>5. ASSUME NEW i \in 1..Len(new), NEW h \in 1..Len(new), NEW j \in 1..Len(new[i].logs), NEW l \in 1..Len(new[h].logs),
               i < h \/ (i = h /\ j < l)
        PROVE  new[i].logs[j].no < new[h].logs[l].no
    <3>1. i + 1 < h + 1 \/ (i + 1 = h + 1 /\ j < l)  BY <2>5
    <3> QED BY <2>2, <3>1 DEF Numbered
  <2>6. ASSUME NEW i \in 1..Len(new), NEW j \in 1..Len(new[i].logs) PROVE bs[1].logs[1].no < new[i].logs[j].no
    <3>1. 1 < i + 1  OBVIOUS
    <3> QED BY <1>1, <1>3, <2>2, <3>1 DEF Numbered, logs
  <2> QED BY <2>2, <2>3, <2>4, <2>5, <2>6 DEF Numbered, After, new
<1>5. CASE tail # <<>>
  <2>1. new = [bs EXCEPT ![1] = rest]  BY <1>5 DEF Rest, logs
  <2>2. tail \in Seq(Logs) /\ Len(tail) = Len(logs) - 1
        /\ \A j \in 1..Len(tail) : j + 1 \in 1..Len(logs) /\ tail[j] = logs[j + 1]
    BY <1>2
  <2> HIDE DEF tail
  <2>3. rest \in Blocks /\ rest.logs = tail  BY <1>2, <2>2 DEF Blocks
  <2> HIDE DEF rest
  <2>4. new \in Seq(Blocks) /\ Len(new) = Len(bs) /\ new[1] = rest /\ \A i \in 1..Len(new) : i # 1 => new[i] = bs[i]
    BY <1>1, <2>1, <2>3
  <2> HIDE DEF new
  <2>5. \A i \in 1..Len(new) : new[i].logs # <<>>  BY <1>5, <2>3, <2>4 DEF Numbered
  \* Where each log was.
  <2>6. \A i \in 1..Len(new) : \A j \in 1..Len(new[i].logs) :
          LET k == IF i = 1 THEN j + 1 ELSE j
          IN  k \in 1..Len(bs[i].logs) /\ new[i].logs[j] = bs[i].logs[k]
    BY <2>2, <2>3, <2>4 DEF logs
  <2>7. \A i \in 1..Len(new) : \A j \in 1..Len(new[i].logs) : new[i].logs[j].no <= top /\ IsLog(new[i].logs[j])
    BY <2>4, <2>6 DEF Numbered
  <2>8. ASSUME NEW i \in 1..Len(new), NEW h \in 1..Len(new), NEW j \in 1..Len(new[i].logs), NEW l \in 1..Len(new[h].logs),
               i < h \/ (i = h /\ j < l)
        PROVE  new[i].logs[j].no < new[h].logs[l].no
    <3> DEFINE k == IF i = 1 THEN j + 1 ELSE j
               m == IF h = 1 THEN l + 1 ELSE l
    <3>1. k \in 1..Len(bs[i].logs) /\ new[i].logs[j] = bs[i].logs[k]  BY <2>6
    <3>2. m \in 1..Len(bs[h].logs) /\ new[h].logs[l] = bs[h].logs[m]  BY <2>6
    <3>3. i < h \/ (i = h /\ k < m)  BY <2>8
    <3> HIDE DEF k, m
    <3> QED BY <2>4, <3>1, <3>2, <3>3 DEF Numbered
  <2>9. ASSUME NEW i \in 1..Len(new), NEW j \in 1..Len(new[i].logs) PROVE bs[1].logs[1].no < new[i].logs[j].no
    <3> DEFINE k == IF i = 1 THEN j + 1 ELSE j
    <3>1. k \in 1..Len(bs[i].logs) /\ new[i].logs[j] = bs[i].logs[k]  BY <2>6
    <3>2. 1 < i \/ (1 = i /\ 1 < k)  OBVIOUS
    <3> HIDE DEF k
    <3> QED BY <1>1, <1>3, <2>4, <3>1, <3>2 DEF Numbered, logs
  <2> QED BY <2>4, <2>5, <2>7, <2>8, <2>9 DEF Numbered, After, new
<1> QED BY <1>4, <1>5

\* The inductive invariant of the numbers: a checkpoint is of a log that no longer waits.
QueueInv ==
  /\ tip \in [Chains -> States] /\ emitted \in [Chains -> Nat] /\ DOMAIN blocks = Chains
  /\ \A c \in Chains : Numbered(blocks[c], emitted[c])
  /\ \A x \in DOMAIN db.checkpoint : x[1] \in Chains /\ x[3] \in 0..emitted[x[1]] /\ After(blocks[x[1]], x[3])

LEMMA EmitKeepsQueue ==
  ASSUME QueueInv, NEW c \in Chains, NEW logs, NEW after \in States, NEW new \in BOOLEAN,
         Emit(c, logs, after, new), Following(logs, emitted[c])
  PROVE  QueueInv'
<1> DEFINE last == Len(blocks[c])
           open == blocks[c] # <<>> /\ ~blocks[c][last].begun
           block == [logs |-> IF new THEN logs ELSE blocks[c][last].logs \o logs, at |-> after, begun |-> FALSE]
           bs == IF new THEN Append(blocks[c], block) ELSE [blocks[c] EXCEPT ![last] = block]
           top == emitted[c]
<1>1. /\ IF new THEN Len(blocks[c]) < 2 ELSE open
      /\ tip' = [tip EXCEPT ![c] = after] /\ blocks' = [blocks EXCEPT ![c] = bs]
      /\ emitted' = [emitted EXCEPT ![c] = top + Len(logs)] /\ db' = db
  BY DEF Emit
<1>2. top \in Nat /\ Numbered(blocks[c], top) /\ Len(logs) \in Nat  BY DEF QueueInv, Following
<1>3. Numbered(bs, top + Len(logs)) /\ \A m \in 0..top : After(blocks[c], m) => After(bs, m)
  <2>1. CASE new
    <3>1. bs = Append(blocks[c], [logs |-> logs, at |-> after, begun |-> FALSE])  BY <2>1
    <3> HIDE DEF bs
    <3> QED BY <1>2, <3>1, NumberedAppend
  <2>2. CASE ~new
    <3>1. bs = [blocks[c] EXCEPT ![Len(blocks[c])] = [logs |-> blocks[c][Len(blocks[c])].logs \o logs, at |-> after, begun |-> FALSE]]
      BY <2>2
    <3>2. blocks[c] # <<>>  BY <1>1, <2>2
    <3> HIDE DEF bs
    <3> QED BY <1>2, <3>1, <3>2, NumberedExtend
  <2> QED BY <2>1, <2>2
<1> HIDE DEF bs, top
<1>4. tip' \in [Chains -> States] /\ emitted' \in [Chains -> Nat] /\ DOMAIN blocks' = Chains
  BY <1>1, <1>2 DEF QueueInv
<1>5. \A d \in Chains : /\ blocks'[d] = IF d = c THEN bs ELSE blocks[d]
                        /\ emitted'[d] = IF d = c THEN top + Len(logs) ELSE emitted[d]
  BY <1>1 DEF QueueInv
<1>6. \A d \in Chains : Numbered(blocks'[d], emitted'[d])  BY <1>3, <1>5 DEF QueueInv
<1>7. ASSUME NEW x \in DOMAIN db.checkpoint
      PROVE  x[1] \in Chains /\ x[3] \in 0..emitted'[x[1]] /\ After(blocks'[x[1]], x[3])
  <2>1. x[1] \in Chains /\ x[3] \in 0..emitted[x[1]] /\ After(blocks[x[1]], x[3])  BY DEF QueueInv
  <2>2. CASE x[1] # c  BY <1>5, <2>1, <2>2
  <2>3. CASE x[1] = c
    <3>1. x[3] \in 0..top /\ After(blocks[c], x[3])  BY <2>1, <2>3 DEF top
    <3>2. After(bs, x[3])  BY <1>3, <3>1
    <3>3. x[3] \in 0..(top + Len(logs))  BY <1>2, <3>1
    <3> QED BY <1>5, <2>1, <2>3, <3>2, <3>3
  <2> QED BY <2>2, <2>3
<1> QED BY <1>1, <1>4, <1>6, <1>7 DEF QueueInv

LEMMA MoveType ==
  ASSUME NEW t \in States, NEW from \in Addresses \cup {Zero}, NEW to \in Addresses \cup {Zero}, NEW n \in Nat,
         from # Zero => t.held[from] >= n
  PROVE  Move(t, from, to, n) \in States
<1>1. t.supply \in Int /\ t.held \in [Addresses -> Nat]  BY DEF States
<1>2. Zero \notin Addresses  BY SharesAssumption DEF Addresses, Zero, Escrow
<1>3. \A a \in Addresses : t.held[a] + (IF a = to THEN n ELSE 0) - (IF a = from THEN n ELSE 0) \in Nat
  BY <1>1, <1>2
<1>4. t.supply + (IF from = Zero THEN n ELSE 0) - (IF to = Zero THEN n ELSE 0) \in Int  BY <1>1
<1> QED BY <1>3, <1>4 DEF Move, States

\* What happens on a chain: shares that are there before, a registration, a transfer.
LEMMA ExistingKeepsQueue ==
  ASSUME QueueInv, NEW c \in Chains, NEW a \in Users, NEW n \in Amounts, Existing(c, a, n)
  PROVE  QueueInv'
<1>1. n \in Nat /\ a \in Addresses \cup {Zero} /\ Zero \in Addresses \cup {Zero} /\ tip[c] \in States
  BY ShareSystemAssumption DEF Addresses, QueueInv
<1>2. Move(tip[c], Zero, a, n) \in States  BY <1>1, MoveType
<1>3. tip' \in [Chains -> States]  BY <1>2 DEF Existing, QueueInv
<1> QED BY <1>3 DEF Existing, QueueInv

LEMMA FollowingOne ==
  ASSUME NEW top \in Nat, NEW logs \in Seq(Logs), Len(logs) = 1, logs[1].no = top + 1, IsLog(logs[1])
  PROVE  Following(logs, top)
<1>1. logs # <<>>
  <2>1. Len(<<>>) = 0  OBVIOUS
  <2>2. Len(logs) = 1  OBVIOUS
  <2> QED BY ONLY <2>1, <2>2
<1>2. \A j \in 1..Len(logs) : j = 1  OBVIOUS
<1> QED BY <1>1, <1>2 DEF Following

LEMMA FollowingTwo ==
  ASSUME NEW top \in Nat, NEW logs \in Seq(Logs), Len(logs) = 2, logs[1].no = top + 1, IsLog(logs[1]),
         logs[2].no = top + 2, IsLog(logs[2])
  PROVE  Following(logs, top)
<1>1. logs # <<>>
  <2>1. Len(<<>>) = 0  OBVIOUS
  <2>2. Len(logs) = 2  OBVIOUS
  <2> QED BY ONLY <2>1, <2>2
<1>2. \A j \in 1..Len(logs) : j = 1 \/ j = 2  OBVIOUS
<1> QED BY <1>1, <1>2 DEF Following

\* A log of which no share moves.
OtherLog(log, c) == log \in Logs /\ log.no = emitted[c] + 1 /\ log.kind # "Transfer" /\ IsLog(log)

LEMMA OtherFollows ==
  ASSUME NEW c, emitted[c] \in Nat, NEW log, OtherLog(log, c) PROVE Following(<<log>>, emitted[c])
<1> DEFINE logs == <<log>>
<1>1. logs \in Seq(Logs) /\ Len(logs) = 1 /\ logs[1] = log  BY DEF OtherLog
<1>2. IsLog(log) /\ log.no = emitted[c] + 1  BY DEF OtherLog
<1> HIDE DEF logs
<1>3. Following(logs, emitted[c])  BY <1>1, <1>2, FollowingOne
<1> QED BY <1>3 DEF logs

LEMMA AddIsOther ==
  ASSUME QueueInv, NEW c \in Chains, NEW new \in BOOLEAN, AddShareClass(c, new)
  PROVE  \E log \in Logs : OtherLog(log, c) /\ Emit(c, <<log>>, tip[c], new)
<1> DEFINE log == Log("AddShareClass", Zero, Zero, 0, emitted[c] + 1)
<1>1. log \in Logs /\ OtherLog(log, c)  BY DEF QueueInv, Log, Logs, TokenLogs, OtherLog, IsLog
<1>2. Emit(c, <<log>>, tip[c], new)  BY DEF AddShareClass
<1> HIDE DEF log
<1> QED BY <1>1, <1>2

LEMMA RequestIsOther ==
  ASSUME QueueInv, NEW c \in Chains, NEW a \in Users, NEW new \in BOOLEAN, DepositRequest(c, a, new)
  PROVE  \E log \in Logs : OtherLog(log, c) /\ Emit(c, <<log>>, tip[c], new)
<1> DEFINE log == Log("DepositRequest", Zero, a, 0, emitted[c] + 1)
<1>1. log \in Logs /\ OtherLog(log, c)  BY DEF QueueInv, Log, Logs, TokenLogs, OtherLog, IsLog, Addresses
<1>2. Emit(c, <<log>>, tip[c], new)  BY DEF DepositRequest
<1> HIDE DEF log
<1> QED BY <1>1, <1>2

LEMMA OtherKeepsQueue ==
  ASSUME QueueInv, NEW c \in Chains, NEW new \in BOOLEAN, NEW log, OtherLog(log, c), Emit(c, <<log>>, tip[c], new)
  PROVE  QueueInv'
<1>1. emitted[c] \in Nat /\ tip[c] \in States  BY DEF QueueInv
<1> QED BY <1>1, OtherFollows, EmitKeepsQueue

LEMMA TransferKeepsQueue ==
  ASSUME QueueInv, NEW c \in Chains, NEW new \in BOOLEAN, NEW from \in Addresses \cup {Zero},
         NEW to \in Addresses \cup {Zero}, NEW n \in Amounts,
         NEW newPrice \in {{}} \cup {{p} : p \in SpokePrices}, Transfer(c, from, to, n, newPrice, new)
  PROVE  QueueInv'
<1> DEFINE top == emitted[c]
           price == Log("UpdateSharePrice", Zero, Zero, CHOOSE p \in newPrice : TRUE, top + 1)
           update == IF newPrice = {} THEN <<>> ELSE <<price>>
           log == Log("Transfer", from, to, n, top + Len(update) + 1)
           logs == Append(update, log)
           after == Move(tip[c], from, to, n)
<1>1. n \in Nat \ {0} /\ top \in Nat /\ tip[c] \in States  BY ShareSystemAssumption DEF QueueInv
<1>2. after \in States  BY <1>1, MoveType DEF Transfer
<1>3. Emit(c, logs, after, new)  BY DEF Transfer
<1> HIDE DEF top, after
<1>4. Following(logs, top)
  <2>1. CASE newPrice = {}
    <3> DEFINE l == Log("Transfer", from, to, n, top + 1)
    <3>1. update = <<>> /\ Len(update) = 0  BY <2>1
    <3>2. log = l
      <4>1. top + 0 + 1 = top + 1  BY <1>1
      <4> HIDE DEF update
      <4> QED BY <3>1, <4>1
    <3>3. l \in Logs /\ l.no = top + 1 /\ IsLog(l)  BY <1>1 DEF Log, Logs, TokenLogs, IsLog
    <3> HIDE DEF l, log, update
    <3>4. logs \in Seq(Logs) /\ Len(logs) = 1 /\ logs[1] = l  BY <3>1, <3>2, <3>3
    <3> HIDE DEF logs
    <3> QED BY <1>1, <3>3, <3>4, FollowingOne
  <2>2. CASE newPrice # {}
    <3> DEFINE l == Log("Transfer", from, to, n, top + 2)
    <3>1. (CHOOSE p \in newPrice : TRUE) \in Nat  BY <2>2, ShareSystemAssumption
    <3>2. update = <<price>> /\ Len(update) = 1  BY <2>2
    <3>3. log = l
      <4>1. top + 1 + 1 = top + 2  BY <1>1
      <4> HIDE DEF update
      <4> QED BY <3>2, <4>1
    <3>4. l \in Logs /\ l.no = top + 2 /\ IsLog(l)  BY <1>1 DEF Log, Logs, TokenLogs, IsLog
    <3>5. price \in Logs /\ price.no = top + 1 /\ IsLog(price)  BY <1>1, <3>1 DEF Log, Logs, TokenLogs, IsLog
    <3> HIDE DEF l, log, price, update
    <3>6. logs \in Seq(Logs) /\ Len(logs) = 2 /\ logs[1] = price /\ logs[2] = l  BY <3>2, <3>3, <3>4, <3>5
    <3> HIDE DEF logs
    <3> QED BY <1>1, <3>4, <3>5, <3>6, FollowingTwo
  <2> QED BY <2>1, <2>2
<1> HIDE DEF logs
<1> QED BY <1>2, <1>3, <1>4, EmitKeepsQueue DEF top

-----------------------------------------------------------------------------
(* The checkpoints in every behaviour *)

LEMMA IndexKeepsAccounts ==
  ASSUME Inv, QueueInv, Explained(db), NEW c \in Chains, IndexSpoke(c)
  PROVE  QueueInv' /\ Explained(db')
<1> DEFINE log == blocks[c][1].logs[1]
           bs == Rest(blocks[c])
<1>1. /\ blocks[c] # <<>> /\ blocks' = [blocks EXCEPT ![c] = bs] /\ UNCHANGED <<tip, emitted>>
      /\ \/ log.kind = "Transfer" /\ db' = OnTransfer(db, c, log)
         \/ log.kind = "UpdateSharePrice" /\ db' = OnUpdateSharePrice(db, c, log.n)
         \/ \E total, held \in Answers(c), decimals \in BOOLEAN :
                 db' = OnAddShareClass(db, c, total.supply, held.held, decimals)
         \/ /\ log.kind = "DepositRequest"
            /\ \E answer \in Answers(c) : db' = InitPosition(db, c, log.to, answer.held[log.to])
  BY DEF IndexSpoke, Rest
<1>2. Numbered(blocks[c], emitted[c]) /\ emitted[c] \in Nat  BY DEF QueueInv
<1>3. 1 \in 1..Len(blocks[c])
  <2>1. blocks[c] \in Seq(Blocks)  BY <1>2 DEF Numbered
  <2> QED BY <1>1, <2>1
<1>4. 1 \in 1..Len(blocks[c][1].logs)  BY <1>2, <1>3, NumbersType
<1>5. log.n \in Nat /\ log.no \in 0..emitted[c] /\ IsLog(log)
  <2>1. log \in Logs  BY <1>2, <1>3, <1>4, NumbersType
  <2>2. log.no <= emitted[c] /\ IsLog(log)  BY <1>2, <1>3, <1>4 DEF Numbered
  <2> HIDE DEF log
  <2> QED BY <1>2, <2>1, <2>2 DEF Logs
<1>6. Numbered(bs, emitted[c]) /\ After(bs, log.no)  BY <1>1, <1>2, NumberedRest
<1>7. \A m : After(blocks[c], m) => m < log.no  BY <1>3, <1>4 DEF After
<1> HIDE DEF log, bs
<1>8. Shaped(db)  BY DEF Inv
<1>9. \A total \in Answers(c) : total \in States
  <2>1. \A i \in DOMAIN blocks[c] : blocks[c][i].at \in States
    <3>1. blocks[c] \in Seq(Blocks)  BY <1>2 DEF Numbered
    <3>2. \A i \in DOMAIN blocks[c] : blocks[c][i] \in Blocks  BY <3>1
    <3> QED BY <3>2 DEF Blocks
  <2>2. 1 \in DOMAIN blocks[c]
    <3>1. blocks[c] \in Seq(Blocks)  BY <1>2 DEF Numbered
    <3> QED BY <3>1, <1>3
  <2>3. NoShares \in States  BY DEF NoShares, States
  <2> QED BY <2>1, <2>2, <2>3 DEF Answers
<1>10. IsNew(db, c, log.no)
  <2> SUFFICES ASSUME NEW x \in DOMAIN db.checkpoint, x[1] = c, x[3] = log.no PROVE FALSE
    BY DEF IsNew
  <2>1. After(blocks[c], x[3])  BY DEF QueueInv
  <2>2. x[3] < log.no  BY <1>7, <2>1
  <2> QED BY <1>5, <2>2
<1>11. Explained(db') /\ \A x \in DOMAIN db'.checkpoint : x \in DOMAIN db.checkpoint \/ (x[1] = c /\ x[3] = log.no)
  <2>1. CASE log.kind = "Transfer" /\ db' = OnTransfer(db, c, log)
    <3>1. log.n \in Nat \ {0}  BY <1>5, <2>1 DEF IsLog
    <3> QED BY <1>8, <1>10, <2>1, <3>1, TransferExplains
  <2>2. CASE db' = OnUpdateSharePrice(db, c, log.n)
    <3>1. Explained(db') /\ db'.checkpoint = db.checkpoint  BY <1>5, <1>8, <2>2, PriceExplains
    <3> QED BY <3>1
  <2>3. CASE \E total, held \in Answers(c), decimals \in BOOLEAN :
               db' = OnAddShareClass(db, c, total.supply, held.held, decimals)
    <3>1. PICK total, held \in Answers(c), decimals \in BOOLEAN :
               db' = OnAddShareClass(db, c, total.supply, held.held, decimals)
      BY <2>3
    <3> DEFINE supply == total.supply
               balances == held.held
    <3>2. \A a \in InitialHolders : balances[a] \in Nat
      <4>1. held \in States  BY <1>9
      <4> QED BY <4>1, SharesAssumption DEF States, Addresses
    <3>3. db' = OnAddShareClass(db, c, supply, balances, decimals)  BY <3>1
    <3> HIDE DEF supply, balances
    <3>4. Explained(db') /\ db'.checkpoint = db.checkpoint  BY <1>8, <3>2, <3>3, SpokeClassExplains
    <3> QED BY <3>4
  <2>4. CASE /\ log.kind = "DepositRequest"
             /\ \E answer \in Answers(c) : db' = InitPosition(db, c, log.to, answer.held[log.to])
    <3>1. PICK answer \in Answers(c) : db' = InitPosition(db, c, log.to, answer.held[log.to])
      BY <2>4
    <3> DEFINE a == log.to
               balance == answer.held[a]
    <3>2. balance \in Nat
      <4>1. a \in Addresses  BY <1>5, <2>4 DEF IsLog, Addresses
      <4> QED BY <1>9, <4>1 DEF States
    <3>3. db' = InitPosition(db, c, a, balance)  BY <3>1
    <3> HIDE DEF a, balance
    <3>4. Explained(db') /\ db'.checkpoint = db.checkpoint  BY <1>8, <3>2, <3>3, InitPositionExplains
    <3> QED BY <3>4
  <2> QED BY <1>1, <2>1, <2>2, <2>3, <2>4
<1>12. \A d \in Chains : blocks'[d] = IF d = c THEN bs ELSE blocks[d]  BY <1>1 DEF QueueInv
<1>13. \A d \in Chains : Numbered(blocks'[d], emitted'[d])  BY <1>1, <1>6, <1>12 DEF QueueInv
<1>14. ASSUME NEW x \in DOMAIN db'.checkpoint
       PROVE  x[1] \in Chains /\ x[3] \in 0..emitted'[x[1]] /\ After(blocks'[x[1]], x[3])
  <2>1. CASE x \in DOMAIN db.checkpoint
    <3>1. x[1] \in Chains /\ x[3] \in 0..emitted[x[1]] /\ After(blocks[x[1]], x[3])  BY <2>1 DEF QueueInv
    <3>2. CASE x[1] # c  BY <1>1, <1>12, <3>1, <3>2
    <3>3. CASE x[1] = c
      <4>1. x[3] < log.no /\ x[3] \in Nat  BY <1>2, <1>7, <3>1, <3>3
      <4>2. \A i \in 1..Len(bs) : \A j \in 1..Len(bs[i].logs) : bs[i].logs[j].no \in Nat
        BY <1>6, NumbersType
      <4>3. After(bs, x[3])  BY <1>5, <1>6, <4>1, <4>2 DEF After
      <4> QED BY <1>1, <1>12, <3>1, <3>3, <4>3
    <3> QED BY <3>2, <3>3
  <2>2. CASE x[1] = c /\ x[3] = log.no  BY <1>1, <1>5, <1>6, <1>12, <2>2
  <2> QED BY <1>11, <2>1, <2>2
<1>15. tip' \in [Chains -> States] /\ emitted' \in [Chains -> Nat] /\ DOMAIN blocks' = Chains
  BY <1>1 DEF QueueInv
<1> QED BY <1>11, <1>13, <1>14, <1>15 DEF QueueInv

Accounts == QueueInv /\ Explained(db)

LEMMA StepKeepsAccounts == Inv /\ Accounts /\ [SharesNext]_sharesVars => Accounts'
<1> SUFFICES ASSUME Inv, Accounts, [SharesNext]_sharesVars PROVE Accounts'
  OBVIOUS
<1>0. QueueInv /\ Explained(db) /\ Shaped(db)  BY DEF Accounts, Inv
<1>1. CASE IndexHub
  <2>1. PICK decimals \in BOOLEAN : db' = OnNewPool(db, decimals) \/ db' = OnHubAddShareClass(db, decimals)
    BY <1>1 DEF IndexHub
  <2>2. Explained(db') /\ db'.checkpoint = db.checkpoint
    <3>1. CASE db' = OnNewPool(db, decimals)
      <4>1. db'.checkpoint = db.checkpoint /\ db'.position = db.position /\ db'.instance = db.instance
        BY <1>0, <3>1 DEF OnNewPool, Shaped
      <4>2. \A i \in DOMAIN db'.instance : db'.instance[i].price \in Nat  BY <1>0, <4>1 DEF Explained
      <4> QED BY <1>0, <4>1, <4>2, ExplainedSame
    <3>2. CASE db' = OnHubAddShareClass(db, decimals)  BY <1>0, <3>2, HubClassExplains
    <3> QED BY <2>1, <3>1, <3>2
  <2>3. UNCHANGED <<tip, blocks, emitted>>  BY <1>1 DEF IndexHub
  <2> QED BY <1>0, <2>2, <2>3 DEF Accounts, QueueInv
<1>2. ASSUME NEW c \in Chains, IndexSpoke(c) PROVE Accounts'
  BY <1>0, <1>2, IndexKeepsAccounts DEF Accounts
<1>3. ASSUME NEW c \in Chains, NEW a \in Users, NEW n \in Amounts, Existing(c, a, n) PROVE Accounts'
  <2>1. QueueInv'  BY <1>0, <1>3, ExistingKeepsQueue
  <2>2. db' = db  BY <1>3 DEF Existing
  <2> QED BY <1>0, <2>1, <2>2 DEF Accounts
<1>4. ASSUME NEW c \in Chains, NEW new \in BOOLEAN, AddShareClass(c, new) PROVE Accounts'
  <2>1. QueueInv'  BY <1>0, <1>4, AddIsOther, OtherKeepsQueue
  <2>2. db' = db  BY <1>4 DEF AddShareClass, Emit
  <2> QED BY <1>0, <2>1, <2>2 DEF Accounts
<1>5. ASSUME NEW c \in Chains, NEW new \in BOOLEAN, NEW from \in Addresses \cup {Zero},
             NEW to \in Addresses \cup {Zero}, NEW n \in Amounts,
             NEW newPrice \in {{}} \cup {{p} : p \in SpokePrices}, Transfer(c, from, to, n, newPrice, new)
      PROVE  Accounts'
  <2>1. QueueInv'  BY <1>0, <1>5, TransferKeepsQueue
  <2>2. db' = db  BY <1>5 DEF Transfer, Emit
  <2> QED BY <1>0, <2>1, <2>2 DEF Accounts
<1>6. ASSUME NEW c \in Chains, NEW a \in Users, NEW new \in BOOLEAN, DepositRequest(c, a, new) PROVE Accounts'
  <2>1. QueueInv'  BY <1>0, <1>6, RequestIsOther, OtherKeepsQueue
  <2>2. db' = db  BY <1>6 DEF DepositRequest, Emit
  <2> QED BY <1>0, <2>1, <2>2 DEF Accounts
<1>7. CASE UNCHANGED sharesVars
  <2>1. UNCHANGED <<tip, blocks, emitted, db>>  BY <1>7 DEF sharesVars
  <2> QED BY <1>0, <2>1 DEF Accounts, QueueInv
<1> QED BY <1>1, <1>2, <1>3, <1>4, <1>5, <1>6, <1>7 DEF SharesNext

LEMMA InitAccounts == SharesInit => Accounts
<1> SUFFICES ASSUME SharesInit PROVE Accounts
  OBVIOUS
<1>1. NoShares \in States  BY DEF NoShares, States
<1>2. tip \in [Chains -> States] /\ emitted \in [Chains -> Nat] /\ DOMAIN blocks = Chains
  BY <1>1 DEF SharesInit
<1>3. \A c \in Chains : Numbered(blocks[c], emitted[c])
  <2>1. \A c \in Chains : blocks[c] = <<>>  BY DEF SharesInit
  <2>2. Numbered(<<>>, 0)  BY DEF Numbered
  <2>3. \A c \in Chains : emitted[c] = 0  BY DEF SharesInit
  <2> QED BY <2>1, <2>2, <2>3
<1>4. DOMAIN db.checkpoint = {} /\ DOMAIN db.position = {} /\ DOMAIN db.instance = {}
  BY DEF SharesInit, EmptyTable
<1>5. IsSummable(Earned(db.checkpoint)) /\ IsSummable(Realized(db.checkpoint)) /\ IsSummable(Costs(db.checkpoint))
  BY <1>4, FS_EmptySet DEF IsSummable, Earned, Realized, Costs
<1> QED BY <1>2, <1>3, <1>4, <1>5 DEF Accounts, QueueInv, Explained

\* CheckpointsAddUp: applyNetPositionChange and its checkpoints say the same of a position,
\* for any transfers, also of an account to itself, and any rounding of costs and gains.
THEOREM CheckpointsExplain == SharesSpec => []CheckpointsAddUp
<1>1. ASSUME Explained(db) PROVE CheckpointsAddUp
  <2> SUFFICES ASSUME NEW k \in DOMAIN db.position
               PROVE  /\ db.position[k].earnings = SumFunction([x \in OfPosition(k) |-> db.checkpoint[x].earnings])
                      /\ db.position[k].realized = SumFunction([x \in OfPosition(k) |-> db.checkpoint[x].realized])
                      /\ db.position[k].cost >= SumFunction([x \in OfPosition(k) |-> db.checkpoint[x].cost])
    BY DEF CheckpointsAddUp
  <2> DEFINE t == db.checkpoint
  <2>1. Tells(db.position[k], t, k)  BY <1>1 DEF Explained
  <2>2. OfKey(Earned(t), k) = OfPosition(k) /\ OfKey(Realized(t), k) = OfPosition(k) /\ OfKey(Costs(t), k) = OfPosition(k)
    BY DEF OfKey, OfPosition, Earned, Realized, Costs
  <2>3. OfPosition(k) \subseteq DOMAIN t  BY DEF OfPosition
  <2>4. [x \in OfKey(Earned(t), k) |-> Earned(t)[x]] = [x \in OfPosition(k) |-> t[x].earnings]
    BY <2>2, <2>3 DEF Earned
  <2>5. [x \in OfKey(Realized(t), k) |-> Realized(t)[x]] = [x \in OfPosition(k) |-> t[x].realized]
    BY <2>2, <2>3 DEF Realized
  <2>6. [x \in OfKey(Costs(t), k) |-> Costs(t)[x]] = [x \in OfPosition(k) |-> t[x].cost]
    BY <2>2, <2>3 DEF Costs
  <2> QED BY <2>1, <2>4, <2>5, <2>6 DEF Tells, Part
<1>2. Accounts => CheckpointsAddUp  BY <1>1 DEF Accounts
<1> QED BY <1>2, InitInv, StepKeepsInv, InitAccounts, StepKeepsAccounts, PTL DEF SharesSpec

-----------------------------------------------------------------------------
(* The logs that wait, as a set *)

SetOf(logs) == {logs[j] : j \in DOMAIN logs}
Waiting(bs) == UNION {SetOf(bs[i].logs) : i \in DOMAIN bs}

LEMMA WaitingIs ==
  ASSUME NEW bs, NEW top, Numbered(bs, top), NEW l
  PROVE  l \in Waiting(bs) <=> \E i \in 1..Len(bs) : \E j \in 1..Len(bs[i].logs) : l = bs[i].logs[j]
<1>1. DOMAIN bs = 1..Len(bs)  BY DEF Numbered
<1>2. \A i \in 1..Len(bs) : DOMAIN bs[i].logs = 1..Len(bs[i].logs)  BY NumbersType
<1> QED BY <1>1, <1>2 DEF Waiting, SetOf

LEMMA WaitingType ==
  ASSUME NEW bs, NEW top \in Nat, Numbered(bs, top), NEW l \in Waiting(bs)
  PROVE  l \in Logs /\ l.no \in Nat /\ l.no <= top /\ IsLog(l)
<1>0. PICK i \in 1..Len(bs) : \E j \in 1..Len(bs[i].logs) : l = bs[i].logs[j]  BY WaitingIs
<1>1. PICK j \in 1..Len(bs[i].logs) : l = bs[i].logs[j]  BY <1>0
<1> QED BY <1>1, NumbersType DEF Numbered

\* A new block, or more logs in the last one.
LEMMA WaitingAppend ==
  ASSUME NEW bs, NEW top, Numbered(bs, top), NEW block \in Blocks
  PROVE  Waiting(Append(bs, block)) = Waiting(bs) \cup SetOf(block.logs)
<1> DEFINE new == Append(bs, block)
           n == Len(bs)
<1>1. /\ n \in Nat /\ DOMAIN bs = 1..n /\ DOMAIN new = 1..(n + 1) /\ new[n + 1] = block
      /\ \A i \in 1..n : new[i] = bs[i]
  BY DEF Numbered
<1>2. \A i \in 1..(n + 1) : i \in 1..n \/ i = n + 1  BY <1>1
<1>3. n + 1 \in 1..(n + 1) /\ 1..n \subseteq 1..(n + 1)  BY <1>1
<1> HIDE DEF new, n
<1>4. ASSUME NEW l PROVE l \in Waiting(new) <=> l \in Waiting(bs) \cup SetOf(block.logs)
  <2>1. l \in Waiting(new) <=> \E i \in 1..(n + 1) : l \in SetOf(new[i].logs)  BY <1>1 DEF Waiting
  <2>2. l \in Waiting(bs) <=> \E i \in 1..n : l \in SetOf(bs[i].logs)  BY <1>1 DEF Waiting
  <2> QED BY <2>1, <2>2, <1>1, <1>2, <1>3
<1> QED BY <1>4 DEF new

LEMMA SetOfBoth ==
  ASSUME NEW old \in Seq(Logs), NEW logs \in Seq(Logs) PROVE SetOf(old \o logs) = SetOf(old) \cup SetOf(logs)
<1> DEFINE both == old \o logs
<1>2. Len(old) \in Nat /\ DOMAIN old = 1..Len(old) /\ Len(logs) \in Nat /\ DOMAIN logs = 1..Len(logs)
      /\ DOMAIN both = 1..(Len(old) + Len(logs))
      /\ \A i \in 1..(Len(old) + Len(logs)) : both[i] = IF i <= Len(old) THEN old[i] ELSE logs[i - Len(old)]
  OBVIOUS
<1> HIDE DEF both
<1>3. ASSUME NEW i \in 1..(Len(old) + Len(logs)) PROVE both[i] \in SetOf(old) \cup SetOf(logs)
  <2>1. CASE i <= Len(old)
    <3>1. i \in DOMAIN old /\ both[i] = old[i]  BY <1>2, <2>1
    <3> QED BY <3>1 DEF SetOf
  <2>2. CASE ~(i <= Len(old))
    <3>1. i - Len(old) \in DOMAIN logs /\ both[i] = logs[i - Len(old)]  BY <1>2, <2>2
    <3> QED BY <3>1 DEF SetOf
  <2> QED BY <2>1, <2>2
<1>4. ASSUME NEW i \in DOMAIN old PROVE old[i] \in SetOf(both)
  <2>1. i \in DOMAIN both /\ both[i] = old[i]  BY <1>2
  <2> QED BY <2>1 DEF SetOf
<1>5. ASSUME NEW i \in DOMAIN logs PROVE logs[i] \in SetOf(both)
  <2>1. i + Len(old) \in DOMAIN both /\ both[i + Len(old)] = logs[i]  BY <1>2
  <2> QED BY <2>1 DEF SetOf
<1>6. \A l \in SetOf(both) : l \in SetOf(old) \cup SetOf(logs)  BY <1>2, <1>3 DEF SetOf
<1>7. \A l \in SetOf(old) : l \in SetOf(both)  BY <1>4 DEF SetOf
<1>8. \A l \in SetOf(logs) : l \in SetOf(both)  BY <1>5 DEF SetOf
<1>9. SetOf(both) = SetOf(old) \cup SetOf(logs)  BY <1>6, <1>7, <1>8
<1> QED BY <1>9 DEF both

LEMMA WaitingExtend ==
  ASSUME NEW bs, NEW top, Numbered(bs, top), bs # <<>>, NEW logs \in Seq(Logs), NEW block \in Blocks,
         block.logs = bs[Len(bs)].logs \o logs
  PROVE  Waiting([bs EXCEPT ![Len(bs)] = block]) = Waiting(bs) \cup SetOf(logs)
<1> DEFINE n == Len(bs)
           new == [bs EXCEPT ![n] = block]
           old == bs[n].logs
<1>1. n \in 1..n /\ DOMAIN bs = 1..n  BY DEF Numbered
<1>2. old \in Seq(Logs)  BY <1>1, NumbersType
<1>3. DOMAIN new = 1..n /\ new[n] = block /\ \A i \in 1..n : i # n => new[i] = bs[i]  BY <1>1
<1> HIDE DEF new, old
<1>4. SetOf(block.logs) = SetOf(old) \cup SetOf(logs)  BY <1>2, SetOfBoth DEF old
<1> HIDE DEF n
<1>5. ASSUME NEW l PROVE l \in Waiting(new) <=> l \in Waiting(bs) \cup SetOf(logs)
  <2>1. l \in Waiting(new) <=> \E i \in 1..n : l \in SetOf(new[i].logs)  BY <1>3 DEF Waiting
  <2>2. l \in Waiting(bs) <=> \E i \in 1..n : l \in SetOf(bs[i].logs)  BY <1>1 DEF Waiting
  <2>3. SetOf(new[n].logs) = SetOf(bs[n].logs) \cup SetOf(logs)  BY <1>3, <1>4 DEF old
  <2> QED BY <2>1, <2>2, <2>3, <1>1, <1>3
<1> QED BY <1>5 DEF new, n

\* The first log goes, and is before all others.
LEMMA WaitingRest ==
  ASSUME NEW bs, NEW top \in Nat, Numbered(bs, top), bs # <<>>
  PROVE  /\ bs[1].logs[1] \in Waiting(bs)
         /\ Waiting(Rest(bs)) = Waiting(bs) \ {bs[1].logs[1]}
         /\ \A l \in Waiting(Rest(bs)) : bs[1].logs[1].no < l.no
<1> DEFINE logs == bs[1].logs
           log == logs[1]
           tail == Tail(logs)
           rest == [logs |-> tail, at |-> bs[1].at, begun |-> TRUE]
           new == Rest(bs)
<1>1. bs \in Seq(Blocks) /\ Len(bs) \in Nat \ {0} /\ 1 \in 1..Len(bs) /\ DOMAIN bs = 1..Len(bs)  BY DEF Numbered
<1>2. logs \in Seq(Logs) /\ Len(logs) \in Nat \ {0} /\ DOMAIN logs = 1..Len(logs)
  BY <1>1, NumbersType
<1>3. log \in Waiting(bs)
  <2>1. 1 \in DOMAIN logs  BY <1>2
  <2> QED BY <1>1, <2>1 DEF Waiting, SetOf
<1>4. Numbered(new, top) /\ After(new, log.no)  BY NumberedRest
<1>5. ASSUME NEW l \in Waiting(new) PROVE log.no < l.no /\ l # log
  <2> HIDE DEF new, log
  <2>0. PICK i \in 1..Len(new) : \E j \in 1..Len(new[i].logs) : l = new[i].logs[j]  BY <1>4, <1>5, WaitingIs
  <2>1. PICK j \in 1..Len(new[i].logs) : l = new[i].logs[j]  BY <2>0
  <2>2. log.no < l.no  BY <1>4, <2>1 DEF After
  <2>3. l.no \in Nat  BY <1>4, <2>1, NumbersType
  <2> QED BY <2>2, <2>3
<1>6. tail \in Seq(Logs) /\ Len(tail) = Len(logs) - 1 /\ DOMAIN tail = 1..Len(tail)
      /\ \A j \in 1..Len(tail) : j + 1 \in 1..Len(logs) /\ tail[j] = logs[j + 1]
  BY <1>2
<1>7. SetOf(logs) = SetOf(tail) \cup {log}
  <2> HIDE DEF tail, logs
  <2>1. ASSUME NEW j \in DOMAIN logs PROVE logs[j] \in SetOf(tail) \cup {logs[1]}
    <3>1. CASE j = 1  BY <3>1
    <3>2. CASE j # 1
      <4>1. j - 1 \in DOMAIN tail /\ tail[j - 1] = logs[j]  BY <1>2, <1>6, <3>2
      <4> QED BY <4>1 DEF SetOf
    <3> QED BY <3>1, <3>2
  <2>2. ASSUME NEW j \in DOMAIN tail PROVE tail[j] \in SetOf(logs)
    <3>1. j + 1 \in DOMAIN logs /\ tail[j] = logs[j + 1]  BY <1>2, <1>6
    <3> QED BY <3>1 DEF SetOf
  <2>3. 1 \in DOMAIN logs  BY <1>2
  <2>4. \A l \in SetOf(logs) : l \in SetOf(tail) \cup {log}  BY <2>1 DEF SetOf
  <2>5. \A l \in SetOf(tail) : l \in SetOf(logs)  BY <2>2 DEF SetOf
  <2>6. log \in SetOf(logs)  BY <2>3 DEF SetOf
  <2> QED BY <2>4, <2>5, <2>6
<1>8. ASSUME NEW l PROVE l \in Waiting(new) \cup {log} <=> l \in Waiting(bs)
  <2>0. l \in Waiting(bs) <=> l \in SetOf(logs) \/ \E i \in 2..Len(bs) : l \in SetOf(bs[i].logs)
    <3>1. \A i \in 1..Len(bs) : i = 1 \/ i \in 2..Len(bs)  BY <1>1
    <3>2. \A i \in 2..Len(bs) : i \in 1..Len(bs)  BY <1>1
    <3>3. l \in Waiting(bs) <=> \E i \in 1..Len(bs) : l \in SetOf(bs[i].logs)  BY <1>1 DEF Waiting
    <3> HIDE DEF logs
    <3> QED BY <1>1, <3>1, <3>2, <3>3 DEF logs
  <2>1. CASE tail = <<>>
    <3>1. new = Tail(bs)  BY <2>1 DEF Rest
    <3>2. Len(new) = Len(bs) - 1 /\ DOMAIN new = 1..Len(new) /\ \A i \in 1..Len(new) : new[i] = bs[i + 1]
      BY <1>1, <3>1
    <3>3. SetOf(tail) = {}  BY <2>1 DEF SetOf
    <3>4. l \in Waiting(new) <=> \E i \in 1..Len(new) : l \in SetOf(new[i].logs)  BY <3>2 DEF Waiting
    <3> HIDE DEF new, tail, logs, log
    <3>5. (\E i \in 1..Len(new) : l \in SetOf(new[i].logs)) <=> \E i \in 2..Len(bs) : l \in SetOf(bs[i].logs)
      <4>1. \A i \in 1..Len(new) : i + 1 \in 2..Len(bs) /\ new[i] = bs[i + 1]  BY <1>1, <3>2
      <4>2. \A i \in 2..Len(bs) : i - 1 \in 1..Len(new) /\ new[i - 1] = bs[i]  BY <1>1, <3>2
      <4> QED BY <4>1, <4>2
    <3> QED BY <1>7, <2>0, <3>3, <3>4, <3>5
  <2>2. CASE tail # <<>>
    <3>1. new = [bs EXCEPT ![1] = rest]  BY <2>2 DEF Rest
    <3>2. DOMAIN new = 1..Len(bs) /\ new[1].logs = tail /\ \A i \in 2..Len(bs) : new[i] = bs[i]
      BY <1>1, <3>1
    <3>3. l \in Waiting(new) <=> \E i \in 1..Len(bs) : l \in SetOf(new[i].logs)  BY <3>2 DEF Waiting
    <3> HIDE DEF new, tail, logs, log
    <3>4. \A i \in 1..Len(bs) : i = 1 \/ i \in 2..Len(bs)  BY <1>1
    <3>5. \A i \in 2..Len(bs) : i \in 1..Len(bs)  BY <1>1
    <3>6. l \in Waiting(new) <=> l \in SetOf(tail) \/ \E i \in 2..Len(bs) : l \in SetOf(bs[i].logs)
      BY <1>1, <3>2, <3>3, <3>4, <3>5
    <3> QED BY <1>7, <2>0, <3>6
  <2> QED BY <2>1, <2>2
<1>9. Waiting(new) \cup {log} = Waiting(bs)  BY <1>8
<1> HIDE DEF new, log
<1>10. Waiting(new) = Waiting(bs) \ {log}  BY <1>5, <1>9
<1> QED BY <1>3, <1>5, <1>10 DEF new, log, logs

-----------------------------------------------------------------------------
(* Supply and balances as of a set of transfers that wait *)

Minted(l) == (IF l.from = Zero THEN l.n ELSE 0) - (IF l.to = Zero THEN l.n ELSE 0)
Received(l, a) == (IF l.to = a THEN l.n ELSE 0) - (IF l.from = a THEN l.n ELSE 0)

TransfersOf(bs) == {l \in Waiting(bs) : l.kind = "Transfer"}
SupplyAt(t, S) == t.supply - SumFunction([l \in S |-> Minted(l)])
BalanceAt(t, S, a) == t.held[a] - SumFunction([l \in S |-> Received(l, a)])

LEMMA NowIs ==
  ASSUME NEW c \in Chains
  PROVE  /\ SupplyNow(c) = SupplyAt(tip[c], TransfersOf(blocks[c]))
         /\ \A a : BalanceNow(c, a) = BalanceAt(tip[c], TransfersOf(blocks[c]), a)
         /\ SupplyNow(c)' = SupplyAt(tip'[c], TransfersOf(blocks'[c]))
         /\ \A a : BalanceNow(c, a)' = BalanceAt(tip'[c], TransfersOf(blocks'[c]), a)
<1>1. ComingTransfers(c) = TransfersOf(blocks[c]) /\ ComingTransfers(c)' = TransfersOf(blocks'[c])
  BY DEF ComingTransfers, Coming, TransfersOf, Waiting, SetOf
<1> QED BY <1>1 DEF SupplyNow, BalanceNow, SupplyAt, BalanceAt, Minted, Received

LEMMA AmountsType ==
  ASSUME NEW l \in Logs, NEW a
  PROVE  Minted(l) \in Int /\ Received(l, a) \in Int
<1>1. l.n \in Nat  BY DEF Logs
<1> QED BY <1>1 DEF Minted, Received

LEMMA SumsType ==
  ASSUME NEW S \in SUBSET Logs, IsFiniteSet(S), NEW a
  PROVE  IsSummable([l \in S |-> Minted(l)]) /\ IsSummable([l \in S |-> Received(l, a)])
<1>1. \A l \in S : Minted(l) \in Int /\ Received(l, a) \in Int  BY AmountsType
<1> QED BY <1>1 DEF IsSummable

\* A transfer more or less.
LEMMA SumsMore ==
  ASSUME NEW S \in SUBSET Logs, IsFiniteSet(S), NEW a, NEW log \in Logs, log \notin S
  PROVE  /\ SumFunction([l \in S \cup {log} |-> Minted(l)]) = SumFunction([l \in S |-> Minted(l)]) + Minted(log)
         /\ SumFunction([l \in S \cup {log} |-> Received(l, a)]) = SumFunction([l \in S |-> Received(l, a)]) + Received(log, a)
<1> DEFINE w == [l \in S |-> Minted(l)]
           v == [l \in S \cup {log} |-> Minted(l)]
           y == [l \in S |-> Received(l, a)]
           x == [l \in S \cup {log} |-> Received(l, a)]
<1>1. IsSummable(w) /\ IsSummable(y)  BY SumsType
<1>2. /\ DOMAIN w = S /\ DOMAIN v = S \cup {log} /\ v[log] = Minted(log) /\ \A l \in S : v[l] = w[l]
      /\ DOMAIN y = S /\ DOMAIN x = S \cup {log} /\ x[log] = Received(log, a) /\ \A l \in S : x[l] = y[l]
  OBVIOUS
<1>3. Minted(log) \in Int /\ Received(log, a) \in Int  BY AmountsType
<1> HIDE DEF v, w, x, y
<1>4. SumFunction(v) = SumFunction(w) + v[log]  BY <1>1, <1>2, <1>3, SumOfNew
<1>5. SumFunction(x) = SumFunction(y) + x[log]  BY <1>1, <1>2, <1>3, SumOfNew
<1>6. SumFunction(v) = SumFunction(w) + Minted(log)  BY <1>2, <1>4
<1>7. SumFunction(x) = SumFunction(y) + Received(log, a)  BY <1>2, <1>5
<1> QED BY <1>6, <1>7 DEF v, w, x, y

LEMMA AtType ==
  ASSUME NEW S \in SUBSET Logs, IsFiniteSet(S), NEW a, NEW t, t.supply \in Int, t.held[a] \in Int
  PROVE  SupplyAt(t, S) \in Int /\ BalanceAt(t, S, a) \in Int
<1> DEFINE w == [l \in S |-> Minted(l)]
           y == [l \in S |-> Received(l, a)]
<1>1. IsSummable(w) /\ IsSummable(y)  BY SumsType
<1> HIDE DEF w, y
<1>2. SumFunction(w) \in Int /\ SumFunction(y) \in Int  BY <1>1, SumType
<1> QED BY <1>2 DEF SupplyAt, BalanceAt, w, y

\* Indexing a transfer moves what is indexed by it.
LEMMA AtTaken ==
  ASSUME NEW S \in SUBSET Logs, IsFiniteSet(S), NEW log \in S, NEW a, NEW t, t.supply \in Int, t.held[a] \in Int
  PROVE  /\ SupplyAt(t, S \ {log}) = SupplyAt(t, S) + Minted(log)
         /\ BalanceAt(t, S \ {log}, a) = BalanceAt(t, S, a) + Received(log, a)
<1> DEFINE R == S \ {log}
           sumR == SumFunction([l \in R |-> Minted(l)])
           sumS == SumFunction([l \in S |-> Minted(l)])
           recR == SumFunction([l \in R |-> Received(l, a)])
           recS == SumFunction([l \in S |-> Received(l, a)])
<1>1. R \in SUBSET Logs /\ IsFiniteSet(R) /\ log \in Logs /\ log \notin R /\ S = R \cup {log}
  BY FS_RemoveElement
<1> HIDE DEF R
<1>2. SumFunction([l \in R \cup {log} |-> Minted(l)]) = sumR + Minted(log)
      /\ SumFunction([l \in R \cup {log} |-> Received(l, a)]) = recR + Received(log, a)
  BY <1>1, SumsMore
<1>3. sumS = sumR + Minted(log) /\ recS = recR + Received(log, a)
  BY <1>1, <1>2
<1>4. Minted(log) \in Int /\ Received(log, a) \in Int  BY <1>1, AmountsType
<1>5. sumR \in Int /\ recR \in Int
  <2> DEFINE w == [l \in R |-> Minted(l)]
             y == [l \in R |-> Received(l, a)]
  <2>1. IsSummable(w) /\ IsSummable(y)  BY <1>1, SumsType
  <2> HIDE DEF w, y
  <2>2. SumFunction(w) \in Int /\ SumFunction(y) \in Int  BY <2>1, SumType
  <2> QED BY <2>2 DEF w, y
<1>6. /\ SupplyAt(t, R) = t.supply - sumR /\ SupplyAt(t, S) = t.supply - sumS
      /\ BalanceAt(t, R, a) = t.held[a] - recR /\ BalanceAt(t, S, a) = t.held[a] - recS
  BY DEF SupplyAt, BalanceAt
<1> HIDE DEF sumR, sumS, recR, recS
<1>7. /\ SupplyAt(t, R) = SupplyAt(t, S) + Minted(log)
      /\ BalanceAt(t, R, a) = BalanceAt(t, S, a) + Received(log, a)
  BY <1>3, <1>4, <1>5, <1>6
<1> QED BY <1>7 DEF R

\* A transfer on the chain that waits moves nothing of what is indexed.
LEMMA AtMoved ==
  ASSUME NEW S \in SUBSET Logs, IsFiniteSet(S), NEW log \in Logs, log \notin S, NEW a \in Addresses, NEW t \in States
  PROVE  /\ SupplyAt(Move(t, log.from, log.to, log.n), S \cup {log}) = SupplyAt(t, S)
         /\ BalanceAt(Move(t, log.from, log.to, log.n), S \cup {log}, a) = BalanceAt(t, S, a)
<1> DEFINE m == Move(t, log.from, log.to, log.n)
           T == S \cup {log}
           sumT == SumFunction([l \in T |-> Minted(l)])
           sumS == SumFunction([l \in S |-> Minted(l)])
           recT == SumFunction([l \in T |-> Received(l, a)])
           recS == SumFunction([l \in S |-> Received(l, a)])
<1>1. t.supply \in Int /\ t.held[a] \in Int /\ log.n \in Nat  BY DEF States, Logs
<1>2. m.supply = t.supply + Minted(log) /\ m.held[a] = t.held[a] + Received(log, a)
  <2>1. m.supply = t.supply + (IF log.from = Zero THEN log.n ELSE 0) - (IF log.to = Zero THEN log.n ELSE 0)
    BY DEF Move
  <2>2. m.held[a] = t.held[a] + (IF a = log.to THEN log.n ELSE 0) - (IF a = log.from THEN log.n ELSE 0)
    BY DEF Move
  <2> HIDE DEF m
  <2> QED BY <1>1, <2>1, <2>2 DEF Minted, Received
<1>3. sumT = sumS + Minted(log) /\ recT = recS + Received(log, a)  BY SumsMore
<1>4. Minted(log) \in Int /\ Received(log, a) \in Int  BY AmountsType
<1>5. sumS \in Int /\ recS \in Int
  <2> DEFINE w == [l \in S |-> Minted(l)]
             y == [l \in S |-> Received(l, a)]
  <2>1. IsSummable(w) /\ IsSummable(y)  BY SumsType
  <2> HIDE DEF w, y
  <2>2. SumFunction(w) \in Int /\ SumFunction(y) \in Int  BY <2>1, SumType
  <2> QED BY <2>2 DEF w, y
<1>6. /\ SupplyAt(m, T) = m.supply - sumT /\ SupplyAt(t, S) = t.supply - sumS
      /\ BalanceAt(m, T, a) = m.held[a] - recT /\ BalanceAt(t, S, a) = t.held[a] - recS
  BY DEF SupplyAt, BalanceAt
<1> HIDE DEF m, T, sumT, sumS, recT, recS
<1>7. SupplyAt(m, T) = SupplyAt(t, S) /\ BalanceAt(m, T, a) = BalanceAt(t, S, a)
  BY <1>1, <1>2, <1>3, <1>4, <1>5, <1>6
<1> QED BY <1>7 DEF m, T

\* Every transfer that waits is covered by what its sender has just before it.
From(S, no) == {x \in S : x.no >= no}
Covered(t, S) == \A l \in S : l.from \in Addresses => BalanceAt(t, From(S, l.no), l.from) >= l.n

LEMMA CoveredMore ==
  ASSUME NEW S \in SUBSET Logs, IsFiniteSet(S), NEW log \in Logs, \A x \in S : x.no < log.no, NEW t \in States,
         Covered(t, S), log.from \in Addresses => t.held[log.from] >= log.n
  PROVE  Covered(Move(t, log.from, log.to, log.n), S \cup {log})
<1> DEFINE m == Move(t, log.from, log.to, log.n)
           T == S \cup {log}
<1>1. \A x \in T : x.no \in Nat  BY DEF Logs
<1>2. ASSUME NEW l \in S, l.from \in Addresses PROVE BalanceAt(m, From(T, l.no), l.from) >= l.n
  <2> DEFINE R == From(S, l.no)
  <2>1. From(T, l.no) = R \cup {log}
    <3>1. l.no < log.no /\ l.no \in Nat /\ log.no \in Nat  BY <1>1
    <3>2. log.no >= l.no  BY <3>1
    <3> QED BY <3>2 DEF From
  <2>2. R \in SUBSET Logs /\ IsFiniteSet(R) /\ log \notin R
    <3>1. R \subseteq S  BY DEF From
    <3>2. log \notin S
      <4>1. log.no \in Nat  BY <1>1
      <4> QED BY <4>1
    <3> QED BY <3>1, <3>2, FS_Subset
  <2> HIDE DEF R
  <2>3. BalanceAt(m, R \cup {log}, l.from) = BalanceAt(t, R, l.from)  BY <1>2, <2>2, AtMoved
  <2>4. BalanceAt(t, R, l.from) >= l.n  BY <1>2 DEF Covered, R
  <2> HIDE DEF m, T
  <2> QED BY ONLY <2>1, <2>3, <2>4
<1>3. ASSUME log.from \in Addresses PROVE BalanceAt(m, From(T, log.no), log.from) >= log.n
  <2>1. From(T, log.no) = {} \cup {log}
    <3>1. \A x \in S : ~(x.no >= log.no)  BY <1>1
    <3>2. log.no >= log.no  BY <1>1
    <3> QED BY <3>1, <3>2 DEF From
  <2>2. BalanceAt(m, {} \cup {log}, log.from) = BalanceAt(t, {}, log.from)
    BY <1>3, AtMoved, FS_EmptySet
  <2>3. SumFunction([l \in {} |-> Received(l, log.from)]) = 0
    <3> DEFINE w == [l \in {} |-> Received(l, log.from)]
    <3>1. DOMAIN w = {}  OBVIOUS
    <3> HIDE DEF w
    <3>2. SumFunction(w) = 0  BY <3>1, SumOfNone
    <3> QED BY <3>2 DEF w
  <2>4. t.held[log.from] \in Nat /\ t.held[log.from] >= log.n  BY <1>3 DEF States
  <2>5. BalanceAt(t, {}, log.from) = t.held[log.from] - 0  BY <2>3 DEF BalanceAt
  <2> HIDE DEF m, T
  <2>6. BalanceAt(t, {}, log.from) = t.held[log.from]  BY ONLY <2>4, <2>5
  <2> QED BY ONLY <2>1, <2>2, <2>4, <2>6
<1> QED BY <1>2, <1>3 DEF Covered

LEMMA CoveredLess ==
  ASSUME NEW S \in SUBSET Logs, NEW t, Covered(t, S), NEW log \in S, \A x \in S \ {log} : log.no < x.no
  PROVE  /\ Covered(t, S \ {log})
         /\ log.from \in Addresses => BalanceAt(t, S, log.from) >= log.n
<1>1. \A x \in S : x.no \in Nat  BY DEF Logs
<1>2. ASSUME NEW l \in S \ {log} PROVE From(S \ {log}, l.no) = From(S, l.no)
  <2>1. log.no < l.no /\ log.no \in Nat /\ l.no \in Nat  BY <1>1
  <2>2. ~(log.no >= l.no)  BY <2>1
  <2> QED BY <2>2 DEF From
<1>3. From(S, log.no) = S
  <2>1. \A x \in S : x.no >= log.no  BY <1>1
  <2> QED BY <2>1 DEF From
<1> QED BY <1>2, <1>3 DEF Covered

-----------------------------------------------------------------------------
(* What the handlers do to the issuance of an instance and to a balance *)

LEMMA ChangeIssues ==
  ASSUME NEW d, Shaped(d), NEW c \in DOMAIN d.instance, NEW n, NEW e, e = ChangeIssuance(d, c, n)
  PROVE  /\ DOMAIN e.instance = DOMAIN d.instance /\ e.position = d.position
         /\ e.instance[c].issuance = d.instance[c].issuance + n
         /\ \A i \in DOMAIN d.instance : i # c => e.instance[i].issuance = d.instance[i].issuance
<1> DEFINE f == [d EXCEPT !.instance[c].issuance = @ + n]
           sum == SumFunction([i \in DOMAIN f.instance |-> f.instance[i].issuance])
<1>1. /\ DOMAIN f = DOMAIN d /\ DOMAIN f.instance = DOMAIN d.instance /\ f.position = d.position
      /\ f.instance[c].issuance = d.instance[c].issuance + n
      /\ \A i \in DOMAIN d.instance : i # c => f.instance[i].issuance = d.instance[i].issuance
  BY DEF Shaped
<1>2. e = [f EXCEPT !.token.issuance = sum]  BY DEF ChangeIssuance, SyncIssuance
<1> HIDE DEF f, sum
<1>3. e.instance = f.instance /\ e.position = f.position  BY <1>1, <1>2 DEF Shaped
<1> QED BY <1>1, <1>3

\* A row, or a new one, has a balance.
Holding(d) == \A k : "balance" \in DOMAIN Was(d, k) /\ Was(d, k).balance \in Nat

LEMMA ExplainedHolds == ASSUME NEW d, Explained(d) PROVE Holding(d)
<1>1. \A k : IsPosition(Was(d, k))  BY ExplainedOr
<1> QED BY <1>1 DEF Holding, IsPosition

\* One side of a transfer.
LEMMA ChangeMoves ==
  ASSUME NEW d, Shaped(d), Holding(d), NEW c, NEW a, NEW net \in Int, NEW no,
         NEW e, e = ApplyNetPositionChange(d, c, a, net, no)
  PROVE  /\ e.instance = d.instance /\ Holding(e)
         /\ PositionOf(d, c, a) + net >= 0 => PositionOf(e, c, a) = PositionOf(d, c, a) + net
         /\ \A i, b : <<i, b>> # <<c, a>> => PositionOf(e, i, b) = PositionOf(d, i, b)
<1> DEFINE k == <<c, a>>
           p == RowOr(d.position, k, NewPosition)
           price == d.instance[c].price
           cp == Checkpoint(p, net, price)
           up == [p EXCEPT !.balance = @ + net]
           row == [balance |-> p.balance + net, lastPrice |-> price,
                   earnings |-> p.earnings + cp.earnings, cost |-> p.cost + cp.cost,
                   realized |-> p.realized + cp.realized]
           checks == Insert(d.checkpoint, <<c, a, no>>, cp)
<1>1. "balance" \in DOMAIN p /\ p.balance \in Nat /\ PositionOf(d, c, a) = p.balance
  BY DEF Was, PositionOf, Holding
<1>2. "balance" \in DOMAIN up /\ up.balance = p.balance + net /\ "balance" \in DOMAIN row /\ row.balance = p.balance + net
  BY <1>1
<1>3. \/ p.balance + net < 0 /\ e = [d EXCEPT !.position = Put(@, k, p)]
      \/ p.balance + net >= 0 /\ e = [d EXCEPT !.position = Put(@, k, up)]
      \/ ~(p.balance + net < 0) /\ e = [d EXCEPT !.checkpoint = checks, !.position = Put(@, k, row)]
  BY DEF ApplyNetPositionChange
<1> HIDE DEF p, up, row, checks, k, cp, price
<1>4. PICK r : /\ e.instance = d.instance /\ e.position = Put(d.position, k, r)
               /\ "balance" \in DOMAIN r /\ r.balance \in Nat
               /\ p.balance + net >= 0 => r.balance = p.balance + net
  <2>1. CASE p.balance + net < 0 /\ e = [d EXCEPT !.position = Put(@, k, p)]
    <3>1. e.instance = d.instance /\ e.position = Put(d.position, k, p)  BY <2>1 DEF Shaped
    <3>2. ~(p.balance + net >= 0)  BY <1>1, <2>1
    <3> QED BY <1>1, <3>1, <3>2
  <2>2. CASE p.balance + net >= 0 /\ e = [d EXCEPT !.position = Put(@, k, up)]
    <3>1. e.instance = d.instance /\ e.position = Put(d.position, k, up)  BY <2>2 DEF Shaped
    <3>2. up.balance \in Nat  BY <1>1, <1>2, <2>2
    <3> QED BY <1>2, <3>1, <3>2
  <2>3. CASE ~(p.balance + net < 0) /\ e = [d EXCEPT !.checkpoint = checks, !.position = Put(@, k, row)]
    <3>1. e.instance = d.instance /\ e.position = Put(d.position, k, row)  BY <2>3 DEF Shaped
    <3>2. row.balance \in Nat  BY <1>1, <1>2, <2>3
    <3> QED BY <1>2, <3>1, <3>2
  <2> QED BY <1>3, <2>1, <2>2, <2>3
<1>5. Was(e, k) = r  BY <1>4 DEF Was, RowOr, Has, Put
<1>6. ASSUME NEW j, j # k PROVE Was(e, j) = Was(d, j)
  BY <1>4, <1>6 DEF Was, RowOr, Has, Put
<1>7. PositionOf(e, c, a) = r.balance  BY <1>5 DEF PositionOf, Was, k
<1>8. \A i, b : <<i, b>> # k => PositionOf(e, i, b) = PositionOf(d, i, b)  BY <1>6 DEF PositionOf, Was
<1>9. Holding(e)
  <2> SUFFICES ASSUME NEW j PROVE "balance" \in DOMAIN Was(e, j) /\ Was(e, j).balance \in Nat
    BY DEF Holding
  <2> QED BY <1>4, <1>5, <1>6 DEF Holding
<1> QED BY <1>1, <1>4, <1>7, <1>8, <1>9 DEF k

\* A transfer whose sender is covered moves the issuance and the balances of its own chain.
LEMMA TransferMoves ==
  ASSUME NEW d, Shaped(d), Holding(d), NEW c \in DOMAIN d.instance, NEW log, log.n \in Nat,
         log.from # Zero \/ log.to # Zero, NEW e, e = OnTransfer(d, c, log)
  PROVE  /\ DOMAIN e.instance = DOMAIN d.instance
         /\ d.instance[c].issuance \in Int => e.instance[c].issuance = d.instance[c].issuance + Minted(log)
         /\ \A i \in DOMAIN d.instance : i # c => e.instance[i].issuance = d.instance[i].issuance
         /\ \A a \in Users : (log.from = a => PositionOf(d, c, a) >= log.n)
                                => PositionOf(e, c, a) = PositionOf(d, c, a) + Received(log, a)
         /\ \A i, a : i # c => PositionOf(e, i, a) = PositionOf(d, i, a)
<1> DEFINE n == log.n
           m == -n
           d1 == IF log.from = Zero THEN ChangeIssuance(d, c, n)
                 ELSE IF log.to = Zero THEN ChangeIssuance(d, c, m) ELSE d
           d2 == IF log.from \in Users THEN ApplyNetPositionChange(d1, c, log.from, m, log.no) ELSE d1
           d3 == IF log.to \in Users THEN ApplyNetPositionChange(d2, c, log.to, n, log.no) ELSE d2
<1>1. e = d3  BY DEF OnTransfer, Has
<1>2. n \in Nat /\ n \in Int /\ m \in Int /\ m = -n  OBVIOUS
<1>3. Minted(log) = IF log.from = Zero THEN n ELSE IF log.to = Zero THEN m ELSE 0
  BY DEF Minted
<1>4. \A a : Received(log, a) = (IF log.to = a THEN n ELSE 0) - (IF log.from = a THEN n ELSE 0)
  BY DEF Received
<1> HIDE DEF n, m
<1>5. /\ Shaped(d1) /\ DOMAIN d1.instance = DOMAIN d.instance /\ d1.position = d.position
      /\ d.instance[c].issuance \in Int => d1.instance[c].issuance = d.instance[c].issuance + Minted(log)
      /\ \A i \in DOMAIN d.instance : i # c => d1.instance[i].issuance = d.instance[i].issuance
  <2>1. CASE log.from = Zero
    <3>1. d1 = ChangeIssuance(d, c, n) /\ Minted(log) = n  BY <1>3, <2>1
    <3> HIDE DEF d1
    <3> QED BY <3>1, ChangeIssues, ChangeKept DEF Kept
  <2>2. CASE log.from # Zero /\ log.to = Zero
    <3>1. d1 = ChangeIssuance(d, c, m) /\ Minted(log) = m  BY <1>3, <2>2
    <3> HIDE DEF d1
    <3> QED BY <3>1, ChangeIssues, ChangeKept DEF Kept
  <2>3. CASE log.from # Zero /\ log.to # Zero
    <3>1. d1 = d /\ Minted(log) = 0  BY <1>3, <2>3
    <3> HIDE DEF d1
    <3> QED BY <3>1
  <2> QED BY <2>1, <2>2, <2>3
<1>6. Holding(d1) /\ \A i, a : PositionOf(d1, i, a) = PositionOf(d, i, a)
  BY <1>5 DEF Holding, Was, PositionOf
<1> HIDE DEF d1
<1>7. /\ Shaped(d2) /\ Holding(d2) /\ d2.instance = d1.instance
      /\ log.from \in Users /\ PositionOf(d1, c, log.from) + m >= 0
            => PositionOf(d2, c, log.from) = PositionOf(d1, c, log.from) + m
      /\ \A i, a : <<i, a>> # <<c, log.from>> \/ log.from \notin Users => PositionOf(d2, i, a) = PositionOf(d1, i, a)
  <2>1. CASE log.from \in Users
    <3>1. d2 = ApplyNetPositionChange(d1, c, log.from, m, log.no)  BY <2>1
    <3> HIDE DEF d2
    <3>2. Shaped(d2)  BY <1>5, <3>1, PositionChangeKept DEF Kept
    <3> QED BY <1>2, <1>5, <1>6, <2>1, <3>1, <3>2, ChangeMoves
  <2>2. CASE log.from \notin Users
    <3>1. d2 = d1  BY <2>2
    <3> HIDE DEF d2
    <3> QED BY <1>5, <1>6, <2>2, <3>1
  <2> QED BY <2>1, <2>2
<1> HIDE DEF d2
<1>8. /\ d3.instance = d2.instance
      /\ log.to \in Users /\ PositionOf(d2, c, log.to) + n >= 0
            => PositionOf(d3, c, log.to) = PositionOf(d2, c, log.to) + n
      /\ \A i, a : <<i, a>> # <<c, log.to>> \/ log.to \notin Users => PositionOf(d3, i, a) = PositionOf(d2, i, a)
  <2>1. CASE log.to \in Users
    <3>1. d3 = ApplyNetPositionChange(d2, c, log.to, n, log.no)  BY <2>1
    <3> HIDE DEF d3
    <3> QED BY <1>2, <1>7, <2>1, <3>1, ChangeMoves
  <2>2. CASE log.to \notin Users
    <3>1. d3 = d2  BY <2>2
    <3> HIDE DEF d3
    <3> QED BY <2>2, <3>1
  <2> QED BY <2>1, <2>2
<1> HIDE DEF d3
<1>9. \A a : PositionOf(d, c, a) \in Nat /\ PositionOf(d2, c, a) \in Nat
  BY <1>7 DEF Holding, Was, PositionOf
<1>10. ASSUME NEW a \in Users, log.from = a => PositionOf(d, c, a) >= n
       PROVE  PositionOf(d3, c, a) = PositionOf(d, c, a) + Received(log, a)
  <2> DEFINE x == PositionOf(d, c, a)
             y == PositionOf(d2, c, a)
             z == PositionOf(d3, c, a)
  <2>1. y = x + (IF log.from = a THEN m ELSE 0)
    <3>1. CASE log.from = a
      <4>1. PositionOf(d1, c, log.from) = x /\ x \in Nat /\ x >= n  BY <1>6, <1>9, <1>10, <3>1
      <4> HIDE DEF x
      <4>2. PositionOf(d1, c, log.from) + m >= 0  BY <1>2, <4>1
      <4>3. PositionOf(d2, c, log.from) = PositionOf(d1, c, log.from) + m  BY <1>7, <3>1, <4>2
      <4> QED BY <3>1, <4>1, <4>3
    <3>2. CASE log.from # a
      <4>1. <<c, a>> # <<c, log.from>>  BY <3>2
      <4>2. y = x  BY <1>6, <1>7, <4>1
      <4> QED BY <1>9, <3>2, <4>2
    <3> QED BY <3>1, <3>2
  <2>2. z = y + (IF log.to = a THEN n ELSE 0)
    <3>1. CASE log.to = a
      <4>1. PositionOf(d2, c, log.to) = y /\ y \in Nat  BY <1>9, <3>1
      <4> HIDE DEF y
      <4>2. PositionOf(d2, c, log.to) + n >= 0  BY <1>2, <4>1
      <4>3. PositionOf(d3, c, log.to) = PositionOf(d2, c, log.to) + n  BY <1>8, <3>1, <4>2
      <4> QED BY <3>1, <4>1, <4>3
    <3>2. CASE log.to # a
      <4>1. <<c, a>> # <<c, log.to>>  BY <3>2
      <4>2. z = y  BY <1>8, <4>1
      <4> QED BY <1>9, <3>2, <4>2
    <3> QED BY <3>1, <3>2
  <2>3. x \in Nat  BY <1>9
  <2>4. Received(log, a) = (IF log.to = a THEN n ELSE 0) - (IF log.from = a THEN n ELSE 0)  BY <1>4
  <2> HIDE DEF x, y, z
  <2>5. z = x + Received(log, a)  BY ONLY <1>2, <2>1, <2>2, <2>3, <2>4
  <2> QED BY <2>5 DEF x, z
<1>11. ASSUME NEW i, NEW a, i # c PROVE PositionOf(d3, i, a) = PositionOf(d, i, a)
  <2>1. <<i, a>> # <<c, log.from>> /\ <<i, a>> # <<c, log.to>>  BY <1>11
  <2> QED BY <1>6, <1>7, <1>8, <2>1
<1> QED BY <1>1, <1>5, <1>7, <1>8, <1>10, <1>11 DEF n

\* What else is written leaves the issuance and the balances of a chain alone.
Unmoved(d, e, i) == /\ Has(e.instance, i) <=> Has(d.instance, i)
                    /\ Has(d.instance, i) => e.instance[i].issuance = d.instance[i].issuance
                    /\ \A a : PositionOf(e, i, a) = PositionOf(d, i, a)

LEMMA PriceMovesNothing ==
  ASSUME NEW d, Shaped(d), NEW c, NEW price, NEW i PROVE Unmoved(d, OnUpdateSharePrice(d, c, price), i)
<1> DEFINE e == OnUpdateSharePrice(d, c, price)
<1>1. e.position = d.position /\ DOMAIN e.instance = DOMAIN d.instance
  BY DEF OnUpdateSharePrice, Shaped, Has
<1>2. \A j \in DOMAIN d.instance : e.instance[j].issuance = d.instance[j].issuance
  BY DEF OnUpdateSharePrice, Shaped, Has
<1> HIDE DEF e
<1>3. Unmoved(d, e, i)  BY <1>1, <1>2 DEF Unmoved, Has, PositionOf
<1> QED BY <1>3 DEF e

LEMMA HubMovesNothing ==
  ASSUME NEW d, Shaped(d), NEW decimals \in BOOLEAN, NEW i
  PROVE  Unmoved(d, OnNewPool(d, decimals), i) /\ Unmoved(d, OnHubAddShareClass(d, decimals), i)
<1> DEFINE e == OnNewPool(d, decimals)
           f == OnHubAddShareClass(d, decimals)
<1>1. e.position = d.position /\ e.instance = d.instance  BY DEF OnNewPool, Shaped
<1>2. f.position = d.position /\ DOMAIN f.instance = DOMAIN d.instance
  BY DEF OnHubAddShareClass, Shaped
<1>3. \A j \in DOMAIN d.instance : f.instance[j].issuance = d.instance[j].issuance
  BY DEF OnHubAddShareClass, Shaped
<1> HIDE DEF e, f
<1>4. Unmoved(d, e, i)  BY <1>1 DEF Unmoved, PositionOf
<1>5. Unmoved(d, f, i)  BY <1>2, <1>3 DEF Unmoved, Has, PositionOf
<1> QED BY <1>4, <1>5 DEF e, f

LEMMA SpokeClassMovesItself ==
  ASSUME NEW d, Shaped(d), NEW c, NEW supply, NEW held, NEW decimals \in BOOLEAN, NEW i, i # c
  PROVE  Unmoved(d, OnAddShareClass(d, c, supply, held, decimals), i)
<1> DEFINE row == RowOr(d.instance, c, NewInstance)
           holders == IF d.pool /\ row.issuance = 0 THEN InitialHolders ELSE {}
           rows == [k \in {c} \X holders |-> [NewPosition EXCEPT !.balance = held[k[2]]]]
           new == [row EXCEPT !.issuance = supply, !.active = @ \/ d.pool]
           instances == Put(d.instance, c, new)
           token == [d.token EXCEPT !.there = TRUE, !.active = @ \/ d.pool]
           positions == InsertAll(d.position, rows)
           f == [d EXCEPT !.instance = instances, !.token = token, !.position = positions]
           e == OnAddShareClass(d, c, supply, held, decimals)
<1>1. e = IF decimals THEN SyncIssuance(f, c) ELSE d  BY DEF OnAddShareClass
<1>2. Has(instances, i) <=> Has(d.instance, i)
  <2> HIDE DEF new
  <2> QED BY DEF Put, Has
<1>3. Has(d.instance, i) => instances[i] = d.instance[i]
  <2> HIDE DEF new
  <2> QED BY DEF Put, Has
<1>4. \A a : <<i, a>> \in DOMAIN rows => FALSE
  OBVIOUS
<1>5. ASSUME NEW a PROVE RowOr(positions, <<i, a>>, NewPosition) = RowOr(d.position, <<i, a>>, NewPosition)
  <2> DEFINE k == <<i, a>>
  <2>1. k \notin DOMAIN rows  BY <1>4
  <2> HIDE DEF rows, k
  <2>2. RowOr(positions, k, NewPosition) = RowOr(d.position, k, NewPosition)
    BY <2>1 DEF RowOr, Has, InsertAll
  <2> QED BY <2>2 DEF k
<1> HIDE DEF instances, token, positions
<1>6. f.instance = instances /\ f.position = positions /\ Has(f, "token") /\ DOMAIN f = DOMAIN d
  BY DEF Shaped, Has
<1> HIDE DEF f
<1>7. SyncIssuance(f, c).instance = f.instance /\ SyncIssuance(f, c).position = f.position
  BY <1>6 DEF SyncIssuance, Shaped
<1> HIDE DEF e
<1>8. CASE decimals
  <2>1. e.instance = instances /\ e.position = positions  BY <1>1, <1>6, <1>7, <1>8
  <2>2. \A a : PositionOf(e, i, a) = PositionOf(d, i, a)  BY <2>1, <1>5 DEF PositionOf
  <2>3. Unmoved(d, e, i)  BY <2>1, <2>2, <1>2, <1>3 DEF Unmoved
  <2> QED BY <2>3 DEF e
<1>9. CASE ~decimals
  <2>1. e = d  BY <1>1, <1>9
  <2>2. Unmoved(d, e, i)  BY <2>1 DEF Unmoved
  <2> QED BY <2>2 DEF e
<1> QED BY <1>8, <1>9

LEMMA InitPositionMoves ==
  ASSUME NEW d, Shaped(d), NEW c, NEW a, NEW held, NEW e, e = InitPosition(d, c, a, held)
  PROVE  /\ e.instance = d.instance
         /\ \A i, b : \/ PositionOf(e, i, b) = PositionOf(d, i, b)
                      \/ i = c /\ b = a /\ ~Has(d.position, <<c, a>>) /\ PositionOf(e, i, b) = held
<1> DEFINE row == [NewPosition EXCEPT !.balance = held]
           positions == Insert(d.position, <<c, a>>, row)
<1>1. e.instance = d.instance /\ (e.position = positions \/ e.position = d.position)
  BY DEF InitPosition, Shaped
<1>2. row.balance = held  BY DEF NewPosition
<1> HIDE DEF row
<1>3. ASSUME NEW i, NEW b, e.position = positions
      PROVE  \/ PositionOf(e, i, b) = PositionOf(d, i, b)
             \/ i = c /\ b = a /\ ~Has(d.position, <<c, a>>) /\ PositionOf(e, i, b) = held
  <2> DEFINE k == <<i, b>>
             j == <<c, a>>
  <2>0. PositionOf(e, i, b) = RowOr(positions, k, NewPosition).balance /\ PositionOf(d, i, b) = RowOr(d.position, k, NewPosition).balance
    BY <1>3 DEF PositionOf
  <2>1. k = j => i = c /\ b = a  OBVIOUS
  <2> HIDE DEF k
  <2>2. CASE k = j /\ ~Has(d.position, j)
    <3>1. RowOr(positions, k, NewPosition) = row  BY <2>2 DEF RowOr, Insert, Put, Has
    <3> QED BY <1>2, <2>0, <2>1, <2>2, <3>1
  <2>3. CASE k # j \/ Has(d.position, j)
    <3>1. RowOr(positions, k, NewPosition) = RowOr(d.position, k, NewPosition)
      BY <2>3 DEF RowOr, Insert, Put, Has
    <3> QED BY <2>0, <3>1
  <2> QED BY <2>2, <2>3
<1> HIDE DEF positions
<1> QED BY <1>1, <1>3 DEF PositionOf

\* Of the chain's own accounts, those whose row starts.
LEMMA SpokeClassMoves ==
  ASSUME NEW d, Shaped(d), NEW c, NEW supply, NEW held, NEW decimals \in BOOLEAN, NEW a,
         NEW e, e = OnAddShareClass(d, c, supply, held, decimals)
  PROVE  \/ PositionOf(e, c, a) = PositionOf(d, c, a)
         \/ a \in InitialHolders /\ ~Has(d.position, <<c, a>>) /\ PositionOf(e, c, a) = held[a]
<1> DEFINE row == RowOr(d.instance, c, NewInstance)
           holders == IF d.pool /\ row.issuance = 0 THEN InitialHolders ELSE {}
           rows == [k \in {c} \X holders |-> [NewPosition EXCEPT !.balance = held[k[2]]]]
           new == [row EXCEPT !.issuance = supply, !.active = @ \/ d.pool]
           instances == Put(d.instance, c, new)
           token == [d.token EXCEPT !.there = TRUE, !.active = @ \/ d.pool]
           positions == InsertAll(d.position, rows)
           f == [d EXCEPT !.instance = instances, !.token = token, !.position = positions]
           k == <<c, a>>
<1>1. e = IF decimals THEN SyncIssuance(f, c) ELSE d  BY DEF OnAddShareClass
<1>2. k \in DOMAIN rows => a \in InitialHolders /\ rows[k].balance = held[a]
  <2> SUFFICES ASSUME k \in DOMAIN rows PROVE a \in InitialHolders /\ rows[k].balance = held[a]  OBVIOUS
  <2>1. a \in holders /\ k[2] = a  OBVIOUS
  <2> DEFINE n == held[k[2]]
  <2>2. rows[k] = [NewPosition EXCEPT !.balance = n]  OBVIOUS
  <2>3. n = held[a]  BY <2>1
  <2> HIDE DEF n, rows
  <2>4. rows[k].balance = n  BY <2>2 DEF NewPosition
  <2> QED BY <2>1, <2>3, <2>4
<1> HIDE DEF rows, instances, token
<1>3. \/ RowOr(positions, k, NewPosition) = RowOr(d.position, k, NewPosition)
      \/ k \in DOMAIN rows /\ ~Has(d.position, k) /\ RowOr(positions, k, NewPosition) = rows[k]
  <2> HIDE DEF k
  <2> QED BY DEF RowOr, Has, InsertAll
<1> HIDE DEF positions
<1>4. f.position = positions /\ DOMAIN f = DOMAIN d  BY DEF Shaped
<1> HIDE DEF f
<1>5. SyncIssuance(f, c).position = positions  BY <1>4 DEF SyncIssuance, Shaped
<1>6. CASE decimals
  <2>1. e.position = positions  BY <1>1, <1>5, <1>6
  <2>2. PositionOf(e, c, a) = RowOr(positions, k, NewPosition).balance /\ PositionOf(d, c, a) = RowOr(d.position, k, NewPosition).balance
    BY <2>1 DEF PositionOf
  <2> HIDE DEF k
  <2>3. CASE RowOr(positions, k, NewPosition) = RowOr(d.position, k, NewPosition)  BY <2>2, <2>3
  <2>4. CASE k \in DOMAIN rows /\ ~Has(d.position, k) /\ RowOr(positions, k, NewPosition) = rows[k]
    <3>1. PositionOf(e, c, a) = held[a] /\ a \in InitialHolders  BY <1>2, <2>2, <2>4
    <3> QED BY <2>4, <3>1 DEF k
  <2> QED BY <1>3, <2>3, <2>4
<1>7. CASE ~decimals  BY <1>1, <1>7
<1> QED BY <1>6, <1>7

LEMMA TransferMovesItself ==
  ASSUME NEW d, Shaped(d), Holding(d), NEW c, NEW log, log.n \in Nat,
         log.from # Zero \/ log.to # Zero, NEW i, i # c
  PROVE  Unmoved(d, OnTransfer(d, c, log), i)
<1> DEFINE e == OnTransfer(d, c, log)
<1>1. CASE ~Has(d.instance, c)
  <2>1. e = d  BY <1>1 DEF OnTransfer
  <2> HIDE DEF e
  <2>2. Unmoved(d, e, i)  BY <2>1 DEF Unmoved
  <2> QED BY <2>2 DEF e
<1>2. CASE Has(d.instance, c)
  <2>1. c \in DOMAIN d.instance  BY <1>2 DEF Has
  <2>2. /\ DOMAIN e.instance = DOMAIN d.instance
        /\ \A j \in DOMAIN d.instance : j # c => e.instance[j].issuance = d.instance[j].issuance
        /\ \A j, a : j # c => PositionOf(e, j, a) = PositionOf(d, j, a)
    BY <2>1, TransferMoves
  <2> HIDE DEF e
  <2>3. Unmoved(d, e, i)  BY <2>2 DEF Unmoved, Has
  <2> QED BY <2>3 DEF e
<1> QED BY <1>1, <1>2

-----------------------------------------------------------------------------
(* Every step *)

\* Only a chain whose token is registered has logs, all its transfers are covered.
WaitInv ==
  \A c \in Chains :
    /\ IsFiniteSet(Waiting(blocks[c])) /\ Covered(tip[c], TransfersOf(blocks[c]))
    /\ \A l \in TransfersOf(blocks[c]) : l.from # Zero \/ l.to # Zero
    /\ ~Tracked(c) => blocks[c] = <<>> /\ ~Has(db.instance, c)

Follows(c) ==
  Has(db.instance, c)
    => /\ ~Adds(c) /\ db.instance[c].issuance = SupplyNow(c) => db'.instance[c].issuance = SupplyNow(c)'
       /\ \A a \in Users : ~Hasty(c, a) /\ PositionOf(db, c, a) = BalanceNow(c, a)
                            => PositionOf(db', c, a) = BalanceNow(c, a)'

\* Neither the tables nor what was indexed of the chain changes.
LEMMA FollowsUnmoved ==
  ASSUME NEW c \in Chains, Unmoved(db, db', c),
         SupplyAt(tip'[c], TransfersOf(blocks'[c])) = SupplyAt(tip[c], TransfersOf(blocks[c])),
         \A a \in Users : BalanceAt(tip'[c], TransfersOf(blocks'[c]), a) = BalanceAt(tip[c], TransfersOf(blocks[c]), a)
  PROVE  Follows(c)
<1>1. SupplyNow(c)' = SupplyNow(c) /\ \A a \in Users : BalanceNow(c, a)' = BalanceNow(c, a)  BY NowIs
<1> QED BY <1>1 DEF Follows, Unmoved

\* What a chain adds to what waits.
LEMMA EmitWaits ==
  ASSUME QueueInv, NEW c \in Chains, NEW logs, NEW after \in States, NEW new \in BOOLEAN,
         Emit(c, logs, after, new), Following(logs, emitted[c])
  PROVE  /\ Waiting(blocks'[c]) = Waiting(blocks[c]) \cup SetOf(logs)
         /\ tip'[c] = after /\ emitted'[c] > 0 /\ db' = db
         /\ \A i \in Chains : i # c => blocks'[i] = blocks[i] /\ tip'[i] = tip[i] /\ emitted'[i] = emitted[i]
<1> DEFINE last == Len(blocks[c])
           open == blocks[c] # <<>> /\ ~blocks[c][last].begun
           block == [logs |-> IF new THEN logs ELSE blocks[c][last].logs \o logs, at |-> after, begun |-> FALSE]
           bs == IF new THEN Append(blocks[c], block) ELSE [blocks[c] EXCEPT ![last] = block]
           top == emitted[c]
<1>1. /\ IF new THEN Len(blocks[c]) < 2 ELSE open
      /\ tip' = [tip EXCEPT ![c] = after] /\ blocks' = [blocks EXCEPT ![c] = bs]
      /\ emitted' = [emitted EXCEPT ![c] = top + Len(logs)] /\ db' = db
  BY DEF Emit
<1>2. top \in Nat /\ Numbered(blocks[c], top) /\ logs \in Seq(Logs) /\ Len(logs) \in Nat \ {0}
  <2>1. logs \in Seq(Logs) /\ logs # <<>>  BY DEF Following
  <2> QED BY <2>1 DEF QueueInv
<1>3. /\ blocks'[c] = bs /\ tip'[c] = after /\ emitted'[c] = top + Len(logs)
      /\ \A i \in Chains : i # c => blocks'[i] = blocks[i] /\ tip'[i] = tip[i] /\ emitted'[i] = emitted[i]
  BY <1>1 DEF QueueInv
<1>4. Waiting(bs) = Waiting(blocks[c]) \cup SetOf(logs)
  <2>1. CASE new
    <3>1. bs = Append(blocks[c], block) /\ block.logs = logs  BY <2>1
    <3>2. block \in Blocks  BY <1>2, <2>1 DEF Blocks
    <3> HIDE DEF bs, block
    <3> QED BY <1>2, <3>1, <3>2, WaitingAppend
  <2>2. CASE ~new
    <3> DEFINE old == blocks[c][last].logs
    <3>1. bs = [blocks[c] EXCEPT ![Len(blocks[c])] = block] /\ block.logs = old \o logs  BY <2>2
    <3>2. blocks[c] # <<>> /\ last \in 1..Len(blocks[c])  BY <1>1, <1>2, <2>2 DEF Numbered
    <3>3. old \in Seq(Logs)  BY <1>2, <3>2, NumbersType
    <3>4. block \in Blocks
      <4> DEFINE both == old \o logs
      <4>1. both \in Seq(Logs)  BY <1>2, <3>3
      <4>2. block = [logs |-> both, at |-> after, begun |-> FALSE]  BY <2>2
      <4> HIDE DEF both, block
      <4> QED BY <4>1, <4>2 DEF Blocks
    <3> HIDE DEF bs, block
    <3> QED BY <1>2, <3>1, <3>2, <3>4, WaitingExtend
  <2> QED BY <2>1, <2>2
<1> HIDE DEF bs
<1>5. top + Len(logs) > 0  BY <1>2
<1> QED BY <1>1, <1>3, <1>4, <1>5

\* A registration or a request adds no transfer.
LEMMA OtherWaits ==
  ASSUME QueueInv, WaitInv, NEW c \in Chains, NEW new \in BOOLEAN, NEW log, OtherLog(log, c), Emit(c, <<log>>, tip[c], new)
  PROVE  WaitInv' /\ \A i \in Chains : Follows(i)
<1> DEFINE logs == <<log>>
<1>1. emitted[c] \in Nat /\ tip[c] \in States  BY DEF QueueInv
<1>2. log \in Logs /\ log.kind # "Transfer"  BY DEF OtherLog
<1>3. Emit(c, logs, tip[c], new) /\ Following(logs, emitted[c])  BY <1>1, OtherFollows
<1>5. SetOf(logs) = {log}  BY DEF SetOf
<1> HIDE DEF logs
<1>6. /\ Waiting(blocks'[c]) = Waiting(blocks[c]) \cup {log}
      /\ tip'[c] = tip[c] /\ emitted'[c] > 0 /\ db' = db
      /\ \A i \in Chains : i # c => blocks'[i] = blocks[i] /\ tip'[i] = tip[i] /\ emitted'[i] = emitted[i]
  BY <1>1, <1>3, <1>5, EmitWaits
<1>7. \A i \in Chains : tip'[i] = tip[i] /\ TransfersOf(blocks'[i]) = TransfersOf(blocks[i])
  BY <1>2, <1>6 DEF TransfersOf
<1>8. IsFiniteSet(Waiting(blocks'[c]))  BY <1>6, FS_AddElement DEF WaitInv
<1>9. WaitInv'  BY <1>6, <1>7, <1>8 DEF WaitInv, Tracked
<1>10. \A i \in Chains : Unmoved(db, db', i)  BY <1>6 DEF Unmoved
<1>11. \A i \in Chains : Follows(i)  BY <1>7, <1>10, FollowsUnmoved
<1> QED BY <1>9, <1>11

\* Shares that are there before have no log, and the chain no row.
LEMMA ExistingFollows ==
  ASSUME QueueInv, WaitInv, NEW c \in Chains, NEW a \in Users, NEW n \in Amounts, Existing(c, a, n)
  PROVE  WaitInv' /\ \A i \in Chains : Follows(i)
<1>1. /\ ~Tracked(c) /\ UNCHANGED <<blocks, emitted, db>>
      /\ \A i \in Chains : i # c => tip'[i] = tip[i]
  BY DEF Existing, QueueInv
<1>2. blocks[c] = <<>> /\ ~Has(db.instance, c)  BY <1>1 DEF WaitInv
<1>3. TransfersOf(<<>>) = {}  BY DEF TransfersOf, Waiting
<1>4. Covered(tip'[c], TransfersOf(blocks[c]))  BY <1>2, <1>3 DEF Covered
<1>5. WaitInv'  BY <1>1, <1>4 DEF WaitInv, Tracked
<1>6. Follows(c)  BY <1>2 DEF Follows
<1>7. \A i \in Chains : Unmoved(db, db', i)  BY <1>1 DEF Unmoved
<1>8. \A i \in Chains : i # c => Follows(i)  BY <1>1, <1>7, FollowsUnmoved
<1> QED BY <1>5, <1>6, <1>8

\* What a transfer leaves behind: its log, and before it the logs of its block that move nothing.
Logged(c, from, to, n, new, log, more) ==
  /\ log.kind = "Transfer" /\ log.from = from /\ log.to = to /\ log.n = n /\ log.no > emitted[c]
  /\ IsFiniteSet(more) /\ \A l \in more : l.kind # "Transfer"
  /\ Waiting(blocks'[c]) = Waiting(blocks[c]) \cup more \cup {log}
  /\ tip'[c] = Move(tip[c], from, to, n) /\ emitted'[c] > 0 /\ db' = db
  /\ \A i \in Chains : i # c => blocks'[i] = blocks[i] /\ tip'[i] = tip[i] /\ emitted'[i] = emitted[i]
  /\ \E logs : /\ Following(logs, emitted[c]) /\ SetOf(logs) = more \cup {log}
               /\ Emit(c, logs, Move(tip[c], from, to, n), new)

\* A transfer waits behind all others, and its sender is covered.
LEMMA TransferWaits ==
  ASSUME QueueInv, NEW c \in Chains, NEW new \in BOOLEAN, NEW from \in Addresses \cup {Zero},
         NEW to \in Addresses \cup {Zero}, NEW n \in Amounts,
         NEW newPrice \in {{}} \cup {{p} : p \in SpokePrices}, Transfer(c, from, to, n, newPrice, new)
  PROVE  \E log \in Logs, more \in SUBSET Logs : Logged(c, from, to, n, new, log, more)
<1> DEFINE top == emitted[c]
           price == Log("UpdateSharePrice", Zero, Zero, CHOOSE p \in newPrice : TRUE, top + 1)
           update == IF newPrice = {} THEN <<>> ELSE <<price>>
           log == Log("Transfer", from, to, n, top + Len(update) + 1)
           logs == Append(update, log)
           after == Move(tip[c], from, to, n)
           more == IF newPrice = {} THEN {} ELSE {price}
<1>1. n \in Nat \ {0} /\ top \in Nat /\ tip[c] \in States  BY ShareSystemAssumption DEF QueueInv
<1>2. after \in States  BY <1>1, MoveType DEF Transfer
<1>3. Emit(c, logs, after, new)  BY DEF Transfer
<1> HIDE DEF top, after
<1>4. /\ Following(logs, top) /\ SetOf(logs) = more \cup {log} /\ log \in Logs /\ log.no > top
      /\ more \in SUBSET Logs /\ IsFiniteSet(more) /\ \A l \in more : l.kind # "Transfer"
      /\ log.kind = "Transfer" /\ log.from = from /\ log.to = to /\ log.n = n
  <2>1. CASE newPrice = {}
    <3> DEFINE l == Log("Transfer", from, to, n, top + 1)
    <3>1. update = <<>> /\ Len(update) = 0 /\ more = {}  BY <2>1
    <3>2. log = l
      <4>1. top + 0 + 1 = top + 1  BY <1>1
      <4> HIDE DEF update
      <4> QED BY <3>1, <4>1
    <3>3. /\ l \in Logs /\ l.no = top + 1 /\ IsLog(l) /\ l.no > top
          /\ l.kind = "Transfer" /\ l.from = from /\ l.to = to /\ l.n = n
      BY <1>1 DEF Log, Logs, TokenLogs, IsLog
    <3> HIDE DEF l, log, update, more
    <3>4. logs \in Seq(Logs) /\ Len(logs) = 1 /\ logs[1] = l /\ DOMAIN logs = {1}  BY <3>1, <3>2, <3>3
    <3> HIDE DEF logs
    <3>5. Following(logs, top)  BY <1>1, <3>3, <3>4, FollowingOne
    <3>6. SetOf(logs) = more \cup {log}  BY <3>1, <3>2, <3>4 DEF SetOf
    <3> QED BY <3>1, <3>2, <3>3, <3>5, <3>6, FS_EmptySet
  <2>2. CASE newPrice # {}
    <3> DEFINE l == Log("Transfer", from, to, n, top + 2)
    <3>1. (CHOOSE p \in newPrice : TRUE) \in Nat  BY <2>2, ShareSystemAssumption
    <3>2. update = <<price>> /\ Len(update) = 1 /\ more = {price}  BY <2>2
    <3>3. log = l
      <4>1. top + 1 + 1 = top + 2  BY <1>1
      <4> HIDE DEF update
      <4> QED BY <3>2, <4>1
    <3>4. /\ l \in Logs /\ l.no = top + 2 /\ IsLog(l) /\ l.no > top
          /\ l.kind = "Transfer" /\ l.from = from /\ l.to = to /\ l.n = n
      BY <1>1 DEF Log, Logs, TokenLogs, IsLog
    <3>5. price \in Logs /\ price.no = top + 1 /\ IsLog(price) /\ price.kind # "Transfer"
      BY <1>1, <3>1 DEF Log, Logs, TokenLogs, IsLog
    <3> HIDE DEF l, log, price, update, more
    <3>6. logs \in Seq(Logs) /\ Len(logs) = 2 /\ logs[1] = price /\ logs[2] = l /\ DOMAIN logs = 1..2
      BY <3>2, <3>3, <3>4, <3>5
    <3> HIDE DEF logs
    <3>7. Following(logs, top)  BY <1>1, <3>4, <3>5, <3>6, FollowingTwo
    <3>8. SetOf(logs) = more \cup {log}
      <4>1. 1..2 = {1, 2}  OBVIOUS
      <4> QED BY <3>2, <3>3, <3>6, <4>1 DEF SetOf
    <3>9. IsFiniteSet(more)  BY <3>2, FS_Singleton
    <3> QED BY <3>2, <3>3, <3>4, <3>5, <3>7, <3>8, <3>9
  <2> QED BY <2>1, <2>2
<1> HIDE DEF logs, log, more
<1>5. /\ Waiting(blocks'[c]) = Waiting(blocks[c]) \cup SetOf(logs)
      /\ tip'[c] = after /\ emitted'[c] > 0 /\ db' = db
      /\ \A i \in Chains : i # c => blocks'[i] = blocks[i] /\ tip'[i] = tip[i] /\ emitted'[i] = emitted[i]
  BY <1>2, <1>3, <1>4, EmitWaits DEF top
<1>6. Waiting(blocks'[c]) = Waiting(blocks[c]) \cup more \cup {log}  BY <1>4, <1>5
<1>7. Following(logs, emitted[c]) /\ SetOf(logs) = more \cup {log} /\ Emit(c, logs, Move(tip[c], from, to, n), new)
  BY <1>3, <1>4 DEF top, after
<1> QED BY <1>4, <1>5, <1>6, <1>7 DEF top, after, Logged

LEMMA TransferFollows ==
  ASSUME QueueInv, WaitInv, NEW c \in Chains, NEW new \in BOOLEAN, NEW from \in Addresses \cup {Zero},
         NEW to \in Addresses \cup {Zero}, NEW n \in Amounts,
         NEW newPrice \in {{}} \cup {{p} : p \in SpokePrices}, Transfer(c, from, to, n, newPrice, new)
  PROVE  WaitInv' /\ \A i \in Chains : Follows(i)
<1> DEFINE S == TransfersOf(blocks[c])
           t == tip[c]
<1>0. PICK log \in Logs, more \in SUBSET Logs : Logged(c, from, to, n, new, log, more)
  BY TransferWaits
<1>1. /\ log.kind = "Transfer" /\ log.from = from /\ log.to = to /\ log.n = n /\ log.no > emitted[c]
      /\ IsFiniteSet(more) /\ \A l \in more : l.kind # "Transfer"
      /\ Waiting(blocks'[c]) = Waiting(blocks[c]) \cup more \cup {log}
      /\ tip'[c] = Move(tip[c], from, to, n) /\ emitted'[c] > 0 /\ db' = db
      /\ \A i \in Chains : i # c => blocks'[i] = blocks[i] /\ tip'[i] = tip[i] /\ emitted'[i] = emitted[i]
  BY <1>0 DEF Logged
<1>2. t \in States /\ emitted[c] \in Nat /\ Numbered(blocks[c], emitted[c])  BY DEF QueueInv
<1>3. /\ {from, to} \cap Users # {} /\ (from # Zero => t.held[from] >= n)
  BY DEF Transfer
<1>4. Zero \notin Addresses /\ Zero \notin Users  BY SharesAssumption DEF Addresses, Zero, Escrow
<1>5. TransfersOf(blocks'[c]) = S \cup {log}  BY <1>1 DEF TransfersOf
<1>6. \A l \in Waiting(blocks[c]) : l \in Logs /\ l.no \in Nat /\ l.no <= emitted[c]  BY <1>2, WaitingType
<1>7. IsFiniteSet(S) /\ S \in SUBSET Logs
  <2>1. S \subseteq Waiting(blocks[c])  BY DEF TransfersOf
  <2>2. IsFiniteSet(Waiting(blocks[c]))  BY DEF WaitInv
  <2> HIDE DEF S
  <2>3. IsFiniteSet(S)  BY <2>1, <2>2, FS_Subset
  <2> QED BY <1>6, <2>1, <2>3
<1>8. \A l \in S : l.no < log.no
  <2>1. log.no \in Nat  BY DEF Logs
  <2>2. \A l \in S : l.no \in Nat /\ l.no <= emitted[c]  BY <1>6 DEF TransfersOf
  <2> QED BY <1>1, <1>2, <2>1, <2>2
<1>9. log \notin S
  <2>1. log.no \in Nat  BY DEF Logs
  <2> HIDE DEF S
  <2> QED BY <1>8, <2>1
<1>10. Covered(t, S) /\ \A l \in S : l.from # Zero \/ l.to # Zero  BY DEF WaitInv
<1>11. tip'[c] = Move(t, log.from, log.to, log.n)  BY <1>1
<1>12. log.from \in Addresses => t.held[log.from] >= log.n  BY <1>1, <1>3, <1>4
<1>13. log.from # Zero \/ log.to # Zero  BY <1>1, <1>3, <1>4
<1> HIDE DEF S, t
<1>14. Covered(tip'[c], S \cup {log})  BY <1>2, <1>7, <1>8, <1>10, <1>11, <1>12, CoveredMore
<1>15. IsFiniteSet(Waiting(blocks'[c]))
  <2>1. IsFiniteSet(Waiting(blocks[c]))  BY DEF WaitInv
  <2> DEFINE W == Waiting(blocks[c])
             V == W \cup more
  <2>2. IsFiniteSet(V)  BY <1>1, <2>1, FS_Union
  <2>3. Waiting(blocks'[c]) = V \cup {log}  BY <1>1
  <2> HIDE DEF V
  <2>4. IsFiniteSet(V \cup {log})  BY <2>2, FS_AddElement
  <2> QED BY <2>3, <2>4
<1>16. WaitInv'
  <2> SUFFICES ASSUME NEW i \in Chains
               PROVE  /\ IsFiniteSet(Waiting(blocks'[i])) /\ Covered(tip'[i], TransfersOf(blocks'[i]))
                      /\ \A l \in TransfersOf(blocks'[i]) : l.from # Zero \/ l.to # Zero
                      /\ ~(emitted'[i] > 0) => blocks'[i] = <<>> /\ ~Has(db'.instance, i)
    BY DEF WaitInv, Tracked
  <2>1. CASE i = c  BY <1>1, <1>5, <1>10, <1>13, <1>14, <1>15, <2>1
  <2>2. CASE i # c  BY <1>1, <2>2 DEF WaitInv, Tracked
  <2> QED BY <2>1, <2>2
<1>17. \A i \in Chains : Unmoved(db, db', i)  BY <1>1 DEF Unmoved
<1>18. Follows(c)
  <2>1. SupplyAt(tip'[c], TransfersOf(blocks'[c])) = SupplyAt(tip[c], TransfersOf(blocks[c]))
    <3>1. Escrow \in Addresses  BY DEF Addresses
    <3> QED BY <1>2, <1>5, <1>7, <1>9, <1>11, <3>1, AtMoved DEF S, t
  <2>2. \A a \in Users : BalanceAt(tip'[c], TransfersOf(blocks'[c]), a) = BalanceAt(tip[c], TransfersOf(blocks[c]), a)
    <3>1. \A a \in Addresses : BalanceAt(Move(t, log.from, log.to, log.n), S \cup {log}, a) = BalanceAt(t, S, a)
      BY <1>2, <1>7, <1>9, AtMoved
    <3>2. \A a \in Users : a \in Addresses  BY DEF Addresses
    <3>3. t = tip[c] /\ S = TransfersOf(blocks[c])  BY DEF S, t
    <3> QED BY <1>5, <1>11, <3>1, <3>2, <3>3
  <2> QED BY <1>17, <2>1, <2>2, FollowsUnmoved
<1>19. \A i \in Chains : i # c => Follows(i)  BY <1>1, <1>17, FollowsUnmoved
<1> QED BY <1>16, <1>18, <1>19

-----------------------------------------------------------------------------
(* What a call may return *)

\* No transfer among the logs is from or to an account.
NoneMoves(logs, a) == \A l \in SetOf(logs) : l.kind = "Transfer" => l.from # a /\ l.to # a

\* The state at the end of a block has the balance of today of every account that no
\* later block touches.
Seen(bs, t) ==
  \A i \in 1..Len(bs) : \A a \in Addresses :
    (\A h \in 1..Len(bs) : i < h => NoneMoves(bs[h].logs, a)) => bs[i].at.held[a] = t.held[a]
SeenInv == \A c \in Chains : Seen(blocks[c], tip[c])

LEMMA SeenAppend ==
  ASSUME NEW bs \in Seq(Blocks), NEW t, Seen(bs, t), NEW block \in Blocks,
         \A a \in Addresses : NoneMoves(block.logs, a) => block.at.held[a] = t.held[a]
  PROVE  Seen(Append(bs, block), block.at)
<1> DEFINE new == Append(bs, block)
           n == Len(bs)
<1>1. n \in Nat /\ Len(new) = n + 1 /\ new[n + 1] = block /\ \A i \in 1..n : new[i] = bs[i]
  OBVIOUS
<1> HIDE DEF new, n
<1>2. ASSUME NEW i \in 1..(n + 1), NEW a \in Addresses, \A h \in 1..(n + 1) : i < h => NoneMoves(new[h].logs, a)
      PROVE  new[i].at.held[a] = block.at.held[a]
  <2>1. CASE i = n + 1  BY <1>1, <2>1
  <2>2. CASE i # n + 1
    <3>1. i \in 1..n /\ n + 1 \in 1..(n + 1) /\ i < n + 1  BY <1>1, <2>2
    <3>2. block.at.held[a] = t.held[a]  BY <1>1, <1>2, <3>1
    <3>3. \A h \in 1..n : i < h => NoneMoves(bs[h].logs, a)
      <4>1. \A h \in 1..n : h \in 1..(n + 1) /\ new[h] = bs[h]  BY <1>1
      <4> QED BY <1>2, <4>1
    <3>4. bs[i].at.held[a] = t.held[a]  BY <3>1, <3>3 DEF Seen, n
    <3> QED BY <1>1, <3>1, <3>2, <3>4
  <2> QED BY <2>1, <2>2
<1>3. Seen(new, block.at)  BY <1>1, <1>2 DEF Seen
<1> QED BY <1>3 DEF new

LEMMA SeenExtend ==
  ASSUME NEW bs \in Seq(Blocks), bs # <<>>, NEW t, Seen(bs, t), NEW logs \in Seq(Logs), NEW block \in Blocks,
         block.logs = bs[Len(bs)].logs \o logs,
         \A a \in Addresses : NoneMoves(logs, a) => block.at.held[a] = t.held[a]
  PROVE  Seen([bs EXCEPT ![Len(bs)] = block], block.at)
<1> DEFINE n == Len(bs)
           new == [bs EXCEPT ![n] = block]
           old == bs[n].logs
<1>1. n \in Nat /\ n \in 1..n /\ Len(new) = n /\ new[n] = block /\ \A i \in 1..n : i # n => new[i] = bs[i]
  OBVIOUS
<1>2. old \in Seq(Logs)
  <2>1. bs[n] \in Blocks
    <3>1. n \in 1..Len(bs)  BY <1>1
    <3> HIDE DEF n
    <3> QED BY <3>1
  <2>2. \A b \in Blocks : b.logs \in Seq(Logs)  BY DEF Blocks
  <2> QED BY <2>1, <2>2
<1>3. SetOf(block.logs) = SetOf(old) \cup SetOf(logs)  BY <1>2, SetOfBoth
<1> HIDE DEF new, n
<1>4. ASSUME NEW i \in 1..n, NEW a \in Addresses, \A h \in 1..n : i < h => NoneMoves(new[h].logs, a)
      PROVE  new[i].at.held[a] = block.at.held[a]
  <2>1. CASE i = n  BY <1>1, <2>1
  <2>2. CASE i # n
    <3>1. i < n  BY <1>1, <2>2
    <3>2. NoneMoves(block.logs, a)  BY <1>1, <1>4, <3>1
    <3>3. NoneMoves(old, a) /\ NoneMoves(logs, a)  BY <1>3, <3>2 DEF NoneMoves
    <3>4. \A h \in 1..n : i < h => NoneMoves(bs[h].logs, a)  BY <1>1, <1>4, <3>3
    <3>5. bs[i].at.held[a] = t.held[a]  BY <3>4 DEF Seen, n
    <3> QED BY <1>1, <2>2, <3>3, <3>5
  <2> QED BY <2>1, <2>2
<1>5. Seen(new, block.at)  BY <1>1, <1>4 DEF Seen
<1> QED BY <1>5 DEF new, n

LEMMA SeenRest ==
  ASSUME NEW bs \in Seq(Blocks), bs # <<>>, NEW t, Seen(bs, t) PROVE Seen(Rest(bs), t)
<1> DEFINE rest == [logs |-> Tail(bs[1].logs), at |-> bs[1].at, begun |-> TRUE]
           n == Len(bs)
<1>1. n \in Nat \ {0}  OBVIOUS
<1>2. CASE rest.logs = <<>>
  <2> DEFINE new == Tail(bs)
  <2>1. Len(new) = n - 1 /\ \A i \in 1..(n - 1) : i + 1 \in 1..n /\ new[i] = bs[i + 1]  OBVIOUS
  <2> HIDE DEF new
  <2>2. ASSUME NEW i \in 1..(n - 1), NEW a \in Addresses, \A h \in 1..(n - 1) : i < h => NoneMoves(new[h].logs, a)
        PROVE  new[i].at.held[a] = t.held[a]
    <3>1. ASSUME NEW h \in 1..n, i + 1 < h PROVE NoneMoves(bs[h].logs, a)
      <4>1. h - 1 \in 1..(n - 1) /\ i < h - 1 /\ (h - 1) + 1 = h  BY <1>1, <3>1
      <4> QED BY <2>1, <2>2, <4>1
    <3>2. i + 1 \in 1..n /\ new[i] = bs[i + 1]  BY <2>1
    <3> QED BY <3>1, <3>2 DEF Seen
  <2>3. Seen(new, t)  BY <2>1, <2>2 DEF Seen
  <2>4. Rest(bs) = new  BY <1>2 DEF Rest, new
  <2> QED BY <2>3, <2>4
<1>3. CASE rest.logs # <<>>
  <2> DEFINE new == [bs EXCEPT ![1] = rest]
  <2>0. n \in Nat /\ DOMAIN bs = 1..n  OBVIOUS
  <2>1. Len(new) = n /\ new[1] = rest /\ \A i \in 1..n : i # 1 => new[i] = bs[i]
    <3>1. 1 \in DOMAIN bs  BY <1>1, <2>0
    <3>2. DOMAIN new = 1..n  BY <2>0
    <3>3. Len(new) = n  BY <2>0, <3>2
    <3> HIDE DEF rest
    <3>4. new[1] = rest /\ \A i \in DOMAIN bs : i # 1 => new[i] = bs[i]  BY <3>1
    <3> QED BY <2>0, <3>3, <3>4
  <2>2. rest.at = bs[1].at  OBVIOUS
  <2>3. Rest(bs) = new  BY <1>3 DEF Rest
  <2> HIDE DEF new, rest
  <2>4. ASSUME NEW i \in 1..n, NEW a \in Addresses, \A h \in 1..n : i < h => NoneMoves(new[h].logs, a)
        PROVE  new[i].at.held[a] = t.held[a]
    <3>1. ASSUME NEW h \in 1..n, i < h PROVE NoneMoves(bs[h].logs, a)
      <4>1. h # 1  BY <3>1
      <4> QED BY <2>1, <2>4, <3>1, <4>1
    <3>2. bs[i].at.held[a] = t.held[a]  BY <3>1 DEF Seen
    <3>3. new[i].at = bs[i].at  BY <2>1, <2>2
    <3> QED BY <3>2, <3>3
  <2>5. Seen(new, t)  BY <2>1, <2>4 DEF Seen
  <2> QED BY <2>3, <2>5
<1> QED BY <1>2, <1>3

LEMMA EmitSees ==
  ASSUME QueueInv, SeenInv, NEW c \in Chains, NEW logs, NEW after \in States, NEW new \in BOOLEAN,
         Emit(c, logs, after, new), Following(logs, emitted[c]),
         \A a \in Addresses : NoneMoves(logs, a) => after.held[a] = tip[c].held[a]
  PROVE  SeenInv'
<1> DEFINE last == Len(blocks[c])
           open == blocks[c] # <<>> /\ ~blocks[c][last].begun
           block == [logs |-> IF new THEN logs ELSE blocks[c][last].logs \o logs, at |-> after, begun |-> FALSE]
           bs == IF new THEN Append(blocks[c], block) ELSE [blocks[c] EXCEPT ![last] = block]
<1>1. /\ IF new THEN Len(blocks[c]) < 2 ELSE open
      /\ tip' = [tip EXCEPT ![c] = after] /\ blocks' = [blocks EXCEPT ![c] = bs]
  BY DEF Emit
<1>2. blocks[c] \in Seq(Blocks) /\ logs \in Seq(Logs) /\ Seen(blocks[c], tip[c])
  BY DEF QueueInv, Numbered, Following, SeenInv
<1>3. Seen(bs, after)
  <2>1. CASE new
    <3>1. bs = Append(blocks[c], block) /\ block.logs = logs /\ block.at = after  BY <2>1
    <3>2. block \in Blocks  BY <1>2, <2>1 DEF Blocks
    <3> HIDE DEF bs, block
    <3> QED BY <1>2, <3>1, <3>2, SeenAppend
  <2>2. CASE ~new
    <3> DEFINE old == blocks[c][last].logs
    <3>1. bs = [blocks[c] EXCEPT ![Len(blocks[c])] = block] /\ block.logs = old \o logs /\ block.at = after  BY <2>2
    <3>2. blocks[c] # <<>> /\ last \in 1..Len(blocks[c])  BY <1>1, <1>2, <2>2
    <3>3. old \in Seq(Logs)
      <4>1. blocks[c][last] \in Blocks  BY <1>2, <3>2
      <4>2. \A b \in Blocks : b.logs \in Seq(Logs)  BY DEF Blocks
      <4> QED BY <4>1, <4>2
    <3>4. block \in Blocks
      <4> DEFINE both == old \o logs
      <4>1. both \in Seq(Logs)  BY <1>2, <3>3
      <4>2. block = [logs |-> both, at |-> after, begun |-> FALSE]  BY <2>2
      <4> HIDE DEF both, block
      <4> QED BY <4>1, <4>2 DEF Blocks
    <3> HIDE DEF bs, block
    <3> QED BY <1>2, <3>1, <3>2, <3>4, SeenExtend
  <2> QED BY <2>1, <2>2
<1> HIDE DEF bs
<1>4. \A i \in Chains : /\ blocks'[i] = IF i = c THEN bs ELSE blocks[i]
                        /\ tip'[i] = IF i = c THEN after ELSE tip[i]
  BY <1>1 DEF QueueInv
<1> QED BY <1>3, <1>4 DEF SeenInv

LEMMA StepSees ==
  ASSUME QueueInv, WaitInv, SeenInv, [SharesNext]_sharesVars PROVE SeenInv'
<1>1. CASE IndexHub
  BY <1>1 DEF IndexHub, SeenInv
<1>2. ASSUME NEW c \in Chains, IndexSpoke(c) PROVE SeenInv'
  <2>1. blocks[c] # <<>> /\ blocks' = [blocks EXCEPT ![c] = Rest(blocks[c])] /\ tip' = tip
    BY <1>2 DEF IndexSpoke, Rest
  <2>2. blocks[c] \in Seq(Blocks) /\ Seen(blocks[c], tip[c])  BY DEF QueueInv, Numbered, SeenInv
  <2>3. Seen(Rest(blocks[c]), tip[c])  BY <2>1, <2>2, SeenRest
  <2>4. \A i \in Chains : blocks'[i] = IF i = c THEN Rest(blocks[c]) ELSE blocks[i]
    BY <2>1 DEF QueueInv
  <2> QED BY <2>1, <2>3, <2>4 DEF SeenInv
<1>3. ASSUME NEW c \in Chains, NEW a \in Users, NEW n \in Amounts, Existing(c, a, n) PROVE SeenInv'
  <2>1. blocks[c] = <<>> /\ blocks' = blocks /\ \A i \in Chains : i # c => tip'[i] = tip[i]
    BY <1>3 DEF Existing, WaitInv, QueueInv
  <2>2. Seen(<<>>, tip'[c])  BY DEF Seen
  <2> QED BY <2>1, <2>2 DEF SeenInv
<1>4. ASSUME NEW c \in Chains, NEW new \in BOOLEAN, NEW log, OtherLog(log, c), Emit(c, <<log>>, tip[c], new) PROVE SeenInv'
  <2>1. emitted[c] \in Nat /\ tip[c] \in States  BY DEF QueueInv
  <2>2. Following(<<log>>, emitted[c])  BY <1>4, <2>1, OtherFollows
  <2> QED BY <1>4, <2>1, <2>2, EmitSees
<1>5. ASSUME NEW c \in Chains, NEW new \in BOOLEAN, NEW from \in Addresses \cup {Zero},
             NEW to \in Addresses \cup {Zero}, NEW n \in Amounts,
             NEW newPrice \in {{}} \cup {{p} : p \in SpokePrices}, Transfer(c, from, to, n, newPrice, new)
      PROVE  SeenInv'
  <2> DEFINE after == Move(tip[c], from, to, n)
  <2>1. PICK log \in Logs, more \in SUBSET Logs : Logged(c, from, to, n, new, log, more)
    BY <1>5, TransferWaits
  <2>2. PICK logs : Following(logs, emitted[c]) /\ SetOf(logs) = more \cup {log} /\ Emit(c, logs, after, new)
    BY <2>1 DEF Logged
  <2>3. n \in Nat /\ tip[c] \in States  BY ShareSystemAssumption DEF QueueInv
  <2>4. after \in States  BY <1>5, <2>3, MoveType DEF Transfer
  <2>5. ASSUME NEW a \in Addresses, NoneMoves(logs, a) PROVE after.held[a] = tip[c].held[a]
    <3>1. from # a /\ to # a  BY <2>1, <2>2, <2>5 DEF NoneMoves, Logged
    <3>2. after.held[a] = tip[c].held[a] + 0 - 0  BY <3>1 DEF Move
    <3>3. tip[c].held[a] \in Nat  BY <2>3 DEF States
    <3> QED BY <3>2, <3>3
  <2> HIDE DEF after
  <2> QED BY <2>2, <2>4, <2>5, EmitSees
<1>6. ASSUME NEW c \in Chains, NEW new \in BOOLEAN, AddShareClass(c, new) PROVE SeenInv'
  BY <1>4, <1>6, AddIsOther
<1>7. ASSUME NEW c \in Chains, NEW a \in Users, NEW new \in BOOLEAN, DepositRequest(c, a, new) PROVE SeenInv'
  BY <1>4, <1>7, RequestIsOther
<1>8. CASE UNCHANGED sharesVars  BY <1>8 DEF sharesVars, SeenInv
<1> QED BY <1>1, <1>2, <1>3, <1>5, <1>6, <1>7, <1>8 DEF SharesNext

\* Of transfers that touch nothing of an account.
LEMMA BalanceUntouched ==
  ASSUME NEW S \in SUBSET Logs, IsFiniteSet(S), NEW a, \A l \in S : l.from # a /\ l.to # a, NEW t, t.held[a] \in Int
  PROVE  BalanceAt(t, S, a) = t.held[a]
<1> DEFINE w == [l \in S |-> Received(l, a)]
           none == [l \in {} |-> 0]
<1>1. IsSummable(w)  BY SumsType
<1>2. \A l \in S : w[l] = 0
  <2>1. \A l \in S : Received(l, a) = 0 - 0  BY DEF Received
  <2> QED BY <2>1
<1>3. DOMAIN none = {} /\ DOMAIN w = S  OBVIOUS
<1> HIDE DEF w, none
<1>4. SumFunction(none) = SumFunction(w)  BY <1>1, <1>2, <1>3, SumOfRest
<1>5. SumFunction(w) = 0  BY <1>3, <1>4, SumOfNone
<1> QED BY <1>5 DEF BalanceAt, w

\* A row that starts from a call starts with the balance as of the logs indexed, as
\* nothing of the account waits: any block's answer, or none.
LEMMA AnswerIsBalance ==
  ASSUME QueueInv, WaitInv, SeenInv, NEW c \in Chains, NEW a \in Users, blocks[c] # <<>>,
         Starts(c, a), ~Hasty(c, a), PositionOf(db, c, a) = BalanceNow(c, a), NEW answer \in Answers(c)
  PROVE  answer.held[a] = PositionOf(db, c, a)
<1> DEFINE bs == blocks[c]
           S == TransfersOf(bs)
<1>1. PositionOf(db, c, a) = 0
  BY DEF Starts, PositionOf, RowOr, NewPosition
<1>2. tip[c] \in States /\ bs \in Seq(Blocks) /\ Numbered(bs, emitted[c]) /\ emitted[c] \in Nat /\ a \in Addresses
  BY DEF QueueInv, Numbered, Addresses
<1>3. ComingTransfers(c) = S  BY DEF ComingTransfers, Coming, TransfersOf, Waiting, SetOf
<1>4. \A l \in S : l.from # a /\ l.to # a  BY <1>3 DEF Hasty
<1>5. S \in SUBSET Logs /\ IsFiniteSet(S)
  <2>1. S \subseteq Waiting(bs)  BY DEF TransfersOf
  <2>2. IsFiniteSet(Waiting(bs))  BY DEF WaitInv
  <2>3. IsFiniteSet(S)  BY <2>1, <2>2, FS_Subset
  <2> QED BY <1>2, <2>1, <2>3, WaitingType
<1>6. tip[c].held[a] = 0
  <2>1. tip[c].held[a] \in Int  BY <1>2 DEF States
  <2>2. BalanceAt(tip[c], S, a) = tip[c].held[a]  BY <1>4, <1>5, <2>1, BalanceUntouched
  <2>3. BalanceNow(c, a) = BalanceAt(tip[c], S, a)  BY NowIs
  <2> QED BY <1>1, <2>2, <2>3
<1>7. \A h \in 1..Len(bs) : NoneMoves(bs[h].logs, a)
  <2> SUFFICES ASSUME NEW h \in 1..Len(bs), NEW l \in SetOf(bs[h].logs), l.kind = "Transfer"
               PROVE  l.from # a /\ l.to # a
    BY DEF NoneMoves
  <2>1. h \in DOMAIN bs  BY <1>2
  <2>2. l \in S  BY <2>1 DEF TransfersOf, Waiting
  <2> QED BY <1>4, <2>2
<1>8. ASSUME NEW i \in 1..Len(bs) PROVE bs[i].at.held[a] = 0
  BY <1>2, <1>6, <1>7 DEF SeenInv, Seen
<1>9. NoShares.held[a] = 0  BY <1>2 DEF NoShares
<1>10. 1 \in 1..Len(bs) /\ DOMAIN bs = 1..Len(bs)  BY <1>2
<1>11. answer = NoShares \/ \E i \in 1..Len(bs) : answer = bs[i].at
  BY <1>10 DEF Answers
<1> QED BY <1>1, <1>8, <1>9, <1>11

-----------------------------------------------------------------------------
(* Every log that is indexed *)

\* A log is taken from the transfers that wait and, of one that is known, into the tables.
LEMMA IndexFollows ==
  ASSUME Inv, Accounts, WaitInv, SeenInv, NEW c \in Chains, IndexSpoke(c)
  PROVE  WaitInv' /\ \A i \in Chains : Follows(i)
<1> DEFINE bs == blocks[c]
           log == bs[1].logs[1]
           S == TransfersOf(bs)
           t == tip[c]
<1>0. QueueInv /\ Shaped(db) /\ Holding(db)  BY ExplainedHolds DEF Accounts, Inv
<1>1. /\ bs # <<>> /\ blocks' = [blocks EXCEPT ![c] = Rest(bs)] /\ UNCHANGED <<tip, emitted>>
      /\ \/ log.kind = "Transfer" /\ db' = OnTransfer(db, c, log)
         \/ log.kind = "UpdateSharePrice" /\ db' = OnUpdateSharePrice(db, c, log.n)
         \/ log.kind = "AddShareClass" /\ \E total, held \in Answers(c), decimals \in BOOLEAN :
                 db' = OnAddShareClass(db, c, total.supply, held.held, decimals)
         \/ log.kind = "DepositRequest" /\ \E answer \in Answers(c) :
                 db' = InitPosition(db, c, log.to, answer.held[log.to])
  BY DEF IndexSpoke, Rest
<1>2. blocks'[c] = Rest(bs) /\ \A i \in Chains : i # c => blocks'[i] = blocks[i]  BY <1>0, <1>1 DEF QueueInv
<1>3. t \in States /\ emitted[c] \in Nat /\ Numbered(bs, emitted[c])  BY <1>0 DEF QueueInv
<1>4. /\ log \in Waiting(bs) /\ Waiting(Rest(bs)) = Waiting(bs) \ {log}
      /\ \A l \in Waiting(Rest(bs)) : log.no < l.no
  BY <1>1, <1>3, WaitingRest
<1>5. (Adds(c) <=> log.kind = "AddShareClass") /\ (Requests(c) <=> log.kind = "DepositRequest")
      /\ \A a : Starts(c, a) <=> /\ ~Has(db.position, <<c, a>>)
                                /\ \/ Adds(c) /\ a \in InitialHolders
                                   \/ Requests(c) /\ log.to = a
  BY <1>1 DEF Adds, Requests, Starts
<1>6. Tracked(c)  BY <1>1 DEF WaitInv
<1>7. IsFiniteSet(Waiting(bs)) /\ Covered(t, S) /\ \A l \in S : l.from # Zero \/ l.to # Zero  BY DEF WaitInv
<1> HIDE DEF log, bs, t
<1>8. \A l \in Waiting(bs) : l \in Logs  BY <1>3, WaitingType
<1>9. log \in Logs /\ log.n \in Nat  BY <1>4, <1>8 DEF Logs
<1>10. S \subseteq Waiting(bs) /\ TransfersOf(Rest(bs)) = S \ {log} /\ (log.kind = "Transfer" <=> log \in S)
  BY <1>4 DEF TransfersOf
<1> HIDE DEF S
<1>11. S \in SUBSET Logs /\ IsFiniteSet(S)
  <2>1. IsFiniteSet(S)  BY <1>7, <1>10, FS_Subset
  <2> QED BY <1>8, <1>10, <2>1
<1>12. \A l \in S \ {log} : log.no < l.no  BY <1>4, <1>10
<1>13. Covered(t, S \ {log})
  <2>1. CASE log \in S  BY <1>7, <1>11, <1>12, <2>1, CoveredLess
  <2>2. CASE log \notin S
    <3>1. S \ {log} = S  BY <2>2
    <3> QED BY <1>7, <3>1
  <2> QED BY <2>1, <2>2
<1>14. IsFiniteSet(Waiting(Rest(bs)))
  <2>1. Waiting(Rest(bs)) \subseteq Waiting(bs)  BY <1>4
  <2> QED BY <1>7, <2>1, FS_Subset
<1>15. \A i \in Chains : i # c => Unmoved(db, db', i)
  <2> SUFFICES ASSUME NEW i \in Chains, i # c PROVE Unmoved(db, db', i)  OBVIOUS
  <2>1. CASE log.kind = "Transfer" /\ db' = OnTransfer(db, c, log)
    <3>1. log.from # Zero \/ log.to # Zero  BY <1>7, <1>10, <2>1
    <3> QED BY <1>0, <1>9, <2>1, <3>1, TransferMovesItself
  <2>2. CASE db' = OnUpdateSharePrice(db, c, log.n)  BY <1>0, <2>2, PriceMovesNothing
  <2>3. CASE \E total, held \in Answers(c), decimals \in BOOLEAN :
                 db' = OnAddShareClass(db, c, total.supply, held.held, decimals)
    BY <1>0, <2>3, SpokeClassMovesItself
  <2>4. CASE \E answer \in Answers(c) : db' = InitPosition(db, c, log.to, answer.held[log.to])
    <3>1. PICK answer \in Answers(c) : db' = InitPosition(db, c, log.to, answer.held[log.to])  BY <2>4
    <3> DEFINE n == answer.held[log.to]
               e == InitPosition(db, c, log.to, n)
    <3>2. /\ e.instance = db.instance
          /\ \A j, a : \/ PositionOf(e, j, a) = PositionOf(db, j, a)
                       \/ j = c /\ a = log.to /\ ~Has(db.position, <<c, log.to>>) /\ PositionOf(e, j, a) = n
      <4> HIDE DEF n
      <4> QED BY <1>0, InitPositionMoves
    <3>3. db' = e  BY <3>1
    <3> HIDE DEF e
    <3>4. db'.instance = db.instance /\ \A a : PositionOf(db', i, a) = PositionOf(db, i, a)
      BY <3>2, <3>3
    <3> QED BY <3>4 DEF Unmoved
  <2> QED BY <1>1, <2>1, <2>2, <2>3, <2>4
<1>16. WaitInv'
  <2> SUFFICES ASSUME NEW i \in Chains
               PROVE  /\ IsFiniteSet(Waiting(blocks'[i])) /\ Covered(tip'[i], TransfersOf(blocks'[i]))
                      /\ \A l \in TransfersOf(blocks'[i]) : l.from # Zero \/ l.to # Zero
                      /\ ~(emitted'[i] > 0) => blocks'[i] = <<>> /\ ~Has(db'.instance, i)
    BY DEF WaitInv, Tracked
  <2>1. CASE i = c
    <3>1. tip'[c] = t /\ emitted'[c] > 0  BY <1>1, <1>6 DEF t, Tracked
    <3> QED BY <1>2, <1>7, <1>10, <1>13, <1>14, <2>1, <3>1
  <2>2. CASE i # c
    <3>1. blocks'[i] = blocks[i] /\ tip'[i] = tip[i] /\ emitted'[i] = emitted[i]  BY <1>1, <1>2, <2>2
    <3>2. Has(db'.instance, i) <=> Has(db.instance, i)  BY <1>15, <2>2 DEF Unmoved
    <3> QED BY <3>1, <3>2 DEF WaitInv, Tracked
  <2> QED BY <2>1, <2>2
<1>17. \A i \in Chains : i # c => Follows(i)
  <2>1. \A i \in Chains : i # c => tip'[i] = tip[i] /\ blocks'[i] = blocks[i]  BY <1>1, <1>2
  <2> QED BY <1>15, <2>1, FollowsUnmoved
<1>18. Follows(c)
  <2>1. CASE log.kind = "Transfer" /\ db' = OnTransfer(db, c, log)
    <3>1. log \in S /\ (log.from # Zero \/ log.to # Zero)  BY <1>7, <1>10, <2>1
    <3>2. /\ tip'[c] = t /\ blocks'[c] = Rest(bs)
          /\ SupplyNow(c) = SupplyAt(t, S) /\ SupplyNow(c)' = SupplyAt(t, S \ {log})
          /\ \A a \in Users : BalanceNow(c, a) = BalanceAt(t, S, a) /\ BalanceNow(c, a)' = BalanceAt(t, S \ {log}, a)
      BY <1>1, <1>2, <1>10, NowIs DEF S, t, bs
    <3>3. t.supply \in Int /\ \A a \in Users : a \in Addresses /\ t.held[a] \in Int
      BY <1>3 DEF States, Addresses
    <3>4. /\ SupplyAt(t, S) \in Int /\ SupplyAt(t, S \ {log}) = SupplyAt(t, S) + Minted(log)
      <4>1. t.held[Escrow] \in Int  BY <1>3 DEF States, Addresses
      <4> QED BY <1>11, <3>1, <3>3, <4>1, AtType, AtTaken
    <3>5. \A a \in Users : BalanceAt(t, S \ {log}, a) = BalanceAt(t, S, a) + Received(log, a)
      BY <1>11, <3>1, <3>3, AtTaken
    <3>6. log.from \in Users => BalanceAt(t, S, log.from) >= log.n
      BY <1>7, <1>11, <1>12, <3>1, <3>3, CoveredLess
    <3>7. SUFFICES ASSUME Has(db.instance, c)
                   PROVE  /\ db.instance[c].issuance = SupplyNow(c) => db'.instance[c].issuance = SupplyNow(c)'
                          /\ \A a \in Users : PositionOf(db, c, a) = BalanceNow(c, a)
                                                 => PositionOf(db', c, a) = BalanceNow(c, a)'
      BY DEF Follows
    <3>8. c \in DOMAIN db.instance  BY <3>7 DEF Has
    <3>9. /\ db.instance[c].issuance \in Int => db'.instance[c].issuance = db.instance[c].issuance + Minted(log)
          /\ \A a \in Users : (log.from = a => PositionOf(db, c, a) >= log.n)
                                 => PositionOf(db', c, a) = PositionOf(db, c, a) + Received(log, a)
      BY <1>0, <1>9, <2>1, <3>1, <3>8, TransferMoves
    <3>10. db.instance[c].issuance = SupplyNow(c) => db'.instance[c].issuance = SupplyNow(c)'
      BY <3>2, <3>4, <3>9
    <3>11. ASSUME NEW a \in Users, PositionOf(db, c, a) = BalanceNow(c, a)
           PROVE  PositionOf(db', c, a) = BalanceNow(c, a)'
      <4>1. PositionOf(db, c, a) = BalanceAt(t, S, a) /\ BalanceNow(c, a)' = BalanceAt(t, S \ {log}, a)
        BY <3>2, <3>11
      <4>2. log.from = a => PositionOf(db, c, a) >= log.n  BY <3>6, <4>1
      <4>3. PositionOf(db', c, a) = PositionOf(db, c, a) + Received(log, a)  BY <3>9, <4>2
      <4> QED BY <3>5, <4>1, <4>3
    <3> QED BY <3>10, <3>11
  <2>2. CASE log.kind = "UpdateSharePrice" /\ db' = OnUpdateSharePrice(db, c, log.n)
    <3>1. Unmoved(db, db', c)  BY <1>0, <2>2, PriceMovesNothing
    <3>2. log \notin S  BY <1>10, <2>2
    <3>3. tip'[c] = tip[c] /\ TransfersOf(blocks'[c]) = TransfersOf(blocks[c])
      BY <1>1, <1>2, <1>10, <3>2 DEF S, bs
    <3> QED BY <3>1, <3>3, FollowsUnmoved
  <2>3. ASSUME log \notin S, Has(db.instance, c), NEW a \in Users, ~Hasty(c, a), PositionOf(db, c, a) = BalanceNow(c, a),
               \/ PositionOf(db', c, a) = PositionOf(db, c, a)
               \/ Starts(c, a) /\ \E answer \in Answers(c) : PositionOf(db', c, a) = answer.held[a]
        PROVE  PositionOf(db', c, a) = BalanceNow(c, a)'
    <3>1. tip'[c] = tip[c] /\ TransfersOf(blocks'[c]) = TransfersOf(blocks[c])
      BY <1>1, <1>2, <1>10, <2>3 DEF S, bs
    <3>2. BalanceNow(c, a)' = BalanceNow(c, a)  BY <3>1, NowIs
    <3>3. blocks[c] # <<>>  BY <1>1 DEF bs
    <3> QED BY <1>0, <2>3, <3>2, <3>3, AnswerIsBalance
  <2>4. CASE log.kind = "AddShareClass" /\ \E total, held \in Answers(c), decimals \in BOOLEAN :
                 db' = OnAddShareClass(db, c, total.supply, held.held, decimals)
    <3>1. PICK total, held \in Answers(c), decimals \in BOOLEAN :
            db' = OnAddShareClass(db, c, total.supply, held.held, decimals)
      BY <2>4
    <3>2. \A a : \/ PositionOf(db', c, a) = PositionOf(db, c, a)
                 \/ a \in InitialHolders /\ ~Has(db.position, <<c, a>>) /\ PositionOf(db', c, a) = held.held[a]
      BY <1>0, <3>1, SpokeClassMoves
    <3>3. log \notin S  BY <1>10, <2>4
    <3>4. \A a : \/ PositionOf(db', c, a) = PositionOf(db, c, a)
                 \/ Starts(c, a) /\ \E answer \in Answers(c) : PositionOf(db', c, a) = answer.held[a]
      BY <1>5, <2>4, <3>2
    <3> QED BY <1>5, <2>3, <2>4, <3>3, <3>4 DEF Follows
  <2>5. CASE log.kind = "DepositRequest" /\ \E answer \in Answers(c) :
                 db' = InitPosition(db, c, log.to, answer.held[log.to])
    <3>1. PICK answer \in Answers(c) : db' = InitPosition(db, c, log.to, answer.held[log.to])  BY <2>5
    <3>2. /\ db'.instance = db.instance
          /\ \A a : \/ PositionOf(db', c, a) = PositionOf(db, c, a)
                    \/ a = log.to /\ ~Has(db.position, <<c, a>>) /\ PositionOf(db', c, a) = answer.held[a]
      <4> DEFINE n == answer.held[log.to]
                 e == InitPosition(db, c, log.to, n)
      <4>1. /\ e.instance = db.instance
            /\ \A j, a : \/ PositionOf(e, j, a) = PositionOf(db, j, a)
                         \/ j = c /\ a = log.to /\ ~Has(db.position, <<c, log.to>>) /\ PositionOf(e, j, a) = n
        <5> HIDE DEF n
        <5> QED BY <1>0, InitPositionMoves
      <4>2. db' = e  BY <3>1
      <4> HIDE DEF e
      <4>3. \A a : \/ PositionOf(db', c, a) = PositionOf(db, c, a)
                   \/ a = log.to /\ ~Has(db.position, <<c, log.to>>) /\ PositionOf(db', c, a) = n
        BY <4>1, <4>2
      <4> QED BY <4>1, <4>2, <4>3
    <3>3. log \notin S  BY <1>10, <2>5
    <3>4. \A a : \/ PositionOf(db', c, a) = PositionOf(db, c, a)
                 \/ Starts(c, a) /\ \E other \in Answers(c) : PositionOf(db', c, a) = other.held[a]
      BY <1>5, <2>5, <3>2
    <3>5. tip'[c] = tip[c] /\ TransfersOf(blocks'[c]) = TransfersOf(blocks[c])
      BY <1>1, <1>2, <1>10, <3>3 DEF S, bs
    <3>6. SupplyNow(c)' = SupplyNow(c)  BY <3>5, NowIs
    <3> QED BY <2>3, <3>2, <3>3, <3>4, <3>6 DEF Follows
  <2> QED BY <1>1, <2>1, <2>2, <2>4, <2>5
<1> QED BY <1>16, <1>17, <1>18

LEMMA HubFollows ==
  ASSUME Inv, WaitInv, IndexHub
  PROVE  WaitInv' /\ \A i \in Chains : Follows(i)
<1>1. PICK decimals \in BOOLEAN : db' = OnNewPool(db, decimals) \/ db' = OnHubAddShareClass(db, decimals)
  BY DEF IndexHub
<1>2. UNCHANGED <<tip, blocks, emitted>>  BY DEF IndexHub
<1>3. \A i \in Chains : Unmoved(db, db', i)  BY <1>1, HubMovesNothing DEF Inv
<1>4. WaitInv'  BY <1>2, <1>3 DEF WaitInv, Tracked, Unmoved
<1>5. \A i \in Chains : Follows(i)  BY <1>2, <1>3, FollowsUnmoved
<1> QED BY <1>4, <1>5

LEMMA StepFollows ==
  ASSUME Inv, Accounts, WaitInv, SeenInv, [SharesNext]_sharesVars
  PROVE  WaitInv' /\ \A i \in Chains : Follows(i)
<1>0. QueueInv  BY DEF Accounts
<1>1. CASE IndexHub  BY <1>1, HubFollows
<1>2. ASSUME NEW c \in Chains, IndexSpoke(c) PROVE WaitInv' /\ \A i \in Chains : Follows(i)
  BY <1>2, IndexFollows
<1>3. ASSUME NEW c \in Chains, NEW a \in Users, NEW n \in Amounts, Existing(c, a, n)
      PROVE  WaitInv' /\ \A i \in Chains : Follows(i)
  BY <1>0, <1>3, ExistingFollows
<1>4. ASSUME NEW c \in Chains, NEW new \in BOOLEAN, AddShareClass(c, new)
      PROVE  WaitInv' /\ \A i \in Chains : Follows(i)
  BY <1>0, <1>4, AddIsOther, OtherWaits
<1>5. ASSUME NEW c \in Chains, NEW new \in BOOLEAN, NEW from \in Addresses \cup {Zero},
             NEW to \in Addresses \cup {Zero}, NEW n \in Amounts,
             NEW newPrice \in {{}} \cup {{p} : p \in SpokePrices}, Transfer(c, from, to, n, newPrice, new)
      PROVE  WaitInv' /\ \A i \in Chains : Follows(i)
  BY <1>0, <1>5, TransferFollows
<1>6. ASSUME NEW c \in Chains, NEW a \in Users, NEW new \in BOOLEAN, DepositRequest(c, a, new)
      PROVE  WaitInv' /\ \A i \in Chains : Follows(i)
  BY <1>0, <1>6, RequestIsOther, OtherWaits
<1>7. CASE UNCHANGED sharesVars
  <2>1. UNCHANGED <<tip, blocks, emitted, db>>  BY <1>7 DEF sharesVars
  <2>2. WaitInv'  BY <2>1 DEF WaitInv, Tracked
  <2>3. \A i \in Chains : Unmoved(db, db', i)  BY <2>1 DEF Unmoved
  <2>4. \A i \in Chains : Follows(i)  BY <2>1, <2>3, FollowsUnmoved
  <2> QED BY <2>2, <2>4
<1> QED BY <1>1, <1>2, <1>3, <1>4, <1>5, <1>6, <1>7 DEF SharesNext

LEMMA StepCalls ==
  ASSUME Inv, Accounts, WaitInv, SeenInv, [SharesNext]_sharesVars
  PROVE  WaitInv' /\ SeenInv'
  BY StepFollows, StepSees DEF Accounts

LEMMA InitSees == SharesInit => SeenInv
<1>1. \A t : Seen(<<>>, t)  BY DEF Seen
<1> QED BY <1>1 DEF SharesInit, SeenInv

LEMMA InitWaits == SharesInit => WaitInv
<1> SUFFICES ASSUME SharesInit, NEW c \in Chains
             PROVE  /\ IsFiniteSet(Waiting(blocks[c])) /\ Covered(tip[c], TransfersOf(blocks[c]))
                    /\ \A l \in TransfersOf(blocks[c]) : l.from # Zero \/ l.to # Zero
                    /\ ~Tracked(c) => blocks[c] = <<>> /\ ~Has(db.instance, c)
  BY DEF WaitInv
<1>1. blocks[c] = <<>> /\ DOMAIN db.instance = {}  BY DEF SharesInit, EmptyTable
<1>2. Waiting(<<>>) = {} /\ TransfersOf(<<>>) = {}  BY DEF TransfersOf, Waiting
<1> QED BY <1>1, <1>2, FS_EmptySet DEF Covered, Has

\* IssuanceStaysRight: spokeHandlers.ts sets the issuance from a call, the transfers of
\* tokenInstanceHandlers.ts change it by what they mint and burn, and nothing else does.
THEOREM IssuanceKept == SharesSpec => IssuanceStaysRight
<1> DEFINE Right(c) == Has(db.instance, c) /\ ~Adds(c) /\ db.instance[c].issuance = SupplyNow(c)
                         => db'.instance[c].issuance = SupplyNow(c)'
<1>1. ASSUME Inv, Accounts, WaitInv, SeenInv, [SharesNext]_sharesVars PROVE \A c \in Chains : Right(c)
  BY <1>1, StepFollows DEF Follows
<1>2. Inv /\ Accounts /\ WaitInv /\ SeenInv /\ [SharesNext]_sharesVars => WaitInv' /\ SeenInv'
  BY StepCalls
<1>3. Inv /\ Accounts /\ WaitInv /\ SeenInv /\ [SharesNext]_sharesVars
        => [\A c \in Chains : Has(db.instance, c) /\ ~Adds(c) /\ db.instance[c].issuance = SupplyNow(c)
                                => db'.instance[c].issuance = SupplyNow(c)']_sharesVars
  BY <1>1
<1> QED BY <1>2, <1>3, InitInv, StepKeepsInv, InitAccounts, StepKeepsAccounts, InitWaits, InitSees, PTL
        DEF SharesSpec, IssuanceStaysRight

\* PositionsStayRight: a balance that follows the token goes on to, as no transfer that
\* comes takes more than the sender has by then, and as a call that starts a row while
\* nothing of its account waits sees what the logs have told (vaultHandlers.ts and
\* spokeHandlers.ts initialise positions, tokenInstanceHandlers.ts moves them).
THEOREM PositionsKept == SharesSpec => PositionsStayRight
<1>1. ASSUME Inv, Accounts, WaitInv, SeenInv, [SharesNext]_sharesVars
      PROVE  \A c \in Chains, a \in Users :
               Has(db.instance, c) /\ ~Hasty(c, a) /\ PositionOf(db, c, a) = BalanceNow(c, a)
                 => PositionOf(db', c, a) = BalanceNow(c, a)'
  BY <1>1, StepFollows DEF Follows
<1>2. Inv /\ Accounts /\ WaitInv /\ SeenInv /\ [SharesNext]_sharesVars => WaitInv' /\ SeenInv'
  BY StepCalls
<1>3. Inv /\ Accounts /\ WaitInv /\ SeenInv /\ [SharesNext]_sharesVars
        => [\A c \in Chains, a \in Users :
              Has(db.instance, c) /\ ~Hasty(c, a) /\ PositionOf(db, c, a) = BalanceNow(c, a)
                => PositionOf(db', c, a) = BalanceNow(c, a)']_sharesVars
  BY <1>1
<1> QED BY <1>2, <1>3, InitInv, StepKeepsInv, InitAccounts, StepKeepsAccounts, InitWaits, InitSees, PTL
        DEF SharesSpec, PositionsStayRight

-----------------------------------------------------------------------------
(* Types of the tokens and positions *)

InstanceRows == [issuance: Int, active: BOOLEAN, price: Nat]
PositionRows == [balance: Nat, lastPrice: Nat, earnings: Int, cost: Nat, realized: Int]

InstancesTyped(t) == /\ DOMAIN t \subseteq Chains /\ IsFiniteSet(DOMAIN t)
                     /\ \A c \in DOMAIN t : t[c] \in InstanceRows
PositionsTyped(t) == DOMAIN t \subseteq Chains \X Users /\ \A k \in DOMAIN t : t[k] \in PositionRows
TokenTyped(row) == row \in [there: BOOLEAN, active: BOOLEAN, issuance: Int]

SharesTyped(d) == /\ d.pool \in BOOLEAN /\ TokenTyped(d.token)
                  /\ InstancesTyped(d.instance) /\ PositionsTyped(d.position)

LEMMA PutTyped ==
  /\ \A t, c, row : InstancesTyped(t) /\ c \in Chains /\ row \in InstanceRows => InstancesTyped(Put(t, c, row))
  /\ \A t, k, row : PositionsTyped(t) /\ k \in Chains \X Users /\ row \in PositionRows => PositionsTyped(Put(t, k, row))
<1>1. \A t, c : InstancesTyped(t) => IsFiniteSet(DOMAIN t \cup {c})  BY FS_AddElement DEF InstancesTyped
<1> QED BY <1>1 DEF Put, InstancesTyped, PositionsTyped

LEMMA SyncTyped ==
  ASSUME NEW d, Shaped(d), SharesTyped(d), NEW c
  PROVE  SharesTyped(SyncIssuance(d, c)) /\ SyncIssuance(d, c).instance = d.instance
<1> DEFINE n == IssuanceOf(d)
           e == [d EXCEPT !.token.issuance = n]
           w == [i \in DOMAIN d.instance |-> d.instance[i].issuance]
<1>1. SyncIssuance(d, c) = e  BY DEF SyncIssuance, IssuanceOf
<1>2. IsSummable(w)  BY DEF SharesTyped, InstancesTyped, InstanceRows, IsSummable
<1>3. n \in Int
  <2> HIDE DEF w
  <2>1. SumFunction(w) \in Int  BY <1>2, SumType
  <2> QED BY <2>1 DEF w, IssuanceOf
<1> HIDE DEF n
<1>4. /\ e.pool = d.pool /\ e.instance = d.instance /\ e.position = d.position
      /\ e.token = [d.token EXCEPT !.issuance = n]
  BY DEF Shaped
<1>5. TokenTyped(e.token)  BY <1>3, <1>4 DEF TokenTyped, SharesTyped
<1> HIDE DEF e
<1> QED BY <1>1, <1>4, <1>5 DEF SharesTyped

LEMMA IssueTyped ==
  ASSUME NEW d, Shaped(d), SharesTyped(d), NEW c \in DOMAIN d.instance, NEW n \in Int
  PROVE  SharesTyped(ChangeIssuance(d, c, n)) /\ DOMAIN ChangeIssuance(d, c, n).instance = DOMAIN d.instance
<1> DEFINE e == [d EXCEPT !.instance[c].issuance = @ + n]
<1>1. /\ Shaped(e) /\ e.pool = d.pool /\ e.token = d.token /\ e.position = d.position
      /\ DOMAIN e.instance = DOMAIN d.instance
      /\ \A i \in DOMAIN d.instance :
           e.instance[i] = IF i = c THEN [d.instance[c] EXCEPT !.issuance = @ + n] ELSE d.instance[i]
  BY DEF Shaped
<1> HIDE DEF e
<1>2. \A i \in DOMAIN e.instance : e.instance[i] \in InstanceRows
  BY <1>1 DEF SharesTyped, InstancesTyped, InstanceRows
<1>3. SharesTyped(e)  BY <1>1, <1>2 DEF SharesTyped, InstancesTyped
<1> QED BY <1>1, <1>3, SyncTyped DEF ChangeIssuance, e

LEMMA RowIsPosition == ASSUME NEW p \in PositionRows PROVE IsPosition(p)
BY DEF PositionRows, IsPosition

\* A cost is never negative: what a checkpoint takes from it is at most all of it.
LEMMA CostsNatural ==
  ASSUME NEW p \in PositionRows, NEW net \in Int, NEW price \in Nat
  PROVE  p.cost + Checkpoint(p, net, price).cost \in Nat
<1> DEFINE removed == RemovedCost(p, -net)
           left == NonNegative(p.cost - removed)
           value == Value(net, price)
<1>1. IsPosition(p)  BY RowIsPosition
<1>2. removed \in Int
  <2>1. (-net) * p.cost \in Int  BY DEF PositionRows
  <2>2. p.balance # 0 => Quotient((-net) * p.cost, p.balance) \in Int  BY <2>1, QuotientType DEF PositionRows
  <2> QED BY <2>2 DEF RemovedCost
<1>3. left \in Nat /\ p.cost \in Nat
  <2> HIDE DEF removed
  <2> QED BY <1>2 DEF NonNegative, PositionRows
<1>4. net > 0 => value \in Nat  BY ValueType
<1>5. Checkpoint(p, net, price).cost = IF net > 0 THEN value ELSE left - p.cost  BY DEF Checkpoint
<1> HIDE DEF removed, left, value
<1>6. CASE net > 0  BY <1>3, <1>4, <1>5, <1>6
<1>7. CASE ~(net > 0)  BY <1>3, <1>5, <1>7
<1> QED BY <1>6, <1>7

LEMMA ChangeTyped ==
  ASSUME NEW d, Shaped(d), SharesTyped(d), NEW c \in DOMAIN d.instance, NEW a \in Users, NEW net \in Int, NEW no
  PROVE  SharesTyped(ApplyNetPositionChange(d, c, a, net, no))
<1> DEFINE k == <<c, a>>
           p == RowOr(d.position, k, NewPosition)
           price == d.instance[c].price
           cp == Checkpoint(p, net, price)
           m == [p EXCEPT !.balance = p.balance + net]
           row == [balance |-> p.balance + net, lastPrice |-> price, earnings |-> p.earnings + cp.earnings,
                   cost |-> p.cost + cp.cost, realized |-> p.realized + cp.realized]
           marks == Insert(d.checkpoint, <<c, a, no>>, cp)
           e == ApplyNetPositionChange(d, c, a, net, no)
<1>1. k \in Chains \X Users  BY DEF SharesTyped, InstancesTyped
<1>2. p \in PositionRows
  BY DEF RowOr, Has, NewPosition, NoPrice, PositionRows, SharesTyped, PositionsTyped
<1>3. price \in Nat  BY DEF SharesTyped, InstancesTyped, InstanceRows
<1>4. \E q \in PositionRows : e = [d EXCEPT !.position = Put(d.position, k, q)]
                              \/ e = [d EXCEPT !.checkpoint = marks, !.position = Put(d.position, k, q)]
  <2>1. p.balance + net < 0 \/ p.balance + net >= 0
    <3> HIDE DEF p
    <3> QED BY <1>2 DEF PositionRows
  <2>2. \/ p.balance + net < 0 /\ e = [d EXCEPT !.position = Put(d.position, k, p)]
        \/ p.balance + net >= 0 /\ e = [d EXCEPT !.position = Put(d.position, k, m)]
        \/ p.balance + net >= 0 /\ e = [d EXCEPT !.checkpoint = marks, !.position = Put(d.position, k, row)]
    BY <2>1 DEF ApplyNetPositionChange
  <2> HIDE DEF p, price, e, k, marks
  <2>3. p.balance + net >= 0 => m \in PositionRows  BY <1>2 DEF PositionRows
  <2>4. p.balance + net >= 0 => row \in PositionRows
    <3>1. IsCheckpoint(cp)  BY <1>2, <1>3, RowIsPosition, CheckpointType
    <3>2. p.cost + cp.cost \in Nat  BY <1>2, <1>3, CostsNatural
    <3> HIDE DEF cp
    <3> QED BY <1>2, <1>3, <3>1, <3>2 DEF IsCheckpoint, PositionRows
  <2> HIDE DEF m, row
  <2> QED BY <1>2, <2>2, <2>3, <2>4
<1> HIDE DEF p, e, k, cp
<1>5. PICK q \in PositionRows : e = [d EXCEPT !.position = Put(d.position, k, q)]
                                \/ e = [d EXCEPT !.checkpoint = marks, !.position = Put(d.position, k, q)]
  BY <1>4
<1> HIDE DEF marks
<1>6. e.pool = d.pool /\ e.token = d.token /\ e.instance = d.instance /\ e.position = Put(d.position, k, q)
  BY <1>5 DEF Shaped
<1>7. PositionsTyped(e.position)  BY <1>1, <1>6, PutTyped DEF SharesTyped
<1> QED BY <1>6, <1>7 DEF SharesTyped, e

LEMMA TransferTyped ==
  ASSUME NEW d, Shaped(d), SharesTyped(d), NEW c, NEW log, log.n \in Nat PROVE SharesTyped(OnTransfer(d, c, log))
<1>1. CASE ~Has(d.instance, c)  BY <1>1 DEF OnTransfer
<1>2. CASE Has(d.instance, c)
  <2> DEFINE d1 == IF log.from = Zero THEN ChangeIssuance(d, c, log.n)
                   ELSE IF log.to = Zero THEN ChangeIssuance(d, c, -log.n) ELSE d
             d2 == IF log.from \in Users THEN ApplyNetPositionChange(d1, c, log.from, -log.n, log.no) ELSE d1
             d3 == IF log.to \in Users THEN ApplyNetPositionChange(d2, c, log.to, log.n, log.no) ELSE d2
  <2>1. OnTransfer(d, c, log) = d3  BY <1>2 DEF OnTransfer
  <2>2. log.n \in Int /\ -log.n \in Int /\ c \in DOMAIN d.instance  BY <1>2 DEF Has
  <2>3. Shaped(d1) /\ SharesTyped(d1) /\ c \in DOMAIN d1.instance
    BY <2>2, ChangeKept, IssueTyped DEF Kept
  <2> HIDE DEF d1
  <2>4. Shaped(d2) /\ SharesTyped(d2) /\ c \in DOMAIN d2.instance
    BY <2>2, <2>3, PositionChangeKept, ChangeTyped DEF Kept
  <2> HIDE DEF d2
  <2>5. SharesTyped(d3)  BY <2>2, <2>4, ChangeTyped
  <2> QED BY <2>1, <2>5
<1> QED BY <1>1, <1>2

LEMMA PriceTyped ==
  ASSUME NEW d, Shaped(d), SharesTyped(d), NEW c, NEW price \in Nat PROVE SharesTyped(OnUpdateSharePrice(d, c, price))
<1> DEFINE e == [d EXCEPT !.instance[c].price = price]
<1>1. CASE ~Has(d.instance, c)  BY <1>1 DEF OnUpdateSharePrice
<1>2. CASE Has(d.instance, c)
  <2>1. /\ e.pool = d.pool /\ e.token = d.token /\ e.position = d.position
        /\ DOMAIN e.instance = DOMAIN d.instance
        /\ \A i \in DOMAIN d.instance :
             e.instance[i] = IF i = c THEN [d.instance[c] EXCEPT !.price = price] ELSE d.instance[i]
    BY <1>2 DEF Shaped, Has
  <2> HIDE DEF e
  <2>2. \A i \in DOMAIN e.instance : e.instance[i] \in InstanceRows
    BY <2>1 DEF SharesTyped, InstancesTyped, InstanceRows
  <2>3. SharesTyped(e)  BY <2>1, <2>2 DEF SharesTyped, InstancesTyped
  <2> QED BY <1>2, <2>3 DEF OnUpdateSharePrice, e
<1> QED BY <1>1, <1>2

LEMMA SpokeClassTyped ==
  ASSUME NEW d, Shaped(d), SharesTyped(d), NEW c \in Chains, NEW supply \in Int, NEW held,
         \A a \in InitialHolders : held[a] \in Nat, NEW decimals \in BOOLEAN
  PROVE  SharesTyped(OnAddShareClass(d, c, supply, held, decimals))
<1> DEFINE row == RowOr(d.instance, c, NewInstance)
           holders == IF d.pool /\ row.issuance = 0 THEN InitialHolders ELSE {}
           rows == [k \in {c} \X holders |-> [NewPosition EXCEPT !.balance = held[k[2]]]]
           new == [row EXCEPT !.issuance = supply, !.active = @ \/ d.pool]
           instances == Put(d.instance, c, new)
           token == [d.token EXCEPT !.there = TRUE, !.active = @ \/ d.pool]
           positions == InsertAll(d.position, rows)
           f == [d EXCEPT !.instance = instances, !.token = token, !.position = positions]
<1>1. OnAddShareClass(d, c, supply, held, decimals) = IF decimals THEN SyncIssuance(f, c) ELSE d
  BY DEF OnAddShareClass
<1>2. row \in InstanceRows  BY DEF RowOr, Has, NewInstance, NoPrice, InstanceRows, SharesTyped, InstancesTyped
<1>3. new \in InstanceRows
  <2>1. d.pool \in BOOLEAN  BY DEF SharesTyped
  <2> HIDE DEF row
  <2> QED BY <1>2, <2>1 DEF InstanceRows
<1>4. TokenTyped(token)  BY DEF SharesTyped, TokenTyped
<1>5. \A k \in DOMAIN rows : k \in Chains \X Users /\ rows[k] \in PositionRows
  <2> SUFFICES ASSUME NEW k \in DOMAIN rows PROVE k \in Chains \X Users /\ rows[k] \in PositionRows  OBVIOUS
  <2>1. k \in {c} \X holders /\ k[2] \in InitialHolders  OBVIOUS
  <2>2. k \in Chains \X Users  BY <2>1, SharesAssumption
  <2> DEFINE n == held[k[2]]
  <2>3. n \in Nat /\ rows[k] = [NewPosition EXCEPT !.balance = n]  BY <2>1
  <2> HIDE DEF n, rows
  <2> QED BY <2>2, <2>3 DEF NewPosition, NoPrice, PositionRows
<1> HIDE DEF row, rows, new, token
<1>6. InstancesTyped(instances)  BY <1>3, PutTyped DEF SharesTyped
<1>7. PositionsTyped(positions)  BY <1>5 DEF SharesTyped, PositionsTyped, InsertAll
<1>8. DOMAIN token = {"there", "active", "issuance"}  BY <1>4 DEF TokenTyped
<1>9. \A i \in DOMAIN instances : DOMAIN instances[i] = {"issuance", "active", "price"}
  BY <1>6 DEF InstancesTyped, InstanceRows
<1> HIDE DEF instances, positions
<1>10. /\ f.pool = d.pool /\ f.token = token /\ f.instance = instances /\ f.position = positions
       /\ DOMAIN f = DOMAIN d
  BY DEF Shaped
<1> HIDE DEF f
<1>11. Shaped(f) /\ SharesTyped(f)  BY <1>4, <1>6, <1>7, <1>8, <1>9, <1>10 DEF Shaped, SharesTyped
<1> QED BY <1>1, <1>11, SyncTyped

LEMMA InitPositionTyped ==
  ASSUME NEW d, Shaped(d), SharesTyped(d), NEW c \in Chains, NEW a \in Users, NEW held \in Nat
  PROVE  SharesTyped(InitPosition(d, c, a, held))
<1> DEFINE row == [NewPosition EXCEPT !.balance = held]
           positions == Insert(d.position, <<c, a>>, row)
           e == InitPosition(d, c, a, held)
<1>1. row \in PositionRows  BY DEF NewPosition, NoPrice, PositionRows
<1> HIDE DEF row
<1>2. PositionsTyped(positions)  BY <1>1 DEF SharesTyped, PositionsTyped, Insert, Put
<1> HIDE DEF positions
<1>3. /\ e.pool = d.pool /\ e.token = d.token /\ e.instance = d.instance
      /\ e.position = positions \/ e.position = d.position
  BY DEF InitPosition, Shaped, positions, row
<1> HIDE DEF e
<1>4. SharesTyped(e)  BY <1>2, <1>3 DEF SharesTyped
<1> QED BY <1>4 DEF e

LEMMA HubTyped ==
  ASSUME NEW d, Shaped(d), SharesTyped(d), NEW decimals \in BOOLEAN
  PROVE  SharesTyped(OnNewPool(d, decimals)) /\ SharesTyped(OnHubAddShareClass(d, decimals))
<1>1. SharesTyped(OnNewPool(d, decimals))
  <2> DEFINE e == [d EXCEPT !.pool = @ \/ decimals]
  <2>1. e.pool \in BOOLEAN /\ e.token = d.token /\ e.instance = d.instance /\ e.position = d.position
    BY DEF Shaped, SharesTyped
  <2> HIDE DEF e
  <2>2. SharesTyped(e)  BY <2>1 DEF SharesTyped
  <2> QED BY <2>2 DEF OnNewPool, e
<1>2. SharesTyped(OnHubAddShareClass(d, decimals))
  <2> DEFINE token == [d.token EXCEPT !.there = TRUE, !.active = TRUE]
             instances == [i \in DOMAIN d.instance |-> [d.instance[i] EXCEPT !.active = TRUE]]
             e == [d EXCEPT !.token = token, !.instance = instances]
  <2>1. OnHubAddShareClass(d, decimals) = IF d.pool /\ decimals THEN e ELSE d  BY DEF OnHubAddShareClass
  <2>2. TokenTyped(token)  BY DEF SharesTyped, TokenTyped
  <2>3. InstancesTyped(instances)
    <3>1. \A i \in DOMAIN d.instance : [d.instance[i] EXCEPT !.active = TRUE] \in InstanceRows
      BY DEF SharesTyped, InstancesTyped, InstanceRows
    <3> QED BY <3>1 DEF SharesTyped, InstancesTyped
  <2> HIDE DEF token, instances
  <2>4. e.pool = d.pool /\ e.token = token /\ e.instance = instances /\ e.position = d.position  BY DEF Shaped
  <2> HIDE DEF e
  <2>5. SharesTyped(e)  BY <2>2, <2>3, <2>4 DEF SharesTyped
  <2> QED BY <2>1, <2>5
<1> QED BY <1>1, <1>2

-----------------------------------------------------------------------------
(* Types of the chains *)

\* The supply of a token is what its holders have.
Supplied(t) == t.supply = SumFunction(t.held)

LEMMA HeldSummable == ASSUME NEW held \in [Addresses -> Int] PROVE IsSummable(held)
<1>1. IsFiniteSet(Users \cup {Escrow})  BY SharesAssumption, FS_AddElement
<1> QED BY <1>1 DEF IsSummable, Addresses

LEMMA NothingHeld == NoShares \in States /\ Supplied(NoShares)
<1> DEFINE held == [a \in Addresses |-> 0]
           none == [a \in {} |-> 0]
<1>1. IsSummable(held)  BY HeldSummable
<1>2. NoShares.held = held /\ NoShares.supply = 0  BY DEF NoShares
<1>3. DOMAIN none = {} /\ DOMAIN none \subseteq DOMAIN held /\ \A x \in DOMAIN held \ DOMAIN none : held[x] = 0
  OBVIOUS
<1>4. NoShares \in States  BY DEF NoShares, States
<1> HIDE DEF held, none
<1>5. SumFunction(none) = SumFunction(held)  BY <1>1, <1>3, SumOfRest
<1>6. SumFunction(none) = 0  BY <1>3, SumOfNone
<1> QED BY <1>2, <1>4, <1>5, <1>6 DEF Supplied

\* A move takes from one holder and gives to another.
LEMMA MoveSupplied ==
  ASSUME NEW t \in States, Supplied(t), NEW from \in Addresses \cup {Zero}, NEW to \in Addresses \cup {Zero},
         NEW n \in Nat
  PROVE  Supplied(Move(t, from, to, n))
<1> DEFINE mid == [a \in Addresses |-> t.held[a] + (IF a = to THEN n ELSE 0)]
           now == [a \in Addresses |-> t.held[a] + (IF a = to THEN n ELSE 0) - (IF a = from THEN n ELSE 0)]
           added == IF to \in Addresses THEN n ELSE 0
           taken == IF from \in Addresses THEN n ELSE 0
<1>1. t.supply \in Int /\ t.held \in [Addresses -> Nat] /\ n \in Int  BY DEF States
<1>2. Zero \notin Addresses  BY SharesAssumption DEF Addresses, Zero, Escrow
<1>3. mid \in [Addresses -> Int] /\ now \in [Addresses -> Int] /\ t.held \in [Addresses -> Int]  BY <1>1
<1>4. IsSummable(t.held) /\ IsSummable(mid)  BY <1>3, HeldSummable
<1>5. SumFunction(mid) = SumFunction(t.held) + added
  <2>1. CASE to \in Addresses
    <3>1. /\ to \in DOMAIN t.held /\ DOMAIN mid = DOMAIN t.held /\ mid[to] = t.held[to] + n
          /\ \A x \in DOMAIN t.held \ {to} : mid[x] = t.held[x]
      BY <1>1, <2>1
    <3>2. mid[to] \in Int /\ t.held[to] \in Int  BY <1>3, <2>1
    <3> HIDE DEF mid
    <3>3. SumFunction(mid) = SumFunction(t.held) + (mid[to] - t.held[to])  BY <1>4, <3>1, <3>2, SumOfChanged
    <3> QED BY <1>1, <2>1, <3>1, <3>2, <3>3
  <2>2. CASE to \notin Addresses
    <3>1. DOMAIN mid = DOMAIN t.held /\ \A x \in DOMAIN t.held : mid[x] = t.held[x]  BY <1>1, <2>2
    <3> HIDE DEF mid
    <3>2. SumFunction(mid) = SumFunction(t.held)  BY <1>4, <3>1, SumOfEqual DEF IsSummable
    <3>3. SumFunction(t.held) \in Int  BY <1>4, SumType
    <3> QED BY <2>2, <3>2, <3>3
  <2> QED BY <2>1, <2>2
<1>6. SumFunction(now) = SumFunction(mid) - taken
  <2>1. CASE from \in Addresses
    <3>1. /\ from \in DOMAIN mid /\ DOMAIN now = DOMAIN mid /\ now[from] = mid[from] - n
          /\ \A x \in DOMAIN mid \ {from} : now[x] = mid[x]
      BY <1>1, <2>1
    <3>2. now[from] \in Int /\ mid[from] \in Int  BY <1>3, <2>1
    <3> HIDE DEF mid, now
    <3>3. SumFunction(now) = SumFunction(mid) + (now[from] - mid[from])  BY <1>4, <3>1, <3>2, SumOfChanged
    <3>4. SumFunction(mid) \in Int  BY <1>4, SumType
    <3> QED BY <1>1, <2>1, <3>1, <3>2, <3>3, <3>4
  <2>2. CASE from \notin Addresses
    <3>1. DOMAIN now = DOMAIN mid /\ \A x \in DOMAIN mid : now[x] = mid[x]  BY <1>1, <2>2
    <3> HIDE DEF mid, now
    <3>2. SumFunction(now) = SumFunction(mid)  BY <1>4, <3>1, SumOfEqual DEF IsSummable
    <3>3. SumFunction(mid) \in Int  BY <1>4, SumType
    <3> QED BY <2>2, <3>2, <3>3
  <2> QED BY <2>1, <2>2
<1>7. /\ Move(t, from, to, n).held = now
      /\ Move(t, from, to, n).supply = t.supply + (IF from = Zero THEN n ELSE 0) - (IF to = Zero THEN n ELSE 0)
  BY DEF Move
<1>8. SumFunction(t.held) \in Int /\ t.supply = SumFunction(t.held)  BY <1>4, SumType DEF Supplied
<1> HIDE DEF mid, now
<1>9. t.supply + (IF from = Zero THEN n ELSE 0) - (IF to = Zero THEN n ELSE 0) = SumFunction(now)
  BY <1>1, <1>2, <1>5, <1>6, <1>8
<1> QED BY <1>7, <1>9 DEF Supplied

LEMMA SuppliedNatural == ASSUME NEW t \in States, Supplied(t) PROVE t.supply \in Nat
<1> DEFINE none == [a \in Addresses |-> 0]
<1>1. t.held \in [Addresses -> Nat]  BY DEF States
<1>2. t.held \in [Addresses -> Int] /\ none \in [Addresses -> Int]  BY <1>1
<1>3. IsSummable(t.held) /\ IsSummable(none)  BY <1>2, HeldSummable
<1>4. DOMAIN t.held = DOMAIN none /\ \A x \in DOMAIN none : none[x] <= t.held[x]  BY <1>1
<1>5. SumFunction(none) = 0  BY NothingHeld DEF Supplied, NoShares
<1> HIDE DEF none
<1>6. SumFunction(none) <= SumFunction(t.held)  BY <1>3, <1>4, SumOfSmaller
<1>7. SumFunction(t.held) \in Int  BY <1>3, SumType
<1> QED BY <1>5, <1>6, <1>7 DEF Supplied

SharesTypes == /\ \A c \in Chains : Supplied(tip[c])
               /\ ops \in 0..MaxOps
               /\ SharesTyped(db)

LEMMA TypesInit == SharesInit => SharesTypes
<1> SUFFICES ASSUME SharesInit PROVE SharesTypes  OBVIOUS
<1>1. \A c \in Chains : Supplied(tip[c])  BY NothingHeld DEF SharesInit
<1>2. ops \in 0..MaxOps  BY ShareSystemAssumption DEF SharesInit
<1>3. SharesTyped(db)
  <2>1. IsFiniteSet({})  BY FS_EmptySet
  <2> QED BY <2>1 DEF SharesInit, EmptyTable, SharesTyped, TokenTyped, InstancesTyped, PositionsTyped
<1> QED BY <1>1, <1>2, <1>3 DEF SharesTypes

LEMMA ActTyped == ASSUME ops \in 0..MaxOps, NEW c, Act(c) PROVE ops' \in 0..MaxOps
<1>1. MaxOps \in Nat /\ MaxOpsOfTwo \in 0..MaxOps  BY ShareSystemAssumption
<1> QED BY <1>1 DEF Act

LEMMA IndexTyped == ASSUME Inv, Accounts, SharesTypes, NEW c \in Chains, IndexSpoke(c) PROVE SharesTypes'
<1> DEFINE log == blocks[c][1].logs[1]
<1>1. /\ blocks[c] # <<>> /\ UNCHANGED <<tip, ops>>
      /\ \/ log.kind = "Transfer" /\ db' = OnTransfer(db, c, log)
         \/ log.kind = "UpdateSharePrice" /\ db' = OnUpdateSharePrice(db, c, log.n)
         \/ \E total, held \in Answers(c), decimals \in BOOLEAN :
                 db' = OnAddShareClass(db, c, total.supply, held.held, decimals)
         \/ log.kind = "DepositRequest" /\ \E answer \in Answers(c) :
                 db' = InitPosition(db, c, log.to, answer.held[log.to])
  BY DEF IndexSpoke
<1>2. Numbered(blocks[c], emitted[c]) /\ emitted[c] \in Nat  BY DEF Accounts, QueueInv
<1>3. blocks[c] \in Seq(Blocks)  BY <1>2 DEF Numbered
<1>4. 1 \in 1..Len(blocks[c])  BY <1>1, <1>3
<1>5. 1 \in 1..Len(blocks[c][1].logs)  BY <1>2, <1>4, NumbersType
<1>6. log.n \in Nat /\ (log.kind = "DepositRequest" => log.to \in Users)
  <2>1. log \in Logs  BY <1>2, <1>4, <1>5, NumbersType
  <2>2. IsLog(log)  BY <1>2, <1>4, <1>5 DEF Numbered
  <2> HIDE DEF log
  <2> QED BY <2>1, <2>2 DEF Logs, IsLog
<1> HIDE DEF log
<1>7. \A total \in Answers(c) : total \in States
  <2>1. \A i \in DOMAIN blocks[c] : blocks[c][i].at \in States
    <3>1. \A i \in DOMAIN blocks[c] : blocks[c][i] \in Blocks  BY <1>3
    <3> QED BY <3>1 DEF Blocks
  <2>2. 1 \in DOMAIN blocks[c]  BY <1>3, <1>4
  <2> QED BY <2>1, <2>2, NothingHeld DEF Answers
<1>8. Shaped(db) /\ SharesTyped(db)  BY DEF Inv, SharesTypes
<1>9. SharesTyped(db')
  <2>1. CASE log.kind = "Transfer" /\ db' = OnTransfer(db, c, log)  BY <1>6, <1>8, <2>1, TransferTyped
  <2>2. CASE db' = OnUpdateSharePrice(db, c, log.n)  BY <1>6, <1>8, <2>2, PriceTyped
  <2>3. CASE \E total, held \in Answers(c), decimals \in BOOLEAN :
               db' = OnAddShareClass(db, c, total.supply, held.held, decimals)
    <3>1. PICK total, held \in Answers(c), decimals \in BOOLEAN :
               db' = OnAddShareClass(db, c, total.supply, held.held, decimals)
      BY <2>3
    <3> DEFINE supply == total.supply
               balances == held.held
    <3>2. supply \in Int /\ \A a \in InitialHolders : balances[a] \in Nat
      <4>1. held \in States /\ total \in States  BY <1>7
      <4> QED BY <4>1, SharesAssumption DEF States, Addresses
    <3>3. db' = OnAddShareClass(db, c, supply, balances, decimals)  BY <3>1
    <3> HIDE DEF supply, balances
    <3> QED BY <1>8, <3>2, <3>3, SpokeClassTyped
  <2>4. CASE log.kind = "DepositRequest" /\ \E answer \in Answers(c) :
               db' = InitPosition(db, c, log.to, answer.held[log.to])
    <3>1. PICK answer \in Answers(c) : db' = InitPosition(db, c, log.to, answer.held[log.to])  BY <2>4
    <3> DEFINE a == log.to
               balance == answer.held[a]
    <3>2. a \in Users /\ balance \in Nat
      <4>1. a \in Users /\ a \in Addresses  BY <1>6, <2>4 DEF Addresses
      <4> QED BY <1>7, <4>1 DEF States
    <3>3. db' = InitPosition(db, c, a, balance)  BY <3>1
    <3> HIDE DEF a, balance
    <3> QED BY <1>8, <3>2, <3>3, InitPositionTyped
  <2> QED BY <1>1, <2>1, <2>2, <2>3, <2>4
<1> QED BY <1>1, <1>9 DEF SharesTypes

LEMMA StepTypes == Inv /\ Accounts /\ SharesTypes /\ [SharesNext]_sharesVars => SharesTypes'
<1> SUFFICES ASSUME Inv, Accounts, SharesTypes, [SharesNext]_sharesVars PROVE SharesTypes'  OBVIOUS
<1>1. ops \in 0..MaxOps /\ tip \in [Chains -> States] /\ \A c \in Chains : Supplied(tip[c])
  BY DEF SharesTypes, Accounts, QueueInv
<1>2. ASSUME NEW c \in Chains, NEW after, Supplied(after), tip' = [tip EXCEPT ![c] = after], Act(c), db' = db
      PROVE  SharesTypes'
  <2>1. \A i \in Chains : Supplied(tip'[i])  BY <1>1, <1>2
  <2>2. ops' \in 0..MaxOps  BY <1>1, <1>2, ActTyped
  <2> QED BY <1>2, <2>1, <2>2 DEF SharesTypes
<1>3. CASE IndexHub
  <2>1. PICK decimals \in BOOLEAN : db' = OnNewPool(db, decimals) \/ db' = OnHubAddShareClass(db, decimals)
    BY <1>3 DEF IndexHub
  <2>2. SharesTyped(db')  BY <2>1, HubTyped DEF Inv, SharesTypes
  <2> QED BY <1>3, <2>2 DEF IndexHub, SharesTypes
<1>4. ASSUME NEW c \in Chains, IndexSpoke(c) PROVE SharesTypes'  BY <1>4, IndexTyped
<1>5. ASSUME NEW c \in Chains, NEW a \in Users, NEW n \in Amounts, Existing(c, a, n) PROVE SharesTypes'
  <2>1. n \in Nat /\ a \in Addresses \cup {Zero} /\ Zero \in Addresses \cup {Zero}
    BY ShareSystemAssumption DEF Addresses
  <2>2. Supplied(Move(tip[c], Zero, a, n))  BY <1>1, <2>1, MoveSupplied
  <2> QED BY <1>2, <1>5, <2>2 DEF Existing
<1>6. ASSUME NEW c \in Chains, NEW new \in BOOLEAN, AddShareClass(c, new) PROVE SharesTypes'
  BY <1>1, <1>2, <1>6 DEF AddShareClass, Emit
<1>7. ASSUME NEW c \in Chains, NEW new \in BOOLEAN, NEW from \in Addresses \cup {Zero},
             NEW to \in Addresses \cup {Zero}, NEW n \in Amounts,
             NEW newPrice \in {{}} \cup {{p} : p \in SpokePrices}, Transfer(c, from, to, n, newPrice, new)
      PROVE  SharesTypes'
  <2>1. n \in Nat  BY ShareSystemAssumption
  <2>2. Supplied(Move(tip[c], from, to, n))  BY <1>1, <2>1, MoveSupplied
  <2>3. Act(c) /\ tip' = [tip EXCEPT ![c] = Move(tip[c], from, to, n)] /\ db' = db  BY <1>7 DEF Transfer, Emit
  <2> QED BY <1>2, <2>2, <2>3
<1>8. ASSUME NEW c \in Chains, NEW a \in Users, NEW new \in BOOLEAN, DepositRequest(c, a, new) PROVE SharesTypes'
  BY <1>1, <1>2, <1>8 DEF DepositRequest, Emit
<1>9. CASE UNCHANGED sharesVars  BY <1>9 DEF sharesVars, SharesTypes
<1> QED BY <1>3, <1>4, <1>5, <1>6, <1>7, <1>8, <1>9 DEF SharesNext

LEMMA SharesTypeCorrect == SharesSpec => []SharesTypeOK
<1>1. ASSUME Accounts, SharesTypes PROVE SharesTypeOK
  <2>1. tip \in [Chains -> States] /\ emitted \in [Chains -> Nat]  BY <1>1 DEF Accounts, QueueInv
  <2>2. \A c \in Chains : tip[c] \in [supply: Nat, held: [Addresses -> Nat]]
    <3> SUFFICES ASSUME NEW c \in Chains PROVE tip[c] \in [supply: Nat, held: [Addresses -> Nat]]  OBVIOUS
    <3>1. tip[c] \in States /\ tip[c].supply \in Nat  BY <1>1, <2>1, SuppliedNatural DEF SharesTypes
    <3> QED BY <3>1 DEF States
  <2>3. /\ db.pool \in BOOLEAN /\ db.token \in [there: BOOLEAN, active: BOOLEAN, issuance: Int]
        /\ DOMAIN db.instance \subseteq Chains /\ DOMAIN db.position \subseteq Chains \X Users
    BY <1>1 DEF SharesTypes, SharesTyped, TokenTyped, InstancesTyped, PositionsTyped
  <2>4. \A c \in DOMAIN db.instance : db.instance[c] \in [issuance: Int, active: BOOLEAN, price: Nat]
    BY <1>1 DEF SharesTypes, SharesTyped, InstancesTyped, InstanceRows
  <2>5. \A k \in DOMAIN db.position :
          db.position[k] \in [balance: Nat, lastPrice: Nat, earnings: Int, cost: Nat, realized: Int]
    BY <1>1 DEF SharesTypes, SharesTyped, PositionsTyped, PositionRows
  <2> QED BY <1>1, <2>1, <2>2, <2>3, <2>4, <2>5 DEF SharesTypes, SharesTypeOK
<1>2. Accounts /\ SharesTypes => SharesTypeOK  BY <1>1
<1> QED BY <1>2, InitInv, StepKeepsInv, InitAccounts, StepKeepsAccounts, TypesInit, StepTypes, PTL DEF SharesSpec

=============================================================================
