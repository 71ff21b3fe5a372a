----------------------------- MODULE Spoke_proofs ------------------------------
(***************************************************************************)
(* What is kept of a share class on its spokes.                            *)
(*                                                                         *)
(* Vaults, for any vaults, reserves and number of signals: the rows keep   *)
(* their shape, and a flag that is shown is not older than the             *)
(* acknowledgement the row knows of.                                       *)
(*                                                                         *)
(* Settings and members, for any roots, times and number of logs: settings *)
(* follow the spoke and members what the hub said of them.                 *)
(***************************************************************************)
EXTENDS MCSpoke, Shares_proofs

-----------------------------------------------------------------------------
(* Vaults *)

HubLogKinds == Kinds \cup {"MaxReserve"}
SpokeLogKinds == HubLogKinds \cup {"RegisterAsset", "DeployVault"}
LogOf(kinds) == [kind: kinds, vault: VaultIds \cup {Null}, reserve: Reserves \cup {Null}, time: Nat]

\* A row has its shape, and its flag is the pending signal or nothing.
VaultRowOK(row) ==
  /\ row \in VaultRow
  /\ row.inProgress # "None" => Pending(row.signalAt, row.ackAt) /\ row.inProgress = row.signal

VaultTableOK(t) == \A v \in DOMAIN t : VaultRowOK(t[v])

\* The inductive invariant.  A handler trusts the log it is given, so the logs
\* of both chains belong to it.
VaultInv == /\ clock \in Nat /\ executed \in Nat /\ hubNext \in Nat /\ spokeNext \in Nat
       /\ hub \in Seq(LogOf(HubLogKinds))
       /\ spoke \in Seq(LogOf(SpokeLogKinds))
       /\ VaultTableOK(vault)

-----------------------------------------------------------------------------
(* The table operations keep the rows right *)

LEMMA PutOK == ASSUME NEW t, NEW v, NEW row, VaultTableOK(t), VaultRowOK(row) PROVE VaultTableOK(Put(t, v, row))
  BY DEF VaultTableOK, Put

LEMMA StubOK == VaultRowOK(StubRow)
  BY DEF VaultRowOK, VaultRow, StubRow, Null, Kinds

LEMMA EarliestNat == ASSUME NEW a \in Nat, NEW b \in Nat PROVE Earliest(a, b) \in Nat
  BY DEF Earliest

\* The hub's signal.
LEMMA HubSignalOK ==
  ASSUME NEW t, NEW v, NEW type \in Kinds, NEW time \in Nat, VaultTableOK(t)
  PROVE  VaultTableOK(UpsertHubSignal(t, v, type, time))
<1>1. CASE ~Has(t, v)
  <2>1. VaultRowOK([StubRow EXCEPT !.forAsset = TRUE, !.signal = type, !.signalAt = time])
    BY StubOK DEF VaultRowOK, VaultRow, StubRow, Null, Kinds
  <2> QED BY <1>1, <2>1, PutOK DEF UpsertHubSignal
<1>2. CASE Has(t, v)
  <2> DEFINE row == t[v]
             at  == Earliest(row.signalAt, time)
             new == [row EXCEPT !.signal = type, !.signalAt = at,
                        !.inProgress = IF Pending(at, row.ackAt) THEN type ELSE "None"]
  <2>1. VaultRowOK(row)  BY <1>2 DEF VaultTableOK, Has
  <2>2. at \in Nat  BY <2>1, EarliestNat DEF VaultRowOK, VaultRow
  <2>3. VaultRowOK(new)
    <3> HIDE DEF at
    <3> QED BY <2>1, <2>2 DEF VaultRowOK, VaultRow
  <2> QED BY <1>2, <2>3, PutOK DEF UpsertHubSignal
<1> QED BY <1>1, <1>2

\* The spoke's acknowledgement.
LEMMA SpokeAckOK ==
  ASSUME NEW t, NEW v, NEW status \in {"Unlinked", "Linked"}, NEW time \in Nat, VaultTableOK(t)
  PROVE  VaultTableOK(UpsertSpokeAck(t, v, status, time))
<1>1. CASE ~Has(t, v)
  <2>1. VaultRowOK([StubRow EXCEPT !.status = status, !.ackAt = time])
    BY StubOK DEF VaultRowOK, VaultRow, StubRow, Null, Kinds
  <2> QED BY <1>1, <2>1, PutOK DEF UpsertSpokeAck
<1>2. CASE Has(t, v)
  <2> DEFINE row == t[v]
             at  == Earliest(row.ackAt, time)
             new == [row EXCEPT !.status = status, !.ackAt = at,
                        !.inProgress = IF Pending(row.signalAt, at) THEN row.signal ELSE "None"]
  <2>1. VaultRowOK(row)  BY <1>2 DEF VaultTableOK, Has
  <2>2. at \in Nat  BY <2>1, EarliestNat DEF VaultRowOK, VaultRow
  <2>3. VaultRowOK(new)
    <3> HIDE DEF at
    <3> QED BY <2>1, <2>2 DEF VaultRowOK, VaultRow
  <2> QED BY <1>2, <2>3, PutOK DEF UpsertSpokeAck
<1> QED BY <1>1, <1>2

\* A deployment resets the flag and leaves the facts of both sides.
LEMMA DeployOK ==
  ASSUME NEW t, NEW v, NEW answered, NEW asset, VaultTableOK(t)
  PROVE  VaultTableOK(OnDeployVault(t, v, answered, asset))
<1> DEFINE values == [deployed |-> TRUE, forAsset |-> TRUE, status |-> "Unlinked",
                      inProgress |-> "None", maxReserve |-> Unlimited]
           old == RowOr(t, v, StubRow)
<1>1. VaultRowOK(old)  BY StubOK DEF RowOr, Has, VaultTableOK
<1>2. VaultRowOK(Overwrite(old, values))
  <2> DEFINE new == Overwrite(old, values)
  <2> HIDE DEF old
  <2>1. old \in VaultRow  BY <1>1 DEF VaultRowOK
  <2>2. new = [f \in DOMAIN old |-> IF f \in DOMAIN values THEN values[f] ELSE old[f]]
    BY DEF Overwrite
  <2>3. new = [old EXCEPT !.deployed = TRUE, !.forAsset = TRUE, !.status = "Unlinked",
                          !.inProgress = "None", !.maxReserve = Unlimited]
    BY <2>1, <2>2 DEF VaultRow
  <2>4. Unlimited \in Int  BY DEF Unlimited
  <2>5. new \in VaultRow /\ new.inProgress = "None"
    <3> HIDE DEF new
    <3> QED BY <2>1, <2>3, <2>4 DEF VaultRow
  <2> QED BY <2>5 DEF VaultRowOK
<1> QED BY <1>2, PutOK DEF OnDeployVault, Upsert

\* A reserve keeps the flag or clears it.
LEMMA ReserveOK ==
  ASSUME NEW t, NEW n \in Int, NEW live, NEW asset, VaultTableOK(t), NEW u \in OnSetMaxReserve(t, n, live, asset)
  PROVE  VaultTableOK(u)
<1>1. ASSUME NEW v \in OfAsset(t) PROVE VaultTableOK(SetMaxReserve(t, v, n, live))
  <2>1. VaultRowOK(t[v])  BY <1>1 DEF OfAsset, VaultTableOK
  <2>2. VaultRowOK([t[v] EXCEPT !.maxReserve = n, !.inProgress = IF live THEN "None" ELSE @])
    BY <2>1 DEF VaultRowOK, VaultRow
  <2> QED BY <2>2, PutOK DEF SetMaxReserve
<1> QED BY <1>1 DEF OnSetMaxReserve

-----------------------------------------------------------------------------
(* Steps *)

LEMMA VaultInitOK == VaultInit => VaultInv
  BY DEF VaultInit, VaultInv, VaultTableOK, EmptyTable

LEMMA VaultLogType ==
  ASSUME NEW kinds, NEW kind \in kinds, NEW v \in VaultIds \cup {Null}, NEW n \in Reserves \cup {Null}, clock \in Nat
  PROVE  VaultLog(kind, v, n) \in LogOf(kinds)
  BY DEF VaultLog, LogOf

LEMMA LogFields ==
  ASSUME NEW kinds, NEW log \in LogOf(kinds) PROVE log.time \in Nat /\ log.reserve \in Int
<1>1. Reserves \cup {Null} \subseteq Int  BY VaultAssumption DEF Null, VaultAssumption
<1> QED BY <1>1 DEF LogOf

LEMMA OnSpokeOK ==
  ASSUME VaultInv, NEW log \in LogOf(SpokeLogKinds), OnSpoke(log), executed' \in Nat PROVE VaultInv'
  BY DEF VaultInv, OnSpoke, VaultTableOK

LEMMA ExecuteOK == VaultInv /\ Execute => VaultInv'
<1> SUFFICES ASSUME VaultInv, Execute PROVE VaultInv'  OBVIOUS
<1> DEFINE next == hub[executed + 1]
<1>1. next \in LogOf(HubLogKinds)  BY DEF VaultInv, Execute
<1>2. VaultLog(next.kind, next.vault, next.reserve) \in LogOf(SpokeLogKinds)
  BY <1>1 DEF LogOf, SpokeLogKinds, VaultLog, VaultInv
<1> QED BY <1>2, OnSpokeOK DEF Execute, VaultInv

LEMMA SignalOK ==
  ASSUME VaultInv, NEW v \in VaultIds, NEW kind \in HubLogKinds, NEW n \in Reserves \cup {Null}, Signal(kind, v, n)
  PROVE  VaultInv'
<1>1. VaultLog(kind, v, n) \in LogOf(HubLogKinds)  BY VaultLogType DEF VaultInv
<1> QED BY <1>1 DEF VaultInv, Signal, VaultTableOK

LEMMA IndexHubOK == ASSUME VaultInv, NEW live \in BOOLEAN, IndexHubLog(live) PROVE VaultInv'
<1> DEFINE e == hub[hubNext + 1]
<1>1. e \in LogOf(HubLogKinds)  BY DEF VaultInv, IndexHubLog
<1>2. e.time \in Nat /\ e.reserve \in Int  BY <1>1, LogFields
<1>3. VaultTableOK(vault')
  <2>1. CASE e.kind = "MaxReserve"
    BY <2>1, <1>2, ReserveOK DEF VaultInv, IndexHubLog
  <2>2. CASE e.kind # "MaxReserve"
    <3>1. e.kind \in Kinds  BY <2>2, <1>1 DEF LogOf, HubLogKinds
    <3> QED BY <2>2, <3>1, <1>2, HubSignalOK DEF VaultInv, IndexHubLog, OnUpdateVault
  <2> QED BY <2>1, <2>2
<1> QED BY <1>3 DEF VaultInv, IndexHubLog, chainVars

LEMMA IndexSpokeOK ==
  ASSUME VaultInv, NEW live \in BOOLEAN, NEW answered \in BOOLEAN, IndexSpokeLog(live, answered) PROVE VaultInv'
<1> DEFINE e == spoke[spokeNext + 1]
<1>1. e \in LogOf(SpokeLogKinds)  BY DEF VaultInv, IndexSpokeLog
<1>2. e.time \in Nat /\ e.reserve \in Int  BY <1>1, LogFields
<1>3. VaultTableOK(vault')
  <2>1. CASE e.kind = "RegisterAsset"  BY <2>1 DEF VaultInv, IndexSpokeLog, VaultTableOK
  <2>2. CASE e.kind = "DeployVault"    BY <2>2, DeployOK DEF VaultInv, IndexSpokeLog
  <2>3. CASE e.kind = "LinkVault"      BY <2>3, <1>2, SpokeAckOK DEF VaultInv, IndexSpokeLog, OnLinkVault
  <2>4. CASE e.kind = "UnlinkVault"    BY <2>4, <1>2, SpokeAckOK DEF VaultInv, IndexSpokeLog, OnUnlinkVault
  <2>5. CASE e.kind = "MaxReserve"     BY <2>5, <1>2, ReserveOK DEF VaultInv, IndexSpokeLog
  <2> QED BY <1>1, <2>1, <2>2, <2>3, <2>4, <2>5 DEF LogOf, SpokeLogKinds, HubLogKinds, Kinds
<1> QED BY <1>3 DEF VaultInv, IndexSpokeLog, chainVars

LEMMA VaultStepOK == VaultInv /\ [VaultNext]_vaultVars => VaultInv'
<1> SUFFICES ASSUME VaultInv, [VaultNext]_vaultVars PROVE VaultInv'  OBVIOUS
<1>1. CASE RegisterAsset
  <2>1. VaultLog("RegisterAsset", Null, Null) \in LogOf(SpokeLogKinds)  BY VaultLogType DEF VaultInv, SpokeLogKinds
  <2> QED BY <1>1, <2>1, OnSpokeOK DEF RegisterAsset, VaultInv
<1>2. ASSUME NEW v \in VaultIds, DeployVault(v) PROVE VaultInv'
  <2>1. VaultLog("DeployVault", v, Null) \in LogOf(SpokeLogKinds)  BY VaultLogType DEF VaultInv, SpokeLogKinds
  <2> QED BY <1>2, <2>1, OnSpokeOK DEF DeployVault, VaultInv
<1>3. ASSUME NEW v \in VaultIds, NEW kind \in Kinds, Signal(kind, v, Null) PROVE VaultInv'
  BY <1>3, SignalOK DEF HubLogKinds
<1>4. ASSUME NEW v \in VaultIds, NEW n \in Reserves, Signal("MaxReserve", v, n) PROVE VaultInv'
  BY <1>4, SignalOK DEF HubLogKinds
<1>5. CASE Execute  BY <1>5, ExecuteOK
<1>6. ASSUME NEW live \in BOOLEAN, IndexHubLog(live) PROVE VaultInv'  BY <1>6, IndexHubOK
<1>7. ASSUME NEW live \in BOOLEAN, NEW answered \in BOOLEAN, IndexSpokeLog(live, answered) PROVE VaultInv'
  BY <1>7, IndexSpokeOK
<1>8. CASE UNCHANGED vaultVars  BY <1>8 DEF VaultInv, vaultVars, VaultTableOK
<1> QED BY <1>1, <1>2, <1>3, <1>4, <1>5, <1>6, <1>7, <1>8 DEF VaultNext

-----------------------------------------------------------------------------
(* Theorems *)

\* The invariant of every behaviour of the two chains and their indexer.
LEMMA VaultInvHolds == VaultSpec => []VaultInv
  BY VaultInitOK, VaultStepOK, PTL DEF VaultSpec

\* However the logs of hub and spoke interleave, and whatever a deployment or a
\* reserve writes to the row in between, a flag that is shown is the type of the
\* last signal and no acknowledgement the row knows of is as late as the first
\* (upsertHubSignal, upsertSpokeAck and their CASE for crosschainInProgress).
THEOREM FlagIsPending == VaultSpec => []NoStaleFlag
<1>1. VaultInv => NoStaleFlag  BY DEF VaultInv, VaultTableOK, VaultRowOK, NoStaleFlag
<1> QED BY <1>1, VaultInvHolds, PTL

-----------------------------------------------------------------------------
(* Where the vaults end *)

IsSignal(log, v) == log.kind \in Kinds /\ log.vault = v
IsDeployment(log, v) == log.kind = "DeployVault" /\ log.vault = v

StatusAfter(kind) == IF kind = "LinkVault" THEN "Linked" ELSE "Unlinked"

\* The status of a vault after the first n logs.
StatusTold(log, n, v, status) ==
  \/ status = "Unlinked" /\ \A i \in 1..n : ~IsSignal(log[i], v)
  \/ \E i \in 1..n : /\ IsSignal(log[i], v) /\ status = StatusAfter(log[i].kind)
                     /\ \A j \in 1..n : j > i => ~IsSignal(log[j], v)

\* The reserve after the first n logs.
ReserveTold(log, n, reserve) ==
  \/ reserve = Unlimited /\ \A i \in 1..n : log[i].kind # "MaxReserve"
  \/ \E i \in 1..n : /\ log[i].kind = "MaxReserve" /\ reserve = log[i].reserve
                     /\ \A j \in 1..n : j > i => log[j].kind # "MaxReserve"

\* The spoke deploys a vault once, before it runs the hub's instructions for it, and
\* has run as many of the hub's logs as it says.
ChainsAgree ==
  /\ executed <= Len(hub) /\ hubNext <= Len(hub) /\ spokeNext <= Len(spoke)
  /\ \A i \in 1..Len(hub) : Deployed(hub[i].vault)
  /\ \A i \in 1..Len(spoke) : spoke[i].kind \in HubLogKinds =>
       \E j \in 1..i-1 : IsDeployment(spoke[j], spoke[i].vault)
  /\ \A i, j \in 1..Len(spoke) :
       spoke[i].kind = "DeployVault" /\ IsDeployment(spoke[j], spoke[i].vault) => i = j
  /\ \A n \in Int : ReserveTold(spoke, Len(spoke), n) <=> ReserveTold(hub, executed, n)

\* A vault that was indexed has what the logs indexed so far say of it.
VaultTold(v) ==
  /\ Deployed(v)
  /\ vault[v].deployed =>
       /\ vault[v].forAsset /\ assetKnown
       /\ StatusTold(spoke, spokeNext, v, vault[v].status)
       /\ Alone(v) => \/ ReserveTold(spoke, spokeNext, vault[v].maxReserve)
                      \/ ReserveTold(hub, hubNext, vault[v].maxReserve)

EndInv == VaultInv /\ ChainsAgree /\ \A v \in DOMAIN vault : VaultTold(v)

\* One more log.
LEMMA StatusMore ==
  ASSUME NEW log, NEW n \in Nat, NEW v, NEW status
  PROVE  /\ IsSignal(log[n + 1], v) /\ status = StatusAfter(log[n + 1].kind) => StatusTold(log, n + 1, v, status)
         /\ ~IsSignal(log[n + 1], v) => (StatusTold(log, n + 1, v, status) <=> StatusTold(log, n, v, status))
<1>1. ASSUME NEW i \in 1..n + 1 PROVE i \in 1..n \/ i = n + 1
  OBVIOUS
<1>2. n + 1 \in 1..n + 1 /\ 1..n \subseteq 1..n + 1 /\ \A j \in 1..n : n + 1 > j
  OBVIOUS
<1>3. IsSignal(log[n + 1], v) /\ status = StatusAfter(log[n + 1].kind) => StatusTold(log, n + 1, v, status)
  <2>1. \A j \in 1..n + 1 : ~(j > n + 1)
    OBVIOUS
  <2> QED BY <1>2, <2>1 DEF StatusTold
<1>4. ~IsSignal(log[n + 1], v) => (StatusTold(log, n + 1, v, status) <=> StatusTold(log, n, v, status))
  BY <1>1, <1>2 DEF StatusTold
<1> QED BY <1>3, <1>4

LEMMA ReserveMore ==
  ASSUME NEW log, NEW n \in Nat, NEW reserve
  PROVE  /\ log[n + 1].kind = "MaxReserve" => (ReserveTold(log, n + 1, reserve) <=> reserve = log[n + 1].reserve)
         /\ log[n + 1].kind # "MaxReserve" => (ReserveTold(log, n + 1, reserve) <=> ReserveTold(log, n, reserve))
<1>1. ASSUME NEW i \in 1..n + 1 PROVE i \in 1..n \/ i = n + 1
  OBVIOUS
<1>2. n + 1 \in 1..n + 1 /\ 1..n \subseteq 1..n + 1 /\ \A j \in 1..n : n + 1 > j
  OBVIOUS
<1>3. \A j \in 1..n + 1 : ~(j > n + 1)
  OBVIOUS
<1>4. log[n + 1].kind = "MaxReserve" => (ReserveTold(log, n + 1, reserve) <=> reserve = log[n + 1].reserve)
  BY <1>1, <1>2, <1>3 DEF ReserveTold
<1>5. log[n + 1].kind # "MaxReserve" => (ReserveTold(log, n + 1, reserve) <=> ReserveTold(log, n, reserve))
  BY <1>1, <1>2 DEF ReserveTold
<1> QED BY <1>4, <1>5

\* What the first n logs say is not changed by later ones.
LEMMA ToldStays ==
  ASSUME NEW log, NEW more, NEW n \in Nat, \A i \in 1..n : more[i] = log[i], NEW v, NEW x
  PROVE  /\ StatusTold(more, n, v, x) <=> StatusTold(log, n, v, x)
         /\ ReserveTold(more, n, x) <=> ReserveTold(log, n, x)
  BY DEF StatusTold, ReserveTold

\* A log that the chain appends.
LEMMA AppendedLog ==
  ASSUME NEW S, NEW log \in Seq(S), NEW e \in S, NEW more, more = Append(log, e)
  PROVE  /\ Len(more) = Len(log) + 1 /\ Len(log) \in Nat /\ more[Len(log) + 1] = e
         /\ \A i \in 1..Len(log) : more[i] = log[i]
  OBVIOUS

\* Vaults and reserves that are told stay told while the chains grow.
LEMMA VaultStays ==
  ASSUME EndInv, NEW v \in DOMAIN vault, UNCHANGED <<vault, hubNext, spokeNext, assetKnown>>,
         \A i \in 1..Len(spoke) : spoke'[i] = spoke[i], Len(spoke) <= Len(spoke'), Len(spoke) \in Nat, Len(spoke') \in Nat,
         DOMAIN spoke = 1..Len(spoke), DOMAIN spoke' = 1..Len(spoke'),
         \A i \in 1..Len(hub) : hub'[i] = hub[i], Len(hub) \in Nat
  PROVE  VaultTold(v)'
<1>1. VaultTold(v) /\ spokeNext \in Nat /\ hubNext \in Nat /\ spokeNext <= Len(spoke) /\ hubNext <= Len(hub)
  BY DEF EndInv, VaultInv, ChainsAgree
<1>2. ASSUME NEW w, Deployed(w) PROVE Deployed(w)'
  BY <1>2 DEF Deployed
<1>3. Alone(v)' => Alone(v)
  BY DEF Alone
<1>4. \A i \in 1..spokeNext : spoke'[i] = spoke[i]
  BY <1>1
<1>5. \A i \in 1..hubNext : hub'[i] = hub[i]
  BY <1>1
<1>6. StatusTold(spoke', spokeNext, v, vault[v].status) <=> StatusTold(spoke, spokeNext, v, vault[v].status)
  BY <1>1, <1>4, ToldStays
<1>7. ReserveTold(spoke', spokeNext, vault[v].maxReserve) <=> ReserveTold(spoke, spokeNext, vault[v].maxReserve)
  BY <1>1, <1>4, ToldStays
<1>8. ReserveTold(hub', hubNext, vault[v].maxReserve) <=> ReserveTold(hub, hubNext, vault[v].maxReserve)
  BY <1>1, <1>5, ToldStays
<1> QED BY <1>1, <1>2, <1>3, <1>6, <1>7, <1>8 DEF VaultTold

\* A log of the spoke.
LEMMA SpokeGrows ==
  ASSUME EndInv, NEW log \in LogOf(SpokeLogKinds), OnSpoke(log), executed' \in Nat, executed' <= Len(hub),
         log.kind \in HubLogKinds => Deployed(log.vault),
         log.kind = "DeployVault" => ~Deployed(log.vault),
         \A n \in Int : ReserveTold(hub, executed', n)
                          <=> IF log.kind = "MaxReserve" THEN n = log.reserve ELSE ReserveTold(hub, executed, n)
  PROVE  EndInv'
<1>1. VaultInv /\ VaultInv'
  BY OnSpokeOK DEF EndInv
<1>2. spoke \in Seq(LogOf(SpokeLogKinds)) /\ spoke' = Append(spoke, log)
      /\ UNCHANGED <<hub, hubNext, spokeNext, assetKnown, vault>>
  BY <1>1 DEF VaultInv, OnSpoke
<1>3. /\ Len(spoke') = Len(spoke) + 1 /\ Len(spoke) \in Nat /\ spoke'[Len(spoke) + 1] = log
      /\ \A i \in 1..Len(spoke) : spoke'[i] = spoke[i]
  BY <1>2, AppendedLog
<1>4. DOMAIN spoke = 1..Len(spoke) /\ DOMAIN spoke' = 1..Len(spoke') /\ Len(hub) \in Nat
  BY <1>1, <1>2 DEF VaultInv
<1>5. ASSUME NEW w, Deployed(w) PROVE Deployed(w)'
  BY <1>3, <1>4, <1>5 DEF Deployed
<1>6. ASSUME NEW i \in 1..Len(spoke') PROVE i \in 1..Len(spoke) \/ (i = Len(spoke) + 1 /\ spoke'[i] = log)
  BY <1>3
<1>7. ChainsAgree
  BY DEF EndInv
<1>8. ChainsAgree'
  <2>1. /\ executed' <= Len(hub') /\ hubNext' <= Len(hub') /\ spokeNext' <= Len(spoke')
        /\ \A i \in 1..Len(hub') : Deployed(hub[i].vault)'
    <3>1. spokeNext <= Len(spoke) /\ spokeNext \in Nat /\ hubNext <= Len(hub)
          /\ \A i \in 1..Len(hub) : Deployed(hub[i].vault)
      BY <1>1, <1>7 DEF ChainsAgree, VaultInv
    <3>2. \A i \in 1..Len(hub) : Deployed(hub[i].vault)'
      BY <3>1, <1>5, <1>2 DEF Deployed
    <3> QED BY <3>1, <3>2, <1>2, <1>3
  <2>2. ASSUME NEW i \in 1..Len(spoke'), spoke'[i].kind \in HubLogKinds
        PROVE  \E j \in 1..i-1 : IsDeployment(spoke'[j], spoke'[i].vault)
    <3>1. CASE i \in 1..Len(spoke)
      <4>1. PICK j \in 1..i-1 : IsDeployment(spoke[j], spoke[i].vault)
        BY <1>3, <1>7, <2>2, <3>1 DEF ChainsAgree
      <4>2. spoke'[j] = spoke[j] /\ spoke'[i] = spoke[i]
        BY <1>3, <3>1
      <4> QED BY <4>1, <4>2
    <3>2. CASE i = Len(spoke) + 1 /\ spoke'[i] = log
      <4>1. PICK j \in DOMAIN spoke : spoke[j].kind = "DeployVault" /\ spoke[j].vault = log.vault
        BY <2>2, <3>2 DEF Deployed
      <4>2. j \in 1..i-1 /\ spoke'[j] = spoke[j]
        BY <1>3, <1>4, <3>2
      <4> QED BY <3>2, <4>1, <4>2 DEF IsDeployment
    <3> QED BY <1>6, <3>1, <3>2
  <2>3. ASSUME NEW i \in 1..Len(spoke'), NEW j \in 1..Len(spoke'),
               spoke'[i].kind = "DeployVault", IsDeployment(spoke'[j], spoke'[i].vault)
        PROVE  i = j
    <3>1. CASE i \in 1..Len(spoke) /\ j \in 1..Len(spoke)
      BY <1>3, <1>7, <2>3, <3>1 DEF ChainsAgree
    <3>2. CASE i = Len(spoke) + 1 /\ spoke'[i] = log /\ j \in 1..Len(spoke)
      BY <1>3, <1>4, <2>3, <3>2 DEF Deployed, IsDeployment
    <3>3. CASE j = Len(spoke) + 1 /\ spoke'[j] = log /\ i \in 1..Len(spoke)
      BY <1>3, <1>4, <2>3, <3>3 DEF Deployed, IsDeployment
    <3> QED BY <1>6, <3>1, <3>2, <3>3
  <2>4. ASSUME NEW n \in Int PROVE ReserveTold(spoke', Len(spoke'), n) <=> ReserveTold(hub', executed', n)
    <3>1. ReserveTold(spoke', Len(spoke), n) <=> ReserveTold(spoke, Len(spoke), n)
      BY <1>3, ToldStays
    <3>2. /\ log.kind = "MaxReserve" => (ReserveTold(spoke', Len(spoke) + 1, n) <=> n = log.reserve)
          /\ log.kind # "MaxReserve" => (ReserveTold(spoke', Len(spoke) + 1, n) <=> ReserveTold(spoke', Len(spoke), n))
      BY <1>3, ReserveMore
    <3>3. ReserveTold(spoke, Len(spoke), n) <=> ReserveTold(hub, executed, n)
      BY <1>7 DEF ChainsAgree
    <3>4. ReserveTold(hub, executed', n) <=> IF log.kind = "MaxReserve" THEN n = log.reserve ELSE ReserveTold(hub, executed, n)
      OBVIOUS
    <3>5. hub' = hub /\ Len(spoke') = Len(spoke) + 1
      BY <1>2, <1>3
    <3> QED BY ONLY <3>1, <3>2, <3>3, <3>4, <3>5
  <2> QED BY ONLY <2>1, <2>2, <2>3, <2>4 DEF ChainsAgree
<1>9. ASSUME NEW v \in DOMAIN vault' PROVE VaultTold(v)'
  <2>1. v \in DOMAIN vault
    BY <1>2 DEF EndInv
  <2>2. \A i \in 1..Len(hub) : hub'[i] = hub[i]
    BY <1>2
  <2> QED BY <1>2, <1>3, <1>4, <2>1, <2>2, VaultStays
<1> QED BY <1>1, <1>8, <1>9 DEF EndInv

LEMMA EndInit == VaultInit => EndInv
<1> SUFFICES ASSUME VaultInit PROVE EndInv
  OBVIOUS
<1>1. VaultInv
  BY VaultInitOK
<1>2. ChainsAgree
  BY DEF VaultInit, ChainsAgree, ReserveTold
<1>3. DOMAIN vault = {}
  BY DEF VaultInit, EmptyTable
<1> QED BY <1>1, <1>2, <1>3 DEF EndInv

LEMMA RegisterEnds == ASSUME EndInv, RegisterAsset PROVE EndInv'
<1> DEFINE log == VaultLog("RegisterAsset", Null, Null)
<1>1. VaultInv /\ executed <= Len(hub)
  BY DEF EndInv, ChainsAgree
<1>2. log \in LogOf(SpokeLogKinds)
  BY <1>1, VaultLogType DEF VaultInv, SpokeLogKinds
<1>3. log.kind = "RegisterAsset"
  BY DEF VaultLog
<1>4. OnSpoke(log) /\ executed' = executed
  BY DEF RegisterAsset
<1> HIDE DEF log
<1> QED BY <1>1, <1>2, <1>3, <1>4, SpokeGrows DEF HubLogKinds, Kinds, VaultInv

LEMMA DeployEnds == ASSUME EndInv, NEW v \in VaultIds, DeployVault(v) PROVE EndInv'
<1> DEFINE log == VaultLog("DeployVault", v, Null)
<1>1. VaultInv /\ executed <= Len(hub)
  BY DEF EndInv, ChainsAgree
<1>2. log \in LogOf(SpokeLogKinds)
  BY <1>1, VaultLogType DEF VaultInv, SpokeLogKinds
<1>3. log.kind = "DeployVault" /\ log.vault = v
  BY DEF VaultLog
<1>4. OnSpoke(log) /\ executed' = executed /\ ~Deployed(v)
  BY DEF DeployVault
<1> HIDE DEF log
<1> QED BY <1>1, <1>2, <1>3, <1>4, SpokeGrows DEF HubLogKinds, Kinds, VaultInv

LEMMA ExecuteEnds == ASSUME EndInv, Execute PROVE EndInv'
<1> DEFINE next == hub[executed + 1]
           log == VaultLog(next.kind, next.vault, next.reserve)
<1>1. VaultInv /\ ChainsAgree
  BY DEF EndInv
<1>2. OnSpoke(log) /\ executed' = executed + 1 /\ executed < Len(hub) /\ executed \in Nat /\ Len(hub) \in Nat
  BY <1>1 DEF Execute, VaultInv
<1>3. next \in LogOf(HubLogKinds)
  BY <1>1, <1>2 DEF VaultInv
<1>4. log \in LogOf(SpokeLogKinds)
  BY <1>1, <1>3 DEF LogOf, SpokeLogKinds, VaultLog, VaultInv
<1>5. log.kind = next.kind /\ log.vault = next.vault /\ log.reserve = next.reserve /\ next.kind \in HubLogKinds
  BY <1>3 DEF VaultLog, LogOf
<1>6. Deployed(next.vault)
  BY <1>1, <1>2 DEF ChainsAgree
<1>7. log.kind # "DeployVault"
  BY <1>5 DEF HubLogKinds, Kinds
<1>8. \A n \in Int : ReserveTold(hub, executed', n)
                       <=> IF log.kind = "MaxReserve" THEN n = log.reserve ELSE ReserveTold(hub, executed, n)
  BY <1>2, <1>5, ReserveMore
<1> HIDE DEF log, next
<1>9. executed' \in Nat /\ executed' <= Len(hub)
  BY <1>2
<1> QED BY <1>2, <1>4, <1>5, <1>6, <1>7, <1>8, <1>9, SpokeGrows

LEMMA SignalEnds ==
  ASSUME EndInv, NEW v \in VaultIds, NEW kind \in HubLogKinds, NEW n \in Reserves \cup {Null}, Signal(kind, v, n)
  PROVE  EndInv'
<1> DEFINE log == VaultLog(kind, v, n)
<1>1. VaultInv /\ VaultInv' /\ ChainsAgree
  BY SignalOK DEF EndInv
<1>2. /\ hub' = Append(hub, log) /\ Deployed(v)
      /\ UNCHANGED <<spoke, executed, hubNext, spokeNext, assetKnown, vault>>
  BY DEF Signal
<1>3. log \in LogOf(HubLogKinds) /\ log.vault = v
  BY <1>1, VaultLogType DEF VaultInv, VaultLog
<1> HIDE DEF log
<1>4. hub \in Seq(LogOf(HubLogKinds))
  BY <1>1 DEF VaultInv
<1>5. /\ Len(hub') = Len(hub) + 1 /\ Len(hub) \in Nat /\ hub'[Len(hub) + 1] = log
      /\ \A i \in 1..Len(hub) : hub'[i] = hub[i]
  BY <1>2, <1>3, <1>4, AppendedLog
<1>6. /\ executed \in Nat /\ hubNext \in Nat /\ Len(spoke) \in Nat /\ DOMAIN spoke = 1..Len(spoke)
      /\ executed <= Len(hub) /\ hubNext <= Len(hub)
  BY <1>1 DEF VaultInv, ChainsAgree
<1>7. ChainsAgree'
  <2>1. /\ executed' <= Len(hub') /\ hubNext' <= Len(hub') /\ spokeNext' <= Len(spoke')
    BY <1>1, <1>2, <1>5, <1>6 DEF ChainsAgree
  <2>2. ASSUME NEW i \in 1..Len(hub') PROVE Deployed(hub[i].vault)'
    <3> DEFINE w == hub'[i].vault
    <3>1. i \in 1..Len(hub) \/ (i = Len(hub) + 1 /\ hub'[i] = log)
      BY <1>5
    <3>2. Deployed(w)
      BY <1>1, <1>2, <1>3, <1>5, <3>1 DEF ChainsAgree
    <3> QED BY <1>2, <3>2 DEF Deployed
  <2>3. ASSUME NEW x \in Int PROVE ReserveTold(spoke', Len(spoke'), x) <=> ReserveTold(hub', executed', x)
    <3>1. \A i \in 1..executed : hub'[i] = hub[i]
      BY <1>5, <1>6
    <3>2. ReserveTold(hub', executed, x) <=> ReserveTold(hub, executed, x)
      BY <1>6, <3>1, ToldStays
    <3> QED BY <1>1, <1>2, <3>2 DEF ChainsAgree
  <2>4. /\ \A i \in 1..Len(spoke') : spoke'[i].kind \in HubLogKinds =>
             \E j \in 1..i-1 : IsDeployment(spoke'[j], spoke'[i].vault)
        /\ \A i, j \in 1..Len(spoke') :
             spoke'[i].kind = "DeployVault" /\ IsDeployment(spoke'[j], spoke'[i].vault) => i = j
    BY <1>1, <1>2 DEF ChainsAgree
  <2> QED BY ONLY <2>1, <2>2, <2>3, <2>4 DEF ChainsAgree
<1>8. ASSUME NEW w \in DOMAIN vault' PROVE VaultTold(w)'
  <2>1. w \in DOMAIN vault
    BY <1>2 DEF EndInv
  <2> QED BY <1>2, <1>5, <1>6, <2>1, VaultStays
<1> QED BY <1>1, <1>7, <1>8 DEF EndInv


-----------------------------------------------------------------------------
(* What the handlers write that a vault ends with *)

\* The part of a row that the flag is not.
Same(new, old) == /\ new.deployed = old.deployed /\ new.forAsset = old.forAsset
                  /\ new.status = old.status /\ new.maxReserve = old.maxReserve

\* The hub's signal.
LEMMA SignalWrites ==
  ASSUME NEW t, VaultTableOK(t), NEW v, NEW type, NEW time, NEW u, u = UpsertHubSignal(t, v, type, time)
  PROVE  /\ \A w \in DOMAIN u : w \in DOMAIN t \/ w = v
         /\ \A w \in DOMAIN t : Same(u[w], t[w])
         /\ v \notin DOMAIN t => ~u[v].deployed
<1>1. CASE ~Has(t, v)
  <2> DEFINE new == [StubRow EXCEPT !.forAsset = TRUE, !.signal = type, !.signalAt = time]
  <2>1. ~new.deployed
    BY DEF StubRow
  <2>2. u = Put(t, v, new)
    BY <1>1 DEF UpsertHubSignal
  <2> HIDE DEF new
  <2>3. DOMAIN u = DOMAIN t \cup {v} /\ u[v] = new /\ \A w \in DOMAIN t : w # v => u[w] = t[w]
    BY ONLY <2>2 DEF Put
  <2> QED BY ONLY <1>1, <2>1, <2>3 DEF Has, Same
<1>2. CASE Has(t, v)
  <2> DEFINE row == t[v]
             at  == Earliest(row.signalAt, time)
             flag == IF Pending(at, row.ackAt) THEN type ELSE "None"
             new == [row EXCEPT !.signal = type, !.signalAt = at, !.inProgress = flag]
  <2>1. row \in VaultRow
    BY <1>2 DEF VaultTableOK, VaultRowOK, Has
  <2>2. Same(new, row)
    <3> HIDE DEF at, flag, row
    <3> QED BY <2>1 DEF VaultRow, Same
  <2>3. u = Put(t, v, new)
    BY <1>2 DEF UpsertHubSignal
  <2> HIDE DEF new
  <2>4. DOMAIN u = DOMAIN t \cup {v} /\ u[v] = new /\ \A w \in DOMAIN t : w # v => u[w] = t[w]
    BY ONLY <2>3 DEF Put
  <2> QED BY ONLY <1>2, <2>2, <2>4 DEF Has, Same, row
<1> QED BY <1>1, <1>2

\* The spoke's acknowledgement.
LEMMA AckWrites ==
  ASSUME NEW t, VaultTableOK(t), NEW v, NEW status, NEW time, NEW u, u = UpsertSpokeAck(t, v, status, time)
  PROVE  /\ DOMAIN u = DOMAIN t \cup {v}
         /\ \A w \in DOMAIN t : w # v => Same(u[w], t[w])
         /\ v \notin DOMAIN t => ~u[v].deployed
         /\ v \in DOMAIN t => /\ u[v].deployed = t[v].deployed /\ u[v].forAsset = t[v].forAsset
                              /\ u[v].status = status /\ u[v].maxReserve = t[v].maxReserve
<1>1. CASE ~Has(t, v)
  <2> DEFINE new == [StubRow EXCEPT !.status = status, !.ackAt = time]
  <2>1. ~new.deployed
    BY DEF StubRow
  <2>2. u = Put(t, v, new)
    BY <1>1 DEF UpsertSpokeAck
  <2> HIDE DEF new
  <2>3. DOMAIN u = DOMAIN t \cup {v} /\ u[v] = new /\ \A w \in DOMAIN t : w # v => u[w] = t[w]
    BY ONLY <2>2 DEF Put
  <2> QED BY ONLY <1>1, <2>1, <2>3 DEF Has, Same
<1>2. CASE Has(t, v)
  <2> DEFINE row == t[v]
             at  == Earliest(row.ackAt, time)
             flag == IF Pending(row.signalAt, at) THEN row.signal ELSE "None"
             new == [row EXCEPT !.status = status, !.ackAt = at, !.inProgress = flag]
  <2>1. row \in VaultRow
    BY <1>2 DEF VaultTableOK, VaultRowOK, Has
  <2>2. /\ new.deployed = row.deployed /\ new.forAsset = row.forAsset
        /\ new.status = status /\ new.maxReserve = row.maxReserve
    <3> HIDE DEF at, flag, row
    <3> QED BY <2>1 DEF VaultRow
  <2>3. u = Put(t, v, new)
    BY <1>2 DEF UpsertSpokeAck
  <2> HIDE DEF new
  <2>4. DOMAIN u = DOMAIN t \cup {v} /\ u[v] = new /\ \A w \in DOMAIN t : w # v => u[w] = t[w]
    BY ONLY <2>3 DEF Put
  <2> QED BY ONLY <1>2, <2>2, <2>4 DEF Has, Same, row
<1> QED BY <1>1, <1>2

\* A deployment that is answered.
LEMMA DeployWrites ==
  ASSUME NEW t, VaultTableOK(t), NEW v, NEW answered, NEW asset, NEW u, u = OnDeployVault(t, v, answered, asset)
  PROVE  \/ u = t
         \/ /\ asset /\ DOMAIN u = DOMAIN t \cup {v}
            /\ \A w \in DOMAIN t : w # v => Same(u[w], t[w])
            /\ u[v].deployed /\ u[v].forAsset /\ u[v].status = "Unlinked" /\ u[v].maxReserve = Unlimited
<1> DEFINE values == [deployed |-> TRUE, forAsset |-> TRUE, status |-> "Unlinked",
                      inProgress |-> "None", maxReserve |-> Unlimited]
           old == RowOr(t, v, StubRow)
           new == Overwrite(old, values)
<1>1. VaultRowOK(old)
  BY StubOK DEF RowOr, Has, VaultTableOK
<1>2. new.deployed /\ new.forAsset /\ new.status = "Unlinked" /\ new.maxReserve = Unlimited
  <2> HIDE DEF old
  <2>1. old \in VaultRow
    BY <1>1 DEF VaultRowOK
  <2> QED BY <2>1 DEF Overwrite, VaultRow
<1>3. CASE answered /\ asset
  <2>1. u = Put(t, v, new)
    BY <1>3 DEF OnDeployVault, Upsert
  <2> HIDE DEF new
  <2>2. DOMAIN u = DOMAIN t \cup {v} /\ u[v] = new /\ \A w \in DOMAIN t : w # v => u[w] = t[w]
    BY ONLY <2>1 DEF Put
  <2> QED BY ONLY <1>2, <1>3, <2>2 DEF Same
<1>4. CASE ~(answered /\ asset)
  BY <1>4 DEF OnDeployVault
<1> QED BY <1>3, <1>4

\* A reserve goes to one vault of the asset.
LEMMA ReserveWrites ==
  ASSUME NEW t, VaultTableOK(t), NEW n, NEW live, NEW asset, NEW u \in OnSetMaxReserve(t, n, live, asset)
  PROVE  \/ u = t /\ ~(asset /\ OfAsset(t) # {})
         \/ \E v \in OfAsset(t) :
              /\ DOMAIN u = DOMAIN t
              /\ \A w \in DOMAIN t : w # v => Same(u[w], t[w])
              /\ u[v].deployed = t[v].deployed /\ u[v].forAsset = t[v].forAsset
              /\ u[v].status = t[v].status /\ u[v].maxReserve = n
<1>1. CASE asset /\ OfAsset(t) # {}
  <2>1. PICK v \in OfAsset(t) : u = SetMaxReserve(t, v, n, live)
    BY <1>1 DEF OnSetMaxReserve
  <2> DEFINE row == t[v]
             flag == IF live THEN "None" ELSE row.inProgress
             new == [row EXCEPT !.maxReserve = n, !.inProgress = flag]
  <2>2. v \in DOMAIN t /\ row \in VaultRow
    BY DEF OfAsset, VaultTableOK, VaultRowOK
  <2>3. /\ new.deployed = row.deployed /\ new.forAsset = row.forAsset
        /\ new.status = row.status /\ new.maxReserve = n
    <3> HIDE DEF flag, row
    <3> QED BY <2>2 DEF VaultRow
  <2>4. u = Put(t, v, new)
    BY <2>1 DEF SetMaxReserve
  <2> HIDE DEF new
  <2>5. DOMAIN u = DOMAIN t \cup {v} /\ u[v] = new /\ \A w \in DOMAIN t : w # v => u[w] = t[w]
    BY ONLY <2>4 DEF Put
  <2>6. DOMAIN u = DOMAIN t
    BY <2>2, <2>5
  <2> QED BY ONLY <2>2, <2>3, <2>5, <2>6 DEF Same, row
<1>2. CASE ~(asset /\ OfAsset(t) # {})
  BY <1>2 DEF OnSetMaxReserve
<1> QED BY <1>1, <1>2


-----------------------------------------------------------------------------
(* Indexing *)

\* A vault of which the new log only says what its row already had.
LEMMA ToldBySpoke ==
  ASSUME EndInv, NEW w \in DOMAIN vault, UNCHANGED <<chainVars, hubNext>>, spokeNext' = spokeNext + 1,
         spokeNext < Len(spoke), assetKnown => assetKnown', w \in DOMAIN vault',
         vault'[w].deployed = vault[w].deployed, vault'[w].forAsset = vault[w].forAsset,
         IF IsSignal(spoke[spokeNext + 1], w) THEN vault'[w].status = StatusAfter(spoke[spokeNext + 1].kind)
         ELSE vault'[w].status = vault[w].status,
         vault[w].deployed /\ Alone(w) =>
           IF spoke[spokeNext + 1].kind = "MaxReserve" THEN vault'[w].maxReserve = spoke[spokeNext + 1].reserve
           ELSE vault'[w].maxReserve = vault[w].maxReserve
  PROVE  VaultTold(w)'
<1> DEFINE e == spoke[spokeNext + 1]
           new == vault'[w]
<1>1. VaultTold(w) /\ spokeNext \in Nat /\ hub' = hub /\ spoke' = spoke /\ hubNext' = hubNext
  BY DEF EndInv, VaultInv, chainVars
<1>2. /\ Deployed(w)' <=> Deployed(w)
      /\ Alone(w)' <=> Alone(w)
  BY <1>1 DEF Deployed, Alone
<1>3. /\ IsSignal(e, w) /\ new.status = StatusAfter(e.kind) => StatusTold(spoke, spokeNext + 1, w, new.status)
      /\ ~IsSignal(e, w) => (StatusTold(spoke, spokeNext + 1, w, new.status) <=> StatusTold(spoke, spokeNext, w, new.status))
  BY <1>1, StatusMore
<1>4. /\ e.kind = "MaxReserve" => (ReserveTold(spoke, spokeNext + 1, new.maxReserve) <=> new.maxReserve = e.reserve)
      /\ e.kind # "MaxReserve" => (ReserveTold(spoke, spokeNext + 1, new.maxReserve)
                                    <=> ReserveTold(spoke, spokeNext, new.maxReserve))
  BY <1>1, ReserveMore
<1>5. new.deployed => StatusTold(spoke, spokeNext + 1, w, new.status)
  BY <1>1, <1>3 DEF VaultTold
<1>6. new.deployed /\ Alone(w) => \/ ReserveTold(spoke, spokeNext + 1, new.maxReserve)
                                  \/ ReserveTold(hub, hubNext, new.maxReserve)
  BY <1>1, <1>4 DEF VaultTold
<1>7. new.deployed => new.forAsset /\ assetKnown'
  BY <1>1 DEF VaultTold
<1> HIDE DEF e
<1> QED BY <1>1, <1>2, <1>5, <1>6, <1>7 DEF VaultTold

LEMMA ToldByHub ==
  ASSUME EndInv, NEW w \in DOMAIN vault, UNCHANGED <<chainVars, spokeNext, assetKnown>>, hubNext' = hubNext + 1,
         hubNext < Len(hub), w \in DOMAIN vault',
         vault'[w].deployed = vault[w].deployed, vault'[w].forAsset = vault[w].forAsset,
         vault'[w].status = vault[w].status,
         vault[w].deployed /\ Alone(w) =>
           IF hub[hubNext + 1].kind = "MaxReserve" THEN vault'[w].maxReserve = hub[hubNext + 1].reserve
           ELSE vault'[w].maxReserve = vault[w].maxReserve
  PROVE  VaultTold(w)'
<1> DEFINE e == hub[hubNext + 1]
           new == vault'[w]
<1>1. VaultTold(w) /\ hubNext \in Nat /\ hub' = hub /\ spoke' = spoke /\ spokeNext' = spokeNext
  BY DEF EndInv, VaultInv, chainVars
<1>2. /\ Deployed(w)' <=> Deployed(w)
      /\ Alone(w)' <=> Alone(w)
  BY <1>1 DEF Deployed, Alone
<1>4. /\ e.kind = "MaxReserve" => (ReserveTold(hub, hubNext + 1, new.maxReserve) <=> new.maxReserve = e.reserve)
      /\ e.kind # "MaxReserve" => (ReserveTold(hub, hubNext + 1, new.maxReserve)
                                    <=> ReserveTold(hub, hubNext, new.maxReserve))
  BY <1>1, ReserveMore
<1>5. new.deployed => StatusTold(spoke, spokeNext, w, new.status)
  BY <1>1 DEF VaultTold
<1>6. new.deployed /\ Alone(w) => \/ ReserveTold(spoke, spokeNext, new.maxReserve)
                                  \/ ReserveTold(hub, hubNext + 1, new.maxReserve)
  BY <1>1, <1>4 DEF VaultTold
<1>7. new.deployed => new.forAsset /\ assetKnown'
  BY <1>1 DEF VaultTold
<1> HIDE DEF e
<1> QED BY <1>1, <1>2, <1>5, <1>6, <1>7 DEF VaultTold

\* The reserve of a vault that is alone is its own.
LEMMA AloneOfAsset ==
  ASSUME EndInv, NEW w \in DOMAIN vault, vault[w].deployed, Alone(w)
  PROVE  assetKnown /\ OfAsset(vault) = {w}
<1>1. assetKnown /\ w \in OfAsset(vault)
  BY DEF EndInv, VaultTold, OfAsset
<1>2. ASSUME NEW v \in OfAsset(vault) PROVE v = w
  <2>1. Deployed(v)
    BY DEF EndInv, VaultTold, OfAsset
  <2> QED BY <2>1 DEF Deployed, Alone
<1> QED BY <1>1, <1>2

\* When a vault is deployed nothing was said of it, nor, when it is alone, of a reserve.
LEMMA DeployedNow ==
  ASSUME EndInv, spokeNext < Len(spoke), spoke[spokeNext + 1].kind = "DeployVault",
         NEW v, v = spoke[spokeNext + 1].vault
  PROVE  /\ Deployed(v)
         /\ StatusTold(spoke, spokeNext + 1, v, "Unlinked")
         /\ Alone(v) => ReserveTold(spoke, spokeNext + 1, Unlimited)
<1> DEFINE n == spokeNext + 1
<1>0. spokeNext \in Nat /\ spoke \in Seq(LogOf(SpokeLogKinds)) /\ ChainsAgree
  BY DEF EndInv, VaultInv
<1>1. /\ n \in 1..Len(spoke) /\ DOMAIN spoke = 1..Len(spoke) /\ Len(spoke) \in Nat
      /\ ChainsAgree
  BY <1>0
<1>2. Deployed(v)
  BY <1>1 DEF Deployed
<1>3. ASSUME NEW i \in 1..n, spoke[i].kind \in HubLogKinds PROVE spoke[i].vault # v
  <2>1. i \in 1..Len(spoke)
    BY <1>1
  <2>2. PICK j \in 1..i-1 : IsDeployment(spoke[j], spoke[i].vault)
    BY <1>1, <1>3, <2>1 DEF ChainsAgree
  <2>3. SUFFICES ASSUME spoke[i].vault = v PROVE FALSE
    OBVIOUS
  <2>4. j \in 1..Len(spoke) /\ j # n
    BY <1>1, <2>1
  <2> QED BY <1>1, <2>2, <2>3, <2>4 DEF ChainsAgree
<1>4. StatusTold(spoke, n, v, "Unlinked")
  BY <1>3 DEF StatusTold, IsSignal, HubLogKinds
<1>5. ASSUME Alone(v) PROVE ReserveTold(spoke, n, Unlimited)
  <2>1. ASSUME NEW i \in 1..n, spoke[i].kind = "MaxReserve" PROVE FALSE
    <3>1. i \in 1..Len(spoke) /\ spoke[i].kind \in HubLogKinds
      BY <1>1, <2>1 DEF HubLogKinds
    <3>2. PICK j \in 1..i-1 : IsDeployment(spoke[j], spoke[i].vault)
      BY <1>1, <3>1 DEF ChainsAgree
    <3>3. j \in DOMAIN spoke
      BY <1>1, <3>1
    <3>4. spoke[i].vault = v
      BY <1>5, <3>2, <3>3 DEF Alone, IsDeployment
    <3> QED BY <1>3, <3>1, <3>4
  <2> QED BY <2>1 DEF ReserveTold
<1> QED BY <1>2, <1>4, <1>5


LEMMA ChainsStay ==
  ASSUME EndInv, UNCHANGED <<hub, spoke, executed>>, hubNext' <= Len(hub), spokeNext' <= Len(spoke)
  PROVE  ChainsAgree'
<1>1. ChainsAgree
  BY DEF EndInv
<1>2. (\A i \in 1..Len(hub) : Deployed(hub[i].vault))'
  BY <1>1 DEF ChainsAgree, Deployed
<1> QED BY <1>1, <1>2 DEF ChainsAgree

LEMMA SpokeIndexEnds ==
  ASSUME EndInv, NEW live \in BOOLEAN, NEW answered \in BOOLEAN, IndexSpokeLog(live, answered)
  PROVE  EndInv'
<1> DEFINE e == spoke[spokeNext + 1]
           v == e.vault
<1>1. VaultInv /\ VaultInv' /\ ChainsAgree /\ VaultTableOK(vault)
  BY IndexSpokeOK DEF EndInv, VaultInv
<1>2. /\ spokeNext < Len(spoke) /\ spokeNext' = spokeNext + 1 /\ UNCHANGED <<chainVars, hubNext>>
      /\ assetKnown => assetKnown'
  BY DEF IndexSpokeLog
<1>0. /\ spokeNext \in Nat /\ spoke \in Seq(LogOf(SpokeLogKinds)) /\ Len(spoke) \in Nat
      /\ hubNext <= Len(hub)
  BY <1>1 DEF VaultInv, ChainsAgree
<1>3. ChainsAgree'
  BY <1>0, <1>2, ChainsStay DEF chainVars
<1>4. e.kind \in SpokeLogKinds
  <2>1. e \in LogOf(SpokeLogKinds)
    BY <1>0, <1>2
  <2> HIDE DEF e
  <2> QED BY <2>1 DEF LogOf
<1>5. e.kind \notin Kinds => \A w : ~IsSignal(e, w)
  BY DEF IsSignal
<1>6. e.kind \in HubLogKinds => Deployed(v)
  <2>1. spokeNext + 1 \in 1..Len(spoke) /\ Len(spoke) \in Nat /\ DOMAIN spoke = 1..Len(spoke)
    BY <1>1, <1>2 DEF VaultInv
  <2>2. ASSUME e.kind \in HubLogKinds PROVE Deployed(v)
    <3> DEFINE n == spokeNext + 1
    <3>0. \A i \in 1..Len(spoke) : spoke[i].kind \in HubLogKinds =>
             \E j \in 1..i-1 : IsDeployment(spoke[j], spoke[i].vault)
      BY <1>1 DEF ChainsAgree
    <3>1. PICK j \in 1..n-1 : IsDeployment(spoke[j], v)
      <4>1. n \in 1..Len(spoke) /\ e = spoke[n] /\ v = spoke[n].vault
        BY <2>1
      <4> HIDE DEF n, e, v
      <4> QED BY <3>0, <4>1, <2>2
    <3>2. j \in DOMAIN spoke
      BY <1>0, <2>1
    <3> QED BY <3>1, <3>2 DEF Deployed, IsDeployment
  <2> QED BY <2>2
<1>7. ASSUME NEW w \in DOMAIN vault' PROVE VaultTold(w)'
  <2>1. CASE e.kind = "RegisterAsset"
    <3>1. vault' = vault /\ e.kind \notin Kinds /\ e.kind # "MaxReserve"
      BY <2>1 DEF IndexSpokeLog, Kinds
    <3> HIDE DEF e
    <3> QED BY <1>2, <1>5, <1>7, <3>1, ToldBySpoke DEF e
  <2>2. CASE e.kind = "DeployVault"
    <3>1. vault' = OnDeployVault(vault, v, answered, assetKnown) /\ e.kind \notin Kinds /\ e.kind # "MaxReserve"
      BY <2>2 DEF IndexSpokeLog, Kinds
    <3>2. CASE w \in DOMAIN vault /\ Same(vault'[w], vault[w])
      BY <1>2, <1>5, <1>7, <3>1, <3>2, ToldBySpoke DEF Same
    <3>3. CASE ~(w \in DOMAIN vault /\ Same(vault'[w], vault[w]))
      <4>1. /\ w = v /\ assetKnown /\ vault'[v].deployed /\ vault'[v].forAsset
            /\ vault'[v].status = "Unlinked" /\ vault'[v].maxReserve = Unlimited
        <5>1. \/ vault' = vault
              \/ /\ assetKnown /\ DOMAIN vault' = DOMAIN vault \cup {v}
                 /\ \A x \in DOMAIN vault : x # v => Same(vault'[x], vault[x])
                 /\ vault'[v].deployed /\ vault'[v].forAsset
                 /\ vault'[v].status = "Unlinked" /\ vault'[v].maxReserve = Unlimited
          <6> HIDE DEF v
          <6> QED BY <1>1, <3>1, DeployWrites
        <5>2. vault' # vault
          BY <1>7, <3>3 DEF Same
        <5> HIDE DEF v
        <5> QED BY <1>7, <3>3, <5>1, <5>2
      <4>2. /\ Deployed(v)
            /\ StatusTold(spoke, spokeNext + 1, v, "Unlinked")
            /\ Alone(v) => ReserveTold(spoke, spokeNext + 1, Unlimited)
        BY <1>2, <2>2, DeployedNow
      <4>3. /\ Deployed(w)' <=> Deployed(w)
            /\ Alone(w)' <=> Alone(w)
        BY <1>2 DEF Deployed, Alone, chainVars
      <4> HIDE DEF v
      <4> QED BY <1>2, <4>1, <4>2, <4>3 DEF VaultTold, chainVars
    <3> QED BY <3>2, <3>3
  <2>3. CASE e.kind \in Kinds
    <3>1. vault' = UpsertSpokeAck(vault, v, StatusAfter(e.kind), e.time) /\ e.kind # "MaxReserve"
      BY <2>3 DEF IndexSpokeLog, Kinds, OnLinkVault, OnUnlinkVault, StatusAfter
    <3>2. /\ DOMAIN vault' = DOMAIN vault \cup {v}
          /\ \A x \in DOMAIN vault : x # v => Same(vault'[x], vault[x])
          /\ v \notin DOMAIN vault => ~vault'[v].deployed
          /\ v \in DOMAIN vault =>
               /\ vault'[v].deployed = vault[v].deployed /\ vault'[v].forAsset = vault[v].forAsset
               /\ vault'[v].status = StatusAfter(e.kind) /\ vault'[v].maxReserve = vault[v].maxReserve
      <4> DEFINE x == StatusAfter(e.kind)
                 when == e.time
      <4> HIDE DEF v, x, when
      <4>0. VaultTableOK(vault)
        BY <1>1
      <4>1. vault' = UpsertSpokeAck(vault, v, x, when)
        BY <3>1 DEF x, when
      <4>2. /\ DOMAIN vault' = DOMAIN vault \cup {v}
            /\ \A w1 \in DOMAIN vault : w1 # v => Same(vault'[w1], vault[w1])
            /\ v \notin DOMAIN vault => ~vault'[v].deployed
            /\ v \in DOMAIN vault =>
                 /\ vault'[v].deployed = vault[v].deployed /\ vault'[v].forAsset = vault[v].forAsset
                 /\ vault'[v].status = x /\ vault'[v].maxReserve = vault[v].maxReserve
        BY ONLY <4>0, <4>1, AckWrites
      <4> QED BY <4>2 DEF x
    <3>3. IsSignal(e, w) <=> w = v
      BY <2>3 DEF IsSignal
    <3>4. CASE w \in DOMAIN vault
      BY <1>2, <1>7, <3>1, <3>2, <3>3, <3>4, ToldBySpoke DEF Same
    <3>5. CASE w \notin DOMAIN vault
      <4>1. w = v /\ ~vault'[w].deployed
        BY <1>7, <3>2, <3>5
      <4>2. Deployed(w)
        BY <1>6, <2>3, <4>1 DEF HubLogKinds
      <4>3. Deployed(w)'
        BY <1>2, <4>2 DEF Deployed, chainVars
      <4> HIDE DEF v
      <4> QED BY <4>1, <4>3 DEF VaultTold
    <3> QED BY <3>4, <3>5
  <2>4. CASE e.kind = "MaxReserve"
    <3>1. vault' \in OnSetMaxReserve(vault, e.reserve, live, assetKnown) /\ e.kind \notin Kinds
      BY <2>4 DEF IndexSpokeLog, Kinds
    <3>2. CASE vault' = vault /\ ~(assetKnown /\ OfAsset(vault) # {})
      <4>1. ~(vault[w].deployed /\ Alone(w))
        BY <1>7, <3>2, AloneOfAsset
      <4> QED BY <1>2, <1>5, <1>7, <3>1, <3>2, <4>1, ToldBySpoke
    <3>3. ASSUME NEW x \in OfAsset(vault),
                 DOMAIN vault' = DOMAIN vault,
                 \A y \in DOMAIN vault : y # x => Same(vault'[y], vault[y]),
                 vault'[x].deployed = vault[x].deployed /\ vault'[x].forAsset = vault[x].forAsset,
                 vault'[x].status = vault[x].status /\ vault'[x].maxReserve = e.reserve
          PROVE  VaultTold(w)'
      <4>1. vault[w].deployed /\ Alone(w) => w = x
        BY <1>7, <3>3, AloneOfAsset
      <4>2. /\ vault'[w].deployed = vault[w].deployed /\ vault'[w].forAsset = vault[w].forAsset
            /\ vault'[w].status = vault[w].status
            /\ vault[w].deployed /\ Alone(w) => vault'[w].maxReserve = e.reserve
        BY <1>7, <3>3, <4>1 DEF Same
      <4> QED BY <1>2, <1>5, <1>7, <2>4, <3>1, <3>3, <4>2, ToldBySpoke
    <3>4. \/ vault' = vault /\ ~(assetKnown /\ OfAsset(vault) # {})
          \/ \E x \in OfAsset(vault) :
               /\ DOMAIN vault' = DOMAIN vault
               /\ \A y \in DOMAIN vault : y # x => Same(vault'[y], vault[y])
               /\ vault'[x].deployed = vault[x].deployed /\ vault'[x].forAsset = vault[x].forAsset
               /\ vault'[x].status = vault[x].status /\ vault'[x].maxReserve = e.reserve
      BY <1>1, <3>1, ReserveWrites
    <3> QED BY <3>2, <3>3, <3>4
  <2> QED BY <1>4, <2>1, <2>2, <2>3, <2>4 DEF SpokeLogKinds, HubLogKinds
<1> QED BY <1>1, <1>3, <1>7 DEF EndInv

LEMMA HubIndexEnds ==
  ASSUME EndInv, NEW live \in BOOLEAN, IndexHubLog(live)
  PROVE  EndInv'
<1> DEFINE e == hub[hubNext + 1]
           v == e.vault
<1>1. VaultInv /\ VaultInv' /\ ChainsAgree /\ VaultTableOK(vault)
  BY IndexHubOK DEF EndInv, VaultInv
<1>2. hubNext < Len(hub) /\ hubNext' = hubNext + 1 /\ UNCHANGED <<chainVars, spokeNext, assetKnown>>
  BY DEF IndexHubLog
<1>0. /\ hubNext \in Nat /\ hub \in Seq(LogOf(HubLogKinds)) /\ Len(hub) \in Nat
      /\ spokeNext <= Len(spoke)
  BY <1>1 DEF VaultInv, ChainsAgree
<1>3. ChainsAgree'
  BY <1>0, <1>2, ChainsStay DEF chainVars
<1>4. e.kind \in HubLogKinds /\ Deployed(v)
  <2>1. e \in LogOf(HubLogKinds) /\ hubNext + 1 \in 1..Len(hub)
    BY <1>0, <1>2
  <2>2. Deployed(v)
    BY <1>1, <2>1 DEF ChainsAgree
  <2> HIDE DEF e
  <2>3. e.kind \in HubLogKinds
    BY <2>1 DEF LogOf
  <2> QED BY <2>2, <2>3
<1>5. ASSUME NEW w \in DOMAIN vault' PROVE VaultTold(w)'
  <2>1. CASE vault' = vault /\ e.kind # "MaxReserve"
    BY <1>2, <1>5, <2>1, ToldByHub
  <2>2. CASE e.kind # "MaxReserve" /\ vault' = UpsertHubSignal(vault, v, e.kind, e.time)
    <3>1. /\ \A x \in DOMAIN vault' : x \in DOMAIN vault \/ x = v
          /\ \A x \in DOMAIN vault : Same(vault'[x], vault[x])
          /\ v \notin DOMAIN vault => ~vault'[v].deployed
      <4> DEFINE sign == e.kind
                 when == e.time
      <4> HIDE DEF v, sign, when
      <4>0. VaultTableOK(vault)
        BY <1>1
      <4>1. vault' = UpsertHubSignal(vault, v, sign, when)
        BY <2>2 DEF sign, when
      <4> QED BY ONLY <4>0, <4>1, SignalWrites
    <3>2. CASE w \in DOMAIN vault
      BY <1>2, <1>5, <2>2, <3>1, <3>2, ToldByHub DEF Same
    <3>3. CASE w \notin DOMAIN vault
      <4>1. w = v /\ ~vault'[w].deployed
        BY <1>5, <3>1, <3>3
      <4>2. Deployed(w)'
        BY <1>2, <1>4, <4>1 DEF Deployed, chainVars
      <4> HIDE DEF v
      <4> QED BY <4>1, <4>2 DEF VaultTold
    <3> QED BY <3>2, <3>3
  <2>3. CASE e.kind = "MaxReserve"
    <3>1. vault' \in OnSetMaxReserve(vault, e.reserve, live, assetKnown)
      BY <2>3 DEF IndexHubLog
    <3>2. CASE vault' = vault /\ ~(assetKnown /\ OfAsset(vault) # {})
      <4>1. ~(vault[w].deployed /\ Alone(w))
        BY <1>5, <3>2, AloneOfAsset
      <4> QED BY <1>2, <1>5, <3>2, <4>1, ToldByHub
    <3>3. ASSUME NEW x \in OfAsset(vault),
                 DOMAIN vault' = DOMAIN vault,
                 \A y \in DOMAIN vault : y # x => Same(vault'[y], vault[y]),
                 vault'[x].deployed = vault[x].deployed /\ vault'[x].forAsset = vault[x].forAsset,
                 vault'[x].status = vault[x].status /\ vault'[x].maxReserve = e.reserve
          PROVE  VaultTold(w)'
      <4>1. vault[w].deployed /\ Alone(w) => w = x
        BY <1>5, <3>3, AloneOfAsset
      <4>2. /\ vault'[w].deployed = vault[w].deployed /\ vault'[w].forAsset = vault[w].forAsset
            /\ vault'[w].status = vault[w].status
            /\ vault[w].deployed /\ Alone(w) => vault'[w].maxReserve = e.reserve
        BY <1>5, <3>3, <4>1 DEF Same
      <4> QED BY <1>2, <1>5, <2>3, <3>3, <4>2, ToldByHub
    <3>4. \/ vault' = vault /\ ~(assetKnown /\ OfAsset(vault) # {})
          \/ \E x \in OfAsset(vault) :
               /\ DOMAIN vault' = DOMAIN vault
               /\ \A y \in DOMAIN vault : y # x => Same(vault'[y], vault[y])
               /\ vault'[x].deployed = vault[x].deployed /\ vault'[x].forAsset = vault[x].forAsset
               /\ vault'[x].status = vault[x].status /\ vault'[x].maxReserve = e.reserve
      BY <1>1, <3>1, ReserveWrites
    <3> QED BY <3>2, <3>3, <3>4
  <2>4. e.kind # "MaxReserve" => vault' = vault \/ vault' = UpsertHubSignal(vault, v, e.kind, e.time)
    BY DEF IndexHubLog, OnUpdateVault
  <2> QED BY <2>1, <2>2, <2>3, <2>4
<1> QED BY <1>1, <1>3, <1>5 DEF EndInv

LEMMA EndStep == EndInv /\ [VaultNext]_vaultVars => EndInv'
<1> SUFFICES ASSUME EndInv, [VaultNext]_vaultVars PROVE EndInv'
  OBVIOUS
<1>1. CASE RegisterAsset
  BY <1>1, RegisterEnds
<1>2. ASSUME NEW v \in VaultIds, DeployVault(v) PROVE EndInv'
  BY <1>2, DeployEnds
<1>3. ASSUME NEW v \in VaultIds, NEW kind \in Kinds, Signal(kind, v, Null) PROVE EndInv'
  BY <1>3, SignalEnds DEF HubLogKinds
<1>4. ASSUME NEW v \in VaultIds, NEW n \in Reserves, Signal("MaxReserve", v, n) PROVE EndInv'
  BY <1>4, SignalEnds DEF HubLogKinds
<1>5. CASE Execute
  BY <1>5, ExecuteEnds
<1>6. ASSUME NEW live \in BOOLEAN, IndexHubLog(live) PROVE EndInv'
  BY <1>6, HubIndexEnds
<1>7. ASSUME NEW live \in BOOLEAN, NEW answered \in BOOLEAN, IndexSpokeLog(live, answered) PROVE EndInv'
  BY <1>7, SpokeIndexEnds
<1>8. CASE UNCHANGED vaultVars
  <2>1. VaultInv'
    BY <1>8, VaultStepOK DEF EndInv
  <2>2. ChainsAgree'
    BY <1>8 DEF EndInv, ChainsAgree, vaultVars, Deployed
  <2>3. \A v \in DOMAIN vault' : VaultTold(v)'
    BY <1>8 DEF EndInv, VaultTold, vaultVars, Deployed, Alone
  <2> QED BY <2>1, <2>2, <2>3 DEF EndInv
<1> QED BY <1>1, <1>2, <1>3, <1>4, <1>5, <1>6, <1>7, <1>8 DEF VaultNext

\* What is told of all logs is what the last one says.
LEMMA LastSignal ==
  ASSUME NEW S, NEW log \in Seq(S), NEW v, NEW status, StatusTold(log, Len(log), v, status)
  PROVE  status = IF LastKind(log, v) = "LinkVault" THEN "Linked" ELSE "Unlinked"
<1> DEFINE I == {i \in DOMAIN log : log[i].kind \in Kinds /\ log[i].vault = v}
<1>1. LastKind(log, v) = IF I = {} THEN "UnlinkVault" ELSE log[CHOOSE i \in I : \A j \in I : j <= i].kind
  BY DEF LastKind
<1>2. DOMAIN log = 1..Len(log) /\ Len(log) \in Nat
  OBVIOUS
<1>3. I = {i \in 1..Len(log) : IsSignal(log[i], v)}
  BY <1>2 DEF IsSignal
<1> HIDE DEF I
<1>4. CASE status = "Unlinked" /\ \A i \in 1..Len(log) : ~IsSignal(log[i], v)
  BY <1>1, <1>3, <1>4
<1>5. ASSUME NEW i \in 1..Len(log), IsSignal(log[i], v), status = StatusAfter(log[i].kind),
             \A j \in 1..Len(log) : j > i => ~IsSignal(log[j], v)
      PROVE  status = IF LastKind(log, v) = "LinkVault" THEN "Linked" ELSE "Unlinked"
  <2>1. i \in I /\ \A j \in I : j <= i
    BY <1>2, <1>3, <1>5
  <2>2. \A k \in I : (\A j \in I : j <= k) => k = i
    BY <1>2, <1>3, <2>1
  <2>3. (CHOOSE k \in I : \A j \in I : j <= k) = i
    BY <2>1, <2>2
  <2> QED BY <1>1, <1>5, <2>1, <2>3 DEF StatusAfter
<1> QED BY <1>4, <1>5 DEF StatusTold

LEMMA ReserveIsLast ==
  ASSUME spoke \in Seq(LogOf(SpokeLogKinds)), NEW n, ReserveTold(spoke, Len(spoke), n)
  PROVE  n = LastReserve
<1> DEFINE I == ReserveLogs
<1>1. LastReserve = IF I = {} THEN Unlimited ELSE spoke[CHOOSE i \in I : \A j \in I : j <= i].reserve
  BY DEF LastReserve
<1>2. DOMAIN spoke = 1..Len(spoke) /\ Len(spoke) \in Nat
  OBVIOUS
<1>3. I = {i \in 1..Len(spoke) : spoke[i].kind = "MaxReserve"}
  BY <1>2 DEF ReserveLogs
<1> HIDE DEF I
<1>4. CASE n = Unlimited /\ \A i \in 1..Len(spoke) : spoke[i].kind # "MaxReserve"
  BY <1>1, <1>3, <1>4
<1>5. ASSUME NEW i \in 1..Len(spoke), spoke[i].kind = "MaxReserve", n = spoke[i].reserve,
             \A j \in 1..Len(spoke) : j > i => spoke[j].kind # "MaxReserve"
      PROVE  n = LastReserve
  <2>1. i \in I /\ \A j \in I : j <= i
    BY <1>2, <1>3, <1>5
  <2>2. \A k \in I : (\A j \in I : j <= k) => k = i
    BY <1>2, <1>3, <2>1
  <2>3. (CHOOSE k \in I : \A j \in I : j <= k) = i
    BY <2>1, <2>2
  <2>4. I # {}
    BY <2>1
  <2>5. LastReserve = spoke[i].reserve
    BY ONLY <1>1, <2>3, <2>4
  <2> QED BY <1>5, <2>5
<1> QED BY <1>4, <1>5 DEF ReserveTold

\* A deployed vault ends as the spoke left it, in whatever order the two chains are
\* indexed: linked as the spoke said last and, alone for its asset, with the reserve
\* the spoke ran last (upsertSpokeAck's status, setMaxReserve of both chains).
THEOREM VaultsEnd == VaultSpec => []VaultsEndAsOnChain
<1>1. EndInv => VaultsEndAsOnChain
  <2> SUFFICES ASSUME EndInv, NEW v \in DOMAIN vault, vault[v].deployed
               PROVE  /\ SpokeIndexed =>
                           vault[v].status = IF LastKind(spoke, v) = "LinkVault" THEN "Linked" ELSE "Unlinked"
                      /\ AllIndexed /\ Alone(v) => vault[v].maxReserve = LastReserve
    BY DEF VaultsEndAsOnChain
  <2>1. VaultTold(v) /\ ChainsAgree /\ spoke \in Seq(LogOf(SpokeLogKinds)) /\ vault[v].maxReserve \in Int
    BY DEF EndInv, VaultInv, VaultTableOK, VaultRowOK, VaultRow
  <2>2. SpokeIndexed => vault[v].status = IF LastKind(spoke, v) = "LinkVault" THEN "Linked" ELSE "Unlinked"
    BY <2>1, LastSignal DEF VaultTold, SpokeIndexed
  <2>3. ASSUME AllIndexed, Alone(v) PROVE vault[v].maxReserve = LastReserve
    <3>1. ReserveTold(spoke, Len(spoke), vault[v].maxReserve)
      BY <2>1, <2>3 DEF VaultTold, AllIndexed, SpokeIndexed, ChainsAgree
    <3> QED BY <2>1, <3>1, ReserveIsLast
  <2> QED BY <2>2, <2>3
<1> QED BY <1>1, EndInit, EndStep, PTL DEF VaultSpec

-----------------------------------------------------------------------------
(* Settings and members *)

SettingRowOK(row) == row = [value |-> row.value, inProgress |-> row.inProgress]
Investor == [until: Nat, frozen: BOOLEAN]
Said == [account: Investors, what: Restrictions]

MemberKinds == {"Member"}
FreezeKinds == {"Freeze", "Unfreeze"}

\* What was said has a last index, so that the last can be spoken of.
HasLast(said, a, kinds) ==
  LET I == Indices(said, a, kinds) IN I # {} => \E i \in I : \A j \in I : j <= i

Shape == /\ {"rows", "managers", "asset", "token", "members"} \subseteq DOMAIN settings
         /\ DOMAIN settings.rows \subseteq SettingKinds
         /\ \A k \in DOMAIN settings.rows : SettingRowOK(settings.rows[k])
         /\ DOMAIN told = SettingKinds /\ DOMAIN sent = SettingKinds

MembersShape == /\ restrictions \in Seq(Said)
                /\ \A a \in DOMAIN settings.members : settings.members[a] \in Investor
                /\ \A a \in Investors : HasLast(restrictions, a, MemberKinds) /\ HasLast(restrictions, a, FreezeKinds)

\* The inductive invariant.
SettingInv == Shape /\ ValuesAreTold /\ MembersShape /\ MembersAreSaid

-----------------------------------------------------------------------------
(* Settings *)

\* A step that changes the row of one kind, what the spoke told and what was sent.
LEMMA RowStep ==
  ASSUME SettingInv, NEW kind \in SettingKinds, NEW row, SettingRowOK(row),
         DOMAIN settings' = DOMAIN settings,
         settings'.rows = Put(settings.rows, kind, row),
         settings'.token = settings.token, settings'.members = settings.members, UNCHANGED restrictions,
         DOMAIN told' = SettingKinds, \A k \in SettingKinds : k # kind => told'[k] = told[k],
         DOMAIN sent' = SettingKinds, \A k \in SettingKinds : sent[k] \subseteq sent'[k],
         IF told'[kind] # "unset" THEN row.value = told'[kind] ELSE row.value \in {"unset", ZeroRoot},
         row.inProgress \in sent'[kind] \cup {"None"}
  PROVE  SettingInv'
<1>1. Shape'  BY DEF SettingInv, Shape, Put
<1>2. ValuesAreTold'  BY DEF SettingInv, Shape, ValuesAreTold, Put, Has
<1>3. MembersShape'  BY DEF SettingInv, MembersShape
<1>4. MembersAreSaid'  BY DEF SettingInv, MembersAreSaid
<1> QED BY <1>1, <1>2, <1>3, <1>4 DEF SettingInv

\* A step that writes no row.
LEMMA OtherStep ==
  ASSUME SettingInv, DOMAIN settings' = DOMAIN settings, settings'.rows = settings.rows,
         settings'.token = settings.token, settings'.members = settings.members,
         UNCHANGED restrictions,
         DOMAIN told' = SettingKinds, \A k \in SettingKinds : told'[k] = told[k],
         DOMAIN sent' = SettingKinds, \A k \in SettingKinds : sent[k] \subseteq sent'[k]
  PROVE  SettingInv'
<1>1. Shape'  BY DEF SettingInv, Shape
<1>2. ValuesAreTold'  BY DEF SettingInv, Shape, ValuesAreTold
<1>3. MembersShape'  BY DEF SettingInv, MembersShape
<1>4. MembersAreSaid'  BY DEF SettingInv, MembersAreSaid
<1> QED BY <1>1, <1>2, <1>3, <1>4 DEF SettingInv

\* A row whose two columns are written has what was written.
LEMMA Replaced ==
  ASSUME NEW old, SettingRowOK(old), NEW v, NEW f
  PROVE  [old EXCEPT !.value = v, !.inProgress = f] = [value |-> v, inProgress |-> f]
<1> DEFINE new == [old EXCEPT !.value = v, !.inProgress = f]
<1>1. DOMAIN old = {"value", "inProgress"}  BY DEF SettingRowOK
<1>2. new = [x \in {"value", "inProgress"} |-> new[x]]  BY <1>1
<1>3. new["value"] = v /\ new["inProgress"] = f  BY <1>1
<1> HIDE DEF new
<1>4. new = [value |-> v, inProgress |-> f]  BY <1>2, <1>3
<1> QED BY <1>4 DEF new

\* A log of the spoke: the row has the value, and the flag it had or none.
LEMMA ToldStep ==
  ASSUME SettingInv, NEW kind \in SettingKinds, NEW value, NEW live \in BOOLEAN,
         settings' = [settings EXCEPT !.rows = SetBySpoke(@, kind, value, live)],
         Told(kind, value)
  PROVE  SettingInv'
<1> DEFINE old == RowOr(settings.rows, kind, NewSetting)
           row == [old EXCEPT !.value = value, !.inProgress = IF live THEN "None" ELSE @]
<1>1. SettingRowOK(old) /\ old.inProgress \in sent[kind] \cup {"None"}
  BY DEF SettingInv, Shape, ValuesAreTold, RowOr, Has, NewSetting, SettingRowOK
<1>2. SettingRowOK(row) /\ row.value = value /\ row.inProgress \in sent[kind] \cup {"None"}
  <2> HIDE DEF old
  <2> DEFINE flag == IF live THEN "None" ELSE old.inProgress
  <2>1. row = [value |-> value, inProgress |-> flag]
    <3> HIDE DEF flag
    <3> QED BY <1>1, Replaced DEF flag
  <2>2. flag \in sent[kind] \cup {"None"}  BY <1>1
  <2> HIDE DEF row, flag
  <2> QED BY <2>1, <2>2 DEF SettingRowOK
<1>3. settings'.rows = Put(settings.rows, kind, row)  BY DEF SetBySpoke, SettingInv, Shape
<1> HIDE DEF row
<1>4. DOMAIN told' = SettingKinds /\ told'[kind] = value /\ \A k \in SettingKinds : k # kind => told'[k] = told[k]
  BY DEF Told, SettingInv, Shape
<1>5. DOMAIN sent' = SettingKinds /\ sent' = sent /\ UNCHANGED restrictions  BY DEF Told, SettingInv, Shape
<1>6. DOMAIN settings' = DOMAIN settings /\ settings'.token = settings.token /\ settings'.members = settings.members
  BY DEF SettingInv, Shape
<1> QED BY <1>2, <1>3, <1>4, <1>5, <1>6, RowStep

\* A log of the hub: the row has the flag, and the value it had.
LEMMA SentStep ==
  ASSUME SettingInv, NEW kind \in SettingKinds, NEW flag, NEW new,
         SettingRowOK(new), new.value \in {"unset", ZeroRoot},
         settings' = [settings EXCEPT !.rows = Signalled(@, kind, flag, new)] \/ settings' = settings,
         Sent(kind, flag)
  PROVE  SettingInv'
<1>1. /\ DOMAIN sent' = SettingKinds /\ flag \in sent'[kind] /\ \A k \in SettingKinds : sent[k] \subseteq sent'[k]
      /\ told' = told /\ DOMAIN told' = SettingKinds /\ UNCHANGED restrictions
  BY DEF Sent, SettingInv, Shape
<1>2. CASE settings' = settings  BY <1>1, <1>2, OtherStep
<1>3. CASE settings' = [settings EXCEPT !.rows = Signalled(@, kind, flag, new)]
  <2> DEFINE old == RowOr(settings.rows, kind, new)
             row == [old EXCEPT !.inProgress = flag]
  <2>1. /\ SettingRowOK(old)
        /\ IF told[kind] # "unset" THEN old.value = told[kind] ELSE old.value \in {"unset", ZeroRoot}
    BY DEF SettingInv, Shape, ValuesAreTold, RowOr, Has
  <2>2. SettingRowOK(row) /\ row.value = old.value /\ row.inProgress = flag
    <3> HIDE DEF old
    <3> QED BY <2>1 DEF SettingRowOK
  <2>3. settings'.rows = Put(settings.rows, kind, row)  BY <1>3 DEF Signalled, SettingInv, Shape
  <2>4. DOMAIN settings' = DOMAIN settings /\ settings'.token = settings.token /\ settings'.members = settings.members
    BY <1>3 DEF SettingInv, Shape
  <2> HIDE DEF row, old
  <2> QED BY <1>1, <2>1, <2>2, <2>3, <2>4, RowStep
<1> QED BY <1>2, <1>3

LEMMA NewSettingOK == SettingRowOK(NewSetting) /\ NewSetting.value = "unset"
  BY DEF NewSetting, SettingRowOK

-----------------------------------------------------------------------------
(* The payload of an instruction is taken for what it is *)

LEMMA RampDecoded ==
  ASSUME NEW on \in BOOLEAN, NEW kind \in Ramps
  PROVE  /\ ~IsMerklePolicyPayloadShape(Payload(kind, on))
         /\ DecodeOnOfframpManagerTrustedCall(Payload(kind, on)) = {[kind |-> kind, enabled |-> on]}
<1>1. CASE kind = "onramp"
  BY <1>1 DEF Payload, IsMerklePolicyPayloadShape, DecodeOnOfframpManagerTrustedCall, LeadingUint8,
              IsAbiUint8PaddedWord, IsWordZeroPaddedUint128, IsBool, Bool, Byte, Uint128, Bytes32
<1>2. CASE kind = "relayer"
  BY <1>2 DEF Payload, IsMerklePolicyPayloadShape, DecodeOnOfframpManagerTrustedCall, LeadingUint8,
              IsAbiUint8PaddedWord, IsWordZeroPaddedUint128, IsBool, Bool, Byte, Uint128, Bytes32
<1>3. CASE kind = "offramp"
  BY <1>3 DEF Payload, IsMerklePolicyPayloadShape, DecodeOnOfframpManagerTrustedCall, LeadingUint8,
              IsAbiUint8PaddedWord, IsWordZeroPaddedUint128, IsBool, Bool, Byte, Uint128, Bytes32
<1> QED BY <1>1, <1>2, <1>3 DEF Ramps

LEMMA WithdrawDecoded ==
  /\ ~IsMerklePolicyPayloadShape(Payload("withdraw", TRUE))
  /\ DecodeOnOfframpManagerTrustedCall(Payload("withdraw", TRUE)) = {[kind |-> "withdraw", enabled |-> FALSE]}
  BY DEF Payload, IsMerklePolicyPayloadShape, DecodeOnOfframpManagerTrustedCall, LeadingUint8,
         IsAbiUint8PaddedWord, IsWordZeroPaddedUint128, IsBool, Bool, Byte, Uint128, Bytes32

LEMMA PolicyShape == ASSUME NEW root PROVE IsMerklePolicyPayloadShape(<<Bytes32("strategist"), Bytes32(root)>>)
  BY DEF IsMerklePolicyPayloadShape, IsAbiUint8PaddedWord, Bytes32

-----------------------------------------------------------------------------
(* The steps of the settings *)

LEMMA KnowingStep == ASSUME SettingInv, KnowAsset \/ DeployRamps \/ DeployPolicies PROVE SettingInv'
  BY OtherStep DEF KnowAsset, DeployRamps, DeployPolicies, OnDeployOnOffRampManager,
                   OnDeployMerkleProofManager, SettingInv, Shape

LEMMA SpokeSetsOK == ASSUME SettingInv, NEW on \in BOOLEAN, NEW live \in BOOLEAN, SpokeSets(on, live) PROVE SettingInv'
  BY ToldStep DEF SpokeSets, OnUpdateManager, OnUpdateRelayer, OnUpdateOnramp, OnUpdateOfframp, SetRamp,
                  SettingKinds, Ramps

LEMMA UpdatePolicyOK ==
  ASSUME SettingInv, NEW root \in Roots, NEW live \in BOOLEAN, NEW answered \in BOOLEAN,
         UpdatePolicy(root, live, answered)
  PROVE  SettingInv'
<1>1. CASE answered
  BY <1>1, ToldStep DEF UpdatePolicy, OnUpdatePolicy, SettingKinds
<1>2. CASE ~answered
  <2>1. /\ settings' = settings /\ UNCHANGED restrictions /\ sent' = sent
        /\ DOMAIN told' = SettingKinds /\ \A k \in SettingKinds : told'[k] = told[k]
    BY <1>2 DEF UpdatePolicy, OnUpdatePolicy, Told, SettingInv, Shape, SettingKinds
  <2> QED BY <2>1, OtherStep DEF SettingInv, Shape
<1> QED BY <1>1, <1>2

LEMMA HubUpdatesManagerOK ==
  ASSUME SettingInv, NEW on \in BOOLEAN, NEW live \in BOOLEAN, HubUpdatesManager(on, live) PROVE SettingInv'
  BY SentStep, NewSettingOK DEF HubUpdatesManager, OnUpdateBalanceSheetManager, SettingKinds

LEMMA HubUpdatesPolicyOK ==
  ASSUME SettingInv, NEW root \in Roots, NEW live \in BOOLEAN, HubUpdatesPolicy(root, live) PROVE SettingInv'
<1> DEFINE new == [NewSetting EXCEPT !.value = ZeroRoot]
<1>1. SettingRowOK(new) /\ new.value = ZeroRoot  BY DEF NewSetting, SettingRowOK
<1>2. settings' = [settings EXCEPT !.rows = Signalled(@, "policy", "UpdatePolicy", new)] \/ settings' = settings
  BY PolicyShape DEF HubUpdatesPolicy, OnUpdateContract, HandleMerklePolicyUpdate
<1> HIDE DEF new
<1> QED BY <1>1, <1>2, SentStep DEF HubUpdatesPolicy, SettingKinds

\* The ramp that is flagged is the one the payload is about.
LEMMA HubUpdatesRampOK ==
  ASSUME SettingInv, NEW kind \in Ramps, NEW on \in BOOLEAN, NEW live \in BOOLEAN, HubUpdatesRamp(kind, on, live)
  PROVE  SettingInv'
<1> DEFINE p == Payload(kind, on)
           call == [kind |-> kind, enabled |-> on]
           calls == {c \in DecodeOnOfframpManagerTrustedCall(p) :
                       c.kind # "withdraw" /\ (c.kind = "relayer" \/ settings.asset)}
<1>1. calls # {} => (CHOOSE x \in calls : TRUE) = call
  <2>1. calls \subseteq {call}  BY RampDecoded
  <2> HIDE DEF calls, call
  <2> QED BY <2>1
<1>2. settings' = HandleOnOfframpUpdate(settings, p, live)
  BY RampDecoded DEF HubUpdatesRamp, OnUpdateContract
<1>3. \/ settings' = settings
      \/ settings' = [settings EXCEPT !.rows = Signalled(@, kind, Flag(on), NewSetting)]
  <2>1. CASE live /\ "ramps" \in settings.managers /\ calls # {}
    <3>1. call.kind = kind /\ call.enabled = on  OBVIOUS
    <3> QED BY <1>1, <1>2, <2>1, <3>1 DEF HandleOnOfframpUpdate
  <2>2. CASE ~(live /\ "ramps" \in settings.managers /\ calls # {})
    BY <1>2, <2>2 DEF HandleOnOfframpUpdate
  <2> QED BY <2>1, <2>2
<1>4. kind \in SettingKinds  BY DEF SettingKinds
<1> QED BY <1>3, <1>4, SentStep, NewSettingOK DEF HubUpdatesRamp

\* A withdrawal flags nothing.
LEMMA HubWithdrawsOK == ASSUME SettingInv, NEW live \in BOOLEAN, HubWithdraws(live) PROVE SettingInv'
<1> DEFINE p == Payload("withdraw", TRUE)
           calls == {c \in DecodeOnOfframpManagerTrustedCall(p) :
                       c.kind # "withdraw" /\ (c.kind = "relayer" \/ settings.asset)}
<1>1. calls = {}
  <2> SUFFICES ASSUME NEW c \in calls PROVE FALSE  OBVIOUS
  <2>1. c = [kind |-> "withdraw", enabled |-> FALSE] /\ c.kind # "withdraw"  BY WithdrawDecoded
  <2> QED BY <2>1
<1>2. settings' = HandleOnOfframpUpdate(settings, p, live)
  BY WithdrawDecoded DEF HubWithdraws, OnUpdateContract
<1>3. settings' = settings  BY <1>1, <1>2 DEF HandleOnOfframpUpdate
<1> QED BY <1>3, OtherStep DEF HubWithdraws, SettingInv, Shape

LEMMA SettingNextOK == SettingInv /\ SettingNext => SettingInv'
<1> SUFFICES ASSUME SettingInv, SettingNext PROVE SettingInv'  OBVIOUS
<1>1. CASE KnowAsset \/ DeployRamps \/ DeployPolicies  BY <1>1, KnowingStep
<1>2. ASSUME NEW live \in BOOLEAN, HubWithdraws(live) PROVE SettingInv'  BY <1>2, HubWithdrawsOK
<1>3. ASSUME NEW live \in BOOLEAN, NEW on \in BOOLEAN, SpokeSets(on, live) PROVE SettingInv'  BY <1>3, SpokeSetsOK
<1>4. ASSUME NEW live \in BOOLEAN, NEW on \in BOOLEAN, HubUpdatesManager(on, live) PROVE SettingInv'
  BY <1>4, HubUpdatesManagerOK
<1>5. ASSUME NEW live \in BOOLEAN, NEW on \in BOOLEAN, NEW kind \in Ramps, HubUpdatesRamp(kind, on, live)
      PROVE  SettingInv'
  BY <1>5, HubUpdatesRampOK
<1>6. ASSUME NEW live \in BOOLEAN, NEW root \in Roots, HubUpdatesPolicy(root, live) PROVE SettingInv'
  BY <1>6, HubUpdatesPolicyOK
<1>7. ASSUME NEW live \in BOOLEAN, NEW root \in Roots, NEW answered \in BOOLEAN,
             UpdatePolicy(root, live, answered)
      PROVE  SettingInv'
  BY <1>7, UpdatePolicyOK
<1> QED BY <1>1, <1>2, <1>3, <1>4, <1>5, <1>6, <1>7 DEF SettingNext

-----------------------------------------------------------------------------
(* Members *)

\* What is said last of an account is the new restriction, if it is of the kinds
\* asked for, else what was said last before.
LEMMA SaidLast ==
  ASSUME NEW s \in Seq(Said), NEW e \in Said, NEW a, NEW kinds, NEW otherwise, HasLast(s, a, kinds)
  PROVE  /\ HasLast(Append(s, e), a, kinds)
         /\ LastSaid(Append(s, e), a, kinds, otherwise) =
              IF e.account = a /\ e.what.kind \in kinds THEN e.what ELSE LastSaid(s, a, kinds, otherwise)
<1> DEFINE t == Append(s, e)
           n == Len(s) + 1
           I == Indices(s, a, kinds)
           J == Indices(t, a, kinds)
<1>1. /\ Len(s) \in Nat /\ DOMAIN s = 1..Len(s) /\ DOMAIN t = 1..n /\ t[n] = e
      /\ \A i \in DOMAIN s : t[i] = s[i]
  OBVIOUS
<1>2. I \subseteq 1..Len(s)  BY <1>1 DEF Indices
<1>3. CASE e.account = a /\ e.what.kind \in kinds
  <2>1. n \in J /\ \A j \in J : j <= n  BY <1>1, <1>3 DEF Indices
  <2>2. J \subseteq Nat  BY <1>1 DEF Indices
  <2>3. (CHOOSE i \in J : \A j \in J : j <= i) = n
    <3> HIDE DEF J, n
    <3>1. ASSUME NEW i \in J, \A j \in J : j <= i PROVE i = n  BY <2>1, <2>2, <3>1
    <3> QED BY <2>1, <3>1
  <2> QED BY <1>1, <1>3, <2>1, <2>3 DEF HasLast, LastSaid
<1>4. CASE ~(e.account = a /\ e.what.kind \in kinds)
  <2>1. J = I  BY <1>1, <1>4 DEF Indices
  <2>2. HasLast(t, a, kinds)  BY <2>1 DEF HasLast
  <2>3. CASE I = {}  BY <1>4, <2>1, <2>2, <2>3 DEF LastSaid
  <2>4. CASE I # {}
    <3> DEFINE m == CHOOSE i \in I : \A j \in I : j <= i
    <3>1. m \in I  BY <2>4 DEF HasLast
    <3>2. t[m] = s[m]  BY <1>1, <1>2, <3>1
    <3> QED BY <1>4, <2>1, <2>2, <2>4, <3>2 DEF LastSaid
  <2> QED BY <2>3, <2>4
<1> QED BY <1>3, <1>4

LEMMA RestrictOK ==
  ASSUME SettingInv, NEW account \in Investors, NEW r \in Restrictions, HubRestricts(account, r) PROVE SettingInv'
<1> DEFINE e == [account |-> account, what |-> r]
           old == RowOr(settings.members, account, NewInvestor)
           row == Restricted(old, r)
<1>1. e \in Said /\ restrictions \in Seq(Said) /\ restrictions' = Append(restrictions, e)
  BY DEF HubRestricts, SettingInv, MembersShape, Said
<1>2. \A a \in Investors : HasLast(restrictions, a, MemberKinds) /\ HasLast(restrictions, a, FreezeKinds)
  BY DEF SettingInv, MembersShape
<1>3. /\ r.kind \in {"Member", "Freeze", "Unfreeze"} /\ r.until \in Nat
  BY SettingAssumption DEF SettingAssumption, Restrictions, Never
<1>4. old \in Investor
  BY DEF SettingInv, MembersShape, RowOr, Has, NewInvestor, Investor, Never
<1> HIDE DEF old
<1>5. /\ row \in Investor
      /\ row.until = IF r.kind = "Member" THEN ValidUntil(r.until) ELSE old.until
      /\ row.frozen = IF r.kind = "Member" THEN old.frozen ELSE (r.kind = "Freeze")
  <2>1. ValidUntil(r.until) \in Nat  BY <1>3 DEF ValidUntil, MaxDate
  <2>2. CASE r.kind = "Member"  BY <1>4, <2>1, <2>2 DEF Restricted, Investor
  <2>3. CASE r.kind = "Freeze"  BY <1>4, <2>3 DEF Restricted, Investor
  <2>4. CASE r.kind = "Unfreeze"  BY <1>4, <2>4 DEF Restricted, Investor
  <2> QED BY <1>3, <2>2, <2>3, <2>4
<1> HIDE DEF row, e
<1>6. /\ UNCHANGED <<told, sent>> /\ DOMAIN settings' = DOMAIN settings
      /\ settings'.rows = settings.rows /\ settings'.token = settings.token
      /\ settings'.members = IF settings.token THEN Put(settings.members, account, row) ELSE settings.members
  BY DEF HubRestricts, OnUpdateRestriction, SettingInv, Shape, row, old
<1>7. Shape' /\ ValuesAreTold'  BY <1>6 DEF SettingInv, Shape, ValuesAreTold
<1>8. MembersShape'
  <2>1. \A a \in DOMAIN settings'.members : settings'.members[a] \in Investor
    BY <1>5, <1>6 DEF SettingInv, MembersShape, Put
  <2>2. \A a \in Investors : HasLast(restrictions', a, MemberKinds) /\ HasLast(restrictions', a, FreezeKinds)
    BY <1>1, <1>2, SaidLast
  <2>3. restrictions' \in Seq(Said)  BY <1>1
  <2> QED BY <2>1, <2>2, <2>3 DEF MembersShape
<1>9. MembersAreSaid'
  <2> SUFFICES ASSUME settings.token, NEW a \in Investors
               PROVE  LET new   == RowOr(settings'.members, a, NewInvestor)
                          until == LastSaid(restrictions', a, MemberKinds, InitialMember(a)).until
                      IN  /\ new.until = IF until > MaxDate THEN MaxDate ELSE until
                          /\ new.frozen = (LastSaid(restrictions', a, FreezeKinds, InitialFreeze).kind = "Freeze")
    BY <1>6 DEF MembersAreSaid, MemberKinds, FreezeKinds
  <2> DEFINE before == RowOr(settings.members, a, NewInvestor)
             said(kinds, o) == LastSaid(restrictions, a, kinds, o)
             now(kinds, o) == LastSaid(restrictions', a, kinds, o)
  <2>1. /\ before.until = IF said(MemberKinds, InitialMember(a)).until > MaxDate THEN MaxDate
                          ELSE said(MemberKinds, InitialMember(a)).until
        /\ before.frozen = (said(FreezeKinds, InitialFreeze).kind = "Freeze")
    BY DEF SettingInv, MembersAreSaid, MemberKinds, FreezeKinds
  <2>2. /\ now(MemberKinds, InitialMember(a)) =
             IF e.account = a /\ e.what.kind \in MemberKinds THEN e.what ELSE said(MemberKinds, InitialMember(a))
        /\ now(FreezeKinds, InitialFreeze) =
             IF e.account = a /\ e.what.kind \in FreezeKinds THEN e.what ELSE said(FreezeKinds, InitialFreeze)
    BY <1>1, <1>2, SaidLast
  <2>3. e.account = account /\ e.what = r  BY DEF e
  <2>4. RowOr(settings'.members, a, NewInvestor) = IF a = account THEN row ELSE before
    BY <1>6 DEF RowOr, Put, Has
  <2>5. a = account => before = old  BY DEF old
  <2> HIDE DEF before, said, now
  <2> QED BY <1>3, <1>5, <2>1, <2>2, <2>3, <2>4, <2>5 DEF MemberKinds, FreezeKinds, ValidUntil, now
<1> QED BY <1>7, <1>8, <1>9 DEF SettingInv

-----------------------------------------------------------------------------
(* Theorems *)

LEMMA SettingInitOK == SettingInit => SettingInv
<1> SUFFICES ASSUME SettingInit PROVE SettingInv  OBVIOUS
<1>1. Shape /\ ValuesAreTold  BY DEF SettingInit, Shape, ValuesAreTold, EmptyTable, SettingRowOK
<1>2. restrictions = <<>> /\ settings.members = SetupMembers({Migrated})  BY DEF SettingInit
<1>3. \A a, kinds : Indices(restrictions, a, kinds) = {}  BY <1>2 DEF Indices
<1>4. /\ DOMAIN settings.members = {Migrated}
      /\ settings.members[Migrated] = [until |-> MaxDate, frozen |-> FALSE]
  BY <1>2 DEF SetupMembers, NewInvestor
<1>5. MembersShape
  <2>1. [until |-> MaxDate, frozen |-> FALSE] \in Investor  BY DEF Investor, MaxDate
  <2>2. \A a, kinds : HasLast(restrictions, a, kinds)  BY <1>3 DEF HasLast
  <2> QED BY <1>2, <1>4, <2>1, <2>2 DEF MembersShape
<1>6. MembersAreSaid
  <2> SUFFICES ASSUME NEW a \in Investors
               PROVE  LET row   == RowOr(settings.members, a, NewInvestor)
                          until == LastSaid(restrictions, a, {"Member"}, InitialMember(a)).until
                      IN  /\ row.until = IF until > MaxDate THEN MaxDate ELSE until
                          /\ row.frozen = (LastSaid(restrictions, a, {"Freeze", "Unfreeze"}, InitialFreeze).kind
                                             = "Freeze")
    BY DEF MembersAreSaid
  <2>1. /\ LastSaid(restrictions, a, {"Member"}, InitialMember(a)) = InitialMember(a)
        /\ LastSaid(restrictions, a, {"Freeze", "Unfreeze"}, InitialFreeze) = InitialFreeze
    BY <1>3 DEF LastSaid
  <2>2. InitialMember(a).until = IF a = Migrated THEN 100 ELSE 0  BY DEF InitialMember, MaxDate, Never
  <2>3. InitialFreeze.kind # "Freeze"  BY DEF InitialFreeze
  <2>4. CASE a = Migrated
    <3>1. RowOr(settings.members, a, NewInvestor) = [until |-> MaxDate, frozen |-> FALSE]
      BY <1>4, <2>4 DEF RowOr, Has
    <3>2. LastSaid(restrictions, a, {"Member"}, InitialMember(a)).until = 100
      BY <2>1, <2>2, <2>4
    <3>3. (LastSaid(restrictions, a, {"Freeze", "Unfreeze"}, InitialFreeze).kind = "Freeze") = FALSE
      BY <2>1, <2>3
    <3> DEFINE row == RowOr(settings.members, a, NewInvestor)
               until == LastSaid(restrictions, a, {"Member"}, InitialMember(a)).until
               frozen == LastSaid(restrictions, a, {"Freeze", "Unfreeze"}, InitialFreeze).kind = "Freeze"
    <3>4. row.frozen = FALSE /\ row.until = until  BY <3>1, <3>2 DEF MaxDate
    <3>5. frozen = FALSE  BY <3>3
    <3>6. until \in {0, 100}  BY <3>2
    <3> HIDE DEF row, until, frozen
    <3>7. row.until = IF until > MaxDate THEN MaxDate ELSE until  BY <3>4, <3>6 DEF MaxDate
    <3>8. row.frozen = frozen  BY <3>4, <3>5
    <3> QED BY <3>7, <3>8 DEF row, until, frozen
  <2>5. CASE a # Migrated
    <3>1. RowOr(settings.members, a, NewInvestor) = [until |-> 0, frozen |-> FALSE]
      BY <1>4, <2>5 DEF RowOr, Has, NewInvestor, Never
    <3>2. LastSaid(restrictions, a, {"Member"}, InitialMember(a)).until = 0
      BY <2>1, <2>2, <2>5
    <3>3. (LastSaid(restrictions, a, {"Freeze", "Unfreeze"}, InitialFreeze).kind = "Freeze") = FALSE
      BY <2>1, <2>3
    <3> DEFINE row == RowOr(settings.members, a, NewInvestor)
               until == LastSaid(restrictions, a, {"Member"}, InitialMember(a)).until
               frozen == LastSaid(restrictions, a, {"Freeze", "Unfreeze"}, InitialFreeze).kind = "Freeze"
    <3>4. row.frozen = FALSE /\ row.until = until  BY <3>1, <3>2 DEF MaxDate
    <3>5. frozen = FALSE  BY <3>3
    <3>6. until \in {0, 100}  BY <3>2
    <3> HIDE DEF row, until, frozen
    <3>7. row.until = IF until > MaxDate THEN MaxDate ELSE until  BY <3>4, <3>6 DEF MaxDate
    <3>8. row.frozen = frozen  BY <3>4, <3>5
    <3> QED BY <3>7, <3>8 DEF row, until, frozen
  <2> QED BY <2>4, <2>5
<1> QED BY <1>1, <1>5, <1>6 DEF SettingInv

\* The invariant of every behaviour of the hub and the spoke.
LEMMA SettingInvHolds == SettingSpec => []SettingInv
<1>1. SettingInv /\ UNCHANGED settingVars => SettingInv'  BY OtherStep DEF settingVars, SettingInv, Shape
<1>2. SettingInv /\ MemberNext => SettingInv'  BY RestrictOK DEF MemberNext
<1>3. SettingInv /\ [SettingNext \/ MemberNext]_settingVars => SettingInv'  BY <1>1, <1>2, SettingNextOK
<1> QED BY <1>3, SettingInitOK, PTL DEF SettingSpec

\* However the logs of hub and spoke about a setting fall, its value is the one the
\* spoke set last and its flag one that was sent for it: a payload of
\* hub:UpdateContract is never taken for another setting's; and a member's row is
\* what was said of the account last.
THEOREM SettingsFollow == SettingSpec => []SettingsFollowTheSpoke
<1>1. SettingInv => SettingsFollowTheSpoke  BY DEF SettingInv, SettingsFollowTheSpoke
<1> QED BY <1>1, SettingInvHolds, PTL

-----------------------------------------------------------------------------
(* Vaults, shares, settings and members together *)

\* The composition that is model-checked runs each part as its own specification has
\* it: what is proved of a part holds of the composition, for all instances.
THEOREM SpokeTogether == SpokeSpec => VaultSpec /\ SharesSpec /\ SettingSpec
<1>1. SpokeInit => VaultInit /\ SharesInit /\ SettingInit  BY DEF SpokeInit
<1>2. [SpokeNext]_spokeVars =>
        /\ [VaultNext]_vaultVars /\ [SharesNext]_sharesVars /\ [SettingNext \/ MemberNext]_settingVars
  BY DEF SpokeNext, spokeVars
<1> QED BY <1>1, <1>2, PTL DEF SpokeSpec, VaultSpec, SharesSpec, SettingSpec

-----------------------------------------------------------------------------
(* Types of the vaults, settings and members *)

Tabled(t) == t = [v \in DOMAIN t |-> t[v]]

\* The part of VaultTypeOK that VaultInv leaves open: the hub's logs name vaults.
VaultTyped ==
  /\ hub \in Seq([kind: Kinds \cup {"MaxReserve"}, vault: VaultIds, reserve: Reserves \cup {Null}, time: Nat])
  /\ Tabled(vault)

LEMMA WritesTabled ==
  /\ \A t, k, row : Tabled(Put(t, k, row))
  /\ \A t, k, values, new : Tabled(Upsert(t, k, values, new))
BY DEF Tabled, Put, Upsert

LEMMA SignalTyped ==
  ASSUME VaultInv, VaultTyped, NEW v \in VaultIds, NEW kind \in HubLogKinds, NEW n \in Reserves \cup {Null},
         Signal(kind, v, n)
  PROVE  VaultTyped'
<1>1. VaultLog(kind, v, n) \in [kind: Kinds \cup {"MaxReserve"}, vault: VaultIds,
                                reserve: Reserves \cup {Null}, time: Nat]
  BY DEF VaultLog, VaultInv, HubLogKinds
<1> QED BY <1>1 DEF VaultTyped, Signal

LEMMA StepTyped == VaultInv /\ VaultTyped /\ [VaultNext]_vaultVars => VaultTyped'
<1> SUFFICES ASSUME VaultInv, VaultTyped, [VaultNext]_vaultVars PROVE VaultTyped'  OBVIOUS
<1>1. ASSUME NEW log, OnSpoke(log) PROVE VaultTyped'  BY <1>1 DEF OnSpoke, VaultTyped
<1>2. CASE RegisterAsset  BY <1>1, <1>2 DEF RegisterAsset
<1>3. ASSUME NEW v \in VaultIds, DeployVault(v) PROVE VaultTyped'  BY <1>1, <1>3 DEF DeployVault
<1>4. ASSUME NEW v \in VaultIds, NEW kind \in Kinds, Signal(kind, v, Null) PROVE VaultTyped'
  BY <1>4, SignalTyped DEF HubLogKinds
<1>5. ASSUME NEW v \in VaultIds, NEW n \in Reserves, Signal("MaxReserve", v, n) PROVE VaultTyped'
  BY <1>5, SignalTyped DEF HubLogKinds
<1>6. CASE Execute  BY <1>1, <1>6 DEF Execute
<1>7. ASSUME NEW n, NEW live, NEW asset PROVE \A t \in OnSetMaxReserve(vault, n, live, asset) : Tabled(t)
  BY WritesTabled DEF OnSetMaxReserve, SetMaxReserve, VaultTyped
<1>8. ASSUME NEW live \in BOOLEAN, IndexHubLog(live) PROVE VaultTyped'
  <2>1. Tabled(vault')
    BY <1>7, <1>8, WritesTabled DEF IndexHubLog, OnUpdateVault, UpsertHubSignal, VaultTyped
  <2> QED BY <1>8, <2>1 DEF IndexHubLog, VaultTyped, chainVars
<1>9. ASSUME NEW live \in BOOLEAN, NEW answered \in BOOLEAN, IndexSpokeLog(live, answered) PROVE VaultTyped'
  <2> DEFINE e == spoke[spokeNext + 1]
  <2>1. e \in LogOf(SpokeLogKinds)  BY <1>9 DEF VaultInv, IndexSpokeLog
  <2>2. e.kind \in {"RegisterAsset", "DeployVault", "LinkVault", "UnlinkVault", "MaxReserve"}
    BY <2>1 DEF LogOf, SpokeLogKinds, HubLogKinds, Kinds
  <2> HIDE DEF e
  <2>3. \A v, time : Tabled(OnLinkVault(vault, v, time)) /\ Tabled(OnUnlinkVault(vault, v, time))
    BY WritesTabled DEF OnLinkVault, OnUnlinkVault, UpsertSpokeAck
  <2>4. \A v, asset : Tabled(OnDeployVault(vault, v, answered, asset))
    BY WritesTabled DEF OnDeployVault, VaultTyped
  <2>5. Tabled(vault)  BY DEF VaultTyped
  <2>6. Tabled(vault')  BY <1>7, <1>9, <2>2, <2>3, <2>4, <2>5 DEF IndexSpokeLog, e
  <2> QED BY <1>9, <2>6 DEF IndexSpokeLog, VaultTyped, chainVars
<1>10. CASE UNCHANGED vaultVars  BY <1>10 DEF VaultTyped, vaultVars
<1> QED BY <1>2, <1>3, <1>4, <1>5, <1>6, <1>8, <1>9, <1>10 DEF VaultNext

LEMMA VaultsTyped == VaultSpec => []VaultTypeOK
<1>1. VaultInit => VaultTyped  BY DEF VaultInit, VaultTyped, Tabled, EmptyTable
<1>2. VaultInv /\ VaultTyped => VaultTypeOK
  BY DEF VaultInv, VaultTyped, VaultTypeOK, Tabled, VaultTableOK, VaultRowOK
<1> QED BY <1>1, <1>2, StepTyped, VaultInvHolds, PTL DEF VaultSpec

LEMMA RestrictTyped ==
  ASSUME SettingInv, SettingTypeOK, NEW account \in Investors, NEW r \in Restrictions, HubRestricts(account, r)
  PROVE  SettingTypeOK'
<1> DEFINE old == RowOr(settings.members, account, NewInvestor)
<1>1. old \in [until: 0..MaxDate, frozen: BOOLEAN]
  BY DEF RowOr, Has, NewInvestor, Never, MaxDate, SettingTypeOK
<1>2. r.kind \in {"Member", "Freeze", "Unfreeze"} /\ (r.kind = "Member" => r.until \in Nat)
  BY SettingAssumption DEF SettingAssumption, Restrictions
<1>3. Restricted(old, r) \in [until: 0..MaxDate, frozen: BOOLEAN]
  <2> HIDE DEF old
  <2>1. r.kind = "Member" => ValidUntil(r.until) \in 0..MaxDate  BY <1>2 DEF ValidUntil, MaxDate
  <2> QED BY <1>1, <1>2, <2>1 DEF Restricted
<1>4. settings' = OnUpdateRestriction(settings, account, r)  BY DEF HubRestricts
<1>5. CASE ~settings.token  BY <1>4, <1>5 DEF OnUpdateRestriction, SettingTypeOK
<1>6. CASE settings.token
  <2>1. settings' = [settings EXCEPT !.members = Put(@, account, Restricted(RowOr(@, account, NewInvestor), r))]
    BY <1>4, <1>6 DEF OnUpdateRestriction
  <2>2. {"rows", "managers", "asset", "token", "members"} \subseteq DOMAIN settings  BY DEF SettingInv, Shape
  <2>3. /\ settings'.members = Put(settings.members, account, Restricted(old, r))
        /\ settings'.rows = settings.rows /\ settings'.managers = settings.managers
        /\ settings'.asset = settings.asset /\ settings'.token = settings.token
    BY <2>1, <2>2
  <2> HIDE DEF old
  <2> QED BY <1>3, <2>3 DEF SettingTypeOK, Put
<1> QED BY <1>5, <1>6

\* A step writes the rows, or what is known, of the tables.
LEMMA SettingStepTyped == SettingInv /\ SettingTypeOK /\ SettingNext /\ SettingInv' => SettingTypeOK'
<1> SUFFICES ASSUME SettingInv, SettingTypeOK, SettingNext, SettingInv' PROVE SettingTypeOK'  OBVIOUS
<1>1. {"rows", "managers", "asset", "token", "members"} \subseteq DOMAIN settings  BY DEF SettingInv, Shape
<1> DEFINE Untouched(t) == /\ t.managers = settings.managers /\ t.asset = settings.asset
                      /\ t.token = settings.token /\ t.members = settings.members
<1>2. \A r : Untouched([settings EXCEPT !.rows = r])  BY <1>1
<1>3. Untouched(settings)  OBVIOUS
<1>4. Untouched(settings') => SettingTypeOK'  BY DEF SettingTypeOK, SettingInv, Shape
<1> HIDE DEF Untouched
<1>5. CASE KnowAsset
  <2>1. settings' = [settings EXCEPT !.asset = TRUE]  BY <1>5 DEF KnowAsset
  <2>2. /\ settings'.managers = settings.managers /\ settings'.asset = TRUE /\ settings'.token = settings.token
        /\ settings'.members = settings.members
    BY <1>1, <2>1
  <2> QED BY <2>2 DEF SettingTypeOK, SettingInv, Shape
<1>6. CASE DeployRamps
  <2>1. settings' = [settings EXCEPT !.managers = @ \cup {"ramps"}]  BY <1>6 DEF DeployRamps, OnDeployOnOffRampManager
  <2>2. /\ settings'.managers = settings.managers \cup {"ramps"} /\ settings'.asset = settings.asset
        /\ settings'.token = settings.token /\ settings'.members = settings.members
    BY <1>1, <2>1
  <2> QED BY <2>2 DEF SettingTypeOK, SettingInv, Shape
<1>7. CASE DeployPolicies
  <2>1. settings' = [settings EXCEPT !.managers = @ \cup {"policies"}]
    BY <1>7 DEF DeployPolicies, OnDeployMerkleProofManager
  <2>2. /\ settings'.managers = settings.managers \cup {"policies"} /\ settings'.asset = settings.asset
        /\ settings'.token = settings.token /\ settings'.members = settings.members
    BY <1>1, <2>1
  <2> QED BY <2>2 DEF SettingTypeOK, SettingInv, Shape
<1>8. \A target, payload, live : Untouched(OnUpdateContract(settings, target, payload, live))
  BY <1>2, <1>3 DEF OnUpdateContract, HandleMerklePolicyUpdate, HandleOnOfframpUpdate
<1>9. ASSUME NEW live \in BOOLEAN, HubWithdraws(live) PROVE SettingTypeOK'
  BY <1>4, <1>8, <1>9 DEF HubWithdraws
<1>10. ASSUME NEW on \in BOOLEAN, NEW live \in BOOLEAN, SpokeSets(on, live) PROVE SettingTypeOK'
  BY <1>2, <1>3, <1>4, <1>10
     DEF SpokeSets, OnUpdateManager, OnUpdateRelayer, OnUpdateOnramp, OnUpdateOfframp, SetRamp
<1>11. ASSUME NEW on \in BOOLEAN, NEW live \in BOOLEAN, HubUpdatesManager(on, live) PROVE SettingTypeOK'
  BY <1>2, <1>3, <1>4, <1>11 DEF HubUpdatesManager, OnUpdateBalanceSheetManager
<1>12. ASSUME NEW on \in BOOLEAN, NEW live \in BOOLEAN, NEW kind \in Ramps, HubUpdatesRamp(kind, on, live)
       PROVE SettingTypeOK'
  BY <1>4, <1>8, <1>12 DEF HubUpdatesRamp
<1>13. ASSUME NEW root \in Roots, NEW live \in BOOLEAN, HubUpdatesPolicy(root, live) PROVE SettingTypeOK'
  BY <1>4, <1>8, <1>13 DEF HubUpdatesPolicy
<1>14. ASSUME NEW root \in Roots, NEW live \in BOOLEAN, NEW answered \in BOOLEAN, UpdatePolicy(root, live, answered)
       PROVE SettingTypeOK'
  BY <1>2, <1>3, <1>4, <1>14 DEF UpdatePolicy, OnUpdatePolicy
<1> QED BY <1>5, <1>6, <1>7, <1>9, <1>10, <1>11, <1>12, <1>13, <1>14 DEF SettingNext

LEMMA SettingsTyped == SettingSpec => []SettingTypeOK
<1>1. SettingInit => SettingTypeOK
  <2> SUFFICES ASSUME SettingInit PROVE SettingTypeOK  OBVIOUS
  <2>1. /\ settings.rows = EmptyTable /\ settings.managers = {} /\ settings.asset = FALSE
        /\ settings.token \in BOOLEAN /\ settings.members = SetupMembers({Migrated})
    BY DEF SettingInit
  <2>2. /\ DOMAIN SetupMembers({Migrated}) = {Migrated}
        /\ SetupMembers({Migrated})[Migrated] = [until |-> MaxDate, frozen |-> FALSE]
    BY DEF SetupMembers, NewInvestor
  <2>3. [until |-> MaxDate, frozen |-> FALSE] \in [until: 0..MaxDate, frozen: BOOLEAN]  BY DEF MaxDate
  <2> QED BY <2>1, <2>2, <2>3 DEF SettingTypeOK, EmptyTable, Investors
<1>2. SettingInv /\ SettingInv' /\ SettingTypeOK /\ [SettingNext \/ MemberNext]_settingVars => SettingTypeOK'
  <2>1. SettingInv /\ SettingTypeOK /\ MemberNext => SettingTypeOK'  BY RestrictTyped DEF MemberNext
  <2>2. SettingTypeOK /\ UNCHANGED settingVars => SettingTypeOK'  BY DEF SettingTypeOK, settingVars
  <2> QED BY <2>1, <2>2, SettingStepTyped
<1> QED BY <1>1, <1>2, SettingInvHolds, PTL DEF SettingSpec

-----------------------------------------------------------------------------
(* The types of the composition *)

\* Every table of a share class keeps its columns, keys and numbers that are not negative
\* (balances, costs, prices and the supply), and the chains' logs theirs.
THEOREM SpokeTypeCorrect == SpokeSpec => []SpokeTypeOK
<1>1. VaultTypeOK /\ SharesTypeOK /\ SettingTypeOK => SpokeTypeOK  BY DEF SpokeTypeOK
<1> QED BY <1>1, SpokeTogether, VaultsTyped, SharesTypeCorrect, SettingsTyped, PTL

=============================================================================
