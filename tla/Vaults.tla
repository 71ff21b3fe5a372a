-------------------------------- MODULE Vaults --------------------------------
(***************************************************************************)
(* The vaults of one share class and the instructions its hub sends to the  *)
(* spoke: link, unlink, a new reserve.  Both chains are indexed, each in    *)
(* its own order.  The hub's log sets `crosschainInProgress` and the        *)
(* spoke's log is to clear it, from facts that either side may write first. *)
(***************************************************************************)
EXTENDS Tables, Sequences

CONSTANTS VaultIds, Reserves, MaxSignals

ASSUME VaultAssumption == Reserves \subseteq Int

Null == 0
Unlimited == -1   \* 2^128 - 1
Kinds == {"LinkVault", "UnlinkVault"}

VARIABLES hub,        \* logs of the hub chain
          spoke,      \* logs of the spoke chain
          executed,   \* instructions of the hub the spoke has run, in their order
          clock,
          hubNext, spokeNext,   \* logs indexed so far
          assetKnown, \* the asset row of the vaults is there
          vault       \* the vault table

chainVars == <<hub, spoke, executed, clock>>
vaultVars == <<hub, spoke, executed, clock, hubNext, spokeNext, assetKnown, vault>>

-----------------------------------------------------------------------------
(* The row and the merge of hub and spoke facts *)

\* What a hub or spoke upsert inserts when the vault is not there.
StubRow == [deployed |-> FALSE, forAsset |-> FALSE, status |-> "None", maxReserve |-> 0,
            inProgress |-> "None", signal |-> "None", signalAt |-> Null, ackAt |-> Null]

Earliest(a, b) == IF a = Null THEN b ELSE IF b = Null \/ a <= b THEN a ELSE b

\* A signal is pending until an acknowledgement that is not older.
Pending(signalAt, ackAt) == signalAt # Null /\ (ackAt = Null \/ ackAt < signalAt)

\* The first signal's time stays and the last signal's type is shown.  A row
\* that is inserted has no flag: only ON CONFLICT SET computes one.  (Its CASE takes
\* the stored time where there is one, not the earlier: logs of a chain come in the
\* order of their times, so the stored one is.)
UpsertHubSignal(t, v, type, time) ==
  IF ~Has(t, v)
  THEN Put(t, v, [StubRow EXCEPT !.forAsset = TRUE, !.signal = type, !.signalAt = time])
  ELSE LET row == t[v]
           at  == Earliest(row.signalAt, time)
       IN  Put(t, v, [row EXCEPT !.signal = type, !.signalAt = at,
                        !.inProgress = IF Pending(at, row.ackAt) THEN type ELSE "None"])

\* Mutation: the flag of the row stays as the signal left it.
UpsertSpokeAckKeepingFlag(t, v, status, time) ==
  IF ~Has(t, v)
  THEN Put(t, v, [StubRow EXCEPT !.status = status, !.ackAt = time])
  ELSE Put(t, v, [t[v] EXCEPT !.status = status, !.ackAt = Earliest(t[v].ackAt, time)])

\* Mutation: the status that is there stays.
UpsertSpokeAckCoalesced(t, v, status, time) ==
  IF ~Has(t, v)
  THEN Put(t, v, [StubRow EXCEPT !.status = status, !.ackAt = time])
  ELSE LET row == t[v]
           at  == Earliest(row.ackAt, time)
       IN  Put(t, v, [row EXCEPT !.status = IF @ = "None" THEN status ELSE @, !.ackAt = at,
                        !.inProgress = IF Pending(row.signalAt, at) THEN row.signal ELSE "None"])

\* As UpsertHubSignal, for the earliest acknowledgement.
UpsertSpokeAck(t, v, status, time) ==
  IF ~Has(t, v)
  THEN Put(t, v, [StubRow EXCEPT !.status = status, !.ackAt = time])
  ELSE LET row == t[v]
           at  == Earliest(row.ackAt, time)
       IN  Put(t, v, [row EXCEPT !.status = status, !.ackAt = at,
                        !.inProgress = IF Pending(row.signalAt, at) THEN row.signal ELSE "None"])

-----------------------------------------------------------------------------
(* Handlers *)

\* hub:UpdateVault.  An old block leaves no signal.
OnUpdateVault(t, v, type, time, live) == IF live THEN UpsertHubSignal(t, v, type, time) ELSE t

\* vaultRegistry:DeployVault.  Without the answer of the vault to an eth_call, or
\* the asset, there is no row.
OnDeployVault(t, v, answered, asset) ==
  IF answered /\ asset
  THEN Upsert(t, v, [deployed |-> TRUE, forAsset |-> TRUE, status |-> "Unlinked",
                     inProgress |-> "None", maxReserve |-> Unlimited], StubRow)
  ELSE t

\* vaultRegistry:LinkVault and UnlinkVault
OnLinkVault(t, v, time) == UpsertSpokeAck(t, v, "Linked", time)
OnUnlinkVault(t, v, time) == UpsertSpokeAck(t, v, "Unlinked", time)

\* The vaults a lookup by pool, token and asset may find.
OfAsset(t) == {v \in DOMAIN t : t[v].forAsset}

\* The reserve of a vault: set by the hub's UpdateContract as by the spoke's
\* SetMaxReserve, and of a live block both clear the flag, whatever it shows.
SetMaxReserve(t, v, n, live) ==
  Put(t, v, [t[v] EXCEPT !.maxReserve = n, !.inProgress = IF live THEN "None" ELSE @])

OnSetMaxReserve(t, n, live, asset) ==
  IF asset /\ OfAsset(t) # {} THEN {SetMaxReserve(t, v, n, live) : v \in OfAsset(t)} ELSE {t}

-----------------------------------------------------------------------------
(* The two chains *)

Deployed(v) == \E i \in DOMAIN spoke : spoke[i].kind = "DeployVault" /\ spoke[i].vault = v

\* The instruction the hub sent last for a vault.
LastKind(log, v) ==
  LET I == {i \in DOMAIN log : log[i].kind \in Kinds /\ log[i].vault = v}
  IN  IF I = {} THEN "UnlinkVault" ELSE log[CHOOSE i \in I : \A j \in I : j <= i].kind

VaultLog(kind, v, n) == [kind |-> kind, vault |-> v, reserve |-> n, time |-> clock + 1]

OnSpoke(log) == /\ spoke' = Append(spoke, log)
                /\ clock' = clock + 1
                /\ UNCHANGED <<hub, hubNext, spokeNext, assetKnown, vault>>

RegisterAsset == spoke = <<>> /\ OnSpoke(VaultLog("RegisterAsset", Null, Null)) /\ UNCHANGED executed

DeployVault(v) == /\ spoke # <<>> /\ ~Deployed(v)
                  /\ OnSpoke(VaultLog("DeployVault", v, Null))
                  /\ UNCHANGED executed

\* The hub links what it unlinked, or sets a reserve, of a vault that is deployed.
Signal(kind, v, n) ==
  /\ Len(hub) < MaxSignals
  /\ Deployed(v)
  /\ kind \in Kinds => LastKind(hub, v) # kind
  /\ hub' = Append(hub, VaultLog(kind, v, n))
  /\ clock' = clock + 1
  /\ UNCHANGED <<spoke, executed, hubNext, spokeNext, assetKnown, vault>>

Execute == LET next == hub[executed + 1]
           IN  /\ executed < Len(hub)
               /\ executed' = executed + 1
               /\ OnSpoke(VaultLog(next.kind, next.vault, next.reserve))

-----------------------------------------------------------------------------
(* The indexer *)

IndexHubLog(live) ==
  LET e == hub[hubNext + 1]
  IN  /\ hubNext < Len(hub)
      /\ hubNext' = hubNext + 1
      /\ IF e.kind = "MaxReserve" THEN vault' \in OnSetMaxReserve(vault, e.reserve, live, assetKnown)
         ELSE vault' = OnUpdateVault(vault, e.vault, e.kind, e.time, live)
      /\ UNCHANGED <<chainVars, spokeNext, assetKnown>>

IndexSpokeLog(live, answered) ==
  LET e == spoke[spokeNext + 1]
  IN  /\ spokeNext < Len(spoke)
      /\ spokeNext' = spokeNext + 1
      /\ assetKnown' = (assetKnown \/ e.kind = "RegisterAsset")
      /\ CASE e.kind = "RegisterAsset" -> vault' = vault
           [] e.kind = "DeployVault"   -> vault' = OnDeployVault(vault, e.vault, answered, assetKnown)
           [] e.kind = "LinkVault"     -> vault' = OnLinkVault(vault, e.vault, e.time)
           [] e.kind = "UnlinkVault"   -> vault' = OnUnlinkVault(vault, e.vault, e.time)
           [] e.kind = "MaxReserve"    -> vault' \in OnSetMaxReserve(vault, e.reserve, live, assetKnown)
      /\ UNCHANGED <<chainVars, hubNext>>

VaultInit == /\ hub = <<>> /\ spoke = <<>> /\ executed = 0 /\ clock = 0
             /\ hubNext = 0 /\ spokeNext = 0
             /\ assetKnown = FALSE /\ vault = EmptyTable

VaultNext == \/ RegisterAsset
             \/ \E v \in VaultIds : \/ DeployVault(v)
                                    \/ \E kind \in Kinds : Signal(kind, v, Null)
                                    \/ \E n \in Reserves : Signal("MaxReserve", v, n)
             \/ Execute
             \/ \E live \in BOOLEAN : IndexHubLog(live) \/ \E answered \in BOOLEAN : IndexSpokeLog(live, answered)

VaultSpec == VaultInit /\ [][VaultNext]_vaultVars

-----------------------------------------------------------------------------
(* Properties *)

VaultRow == [deployed: BOOLEAN, forAsset: BOOLEAN, status: {"None", "Unlinked", "Linked"}, maxReserve: Int,
             inProgress: {"None"} \cup Kinds, signal: {"None"} \cup Kinds, signalAt: Nat, ackAt: Nat]

VaultTypeOK ==
  /\ hub \in Seq([kind: Kinds \cup {"MaxReserve"}, vault: VaultIds, reserve: Reserves \cup {Null}, time: Nat])
  /\ hubNext \in Nat /\ spokeNext \in Nat
  /\ vault = [v \in DOMAIN vault |-> vault[v]]
  /\ \A v \in DOMAIN vault : vault[v] \in VaultRow

\* What crosschainInProgress shows is never older than the acknowledgement the
\* row knows of, in whatever order the two chains are indexed and although the
\* deployment, a reserve or the other side write the same row in between.
NoStaleFlag ==
  \A v \in DOMAIN vault :
    vault[v].inProgress # "None" => /\ Pending(vault[v].signalAt, vault[v].ackAt)
                                    /\ vault[v].inProgress = vault[v].signal

SpokeIndexed == spokeNext = Len(spoke)
AllIndexed == hubNext = Len(hub) /\ SpokeIndexed /\ executed = Len(hub)

ReserveLogs == {i \in DOMAIN spoke : spoke[i].kind = "MaxReserve"}
LastReserve == IF ReserveLogs = {} THEN Unlimited
               ELSE spoke[CHOOSE i \in ReserveLogs : \A j \in ReserveLogs : j <= i].reserve

\* The only vault of its asset.
Alone(v) == \A i \in DOMAIN spoke : spoke[i].kind = "DeployVault" => spoke[i].vault = v

\* A vault the spoke deployed ends as the spoke left it: with the status it gave
\* last, which the hub's logs do not touch, and, when it is alone for its asset,
\* with the reserve it ran last, though the hub's logs write the reserve too and
\* may all come later.
VaultsEndAsOnChain ==
  \A v \in DOMAIN vault : vault[v].deployed =>
    /\ SpokeIndexed =>
         vault[v].status = IF LastKind(spoke, v) = "LinkVault" THEN "Linked" ELSE "Unlinked"
    /\ AllIndexed /\ Alone(v) => vault[v].maxReserve = LastReserve

\* docs/2-hub-spoke-crosschain-state.md: a signal is in progress until the spoke
\* acknowledges it, so nothing is once every instruction was run and indexed.
AcknowledgedIsCleared == AllIndexed => \A v \in DOMAIN vault : vault[v].inProgress = "None"

=============================================================================
