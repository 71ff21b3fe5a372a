----------------------------- MODULE SettingSystem -----------------------------
(***************************************************************************)
(* The settings of one pool on one spoke.  As their handlers read only      *)
(* tables, a log is indexed as it is emitted, the hub's and the spoke's in  *)
(* any order: what the hub sends may be indexed before the managers are     *)
(* deployed, or long after the spoke has run it.                            *)
(***************************************************************************)
EXTENDS Settings

CONSTANTS Roots, Times, MaxSettings

ASSUME SettingAssumption == Times \subseteq Nat

VARIABLES settings,      \* the tables
          told,          \* the value the spoke set last, by kind
          sent,          \* the flags the hub's instructions stand for, by kind
          restrictions,  \* what the hub said of members
          steps

settingVars == <<settings, told, sent, restrictions, steps>>

Ramps == {"relayer", "onramp", "offramp"}
SettingKinds == Ramps \cup {"manager", "policy"}
Migrated == "migrated"
Investors == {Migrated, "new"}

Step == steps < MaxSettings /\ steps' = steps + 1

-----------------------------------------------------------------------------

KnowAsset == /\ ~settings.asset /\ Step
             /\ settings' = [settings EXCEPT !.asset = TRUE]
             /\ UNCHANGED <<told, sent, restrictions>>

DeployRamps == /\ "ramps" \notin settings.managers /\ Step
               /\ settings' = OnDeployOnOffRampManager(settings)
               /\ UNCHANGED <<told, sent, restrictions>>

DeployPolicies == /\ "policies" \notin settings.managers /\ Step
                  /\ settings' = OnDeployMerkleProofManager(settings)
                  /\ UNCHANGED <<told, sent, restrictions>>

Told(kind, value) == /\ Step
                     /\ told' = [told EXCEPT ![kind] = value]
                     /\ UNCHANGED <<sent, restrictions>>

\* A manager exists on its chain from its factory's log on.
SpokeSets(on, live) ==
  \/ Told("manager", Flag(on)) /\ settings' = OnUpdateManager(settings, on, live)
  \/ /\ "ramps" \in settings.managers
     /\ \/ Told("relayer", Flag(on)) /\ settings' = OnUpdateRelayer(settings, on, live)
        \/ Told("onramp", Flag(on)) /\ settings' = OnUpdateOnramp(settings, on, live)
        \/ Told("offramp", Flag(on)) /\ settings' = OnUpdateOfframp(settings, on, live)

\* A policy is not told when the contract does not answer.
UpdatePolicy(root, live, answered) ==
  /\ "policies" \in settings.managers
  /\ Told("policy", IF answered THEN root ELSE told["policy"])
  /\ settings' = OnUpdatePolicy(settings, root, live, answered)

Sent(kind, flag) == /\ Step
                    /\ sent' = [sent EXCEPT ![kind] = @ \cup {flag}]
                    /\ UNCHANGED <<told, restrictions>>

HubUpdatesManager(on, live) ==
  Sent("manager", Flag(on)) /\ settings' = OnUpdateBalanceSheetManager(settings, on, live)

HubUpdatesPolicy(root, live) ==
  /\ Sent("policy", "UpdatePolicy")
  /\ settings' = OnUpdateContract(settings, "policies", <<Bytes32("strategist"), Bytes32(root)>>, live)

\* The trusted calls of a ramp manager, as the contracts encode them.
Payload(kind, on) ==
  LET bool == Byte(IF on THEN 1 ELSE 0)
  IN  CASE kind = "onramp"   -> <<Byte(0), Uint128("asset"), bool>>
        [] kind = "relayer"  -> <<Byte(1), Bytes32("relayer"), bool>>
        [] kind = "offramp"  -> <<Byte(2), Uint128("asset"), Bytes32("receiver"), bool>>
        [] kind = "withdraw" -> <<Byte(3), Uint128("asset"), Uint128("amount"), Bytes32("receiver")>>

HubUpdatesRamp(kind, on, live) ==
  /\ Sent(kind, Flag(on))
  /\ settings' = OnUpdateContract(settings, "ramps", Payload(kind, on), live)

HubWithdraws(live) ==
  /\ Step
  /\ settings' = OnUpdateContract(settings, "ramps", Payload("withdraw", TRUE), live)
  /\ UNCHANGED <<told, sent, restrictions>>

HubRestricts(account, r) ==
  /\ Step
  /\ restrictions' = Append(restrictions, [account |-> account, what |-> r])
  /\ settings' = OnUpdateRestriction(settings, account, r)
  /\ UNCHANGED <<told, sent>>

Restrictions == {[kind |-> "Member", until |-> t] : t \in Times}
                  \cup {[kind |-> "Freeze", until |-> Never], [kind |-> "Unfreeze", until |-> Never]}

\* The token's own log was handled, or refused, before its members were told.
SettingInit ==
  /\ \E token \in BOOLEAN :
       settings = [rows |-> EmptyTable, managers |-> {}, asset |-> FALSE, token |-> token,
                   members |-> SetupMembers({Migrated})]
  /\ told = [k \in SettingKinds |-> "unset"] /\ sent = [k \in SettingKinds |-> {}]
  /\ restrictions = <<>> /\ steps = 0

SettingNext ==
  \/ KnowAsset \/ DeployRamps \/ DeployPolicies
  \/ \E live \in BOOLEAN :
       \/ HubWithdraws(live)
       \/ \E on \in BOOLEAN :
            \/ SpokeSets(on, live)
            \/ HubUpdatesManager(on, live)
            \/ \E kind \in Ramps : HubUpdatesRamp(kind, on, live)
       \/ \E root \in Roots : \/ HubUpdatesPolicy(root, live)
                              \/ \E answered \in BOOLEAN : UpdatePolicy(root, live, answered)

MemberNext == \E account \in Investors, r \in Restrictions : HubRestricts(account, r)

SettingSpec == SettingInit /\ [][SettingNext \/ MemberNext]_settingVars

-----------------------------------------------------------------------------
(* Properties *)

SettingTypeOK ==
  /\ settings.managers \subseteq {"ramps", "policies"} /\ settings.asset \in BOOLEAN /\ settings.token \in BOOLEAN
  /\ DOMAIN settings.rows \subseteq SettingKinds /\ DOMAIN settings.members \subseteq Investors
  /\ \A a \in DOMAIN settings.members : settings.members[a] \in [until: 0..MaxDate, frozen: BOOLEAN]

\* The last thing the hub said of an account, of the given kinds, or `otherwise`.
Indices(said, account, kinds) == {i \in DOMAIN said : said[i].account = account /\ said[i].what.kind \in kinds}
LastSaid(said, account, kinds, otherwise) ==
  LET I == Indices(said, account, kinds)
  IN  IF I = {} THEN otherwise ELSE said[CHOOSE i \in I : \A j \in I : j <= i].what

\* Before anything is said, a migrated member stays one and nobody is frozen.
InitialMember(a) == [kind |-> "Member", until |-> IF a = Migrated THEN MaxDate ELSE Never]
InitialFreeze == [kind |-> "Unfreeze", until |-> Never]

ValuesAreTold ==
  /\ \A k \in DOMAIN settings.rows :
       LET row == settings.rows[k]
       IN  /\ IF told[k] # "unset" THEN row.value = told[k] ELSE row.value \in {"unset", ZeroRoot}
           /\ row.inProgress \in sent[k] \cup {"None"}
  /\ \A k \in SettingKinds : told[k] # "unset" => Has(settings.rows, k)

MembersAreSaid ==
  settings.token =>
    \A a \in Investors :
      LET row   == RowOr(settings.members, a, NewInvestor)
          until == LastSaid(restrictions, a, {"Member"}, InitialMember(a)).until
      IN  /\ row.until = IF until > MaxDate THEN MaxDate ELSE until
          /\ row.frozen = (LastSaid(restrictions, a, {"Freeze", "Unfreeze"}, InitialFreeze).kind = "Freeze")

\* A setting has the value the spoke set last, however the hub's logs about it
\* fall between the spoke's; it shows as in progress only what the hub sent for
\* that setting, of all the payloads that share one event; and a member has the
\* time and the freeze last said, whichever came first.
SettingsFollowTheSpoke == ValuesAreTold /\ MembersAreSaid

=============================================================================
