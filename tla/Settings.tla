-------------------------------- MODULE Settings --------------------------------
(***************************************************************************)
(* What a pool sets on a spoke through its hub: balance sheet managers, on  *)
(* and off ramps, policies, and who may hold its tokens.  A setting takes   *)
(* its value from the spoke's log; the hub's log, which may be indexed      *)
(* first or much later, only marks it as in progress.                       *)
(***************************************************************************)
EXTENDS Tables, Sequences

\* A row of pool_manager, offramp_relayer, on_ramp_asset, off_ramp_address or
\* policy, by its kind.
NewSetting == [value |-> "unset", inProgress |-> "None"]
ZeroRoot == "zero"

\* A log of the spoke sets the value.  Of a live block it clears the flag.
SetBySpoke(t, kind, value, live) ==
  Put(t, kind, [RowOr(t, kind, NewSetting) EXCEPT !.value = value, !.inProgress = IF live THEN "None" ELSE @])

\* A log of the hub sets the flag, of a row that may be new.
Signalled(t, kind, flag, new) == Put(t, kind, [RowOr(t, kind, new) EXCEPT !.inProgress = flag])

Flag(enabled) == IF enabled THEN "Enabled" ELSE "Disabled"

-----------------------------------------------------------------------------
(* Payloads of hub:UpdateContract: sequences of words.  A word is what the       *)
(* decoders look at: a number that fits a byte, one that fits 16 bytes, or more. *)

Byte(n) == [size |-> "byte", is |-> n]
Uint128(x) == [size |-> "uint128", is |-> x]
Bytes32(x) == [size |-> "bytes32", is |-> x]

IsAbiUint8PaddedWord(w) == w.size = "byte"
IsWordZeroPaddedUint128(w) == w.size \in {"byte", "uint128"}
LeadingUint8(p) == IF p # <<>> /\ IsAbiUint8PaddedWord(p[1]) THEN p[1].is ELSE 256
IsBool(w) == w \in {Byte(0), Byte(1)}
Bool(w) == w = Byte(1)

IsMerklePolicyPayloadShape(p) == Len(p) = 2 /\ ~IsAbiUint8PaddedWord(p[1])

\* The call a payload is for a ramp, or none.
DecodeOnOfframpManagerTrustedCall(p) ==
  LET k == LeadingUint8(p)
  IN  IF k = 0 /\ Len(p) = 3 /\ IsWordZeroPaddedUint128(p[2]) /\ IsBool(p[3])
      THEN {[kind |-> "onramp", enabled |-> Bool(p[3])]}
      ELSE IF k = 1 /\ Len(p) = 3 /\ ~(IsWordZeroPaddedUint128(p[2]) /\ IsWordZeroPaddedUint128(p[3])) /\ IsBool(p[3])
      THEN {[kind |-> "relayer", enabled |-> Bool(p[3])]}
      ELSE IF k = 2 /\ Len(p) = 4 /\ IsBool(p[4])
      THEN {[kind |-> "offramp", enabled |-> Bool(p[4])]}
      ELSE IF k = 3 /\ Len(p) = 4 THEN {[kind |-> "withdraw", enabled |-> FALSE]} ELSE {}

-----------------------------------------------------------------------------
(* Handlers.  s: the rows, the managers that are known, asset, members *)

\* Factories.  Their logs make the manager known.
OnDeployOnOffRampManager(s) == [s EXCEPT !.managers = @ \cup {"ramps"}]
OnDeployMerkleProofManager(s) == [s EXCEPT !.managers = @ \cup {"policies"}]

\* balanceSheet:UpdateManager
OnUpdateManager(s, can, live) == [s EXCEPT !.rows = SetBySpoke(@, "manager", Flag(can), live)]

\* UpdateRelayer, UpdateOnramp and UpdateOfframp of a manager
SetRamp(s, kind, on, live) ==
  IF "ramps" \in s.managers THEN [s EXCEPT !.rows = SetBySpoke(@, kind, Flag(on), live)] ELSE s
OnUpdateRelayer(s, on, live) == SetRamp(s, "relayer", on, live)
OnUpdateOnramp(s, on, live) == SetRamp(s, "onramp", on, live)
OnUpdateOfframp(s, on, live) == SetRamp(s, "offramp", on, live)

\* merkleProofManager:UpdatePolicy.  The pool is read from the contract.
OnUpdatePolicy(s, root, live, answered) ==
  IF answered THEN [s EXCEPT !.rows = SetBySpoke(@, "policy", root, live)] ELSE s

\* hub:UpdateBalanceSheetManager
OnUpdateBalanceSheetManager(s, can, live) ==
  IF live THEN [s EXCEPT !.rows = Signalled(@, "manager", Flag(can), NewSetting)] ELSE s

\* Mutation: the hub's log resets the root.
HandleMerklePolicyUpdateAnew(s, live) ==
  IF live /\ "policies" \in s.managers
  THEN [s EXCEPT !.rows = Put(@, "policy", [value |-> ZeroRoot, inProgress |-> "UpdatePolicy"])] ELSE s

HandleMerklePolicyUpdate(s, live) ==
  IF live /\ "policies" \in s.managers
  THEN [s EXCEPT !.rows = Signalled(@, "policy", "UpdatePolicy", [NewSetting EXCEPT !.value = ZeroRoot])]
  ELSE s

\* Ramps of an asset need the asset.
HandleOnOfframpUpdate(s, payload, live) ==
  LET calls == {c \in DecodeOnOfframpManagerTrustedCall(payload) :
                  c.kind # "withdraw" /\ (c.kind = "relayer" \/ s.asset)}
  IN  IF live /\ "ramps" \in s.managers /\ calls # {}
      THEN LET c == CHOOSE x \in calls : TRUE
           IN  [s EXCEPT !.rows = Signalled(@, c.kind, Flag(c.enabled), NewSetting)]
      ELSE s

\* hub:UpdateContract tells its payloads apart by shape, then by target.  What the
\* sync manager is told is not a setting of these tables.
OnUpdateContract(s, target, payload, live) ==
  IF IsMerklePolicyPayloadShape(payload)
  THEN IF target = "policies" THEN HandleMerklePolicyUpdate(s, live) ELSE s
  ELSE IF target = "ramps" THEN HandleOnOfframpUpdate(s, payload, live) ELSE s

-----------------------------------------------------------------------------
(* Members *)

Never == 0
MaxDate == 100   \* MAX_UINT64_DATE

NewInvestor == [until |-> Never, frozen |-> FALSE]

\* A time the database cannot hold becomes the latest it can.
ValidUntil(secs) == IF secs > MaxDate THEN MaxDate ELSE secs

\* What is said of a member leaves the rest of the row.
Restricted(row, r) == CASE r.kind = "Member"   -> [row EXCEPT !.until = ValidUntil(r.until)]
                        [] r.kind = "Freeze"   -> [row EXCEPT !.frozen = TRUE]
                        [] r.kind = "Unfreeze" -> [row EXCEPT !.frozen = FALSE]

\* hub:UpdateRestriction.  Members of earlier versions are there from the setup.
OnUpdateRestriction(s, account, r) ==
  IF s.token THEN [s EXCEPT !.members = Put(@, account, Restricted(RowOr(@, account, NewInvestor), r))] ELSE s

\* hubRegistry:setup
SetupMembers(migrated) == [a \in migrated |-> [NewInvestor EXCEPT !.until = MaxDate]]

=============================================================================
