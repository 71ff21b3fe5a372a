-------------------------------- MODULE MCSpoke --------------------------------
(* What is kept of one share class on its spokes: the vaults, the share token,    *)
(* the settings and the members.  They write different tables, so a behaviour      *)
(* moves one of them.                                                              *)
EXTENDS Vaults, ShareSystem, SettingSystem, TLC

CONSTANTS c1, c2

VARIABLE part

spokeVars == <<part, vaultVars, sharesVars, settingVars>>

SpokeInit == /\ part \in {"vaults", "shares", "settings", "members"}
             /\ VaultInit /\ SharesInit /\ SettingInit
             /\ part # "members" => settings.token

SpokeNext ==
  /\ UNCHANGED part
  /\ \/ part = "vaults" /\ VaultNext /\ UNCHANGED <<sharesVars, settingVars>>
     \/ part = "shares" /\ SharesNext /\ UNCHANGED <<vaultVars, settingVars>>
     \/ part = "settings" /\ SettingNext /\ UNCHANGED <<vaultVars, sharesVars>>
     \/ part = "members" /\ MemberNext /\ UNCHANGED <<vaultVars, sharesVars>>

SpokeSpec == SpokeInit /\ [][SpokeNext]_spokeVars

\* The rows of all tables have their shape (the type invariants of the parts).
SpokeTypeOK == VaultTypeOK /\ SharesTypeOK /\ SettingTypeOK

ChainSymmetry == Permutations(Chains)

=============================================================================
