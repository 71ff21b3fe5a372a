------------------------------- MODULE MCLedgers -------------------------------
(* The orders, the basin's own ledgers, and the books of the escrow and the hub.    *)
(* The basin's redeem requests are part of the orders; else they write different     *)
(* tables, so a behaviour moves one of them.                                         *)
EXTENDS OrderSystem, BasinSystem, BookSystem, TLC

CONSTANTS u1, u2, a1, a2, redeemer

VARIABLE part

ledgerVars == <<part, orderVars, basinVars, bookVars>>

Operations == [x \in {"debt", "fees"} |-> IF x = "debt" THEN 4 ELSE 3]

LedgersInit ==
  /\ part \in {"orders", "basin", "escrows", "holdings"}
  /\ OrdersInit /\ BasinInit /\ BookInit
  /\ part # "basin" => about = "debt"
  /\ part # "orders" => flow = "deposit" /\ orders.registered

LedgersNext ==
  /\ UNCHANGED part
  /\ \/ part = "orders" /\ OrdersNext /\ UNCHANGED <<basinVars, bookVars>>
     \/ part = "basin" /\ BasinNext /\ UNCHANGED <<orderVars, bookVars>>
     \/ part = "escrows" /\ EscrowNext /\ UNCHANGED <<orderVars, basinVars>>
     \/ part = "holdings" /\ HoldingNext /\ UNCHANGED <<orderVars, basinVars>>

LedgersSpec == LedgersInit /\ [][LedgersNext]_ledgerVars

\* The rows of all tables have their shape (OrdersTypeOK, BasinTypeOK, BookTypeOK).
LedgersTypeOK == OrdersTypeOK /\ BasinTypeOK /\ BookTypeOK

LedgerSymmetry == Permutations(Users) \cup Permutations(AssetIds) \cup Permutations(PoolEscrows)

=============================================================================
