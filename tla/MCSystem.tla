-------------------------------- MODULE MCSystem --------------------------------
(* Small instances of CrosschainSystem for TLC. *)
EXTENDS CrosschainSystem, TLC

CONSTANTS m1, m2, p1, p2, a1, a2, pool1

OnePool == [m \in MessageIds |-> pool1]

\* What the messages announce: nothing, m1 two adapters, or m2 one as well.
NoAdapterSets == <<>>
OneAdapterSet == m1 :> {a1, a2}
TwoAdapterSets == m1 :> {a1, a2} @@ m2 :> {a1}

\* A batch of one message, a batch of two, and two batches that share a message.
SingleBatch == p1 :> <<m1>>
PairBatch == p1 :> <<m1, m2>>
SharedBatches == p1 :> <<m1>> @@ p2 :> <<m1, m2>>

OneAdapter == <<a1>>
TwoAdapters == <<a1, a2>>
=============================================================================
