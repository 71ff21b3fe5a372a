------------------------------- MODULE MCIndexer -------------------------------
(* Small instances of CrosschainIndexer for TLC. *)
EXTENDS CrosschainIndexer

CONSTANTS m1, m2, p1, a1, a2, pool1,
          MaxTime,  \* bound on block times
          MaxLogs   \* bound on indexed logs

BoundedNext == /\ indexed["source"] + indexed["destination"] < MaxLogs
               /\ \E t \in 1..MaxTime : Step(t)

BoundedSpec == Init /\ [][BoundedNext]_vars

OnePool == [m \in MessageIds |-> pool1]

\* No message announces adapters, or m1 announces a1.
NoAdapterSets == <<>>
OneAdapterSet == [m \in {m1} |-> {a1}]

SingleBatch == [p \in PayloadIds |-> <<m1>>]
PairBatch == [p \in PayloadIds |-> <<m1, m2>>]

=============================================================================
