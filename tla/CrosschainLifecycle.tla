-------------------------- MODULE CrosschainLifecycle --------------------------
(***************************************************************************)
(* What a reader of the API is promised about crosschain rows: a message or *)
(* a payload that appeared never disappears, and its status only advances.  *)
(*                                                                         *)
(* A message waits for its batch, may fail, and ends executed; a payload is *)
(* underpaid, in transit, delivered, perhaps partially failed, completed.   *)
(* One log can move several rows, and a row several stages.                 *)
(***************************************************************************)
EXTENDS Integers

VARIABLES messageStatus,  \* from the keys of the rows there are to their statuses
          payloadStatus

MessageStage == [AwaitingBatchDelivery |-> 0, Failed |-> 1, Executed |-> 2]

PayloadStage == [Underpaid |-> 0, InTransit |-> 1, Delivered |-> 2, PartiallyFailed |-> 3,
                 Completed |-> 4]

Advances(table, later, stage) ==
  /\ DOMAIN table \subseteq DOMAIN later
  /\ \A k \in DOMAIN table : stage[table[k]] <= stage[later[k]]

LifecycleInit == DOMAIN messageStatus = {} /\ DOMAIN payloadStatus = {}

LifecycleNext == /\ Advances(messageStatus, messageStatus', MessageStage)
                 /\ Advances(payloadStatus, payloadStatus', PayloadStage)

LifecycleSpec == LifecycleInit /\ [][LifecycleNext]_<<messageStatus, payloadStatus>>

=============================================================================
