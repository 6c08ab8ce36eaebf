------------------------ MODULE MCTransactionManager ------------------------
(* Instances of TransactionManager for TLC. *)
EXTENDS TransactionManager
CONSTANTS t1, t2
Confirmed == [t \in Txs |-> 2]
Mixed == [t \in Txs |-> IF t = t1 THEN 1 ELSE 2]
=============================================================================
