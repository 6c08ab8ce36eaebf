----------------------------- MODULE MCServices -----------------------------
(* An instance of Services for TLC: one owner has two storages, one has   *)
(* one and one has none.                                                  *)
EXTENDS Services
CONSTANTS t1, o1, o2, n1, n2
Levels2 == [t \in Txs |-> IF t = t1 THEN 1 ELSE 2]
OnChain == [o \in Owners |-> IF o = o1 THEN <<n1, n2>> ELSE IF o = o2 THEN <<n2>> ELSE <<>>]
=============================================================================
