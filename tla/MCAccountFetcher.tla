-------------------------- MODULE MCAccountFetcher --------------------------
(* Instances of AccountFetcher for TLC. *)
EXTENDS AccountFetcher, TLC

CONSTANTS a1, a2, a3, client, k1, k2, k3, k4

\* Three Accounts around a SolanaClient.
FourNodes == <<a1, client, a2, a3>>
FirstKey == a1 :> k1 @@ a2 :> k2 @@ a3 :> k3
Soon == a1 :> 0 @@ a2 :> 1 @@ a3 :> 2
Late == a1 :> 4 @@ a2 :> 5 @@ a3 :> 4

\* A node of an account that exists, and one of an account that does not.
ThreeNodes == <<a1, client, a2>>
TwoKeys == a1 :> k1 @@ a2 :> k2
TwoSoon == a1 :> 2 @@ a2 :> 2
TwoLate == a1 :> 4 @@ a2 :> 4
=============================================================================
