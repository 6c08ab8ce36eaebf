-------------------------- MODULE MCWalletAdapter --------------------------
(* Instances of WalletAdapter for TLC. *)
EXTENDS WalletAdapter

CONSTANTS c1, c2, c3, c4, none \* calls, and none
=============================================================================
