------------------------- MODULE MCWalletAdapterWeb -------------------------
(* Instances of WalletAdapterWeb for TLC. *)
EXTENDS WalletAdapterWeb

CONSTANTS c1, c2, c3, c4, none \* calls, and none
=============================================================================
