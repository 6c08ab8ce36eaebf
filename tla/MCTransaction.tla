--------------------------- MODULE MCTransaction ---------------------------
(* Instances of Transaction for TLC. *)
EXTENDS Transaction

CONSTANTS k1, k2, w1, w2, h1, h2

\* A wallet alone, two keypairs, two wallets around a keypair.
ThreeMessages == << <<w1>>, <<k1, k2>>, <<w1, k1, w2>> >>
\* Keypairs only.
TwoKeypairs == << <<k1>>, <<k1, k2>> >>

AllCalls ==
  {"set_payer", "add_instruction", "set_instructions", "set_unit_price", "set_signers",
   "update_latest_blockhash", "set_blockhash", "sign", "partially_sign", "sign_and_send",
   "send", "new_from_bytes"}
\* The calls of SKILL.md:263-269, which take over a serialized transaction.
TakeOver == {"new_from_bytes", "set_signers", "update_latest_blockhash", "sign", "send"}
=============================================================================
