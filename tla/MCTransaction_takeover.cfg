SPECIFICATION Spec
CONSTANTS
  k1 = k1  k2 = k2  w1 = w1  w2 = w2  h1 = h1  h2 = h2
  Keypairs = {k1, k2}
  Wallets = {}
  SignerList <- TwoKeypairs
  Inline = {}
  Alterers = {}
  Hashes = {h1, h2}
  Api <- TakeOver
  Documented = {"edit", "price", "send"}
  MaxFee = 1
  MaxReady = 3
  MaxRequests = 1
  MaxAltered = 1
  NoHash = NoHash  NoMessage = NoMessage  NoSig = NoSig  Nil = Nil
INVARIANTS ClaimsFullySigned
CHECK_DEADLOCK FALSE
