SPECIFICATION FairSpec
CONSTANTS
  k1 = k1  k2 = k2  w1 = w1  w2 = w2  h1 = h1  h2 = h2
  Keypairs = {k1, k2}
  Wallets = {w1, w2}
  SignerList <- ThreeMessages
  Inline = {k1, k2, w1, w2}
  Alterers = {w1}
  Hashes = {h1, h2}
  Api <- AllCalls
  Documented = {"edit", "price", "fetch", "sign", "send"}
  MaxFee = 1
  MaxReady = 3
  MaxRequests = 2
  MaxAltered = 1
  NoHash = NoHash  NoMessage = NoMessage  NoSig = NoSig  Nil = Nil
INVARIANTS
  TypeOK PendingIsBacked SentFullySigned ClaimsFullySigned PopupIsCurrent
PROPERTIES NoSignatureLost SignAndSendGoesOut
CHECK_DEADLOCK FALSE
