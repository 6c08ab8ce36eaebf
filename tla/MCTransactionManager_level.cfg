SPECIFICATION Spec
CONSTANTS
  t1 = t1  t2 = t2
  Txs = {t1}
  WalletTxs = {t1}
  Commitment <- Confirmed
  Timeout = 2
  MaxErrors = 0
  NoTimer = NoTimer
PROPERTIES ReachedIsConfirmed
CHECK_DEADLOCK FALSE
