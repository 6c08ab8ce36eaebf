SPECIFICATION SpecServices
CONSTANTS
  Levels = {1, 3}
  MaxSends = 2
  t1 = t1
  Txs = {t1, t2}
  Commitment <- Levels2
  WalletTxs = {t1, t2}
  Timeout = 2
  MaxErrors = 1
  NoTimer = NoTimer
  Asked = {"findGlobal", "findUsers", "authConfirm"}
  MaxUnsent = 2
  Programs = {"p", "q"}
  Names = {"x"}
  Keys = {"k"}
  MaxLoads = 2
  MaxRepoints = 1
  MaxFetches = 3
  Accounts = {"a", "b", "c"}
  Hashes = {"g", "h"}
  NoData = NoData
  MaxRetargets = 1
  o1 = o1  o2 = o2  n1 = n1  n2 = n2
  Owners = {o1, o2, o3}
  Stored <- OnChain
  StorageNames = {n1, n2}
  NoName = NoName
  MaxCalls = 3
INVARIANTS CarriesItsOwn AnswersAreOwn SimulatedIsOwn CreationsAreAsked ToldOfItsOwn ToldOnce
PROPERTIES AwaitIsTrue EveryAwaitEnds EveryWaitEnds EveryQueryEnds FetchEnds
CHECK_DEADLOCK FALSE
