SPECIFICATION FairSpec
CONSTANTS
  a1 = a1  a2 = a2  a3 = a3  client = client  k1 = k1  k2 = k2  k3 = k3  k4 = k4
  Accounts = {a1, a2}
  Client = client
  Order <- ThreeNodes
  Keys = {k1, k2}
  OnChain = {k1}
  NoData = NoData
  InitialKey <- TwoKeys
  StringKeyed = {}
  Min <- TwoSoon
  Max <- TwoLate
  Timeout = 2
  MaxRekeys = 0
  MaxErrors = 0
PROPERTIES OverdueIsAsked
