SPECIFICATION FairSpec
CONSTANTS
  a1 = a1  a2 = a2  a3 = a3  client = client  k1 = k1  k2 = k2  k3 = k3  k4 = k4
  NoData = NoData
  Accounts = {a1, a2, a3}
  Client = client
  Order <- FourNodes
  Keys = {k1, k2, k3, k4}
  OnChain = {k1, k2, k3, k4}
  InitialKey <- FirstKey
  StringKeyed = {a1}
  Min <- Soon
  Max <- Late
  Timeout = 2
  MaxRekeys = 1
  MaxErrors = 2
INVARIANTS RequestedIsPrefix DataIsOwn
PROPERTIES OverdueIsFetched
