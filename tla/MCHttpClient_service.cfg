SPECIFICATION Spec
CONSTANTS
  r1 = r1  r2 = r2  r3 = r3  n1 = n1  n2 = n2
  Requests = {r1, r2}
  Nodes = {n1, n2}
  Timeout = 2
  Replies <- AnyReply
  ConnectErrors = FALSE
INVARIANTS OnTime PostedOnce
PROPERTIES IsService
