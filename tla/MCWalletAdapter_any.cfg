SPECIFICATION SpecAdapter
CONSTANTS
  c1 = c1  c2 = c2  c3 = c3  c4 = c4  none = none
  Requests = {c1, c2, c3, c4}
  None = none
  Env = {"declined", "rejected", "modified", "absent", "stranger", "text"}
  AndroidEnv = {"noplugin", "declined", "rejected", "nothing", "modified", "text"}
INVARIANTS EverySignatureIsOwn AskedForACall
PROPERTIES HeardCallEnds
