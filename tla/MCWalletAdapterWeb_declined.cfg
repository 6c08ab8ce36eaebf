SPECIFICATION Spec
CONSTANTS
  c1 = c1  c2 = c2  c3 = c3  c4 = c4  none = none
  Requests = {c1, c2}
  None = none
  Env = {"declined"}
PROPERTIES EveryCallEnds
