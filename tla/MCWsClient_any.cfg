SPECIFICATION Spec
CONSTANTS
  a = a  b = b  none = none
  Callbacks = {a, b}
  NoCallback = none
  Once = {b}
  MaxId = 3
  MaxNotes = 1
  MaxIssued = 3
  Timeout = 1
  Env = {"slow", "drop", "reject", "refuse", "unsubscribe", "react"}
INVARIANTS KeptForSomebody RightListener ForgottenIsEnded KeepsListening
PROPERTIES EventuallyTold
