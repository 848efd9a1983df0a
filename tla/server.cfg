SPECIFICATION FairSpec
CONSTANTS
  h1 = h1  j1 = j1  j2 = j2  b1 = b1
  Handlers = {h1}
  Jobs = {j1, j2}
  Recovered = {j2}
  Strays = {b1}
INVARIANTS ServerTypeOK OrderlyEnd
PROPERTIES SignalEndsProcess ListenErrorReported
CHECK_DEADLOCK FALSE
