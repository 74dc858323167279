\* Three ends of the process, one misread.
SPECIFICATION FairSpec
CONSTANTS
  Rows = {r1}
  Clients = {c1}
  MaxStops = 3
  MaxMisreads = 1
INVARIANTS PinHolds
PROPERTIES ComesUp
