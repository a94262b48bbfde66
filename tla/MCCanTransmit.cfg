\* Either chip.  Seven writes overflow the buffer, of three, and leave time for a
\* second flush; one reset.
SPECIFICATION Spec
CONSTANTS
  OutSize = 5
  FlushLimit = 3
  Chip = {"sja1000", "i82527"}
  MaxWrites = 7
  MaxResets = 1
INVARIANTS BusInOrder NothingLost
PROPERTY StallEnds
\* The writes are bounded.
CHECK_DEADLOCK FALSE
