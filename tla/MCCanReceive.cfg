\* Two readers that may open, close and open again; a chip that holds two
\* frames and a buffer that holds two.
SPECIFICATION RxSpec
CONSTANTS
  Reader = {r1, r2}
  NoReader = none
  Id = {0, 1}
  ZeroId = {0}
  InSize = 2
  ChipSize = 2
  PerMessage = TRUE
  MaxFrames = 4
  MaxOpens = 2
  MaxBusOff = 1
INVARIANTS RxTypeOK PulseForEachMessage
PROPERTY Drains
\* The frames and the opens are bounded.
CHECK_DEADLOCK FALSE
