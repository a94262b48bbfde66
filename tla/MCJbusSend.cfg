\* One round of four loops between brake warnings.
SPECIFICATION Spec
CONSTANTS
  MAX_LOOP_NUMBER = 4
  MaxLost = 2
  Ctrl <- MCCtrl
  Masks <- MCMasks
INVARIANTS HandOverReleases ExitReleasesAllButOne
PROPERTIES ReleaseReaches BrakeCommandReaches LossOfControlReleases
\* A signal ends the process.
CHECK_DEADLOCK FALSE
