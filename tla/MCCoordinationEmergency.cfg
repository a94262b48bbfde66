\* One follower that splits.
SPECIFICATION Spec
CONSTANTS
  Vehicle = {2}
  Task = {3}
  CRUISE_T = 3
  SPLIT_T = 3
  JOIN_T = 4
  t_wait = 4
  Fault = {0, 2, 3}
PROPERTY EmergencySplitIsDone
