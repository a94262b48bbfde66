\* Every truck and task, and any speed, fault or refusal in any cycle.
SPECIFICATION Spec
CONSTANTS
  Vehicle = {1, 2, 3}
  Task = {3, 4, 5, 6, 7, 8}
  CRUISE_T = 3
  SPLIT_T = 2
  JOIN_T = 2
  t_wait = 4
  Fault = {0, 2, 3}
INVARIANTS TypeOK EndsAtTaskDistance
PROPERTIES DistanceIsSmooth StopIsFinal
