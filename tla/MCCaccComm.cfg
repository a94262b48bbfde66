SPECIFICATION Spec
CONSTANTS
  me = 2
  K = 5
  MaxAir = 2
  COMM_ERR_BOUND = 2
  Remainder = 1
INVARIANT TrustEnds
PROPERTIES DeadLeaderFound FaultEnds FollowsBrakes
