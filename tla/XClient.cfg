SPECIFICATION FairSpec
CONSTANTS
  s1 = s1
  s2 = s2
  s3 = s3
  u = u
  Nobody = Nobody
  Servers <- MCTwo
  Users <- MCUser
  NilReply = FALSE
  Bounded = TRUE
INVARIANTS NoConnectionLost FailureReported ErrorIsCause
PROPERTY FailFast
CHECK_DEADLOCK FALSE
