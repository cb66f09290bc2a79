SPECIFICATION AnsweringSpec
CONSTANTS
  s1 = s1
  s2 = s2
  s3 = s3
  u = u
  Nobody = Nobody
  Servers <- MCThree
  Users <- MCNone
  NilReply = FALSE
  Bounded = TRUE
PROPERTY Returns
CHECK_DEADLOCK FALSE
