SPECIFICATION FairSpec
CONSTANTS
  s1 = s1
  s2 = s2
  s3 = s3
  ana = ana
  ben = ben
  home = home
  office = office
  None = None
  Streams = {s1, s2, s3}
  UserOf <- MCUserOf
  IpOf <- MCIpOf
  UserLimit = 1
  IpLimit = 1
  Ttl = 3
  Margin = 1
  Wait = 1
  MaxTime = 4
INVARIANTS BeatingStreamsWithinLimit
PROPERTIES OrphansReclaimed
CHECK_DEADLOCK FALSE
