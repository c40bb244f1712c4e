SPECIFICATION FairSpec
INVARIANT Consistent
 
PROPERTY SessionsEnd
 
CONSTANTS
  Users = {guest}
  Owner = owner
  NoUser = NoUser
  Handlers = {h1, h2}
  Reqs = {r1}
  Configs <- MCConfigs
  MaxSessions = 2
CHECK_DEADLOCK FALSE
