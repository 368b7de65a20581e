CONSTANTS
  n1 = n1  n2 = n2  a = a  b = b  old = old  new = new  u1 = u1
  NoUID = NoUID  NoObject = NoObject  NoCall = NoCall  NoOutcome = NoOutcome
  Requests = {r1, r2, r3}
  Names = {n1}
  Namespaces = {a, b}
  Bodies = {old, new}
  UIDs = {u1}
  Calls <- StaleCalls
SPECIFICATION FairSpec
CHECK_DEADLOCK FALSE
PROPERTY StalePutRefused
