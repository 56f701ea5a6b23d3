SPECIFICATION Spec
CONSTANTS
  c1 = c1
  c2 = c2
  ns = ns
  k = k
  Client = {c1, c2}
  Namespace = {ns}
  Key = {k}
  Ttl = {1}
  MaxTime = 3
CHECK_DEADLOCK FALSE
PROPERTY OnlyExpiredDropped
