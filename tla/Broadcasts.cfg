CONSTANTS
  c1 = c1
  p1 = p1
  s1 = s1
  k1 = k1
  k2 = k2
  n1 = n1
  n2 = n2
  None = None
  Requests = {c1, p1, s1}
  Method <- MCMethod
  Claims = {c1}
  Payments = {p1}
  Keys = {k1, k2}
  Target <- MCTarget
  Sockets = {n1, n2}
  MaxQueued = 2
  MaxPending = 1
SPECIFICATION FairSpec
INVARIANTS TypeOK NoneStranded OneConnection
PROPERTIES OnceSpec Settles
