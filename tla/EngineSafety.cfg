\* Two bounties of a domain, two captures at a time, room for one proposal.
CONSTANTS
  k1 = k1  k2 = k2  k3 = k3  d1 = d1  t1 = t1  t2 = t2  t3 = t3
  Keys = {k1, k2}
  Domains = {d1}
  DomainOf <- OneDomain
  TaskIds = {t1, t2, t3}
  Concurrency = 2
  MaxSubmitting = 2
  MaxPreparing = 1
  MaxResolving = 1
  MaxProposals = 1
  MaxQueue = 2
  Calls = {"stop", "remove", "retire", "reset", "catalog", "budget", "expiry"}
SPECIFICATION Spec
SYMMETRY Interchangeable
INVARIANTS
  TypeOK WithinLimits OneStartAwaited NoStaleWork OneJobPerKey OneSubmission ProofsKeepProposals
PROPERTY UnknownOutcomeStops
