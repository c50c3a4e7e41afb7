\* A bounty is removed while its domain is being resolved; another one of the
\* domain, out of budget, stays queued.
CONSTANTS
  k1 = k1  k2 = k2  k3 = k3  d1 = d1  t1 = t1  t2 = t2  t3 = t3
  Keys = {k1, k2}
  Domains = {d1}
  DomainOf <- OneDomain
  TaskIds = {t1, t2}
  Concurrency = 1
  MaxSubmitting = 1
  MaxPreparing = 1
  MaxResolving = 1
  MaxProposals = 2
  MaxQueue = 2
  Calls = {"remove", "budget"}
SPECIFICATION FairSpec
PROPERTY GatesReopen
