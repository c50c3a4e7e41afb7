\* Three bounties contend for two places in the queue and one submission slot.
CONSTANTS
  k1 = k1  k2 = k2  k3 = k3  d1 = d1  t1 = t1  t2 = t2  t3 = t3
  Keys = {k1, k2, k3}
  Domains = {d1}
  DomainOf <- OneDomain
  TaskIds = {t1, t2, t3}
  Concurrency = 1
  MaxSubmitting = 1
  MaxPreparing = 1
  MaxResolving = 1
  MaxProposals = 3
  MaxQueue = 2
  Calls = {"reset", "budget", "retire", "suspend", "clear"}
SPECIFICATION Spec
SYMMETRY Interchangeable
INVARIANT WinnersKeepProofs
PROPERTIES ProofsKeepPlaces ProofsSurvive
