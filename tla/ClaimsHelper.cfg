CONSTANTS
  a1 = a1
  a2 = a2
  a3 = a3
  r1 = r1
  r2 = r2
  b1 = b1
  d1 = d1
  None = None
  Attempts = {a1, a2, a3}
  Resolves = {r1, r2}
  Bounties = {b1}
  Bounty <- MCBounty
  Domains = {d1}
  Domain <- MCDomain
  Concurrency = 2
  DnsLimit = 1
  MaxJobs = 5
  MaxRequests = 2
  Enough = 1
  MaxCount = 4
  MaxPipe = 2
SPECIFICATION Spec
INVARIANTS TypeOK BooksKept FramesFit Carried CapturesInOrder BudgetKept
SYMMETRY MCSymmetry
