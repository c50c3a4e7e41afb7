CONSTANTS
  Keys = {1, 2, 3}
  Domains = {1, 2}
  Policies = {1, 2, 3}
  DomainOf <- MCDomainOf
  PolicyOf <- MCPolicyOf
  Rankings <- MCRankings
  Rates <- MCRates
  MinReturn = 1
  Delayable = {1}
  Closable = {1}
  None = None
SPECIFICATION FairSpec
INVARIANTS Indexed
PROPERTIES Served
