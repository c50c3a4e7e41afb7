CONSTANTS
  b1 = b1
  b2 = b2
  b3 = b3
  c2 = c2
  None = None
  Blocks = {b1, b2, b3, c2}
  Height <- MCHeight
  Parent <- MCParent
  Genesis <- MCGenesis
  Window = 2
  PageSize = 1
  MaxPasses = 2
  MaxRestarts = 2
  MaxEvents = 2
SPECIFICATION FairSpec
INVARIANTS TypeOK Coherent CaughtUp ReplacedCancelled
PROPERTIES PublishedWhole AgedGoesOn Converges
