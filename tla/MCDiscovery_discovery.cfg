SPECIFICATION FairSpec
CONSTANTS
  Settings <- MCSettings
  MaxFiles = 3
  MaxDepth = 2
  MaxControls = 2
  MaxNetwork = 4
\* A discovery ends.
CHECK_DEADLOCK FALSE
INVARIANT TypeOK
INVARIANT RoutesAsServed
INVARIANT LinkedPagesAreSeen
INVARIANT ObservedWasRead
INVARIANT EvidenceKept
INVARIANT ResourcesAreWhole
PROPERTY AttributedWhileActive
PROPERTY DiscoveryEnds
