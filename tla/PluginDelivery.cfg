\* A file written three times, three processes, two restarts of the host.
CONSTANTS
  Names = {1, 2, 3}
  Processes = {1, 2, 3}
  MaxVersion = 3
  Setups <- MCSetups
SPECIFICATION FairSpec
INVARIANTS TypeOK RulesKeepTheirName NothingOldKeepsRunning
PROPERTIES LastChangeArrives
CHECK_DEADLOCK FALSE
