\* One crash or early LAST_STEP, one RESET, two runs; kovan is mainnet with
\* one more operation, hardhat the case of a deployer that is the multisig.
SPECIFICATION DeploySpec
CONSTANTS
  Nets = {"kovan", "avalanche", "hardhat"}
  LastSteps = {12, 20}
  MaxRuns = 2
  MaxInterruptions = 1
  MaxResets = 1
INVARIANTS
  StepsDoneWhileGoverning
PROPERTIES
  StuckUntilReset
  EveryRunSettles
  FirstRunGoesAllTheWay
CHECK_DEADLOCK FALSE
