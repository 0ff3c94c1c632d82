SPECIFICATION Spec
CONSTANTS
  Unit = {g1}
  NIter = 3
  Power = {1, 3}
  P0 <- MCP0
  Phi = 1
  Load <- MCLoad
  Supply <- MCSupply
  SoftLimit = 0
  KRho = 2
  KE = 3
  Y0 = 0
  Rho0 = 5
  E0 = 7
INVARIANTS TypeOK NoticesTellStatus StatusIsCurrent RhoMatchesEnergy
CHECK_DEADLOCK FALSE
