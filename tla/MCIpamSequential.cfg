CONSTANTS
  Proc = {p1}
  Addr <- MCAddr
  ServerIP <- MCServerIP
  TcOn = TRUE
  HandleSpace <- MCHandleSpace
  DefaultClass <- MCDefaultClass
  FilterHandle <- MCFilterHandle
  DefaultPol = "AllowAll"
  MaxRules = 4
  FaultSets <- HealthyOrNoClassDelFault
  Access = {"Default", "InternetOnly", "AllowAll"}
  Rate = {0, 1}
SPECIFICATION Spec
INVARIANTS
  PromisesInForce
  TablesExact
