CONSTANTS
  Proc = {p1, p2}
  Addr <- MCAddr
  ServerIP <- MCServerIP
  TcOn = TRUE
  HandleSpace <- MCHandleSpace
  DefaultClass <- MCDefaultClass
  FilterHandle <- MCFilterHandle
  DefaultPol = "AllowAll"
  MaxRules = 3
  FaultSets <- EveryTcFault
  Access = {"InternetOnly"}
  Rate = {1}
SYMMETRY MCSymmetry
SPECIFICATION Spec
INVARIANTS
  AddressAccounting
  FiltersHaveOwnClass
