CONSTANTS
  MaxPort = 3
  ByteBits = 2
  Configs <- MCConfigs
  FaultSets = {{}, {"flush"}}
SPECIFICATION FirewallSpec
CHECK_DEADLOCK FALSE
INVARIANTS
  PortsExact
  SubnetIsolated
