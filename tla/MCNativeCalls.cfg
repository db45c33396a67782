SPECIFICATION Spec
CONSTANTS
  Byte = 16
  Numbers <- MCNumbers
  Hosts <- MCHosts
  Ports <- MCPorts
  HostLists <- MCHostLists
INVARIANTS
  NeverAborts
  WithinCapacity
  AddressesReadBack
  ReceivedAsSent
