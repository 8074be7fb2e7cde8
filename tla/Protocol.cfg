CONSTANTS
  a1 = a1
  a2 = a2
  Addresses = {a1, a2}
  Seeds = {s1, s2}
  MaxOutbound = 2
  Capacity = 1
  Files <- MCFiles
  Packets <- MCPackets
  MaxNodes <- MCMaxNodes
  MaxRetries <- MCMaxRetries
SPECIFICATION Spec
CHECK_DEADLOCK FALSE
INVARIANTS
    ProtocolConsistent
    StartTold
    KeepsTrying

    
