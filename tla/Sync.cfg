CONSTANTS
    Nodes <- MCNodes
    PeerChain <- MCPeerChain
    Work <- MCWork
    InvLimit <- MCInvLimit
    Sessions <- MCSessions
    Dense = 2
    Announcers = {"q"}
SPECIFICATION Spec
CHECK_DEADLOCK FALSE

    
    
PROPERTIES
    Settles
