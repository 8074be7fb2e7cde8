CONSTANTS
  Subs <- MCSubs
  Topic <- MCTopic
  Sends <- MCSends
  Inbound <- MCInbound
  Timers = {"timeout"}
  MaxStops = 1
SPECIFICATION HSpec
CHECK_DEADLOCK FALSE
INVARIANTS
    SuccessExact

    
