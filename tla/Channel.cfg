CONSTANTS
  Subs <- MCSubs
  Topic <- MCTopic
  Sends <- MCSends
  Inbound <- MCInbound
  Timers = {"timeout", "heartbeat"}
  MaxStops = 2
SPECIFICATION Spec
CHECK_DEADLOCK FALSE
INVARIANTS
    ChannelConsistent
    HeardRight
PROPERTIES
    Told
    Released
