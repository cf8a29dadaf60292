SPECIFICATION RFairSpec
CONSTANTS
  a = a
  b = b
  p = p
  Node = {a, b}
  Publisher = {p}
  Bootstrap <- MCBootstrap
  Home <- MCHome
  Configured = {}
  MaxStarts = 1
  Attempts = 3
INVARIANTS ForwardedToOwner 
PROPERTIES  DiscoveredIsRoutable
CHECK_DEADLOCK FALSE
