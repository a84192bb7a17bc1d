\* Two sessions over two domains, visits on both ports, failing writes, one end of
\* the process at any step.
SPECIFICATION Spec
CONSTANTS
  Domain = {"x.com", "reddit.com"}
  None = None
  WritesMayFail = TRUE
  MaxCerts = 6
  MaxVisits = 1
  MaxSessions = 2
  MaxStops = 1
INVARIANTS TypeOK  
\* The bounds end the sessions and the starts.
CHECK_DEADLOCK FALSE
