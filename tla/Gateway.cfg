\* Three requests of IPv4 and IPv6 hosts at once, small rates and bursts.
SPECIFICATION Spec
CONSTANTS
  Requests = {r1, r2, r3}
  Hosts <- MCHosts
  Ports = {p1, p2}
  ObjectIDs = {"o1"}
  EnvRates <- MCRates
  EnvBursts <- MCBursts
  DefaultRate = 1
  DefaultBurst = 3
  ObjectRate = 1
  ObjectBurst = 1
  MaxTime = 1
CHECK_DEADLOCK FALSE
SYMMETRY Symmetry
INVARIANTS
  TypeOK
  IPBudget
  ObjectBudget
PROPERTY
  LimitedByOwnHost
