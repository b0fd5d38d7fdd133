SPECIFICATION Spec
CONSTANTS
  Types = {breakpoint, software, badaccess, newer}
  NewTypes = {newer}
  OldOS = TRUE
  Ignored = {badaccess}
  Pids = {p1}
  NoPid = nopid
  NoPort = null
  SystemPort = system
  OwnPort = own
  MaxPorts = 2
  Failures = {5}
  Careless = FALSE
INVARIANTS
  TypeOK
  PortsRestored
  SessionRouted
  RoutedRecoverable
  SuccessTookNothing
