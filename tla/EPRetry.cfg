SPECIFICATION Spec
CONSTANTS
  Types = {breakpoint, software, badaccess, newer}
  NewTypes = {newer}
  OldOS = FALSE
  Ignored = {badaccess}
  Pids = {p1}
  NoPid = nopid
  NoPort = null
  SystemPort = system
  OwnPort = own
  MaxPorts = 2
  Failures = {5}
  Careless = TRUE
INVARIANT
  SavedOriginal
