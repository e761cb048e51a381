SPECIFICATION Spec
CONSTANTS
  Tx = {1, 2, 3}
  Deploys = {1, 2}
  Proxies = {2}
  To <- MCTo
  Traces <- MCTraces
  Modes = {"exact", "constant"}
  Adoptable <- AdoptableAddresses
  MaxAdopts = 2
INVARIANTS
  OneToOne
  
  ControllerMapped
  WholeOrNothing
  OnlyAdoptionConflicts
PROPERTIES
  MappingsPermanent
CHECK_DEADLOCK FALSE
