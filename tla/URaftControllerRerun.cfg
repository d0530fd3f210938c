SPECIFICATION Spec
CONSTANTS
  Node = {n1, n2}
  FaultSets = {{"rerun"}}
PROPERTY AlwaysServes
