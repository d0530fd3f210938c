SPECIFICATION Spec
CONSTANTS
  Node = {n1, n2}
  FaultSets = {{"script"}}
PROPERTY SlaveModeDone
