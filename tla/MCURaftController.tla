------------------------- MODULE MCURaftController -------------------------
(* The controllers of a small cluster, without faults and with every       *)
(* fault.  Not symmetric in Node, because liveness is checked.             *)
EXTENDS URaftController

MCFaultSets == {{}, FaultKind}

=============================================================================
