-------------------------- MODULE MCChunkRegistry --------------------------
EXTENDS ChunkRegistry, TLC

\* For the safety properties, the end of operations, and damaged parts.
SafetyFaultSets == {{"straggler", "error"}}
OperationFaultSets == {{"straggler", "error"}, {"damage", "error"}, {"early", "error", "torn"}}
DamageFaultSets == {{"damage"}}

\* The servers are alike.
ServerSymmetry == Permutations(Server)
=============================================================================
