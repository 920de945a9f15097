---------------------------- MODULE MCFifoSched ----------------------------
EXTENDS FifoSched, TLC

CONSTANTS a, b, c, k

MCTasks == {a, b, c, k}
MCPinned == {k}
MCAllPinned == MCTasks

=============================================================================
