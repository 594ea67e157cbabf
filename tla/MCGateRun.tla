------------------------------ MODULE MCGateRun ------------------------------
EXTENDS GateRun, TLC

CONSTANTS a1, a2

=============================================================================
