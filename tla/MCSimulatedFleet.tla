-------------------------- MODULE MCSimulatedFleet --------------------------
EXTENDS SimulatedFleet
=============================================================================
