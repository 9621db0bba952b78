---------------------------- MODULE MCCustomPair ----------------------------
(* A small instance of CustomPair: fewer bonds and a shorter sector.       *)
EXTENDS CustomPair, TLC

CONSTANTS d1, d2, d3

MCDevice == {d1, d2, d3}
DeviceSymmetry == Permutations(MCDevice)
=============================================================================
