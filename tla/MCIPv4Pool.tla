---------------------------- MODULE MCIPv4Pool ----------------------------
(* Four usable addresses; callers also name two outside the subnet.        *)
EXTENDS IPv4Pool

CONSTANTS p1, p2

MCProc == {p1, p2}
MCInput == {9, 10, 12, 14}
=============================================================================
