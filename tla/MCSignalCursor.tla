---------------------------- MODULE MCSignalCursor ----------------------------
(* Instances of SignalCursor for TLC.                                      *)
EXTENDS SignalCursor, TLC

CONSTANTS t1, t2

(* Rows 1 and 4 are two attempts to store the same observation.            *)
MCObservation == [ s \in Signals |-> IF s = 4 THEN 1 ELSE s ]

TickSymmetry == Permutations(Ticks)
=============================================================================
