--------------------------- MODULE MCIncidentFusion ---------------------------
(* Instances of IncidentFusion for TLC: two matches of different severity, *)
(* fused in either order; where m2 is not a job it is a geofence breach.   *)
EXTENDS IncidentFusion

CONSTANTS m1, m2, o1, o2

MCSeverityOf == [ m \in Matches |-> IF m = m1 THEN 2 ELSE 3 ]
=============================================================================
