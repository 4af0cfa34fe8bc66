-------------------------- MODULE MCStreamAdmission --------------------------
(* Two requests of one user, and two from one address: with limits of one, *)
(* s1 and s2 meet at the user's limit, s2 and s3 at the address's.         *)
EXTENDS StreamAdmission

CONSTANTS s1, s2, s3, ana, ben, home, office

MCUserOf == [ s \in Streams |-> IF s = s3 THEN ben ELSE ana ]
MCIpOf == [ s \in Streams |-> IF s = s1 THEN home ELSE office ]
=============================================================================
