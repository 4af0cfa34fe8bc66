----------------------------- MODULE MCRuleFiring -----------------------------
(* Instances of RuleFiring for TLC: signal s1 matches one rule at two      *)
(* sites, and s2 follows it.                                               *)
EXTENDS RuleFiring

CONSTANTS rule, s1, s2, siteA, siteB, j1, j2, j3

MCRuleOf == [ j \in Jobs |-> rule ]
MCSignalOf == [ j \in Jobs |-> IF j = j3 THEN s2 ELSE s1 ]
MCSiteOf == [ j \in Jobs |-> IF j = j2 THEN siteB ELSE siteA ]
MCCooldown == [ x \in Rules |-> 2 ]
=============================================================================
