--------------------------- MODULE MCConsoleViews ---------------------------
EXTENDS ConsoleViews, FiniteSets

(* Layers that are drawn in one another's order, or touch in one effect.   *)
MCWatched ==
  { { "site", "asset", "geofence" }, { "site", "breach", "halo" },
    { "signal", "heatmap", "site" }, { "coverage", "asset" },
    { "chokepoint", "track" }, { "trail", "pulse" }, { "ao", "site" } }

(* Hundredths at which conversion and rounding bite.                       *)
MCLengths == { 10, 27, 750, 998, 1005, 1250, 5005, 10000 }

MCCandidates == { "dashboard", "planning", "signout", "site", "task", "asset" }

(* A query that matches everything alike, entities before commands, two of *)
(* each kind, nothing, and a commander's command before a site.            *)
Matching(levels) ==
  [ c \in MCCandidates |-> IF c \in DOMAIN levels THEN levels[c] ELSE 0 ]
MCQueries ==
  { Matching([ c \in MCCandidates |-> 1 ]),
    Matching([ dashboard |-> 1, signout |-> 1, site |-> 3, task |-> 1, asset |-> 3 ]),
    Matching([ signout |-> 2, task |-> 2 ]),
    Matching([ c \in {} |-> 0 ]),
    Matching([ planning |-> 3, site |-> 1 ]) }
=============================================================================
