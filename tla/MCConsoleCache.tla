--------------------------- MODULE MCConsoleCache ---------------------------
(* Two pages, a query of each, two replay positions.                       *)
EXTENDS ConsoleCache
MCPages   == { "incidents", "planning" }
MCWatched == { "incidents" }
MCOps     == { "initiateProsecution" }
=============================================================================
