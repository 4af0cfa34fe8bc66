---------------------------- MODULE MCMapEngine ----------------------------
EXTENDS MapEngine
MCWatched  == { "sites", "assets", "trails", "signals", "pulses" }
MCSwitched == { "show signals", "show heatmap", "show pulses" }
MCStyles   == { "tactical", "satellite" }
=============================================================================
