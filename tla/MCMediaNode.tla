------------------------------ MODULE MCMediaNode ------------------------------
(* Two clients, one of them perhaps with a node of its own, report once each.  *)
EXTENDS MediaNodeProperties

CONSTANTS a, b

MCRoundTrips == {0, 1}
MCServers == {none, a}
===============================================================================
