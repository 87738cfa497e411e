---------------------------- MODULE MCDiscovery ----------------------------
(* TLC's instance of Discovery *)
EXTENDS Discovery

MCScans == 1..2
MCAddresses == 1..2
=============================================================================
