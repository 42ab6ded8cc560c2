------------------------------- MODULE MCView -------------------------------
(* The bodies of MCDiscovery for tables that are read by a call of          *)
(* responsible_publication_view while they change.                          *)
EXTENDS MCDiscovery, View
=============================================================================
