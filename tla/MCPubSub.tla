------------------------------- MODULE MCPubSub -------------------------------
(* Instances of PubSub for TLC: two publishers that overlap, two clients.  *)
EXTENDS PubSub

CONSTANTS p1, p2, s1, s2
===============================================================================
