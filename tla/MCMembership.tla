---------------------------- MODULE MCMembership ----------------------------
(* Small instances of Membership for TLC. *)
EXTENDS Membership

CONSTANTS a, b

\* The rendezvous order of the nodes for the file
MCRank == [n \in Nodes |-> IF n = a THEN 0 ELSE 1]
=============================================================================
