----------------------------- MODULE MCRegistry -----------------------------
(* Registry for TLC: a bridge, one that gets its pid when it has gone, and a  *)
(* sender, all of one name; two accounts, the first of them unreliable.       *)
EXTENDS Registry

CONSTANTS a, b, x

MCPid    == [i \in Bridges |-> 1]
MCName   == [i \in Bridges |-> "codex-app"]
MCRef    == [i \in Bridges |-> "a1b2c3"]
MCWanted == [i \in Senders |-> "codex-app"]
=============================================================================
