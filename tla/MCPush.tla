------------------------------- MODULE MCPush -------------------------------
(* Push for TLC: clients, names and contents are interchangeable. *)
EXTENDS Push, TLC

Symmetries == Permutations(Client) \cup Permutations(Name) \cup Permutations(Data)
=============================================================================
