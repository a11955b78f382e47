--------------------------- MODULE MCAgentCommands ---------------------------
(***************************************************************************)
(* AgentCommands for TLC: the workers of each kind are interchangeable.    *)
(***************************************************************************)
EXTENDS AgentCommands, TLC

Symmetry == Permutations(Handlers) \cup Permutations(Admins) \cup Permutations(Streams)

=============================================================================
