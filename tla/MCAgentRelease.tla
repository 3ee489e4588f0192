--------------------------- MODULE MCAgentRelease ---------------------------
(* Small instances of AgentRelease for TLC. *)
EXTENDS AgentRelease

\* The first run builds the version the server is bundled with; a later one and
\* the MSI put there by hand are of the next.
Numbered == [a \in Whole |-> IF a = 1 THEN 1 ELSE 2]
=============================================================================
