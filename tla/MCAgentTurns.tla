---------------------------- MODULE MCAgentTurns ----------------------------
(* Small conversations over a gateway with one model, for TLC. *)
EXTENDS AgentTurns, TLC

OneKind == [r \in Requests |-> "chat"]
AllAccept == [m \in Models |-> {"chat"}]
OneSetting == {{"chat"}}

\* Turns differ in name only.
TurnsAreAlike == Permutations(Turns)
=============================================================================
