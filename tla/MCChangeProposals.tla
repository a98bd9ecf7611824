------------------------- MODULE MCChangeProposals -------------------------
(* Small workspaces for TLC. *)
EXTENDS ChangeProposals, TLC

\* The first proposal changes both files, the second only one of them.
TwoAndOne == [p \in Proposals |-> IF p = 1 THEN Files ELSE {1}]

\* Approvals are required; with checkpoints and without.
Careful == [checkpoint : {"off", "taken"}, asks : {TRUE}]

\* The default as well, and hosts that ask for no approval.
Hosts == [checkpoint : {"off", "unavailable", "taken"}, asks : BOOLEAN]

CallsAreAlike == Permutations(Calls)
=============================================================================
