-------------------------- MODULE MCModelRequests --------------------------
(* A small gateway for TLC. *)
EXTENDS ModelRequests

\* Only the second request is of source code.  A remote model, which comes first
\* and does not accept it, until it is told to, and two local ones, which may
\* be told not to.
Remote == 1
SecondIsSource == [r \in Requests |-> IF r = 2 THEN "source" ELSE "plain"]
RemoteIsPlain == [m \in Models |-> IF m = Remote THEN {"plain"} ELSE {"plain", "source"}]
WithOrWithoutSource == {{"plain"}, {"plain", "source"}}
=============================================================================
