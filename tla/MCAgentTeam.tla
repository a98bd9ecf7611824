---------------------------- MODULE MCAgentTeam ----------------------------
(* A small team for TLC. *)
EXTENDS AgentTeam

\* A plan and an implementation, and a review of the latter that goes first once
\* it is ready.
ReviewFollows == [a \in Assignments |-> IF a = "review" THEN {"implement"} ELSE {}]
ReviewFirst == [a \in Assignments |->
  CASE a = "review" -> 1 [] a = "plan" -> 2 [] a = "implement" -> 3]
=============================================================================
