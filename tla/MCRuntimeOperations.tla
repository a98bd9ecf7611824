----------------------- MODULE MCRuntimeOperations -----------------------
(* Small runtimes for TLC. *)
EXTENDS RuntimeOperations

LastIsCritical ==
  [o \in Operations |-> IF o = 3 THEN "CRITICAL" ELSE "NORMAL"]
LaterAreCritical ==
  [o \in Operations |-> IF o = 1 THEN "NORMAL" ELSE "CRITICAL"]

\* SAFE_ONLY and ALWAYS: a request for every protected operation.
AlwaysAsked == [o \in Protected |-> {"REQUIRES_APPROVAL"}]

\* A CUSTOM policy, which may let the last operation run without a request.
LastMayBeWaived ==
  [o \in Protected |-> IF o = 3 THEN {"APPROVED", "REQUIRES_APPROVAL"}
                       ELSE {"REQUIRES_APPROVAL"}]
=============================================================================
