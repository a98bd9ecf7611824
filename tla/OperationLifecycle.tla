------------------------- MODULE OperationLifecycle -------------------------
(***************************************************************************)
(* What the runtime promises about the state of each operation it is given *)
(* (STATE_TRANSITIONS.operation of src/src/levi-application-runtime.js):   *)
(* it is created once, moves along the table, and once it has ended its    *)
(* state never changes.  STARTING and CANCELLING are passed through within *)
(* one synchronous block, so a move is one or two edges of the table.      *)
(***************************************************************************)
CONSTANT Operations
VARIABLE state

Transitions ==
  [QUEUED |-> {"STARTING", "CANCELLING", "CANCELLED", "FAILED", "TIMED_OUT"},
   STARTING |-> {"RUNNING", "CANCELLING", "FAILED", "TIMED_OUT"},
   RUNNING |-> {"WAITING", "WAITING_FOR_APPROVAL", "PAUSED", "CANCELLING",
                "SUCCEEDED", "PARTIALLY_SUCCEEDED", "FAILED", "TIMED_OUT"},
   WAITING |-> {"RUNNING", "CANCELLING", "FAILED", "TIMED_OUT"},
   WAITING_FOR_APPROVAL |-> {"RUNNING", "CANCELLING", "FAILED", "TIMED_OUT"},
   PAUSED |-> {"RUNNING", "CANCELLING", "FAILED", "TIMED_OUT"},
   CANCELLING |-> {"CANCELLED", "FAILED"},
   CANCELLED |-> {}, SUCCEEDED |-> {}, PARTIALLY_SUCCEEDED |-> {},
   FAILED |-> {}, TIMED_OUT |-> {}]

States == DOMAIN Transitions

\* isTerminalOperation
Terminal ==
  {"CANCELLED", "SUCCEEDED", "PARTIALLY_SUCCEEDED", "FAILED", "TIMED_OUT"}

InFlight == States \ Terminal

\* Moves(from, to): from one state to the other in one synchronous block.
Moves(from, to) ==
  \/ to \in Transitions[from]
  \/ \E by \in {"STARTING", "CANCELLING"} :
       by \in Transitions[from] /\ to \in Transitions[by]

Init == state = [o \in Operations |-> "NONE"]

\* Several operations may move at once: a cancellation reaches the children,
\* an operation that ends makes room for queued ones.
Next ==
  /\ state' \in [Operations -> States \union {"NONE"}]
  /\ \A o \in Operations :
       \/ state'[o] = state[o]
       \/ state[o] = "NONE" /\ state'[o] \in {"QUEUED", "RUNNING"}
       \/ state[o] \in InFlight /\ Moves(state[o], state'[o])

Spec == Init /\ [][Next]_state
=============================================================================
