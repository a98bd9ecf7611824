---------------------------- MODULE AgentTurns ----------------------------
(***************************************************************************)
(* The conversations, turns and tool calls of                              *)
(* src/src/agent-orchestration-engine.js, over the model requests of the   *)
(* gateway: turns executed up to each of their awaits, their time-out,     *)
(* cancelling, pausing, resuming and retrying them, the tool calls they    *)
(* make and propose, saving, the restart of initialize, which loads what   *)
(* was saved, and recover, which no code of the repository calls.          *)
(*                                                                         *)
(* A turn makes at most one call of a deterministic tool, which is         *)
(* read-only, <<t, "safe">>, and takes at most one call from the answer    *)
(* of the model, of a protected tool, <<t, "proposed">>.  All safe calls   *)
(* have one signature (the same question), all proposed ones another.      *)
(* Tools are registered and their arguments complete; the mode allows      *)
(* protected tools.  The warnings and limitations of a turn are one flag.  *)
(* runtime.executeCommand and the listeners are external.                  *)
(***************************************************************************)
EXTENDS ModelRequests, Sequences

CONSTANTS
  Turns,          \* requests that are made by a turn, of the same name
  Conversations,  \* the conversations
  NoTurn,         \* no turn
  MaxTurns,       \* configuration.maximumTurns
  MaxToolCalls,   \* configuration.maximumTotalToolCalls
  Orders          \* the commands a behaviour may give to the engine

ASSUME TurnsAssumption ==
  /\ Turns \subseteq Requests /\ IsFiniteSet(Turns) /\ NoTurn \notin Turns
  /\ Conversations # {}
  /\ MaxTurns \in Nat \ {0} /\ MaxToolCalls \in Nat \ {0}
  /\ Orders \subseteq {"pause", "resume", "mark", "cancelTurn", "cancel", "retry",
                       "call", "cancelCall", "shutdown", "restart", "recover",
                       "model"}

VARIABLES
  conversation,  \* engine.conversations
  turn,          \* engine.turns, with where executeTurn is
  call,          \* engine.toolCalls, with the executions in flight
  asked,         \* the tool calls in the order they were added to engine.toolCalls
  saved          \* the snapshot in the file

vars == <<gatewayVars, commands, conversation, turn, call, asked, saved>>

ConversationEnds == {"CANCELLED", "COMPLETED", "FAILED"}

ConversationStates == {"CREATED", "ACTIVE", "PAUSED"} \union ConversationEnds

TurnEnds == {"SUCCEEDED", "PARTIALLY_SUCCEEDED", "CANCELLED", "FAILED", "TIMED_OUT"}

TurnStates ==
  {"NONE", "GATHERING_CONTEXT", "PROPOSING_TOOLS", "REQUESTING_MODEL", "VALIDATING"} \union TurnEnds

InProgress(r) == r.state \notin TurnEnds \union {"NONE"}

CallStates ==
  {"NONE", "PROPOSED", "INVALID", "WAITING_FOR_APPROVAL", "RUNNING", "REJECTED",
   "SUCCEEDED", "FAILED", "CANCELLED"}

\* What executeTurnInternal awaits: the context stands for the classification
\* before it and the plan after it, the validation for the repair after it.
Awaits == {"none", "context", "tools", "model", "validation"}

ToolCalls == Turns \X {"safe", "proposed"}

\* at: the await of its execution; told: what executeTurn answered; limited:
\* it has limitations or warnings; failed: turn.error; ran: it executed its
\* tool; waits: a proposed call of it waited for approval; invalid: its
\* validation failed; stopped: history, cancelTurn was called; orphan: history, it
\* was in progress in the snapshot that a restart loaded.
NewTurn(c) ==
  [state |-> "GATHERING_CONTEXT", of |-> c, at |-> "context", told |-> "nothing",
   limited |-> FALSE, failed |-> FALSE, ran |-> FALSE, waits |-> FALSE,
   invalid |-> FALSE, stopped |-> FALSE, orphan |-> FALSE]

\* protected: call.approvalRequired; flying: executions whose command has not
\* returned; permitted: history, a user approved it.
NewCall(state, protected) ==
  [state |-> state, protected |-> protected, flying |-> 0, permitted |-> FALSE]

NoCall == NewCall("NONE", FALSE)

Unknown(c) == [NewTurn(c) EXCEPT !.state = "NONE", !.at = "none"]

\* What is kept of a turn when nothing executes it.
Kept(r) ==
  [NewTurn(r.of) EXCEPT !.state = r.state, !.at = "none", !.stopped = r.stopped, !.told = r.told]

\* What the snapshot holds: of turns and calls nothing of their executions.
Summary ==
  [conversation |-> conversation,
   turn |-> [t \in Turns |->
               [Kept(turn[t]) EXCEPT
                  !.told = IF turn[t].state # "NONE" /\ @ # "failed" THEN "lost" ELSE @]],
   call |-> [k \in ToolCalls |-> [call[k] EXCEPT !.flying = 0]],
   asked |-> asked]

Nothing ==
  [conversation |-> [c \in Conversations |-> [state |-> "CREATED", turns |-> <<>>, active |-> NoTurn]],
   turn |-> [t \in Turns |-> Unknown(CHOOSE c \in Conversations : TRUE)],
   call |-> [k \in ToolCalls |-> NoCall],
   asked |-> <<>>]

TypeOK ==
  /\ GatewayTypeOK
  /\ conversation \in [Conversations ->
       [state : ConversationStates, turns : Seq(Turns), active : Turns \union {NoTurn}]]
  /\ turn \in [Turns ->
       [state : TurnStates, of : Conversations, at : Awaits,
        told : {"nothing", "done", "failed", "lost"}, limited : BOOLEAN, failed : BOOLEAN,
        ran : BOOLEAN, waits : BOOLEAN, invalid : BOOLEAN, stopped : BOOLEAN,
        orphan : BOOLEAN]]
  /\ call \in [ToolCalls ->
       [state : CallStates, protected : BOOLEAN, flying : Nat, permitted : BOOLEAN]]
  /\ asked \in Seq(ToolCalls)
  /\ saved.conversation \in [Conversations ->
       [state : ConversationStates, turns : Seq(Turns), active : Turns \union {NoTurn}]]

Init ==
  /\ GatewayInit
  /\ conversation = Nothing.conversation
  /\ turn = Nothing.turn
  /\ call = Nothing.call
  /\ asked = <<>>
  /\ saved = Nothing

Given(o) == o \in Orders /\ Command

-----------------------------------------------------------------------------
(* Turns: createTurn and executeTurn *)

Fresh(t) == turn[t].state = "NONE" /\ turn[t].told = "nothing" /\ request[t].state = "NONE"

\* createTurn and executeTurn up to the await of context.build: the conversation
\* has room, t is a turn of its own.
Begin(c, t, state) ==
  /\ Fresh(t)
  /\ Len(conversation[c].turns) < MaxTurns
  /\ turn' = [turn EXCEPT ![t] = NewTurn(c)]
  /\ conversation' = [conversation EXCEPT ![c] =
                        [state |-> state, turns |-> Append(@.turns, t), active |-> t]]
  /\ UNCHANGED <<gatewayVars, call, asked, saved>>

\* sendMessage, and startConversation with an objective.
SendMessage(c, t) ==
  /\ Command
  /\ conversation[c].state \notin ConversationEnds
  /\ Begin(c, t, "ACTIVE")

\* When there is no room for a turn, createTurn throws after the conversation
\* has been made active.  It cannot come twice in a row, and costs no command.
SendTooMany(c) ==
  /\ conversation[c].state \notin ConversationEnds \union {"ACTIVE"}
  /\ Len(conversation[c].turns) = MaxTurns
  /\ conversation' = [conversation EXCEPT ![c].state = "ACTIVE"]
  /\ UNCHANGED <<gatewayVars, commands, turn, call, asked, saved>>

\* retryTurn, whatever the state of the conversation, which stays as it is.
RetryTurn(t, u) ==
  /\ Given("retry")
  /\ turn[t].state \in TurnEnds \ {"SUCCEEDED"}
  /\ Begin(turn[t].of, u, conversation[turn[t].of].state)

\* The first call with the signature of k that still counts, in the order of
\* engine.toolCalls.
Duplicate(k, calls, order) ==
  LET twins == SelectSeq(order, LAMBDA j :
                 /\ j[2] = k[2]
                 /\ calls[j].state \in {"SUCCEEDED", "RUNNING", "PROPOSED", "WAITING_FOR_APPROVAL"})
  IN twins # <<>> /\ Head(twins) # k

CallsOf(c) == {k \in ToolCalls : turn[k[1]].of = c /\ call[k].state # "NONE"}

\* Mutant of Outcome: the limitations of the turn do not count.
OutcomeUnlimited(r) ==
  IF r.failed THEN "FAILED"
  ELSE IF r.waits \/ r.invalid THEN "PARTIALLY_SUCCEEDED" ELSE "SUCCEEDED"

\* Mutant of Outcome: the error of the turn does not count.
OutcomeErrorless(r) ==
  IF r.waits \/ r.invalid \/ r.limited THEN "PARTIALLY_SUCCEEDED" ELSE "SUCCEEDED"

\* terminalStateForTurn
Outcome(r) ==
  IF r.failed THEN "FAILED"
  ELSE IF r.waits \/ r.invalid \/ r.limited THEN "PARTIALLY_SUCCEEDED" ELSE "SUCCEEDED"

\* The end of executeTurnInternal, after what r says of turn t: the states of
\* the turn and of the conversation are set whatever they are by now.
Finish(t, r) ==
  LET state == Outcome(r)
  IN /\ turn' = [turn EXCEPT ![t] = [Kept(r) EXCEPT !.state = state,
                                                    !.told = IF @ = "nothing" THEN "done" ELSE @]]
     /\ conversation' = [conversation EXCEPT ![r.of].state =
                           IF state = "FAILED" THEN "FAILED" ELSE "COMPLETED"]
     /\ saved' = Summary'

\* validateTurn up to its await: there is nothing to validate when no tool ran.
Validate(t, r) ==
  IF r.ran
  THEN /\ turn' = [turn EXCEPT ![t] = [r EXCEPT !.state = "VALIDATING", !.at = "validation"]]
       /\ UNCHANGED <<conversation, saved>>
  ELSE Finish(t, r)

\* requestModel up to the await of the gateway, or skipped.
AskModel(t, r) ==
  \/ /\ turn' = [turn EXCEPT ![t] = [r EXCEPT !.state = "REQUESTING_MODEL", !.at = "model"]]
     /\ request' = [request EXCEPT ![t] = Executed(t, NoModel)]
     /\ UNCHANGED <<conversation, saved>>
  \/ /\ UNCHANGED request
     /\ Validate(t, [r EXCEPT !.limited = TRUE])

\* proposeDeterministicToolCalls and executeSafeToolCalls up to the await of
\* the command.  The bound counts the call itself.
MakeSafeCall(t, r) ==
  LET k == <<t, "safe">>
      made == [call EXCEPT ![k] = NewCall("PROPOSED", FALSE)]
      order == Append(asked, k)
      bounded == Cardinality(CallsOf(r.of)) + 1 >= MaxToolCalls
      begun == ~bounded /\ ~Duplicate(k, made, order)
  IN /\ asked' = order
     /\ call' = [made EXCEPT ![k] =
                   CASE bounded -> @
                     [] begun -> [@ EXCEPT !.state = "RUNNING", !.flying = 1]
                     [] OTHER -> [@ EXCEPT !.state = "INVALID"]]
     /\ IF begun
        THEN /\ turn' = [turn EXCEPT ![t] =
                           [r EXCEPT !.state = "PROPOSING_TOOLS", !.at = "tools", !.ran = TRUE]]
             /\ UNCHANGED <<request, conversation, saved>>
        ELSE AskModel(t, [r EXCEPT !.limited = @ \/ bounded])

\* The context is there, and the plan where one is called for; either may have
\* failed or been cut by bounds, which limits the turn.
ContextBuilt(t, limited) ==
  /\ turn[t].at = "context"
  /\ LET r == [turn[t] EXCEPT !.limited = @ \/ limited]
     IN \/ MakeSafeCall(t, r)
        \/ UNCHANGED <<call, asked>> /\ AskModel(t, r)
  /\ UNCHANGED <<registered, enabled, healthy, accepts, commands>>

\* executeSafeToolCalls is done.
ToolsDone(t) ==
  /\ turn[t].at = "tools"
  /\ call[<<t, "safe">>].flying = 0
  /\ UNCHANGED <<call, asked>>
  /\ AskModel(t, turn[t])
  /\ UNCHANGED <<registered, enabled, healthy, accepts, commands>>

\* proposeToolCall of a call the model answered with.
Proposed(t) ==
  LET k == <<t, "proposed">>
      made == [call EXCEPT ![k] = NewCall("PROPOSED", FALSE)]
  IN IF Duplicate(k, made, asked)
     THEN [made EXCEPT ![k].state = "INVALID"]
     ELSE [made EXCEPT ![k] = NewCall("WAITING_FOR_APPROVAL", TRUE)]

\* The gateway has answered: the turn takes the call of a tool from the answer
\* and validates what it executed.
ModelAnswered(t) ==
  /\ turn[t].at = "model" /\ request[t].at \in {"returned", "threw"}
  /\ \/ /\ request[t].at = "returned" /\ request[t].state = "SUCCEEDED"
        /\ call' = Proposed(t)
        /\ asked' = Append(asked, <<t, "proposed">>)
        /\ Validate(t, [turn[t] EXCEPT
                          !.waits = call'[<<t, "proposed">>].state = "WAITING_FOR_APPROVAL"])
     \/ /\ UNCHANGED <<call, asked>>
        /\ Validate(t, [turn[t] EXCEPT
                          !.limited = @ \/ ~(request[t].at = "returned" /\ request[t].state = "SUCCEEDED")])
  /\ UNCHANGED <<gatewayVars, commands>>

\* validateTurn is done, and found nothing wrong, or failed, and repairTurn
\* with it or after it: a repair does not undo a failed validation.
Validated(t, invalid, limited) ==
  /\ turn[t].at = "validation"
  /\ UNCHANGED <<call, asked>>
  /\ Finish(t, [turn[t] EXCEPT !.invalid = invalid, !.limited = @ \/ limited])
  /\ UNCHANGED <<gatewayVars, commands>>

\* The timer of withTimeout: executeTurn answers, its execution goes on.
TimeOut(t) ==
  /\ turn[t].at # "none" /\ turn[t].told = "nothing"
  /\ turn' = [turn EXCEPT ![t].state = "TIMED_OUT", ![t].failed = TRUE, ![t].told = "failed"]
  /\ conversation' = [conversation EXCEPT ![turn[t].of].state = "FAILED"]
  /\ UNCHANGED <<gatewayVars, commands, call, asked>>
  /\ saved' = Summary'

-----------------------------------------------------------------------------
(* Control of conversations and turns *)

Pause(c) ==
  /\ Given("pause")
  /\ conversation' = [conversation EXCEPT ![c].state = "PAUSED"]
  /\ UNCHANGED <<gatewayVars, turn, call, asked, saved>>

\* resumeConversation does not look at the state it changes.
Resume(c) ==
  /\ Given("resume")
  /\ conversation' = [conversation EXCEPT ![c].state = "ACTIVE"]
  /\ UNCHANGED <<gatewayVars, turn, call, asked, saved>>

\* completeConversation and failConversation
Mark(c, state) ==
  /\ Given("mark")
  /\ conversation' = [conversation EXCEPT ![c].state = state]
  /\ UNCHANGED <<gatewayVars, turn, call, asked, saved>>

\* cancelTurn has no guard.  The requests it cancels have all been answered,
\* since a turn learns of its request with the answer, so that nothing becomes
\* of them; its tool calls in flight go on.
TurnCancelled(t) ==
  /\ turn' = [turn EXCEPT ![t].state = "CANCELLED", ![t].limited = TRUE, ![t].stopped = TRUE]
  /\ call' = [k \in ToolCalls |->
                IF k[1] = t /\ call[k].state \notin {"NONE", "SUCCEEDED", "FAILED", "CANCELLED", "REJECTED"}
                THEN [call[k] EXCEPT !.state = "CANCELLED"] ELSE call[k]]

CancelTurn(t) ==
  /\ Given("cancelTurn")
  /\ turn[t].state # "NONE"
  /\ TurnCancelled(t)
  /\ conversation' = [conversation EXCEPT ![turn[t].of].state = "CANCELLED"]
  /\ UNCHANGED <<gatewayVars, asked, saved>>

CancelConversation(c) ==
  /\ Given("cancel")
  /\ IF conversation[c].active = NoTurn THEN UNCHANGED <<turn, call>>
     ELSE TurnCancelled(conversation[c].active)
  /\ conversation' = [conversation EXCEPT ![c].state = "CANCELLED"]
  /\ UNCHANGED <<gatewayVars, asked, saved>>

-----------------------------------------------------------------------------
(* Tool calls *)

\* Mutant of ExecuteToolCall: a call that waits for approval is not told from
\* one that has it.
ExecuteToolCallUnasked(k, approved, rejected) ==
  /\ Given("call")
  /\ k[2] = "proposed" /\ call[k].state # "NONE"
  /\ LET r == call[k]
     IN call' = [call EXCEPT ![k] =
          IF rejected THEN [r EXCEPT !.state = "REJECTED"]
          ELSE [r EXCEPT !.state = "RUNNING", !.flying = @ + 1, !.permitted = approved \/ @]]
  /\ UNCHANGED <<gatewayVars, conversation, turn, asked, saved>>

\* executeToolCall of a proposed call by a user, whatever its state.  A
\* rejection counts only beside an approval.
ExecuteToolCall(k, approved, rejected) ==
  /\ Given("call")
  /\ k[2] = "proposed" /\ call[k].state # "NONE"
  /\ LET r == call[k]
     IN call' = [call EXCEPT ![k] =
          CASE r.protected /\ ~approved -> [r EXCEPT !.state = "WAITING_FOR_APPROVAL"]
            [] r.protected /\ approved /\ rejected -> [r EXCEPT !.state = "REJECTED"]
            [] OTHER -> [r EXCEPT !.state = "RUNNING", !.flying = @ + 1,
                                  !.permitted = approved \/ @]]
  /\ UNCHANGED <<gatewayVars, conversation, turn, asked, saved>>

\* Mutant of CallReturns: a command returns more than once.
CallReturnsAgain(k, result) ==
  /\ call[k].state \in {"RUNNING", "SUCCEEDED"}
  /\ call' = [call EXCEPT ![k].state = result, ![k].flying = @ - 1]
  /\ UNCHANGED <<gatewayVars, commands, conversation, turn, asked, saved>>

\* The command of the runtime returns: the result is written whatever became of
\* the call.
CallReturns(k, result) ==
  /\ call[k].flying > 0
  /\ call' = [call EXCEPT ![k].state = result, ![k].flying = @ - 1]
  /\ UNCHANGED <<gatewayVars, commands, conversation, turn, asked, saved>>

CancelToolCall(k) ==
  /\ Given("cancelCall")
  /\ call[k].state \notin {"NONE", "SUCCEEDED", "FAILED", "CANCELLED", "REJECTED"}
  /\ call' = [call EXCEPT ![k].state = "CANCELLED"]
  /\ UNCHANGED <<gatewayVars, conversation, turn, asked, saved>>

-----------------------------------------------------------------------------
(* Shutdown and restart *)

\* shutdown saves; the calls in flight go on.
Shutdown ==
  /\ Given("shutdown")
  /\ saved' = Summary
  /\ UNCHANGED <<gatewayVars, conversation, turn, call, asked>>

\* restore: conversations that had not ended are PAUSED.  When nothing has been
\* saved, there is none, and a new one takes the name.
RestoredConversations ==
  [c \in Conversations |->
     IF saved = Nothing \/ saved.conversation[c].state \in ConversationEnds
     THEN saved.conversation[c]
     ELSE [saved.conversation[c] EXCEPT !.state = "PAUSED"]]

\* The process ends at any time and starts again: initialize loads what was saved,
\* turns in progress as they are, which nothing executes.  The requests of the
\* gateway, which no host loads, are gone.
Restart ==
  /\ "restart" \in Orders
  /\ conversation' = RestoredConversations
  /\ turn' = [t \in Turns |-> [saved.turn[t] EXCEPT !.orphan = InProgress(saved.turn[t])]]
  /\ call' = saved.call
  /\ asked' = saved.asked
  /\ request' = [r \in Requests |-> NoRequest]
  /\ registered' = Models
  /\ enabled' = Models
  /\ healthy' = Models
  /\ accepts' = Accepts
  /\ UNCHANGED <<saved, commands>>

\* Mutant of Recovered: turns stay as they were saved.
RecoveredAsSaved(turns) == turns

\* recover: turns that had not ended have failed.
Recovered(turns) ==
  [t \in Turns |-> IF InProgress(turns[t]) THEN [turns[t] EXCEPT !.state = "FAILED"] ELSE turns[t]]

\* A host recovers the engine: it loads again, if anything was saved, and ends the
\* turns.  Bound of the model: nothing is being executed, as after a restart.
Recover ==
  /\ Given("recover")
  /\ \A t \in Turns : turn[t].at = "none"
  /\ \A k \in ToolCalls : call[k].flying = 0
  /\ IF saved = Nothing
     THEN turn' = Recovered(turn) /\ UNCHANGED <<conversation, call, asked>>
     ELSE /\ conversation' = RestoredConversations
          /\ turn' = Recovered(saved.turn)
          /\ call' = saved.call
          /\ asked' = saved.asked
  /\ UNCHANGED <<gatewayVars, saved>>

-----------------------------------------------------------------------------
\* What a turn's execution and the timer do of their own.
TurnNext(t) ==
  \/ \E limited \in BOOLEAN : ContextBuilt(t, limited)
  \/ ToolsDone(t)
  \/ ModelAnswered(t)
  \/ \E invalid \in BOOLEAN, limited \in BOOLEAN : Validated(t, invalid, limited)

\* The gateway's own clients and providers.
GatewayNext ==
  /\ AdapterNext \/ ("model" \in Orders /\ (ProviderNext \/ ClientNext(Requests \ Turns)))
  /\ UNCHANGED <<conversation, turn, call, asked, saved>>

ControlNext ==
  \/ \E c \in Conversations :
       \/ \E t \in Turns : SendMessage(c, t)
       \/ SendTooMany(c)
       \/ Pause(c)
       \/ Resume(c)
       \/ \E state \in {"COMPLETED", "FAILED"} : Mark(c, state)
       \/ CancelConversation(c)
  \/ \E t \in Turns : CancelTurn(t) \/ (\E u \in Turns : RetryTurn(t, u))

CallNext ==
  \E k \in ToolCalls :
    \/ \E approved \in BOOLEAN, rejected \in BOOLEAN : ExecuteToolCall(k, approved, rejected)
    \/ \E result \in {"SUCCEEDED", "FAILED"} : CallReturns(k, result)
    \/ CancelToolCall(k)

Next ==
  \/ \E t \in Turns : TurnNext(t) \/ TimeOut(t)
  \/ GatewayNext
  \/ ControlNext
  \/ CallNext
  \/ Shutdown
  \/ Restart
  \/ Recover

Spec == Init /\ [][Next]_vars

-----------------------------------------------------------------------------
(* Properties *)

\* However a turn is cancelled or times out while it executes, its late result
\* does not make it a success: a caller that was told of a failure never finds
\* the turn succeeded, wholly or in part, and a cancelled turn never succeeds
\* wholly.
LateResultsAreHonest ==
  \A t \in Turns :
    /\ turn[t].told = "failed" => turn[t].state \notin {"SUCCEEDED", "PARTIALLY_SUCCEEDED"}
    /\ turn[t].stopped => turn[t].state # "SUCCEEDED"

\* A turn that succeeded has the answer of the model to its own request: one
\* that was cancelled at the gateway, failed with every model or threw leaves
\* its mark on the turn.
SuccessIsComplete ==
  \A t \in Turns :
    turn[t].state = "SUCCEEDED" /\ turn[t].told = "done" =>
      request[t].state = "SUCCEEDED" /\ request[t].used = 1

\* A turn in progress is being executed, or a restart found it so and nobody has
\* ended it since: neither a time-out nor a cancellation leaves one that nothing
\* will end, and recover leaves none of those that a restart left.
TurnsInProgressAreExecuted ==
  \A t \in Turns : InProgress(turn[t]) => turn[t].at # "none" \/ turn[t].orphan

\* A tool call that once needed approval is executed only with it, though it
\* may be cancelled, rejected, saved and loaded in between.
ApprovalIsAsked ==
  \A k \in ToolCalls : call[k].protected /\ call[k].flying > 0 => call[k].permitted
=============================================================================
