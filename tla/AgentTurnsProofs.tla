-------------------------- MODULE AgentTurnsProofs --------------------------
(* Proofs about AgentTurns, for every set of turns and conversations, every *)
(* bound and every choice of commands, over the gateway's own invariant.    *)
EXTENDS AgentTurns, ModelRequestsProofs

-----------------------------------------------------------------------------
(* The inductive invariant *)

ConversationRecords ==
  [state : ConversationStates, turns : Seq(Turns), active : Turns \union {NoTurn}]

TurnRecords ==
  [state : TurnStates, of : Conversations, at : Awaits,
   told : {"nothing", "done", "failed", "lost"}, limited : BOOLEAN, failed : BOOLEAN,
   ran : BOOLEAN, waits : BOOLEAN, invalid : BOOLEAN, stopped : BOOLEAN, orphan : BOOLEAN]

CallRecords ==
  [state : CallStates, protected : BOOLEAN, flying : Nat, permitted : BOOLEAN]

\* What an execution carries along of its turn: that it was told of a failure
\* or stopped has left a mark that the outcome will show.
Working(r) ==
  /\ r \in TurnRecords
  /\ r.told = "failed" => r.failed
  /\ r.stopped => r.limited
  /\ r.told # "done"

\* A turn with its request q: what the properties say of it, and what its
\* execution still knows.
Fits(r, q) ==
  /\ r \in TurnRecords
  /\ InProgress(r) => r.at # "none" \/ r.orphan
  /\ r.at # "none" => Working(r)
  /\ r.told = "failed" => r.state \notin {"SUCCEEDED", "PARTIALLY_SUCCEEDED"}
  /\ r.stopped => r.state # "SUCCEEDED"
  /\ r.at = "validation" /\ ~r.limited => q.state = "SUCCEEDED"
  /\ r.state = "SUCCEEDED" /\ r.told = "done" => q.state = "SUCCEEDED"

\* What a snapshot keeps of a turn has no execution, and was not told the end.
FitsSaved(r) ==
  /\ r \in TurnRecords
  /\ r.at = "none"
  /\ r.told = "failed" => r.state \notin {"SUCCEEDED", "PARTIALLY_SUCCEEDED"}
  /\ r.stopped => r.state # "SUCCEEDED"
  /\ r.state = "SUCCEEDED" => r.told # "done"

\* A call that needs approval is in flight with it only.
Permitted(k) == k \in CallRecords /\ (k.protected /\ k.flying > 0 => k.permitted)

ConversationsOK == conversation \in [Conversations -> ConversationRecords]

TurnsOK == turn \in [Turns -> TurnRecords] /\ \A t \in Turns : Fits(turn[t], request[t])

CallsOK ==
  /\ call \in [ToolCalls -> CallRecords] /\ \A k \in ToolCalls : Permitted(call[k])
  /\ asked \in Seq(ToolCalls)

SavedOK ==
  /\ saved.conversation \in [Conversations -> ConversationRecords]
  /\ saved.turn \in [Turns -> TurnRecords] /\ \A t \in Turns : FitsSaved(saved.turn[t])
  /\ saved.call \in [ToolCalls -> CallRecords] /\ \A k \in ToolCalls : saved.call[k].flying = 0
  /\ saved.asked \in Seq(ToolCalls)

EngineInv == ConversationsOK /\ TurnsOK /\ CallsOK /\ SavedOK

TurnsInv == GatewayInv /\ EngineInv

-----------------------------------------------------------------------------
(* Turns *)

\* A request that succeeded stays so, whoever cancels or retries requests.
AnswersStay == \A t \in Turns : request[t].state = "SUCCEEDED" => request'[t].state = "SUCCEEDED"

LEMMA TurnChanges ==
  ASSUME TurnsOK, NEW t \in Turns, NEW r, Fits(r, request'[t]),
         turn' = [turn EXCEPT ![t] = r],
         \A u \in Turns \ {t} : request'[u] = request[u]
  PROVE  TurnsOK'
<1>1. r \in TurnRecords
  BY DEF Fits
<1>2. turn' \in [Turns -> TurnRecords]
  BY <1>1 DEF TurnsOK
<1>3. \A u \in Turns : turn'[u] = IF u = t THEN r ELSE turn[u]
  BY DEF TurnsOK
<1>4. \A u \in Turns : Fits(turn'[u], request'[u])
  BY <1>3 DEF TurnsOK
<1>5. QED
  BY <1>2, <1>4 DEF TurnsOK

\* When only requests change.
LEMMA TurnsStay ==
  ASSUME TurnsOK, turn' = turn, AnswersStay
  PROVE  TurnsOK'
<1>1. \A t \in Turns : Fits(turn[t], request'[t])
  BY DEF TurnsOK, Fits, AnswersStay
<1>2. QED
  BY <1>1 DEF TurnsOK

\* What is kept of a turn whose execution is over.
LEMMA KeptFacts ==
  ASSUME NEW r \in TurnRecords
  PROVE  /\ Kept(r) \in TurnRecords
         /\ Kept(r).at = "none" /\ Kept(r).state = r.state /\ Kept(r).of = r.of
         /\ Kept(r).told = r.told /\ Kept(r).stopped = r.stopped
BY DEF Kept, NewTurn, TurnRecords, Awaits, TurnStates

\* A snapshot of a state that fits.
LEMMA SummaryFits ==
  ASSUME ConversationsOK', TurnsOK', CallsOK', saved' = Summary'
  PROVE  SavedOK'
<1> DEFINE Saved(r) == [Kept(r) EXCEPT
                          !.told = IF r.state # "NONE" /\ @ # "failed" THEN "lost" ELSE @]
<1>1. ASSUME NEW r, NEW q, Fits(r, q)
      PROVE  Saved(r) \in TurnRecords /\ FitsSaved(Saved(r))
  <2>1. r \in TurnRecords
    BY <1>1 DEF Fits
  <2> DEFINE k == Kept(r)
  <2>2. /\ k \in TurnRecords
        /\ k.at = "none" /\ k.state = r.state /\ k.told = r.told /\ k.stopped = r.stopped
    BY <2>1, KeptFacts
  <2> HIDE DEF k
  <2>3. Saved(r) = [k EXCEPT !.told = IF r.state # "NONE" /\ @ # "failed" THEN "lost" ELSE @]
    BY DEF k
  <2> HIDE DEF Saved
  <2>4. /\ Saved(r) \in TurnRecords
        /\ Saved(r).at = "none" /\ Saved(r).state = r.state /\ Saved(r).stopped = r.stopped
        /\ Saved(r).told = IF r.state # "NONE" /\ r.told # "failed" THEN "lost" ELSE r.told
    BY <2>2, <2>3 DEF TurnRecords
  <2>5. QED
    BY <1>1, <2>4 DEF FitsSaved, Fits
<1>2. saved'.conversation = conversation' /\ saved'.asked = asked'
  BY DEF Summary
<1>3. saved'.turn = [t \in Turns |-> Saved(turn'[t])]
  BY DEF Summary
<1>4. saved'.call = [k \in ToolCalls |-> [call'[k] EXCEPT !.flying = 0]]
  BY DEF Summary
<1> HIDE DEF Saved
<1>5. /\ saved'.turn \in [Turns -> TurnRecords]
      /\ \A t \in Turns : FitsSaved(saved'.turn[t])
  BY <1>1, <1>3 DEF TurnsOK
<1>6. /\ saved'.call \in [ToolCalls -> CallRecords]
      /\ \A k \in ToolCalls : saved'.call[k].flying = 0
  <2> DEFINE Landed(r) == [r EXCEPT !.flying = 0]
  <2>1. \A r \in CallRecords : Landed(r) \in CallRecords /\ Landed(r).flying = 0
    BY DEF CallRecords
  <2>2. saved'.call = [k \in ToolCalls |-> Landed(call'[k])]
    BY <1>4
  <2> HIDE DEF Landed
  <2>3. \A k \in ToolCalls : call'[k] \in CallRecords
    BY DEF CallsOK
  <2>4. QED
    BY <2>1, <2>2, <2>3
<1>7. QED
  BY <1>2, <1>5, <1>6 DEF SavedOK, ConversationsOK, CallsOK

\* The end of an execution: a late end does not hide what was told before it.
LEMMA FinishFits ==
  ASSUME TurnsOK, ConversationsOK, CallsOK', NEW t \in Turns, NEW r, Working(r), Finish(t, r),
         ~r.limited => request'[t].state = "SUCCEEDED",
         \A u \in Turns \ {t} : request'[u] = request[u]
  PROVE  TurnsOK' /\ ConversationsOK' /\ SavedOK'
<1> DEFINE k == Kept(r)
           end == [k EXCEPT !.state = Outcome(r), !.told = IF @ = "nothing" THEN "done" ELSE @]
<1>1. /\ k \in TurnRecords /\ k.at = "none" /\ k.told = r.told /\ k.stopped = r.stopped
  BY KeptFacts DEF Working
<1>2. turn' = [turn EXCEPT ![t] = end] /\ saved' = Summary'
      /\ conversation' = [conversation EXCEPT ![r.of].state =
                           IF Outcome(r) = "FAILED" THEN "FAILED" ELSE "COMPLETED"]
  BY DEF Finish
<1>3. /\ Outcome(r) \in {"FAILED", "PARTIALLY_SUCCEEDED", "SUCCEEDED"}
      /\ r.told = "failed" => Outcome(r) = "FAILED"
      /\ r.stopped => Outcome(r) # "SUCCEEDED"
      /\ Outcome(r) = "SUCCEEDED" => ~r.limited
  BY DEF Outcome, Working
<1> HIDE DEF k
<1>4. /\ end \in TurnRecords /\ end.at = "none" /\ end.state = Outcome(r)
      /\ end.told = IF r.told = "nothing" THEN "done" ELSE r.told
      /\ end.stopped = r.stopped
  BY <1>1, <1>3 DEF TurnRecords, TurnStates, TurnEnds
<1> HIDE DEF end
<1>5. Fits(end, request'[t])
  BY <1>3, <1>4 DEF Fits, TurnEnds, InProgress
<1>6. TurnsOK'
  BY <1>2, <1>5, TurnChanges
<1>7. ConversationsOK'
  BY <1>2 DEF ConversationsOK, ConversationRecords, ConversationStates, ConversationEnds
<1>8. QED
  BY <1>2, <1>6, <1>7, SummaryFits

LEMMA ValidateFits ==
  ASSUME EngineInv, CallsOK', NEW t \in Turns, NEW r, Working(r), Validate(t, r),
         ~r.limited => request'[t].state = "SUCCEEDED",
         \A u \in Turns \ {t} : request'[u] = request[u]
  PROVE  EngineInv'
<1>1. CASE r.ran
  <2> DEFINE v == [r EXCEPT !.state = "VALIDATING", !.at = "validation"]
  <2>1. turn' = [turn EXCEPT ![t] = v] /\ UNCHANGED <<conversation, saved>>
    BY <1>1 DEF Validate
  <2>2. /\ v \in TurnRecords /\ v.at = "validation" /\ v.state = "VALIDATING"
        /\ v.told = r.told /\ v.stopped = r.stopped /\ v.failed = r.failed /\ v.limited = r.limited
    BY DEF Working, TurnRecords, TurnStates, Awaits
  <2> HIDE DEF v
  <2>3. Fits(v, request'[t])
    BY <2>2 DEF Fits, Working
  <2>4. TurnsOK'
    BY <2>1, <2>3, TurnChanges DEF EngineInv
  <2>5. QED
    BY <2>1, <2>4 DEF EngineInv, ConversationsOK, SavedOK
<1>2. CASE ~r.ran
  BY <1>2, FinishFits DEF Validate, EngineInv
<1>3. QED
  BY <1>1, <1>2

LEMMA AskModelFits ==
  ASSUME EngineInv, CallsOK', NEW t \in Turns, NEW r, Working(r), AskModel(t, r)
  PROVE  EngineInv'
<1>1. CASE /\ turn' = [turn EXCEPT ![t] = [r EXCEPT !.state = "REQUESTING_MODEL", !.at = "model"]]
           /\ request' = [request EXCEPT ![t] = Executed(t, NoModel)]
           /\ UNCHANGED <<conversation, saved>>
  <2> DEFINE v == [r EXCEPT !.state = "REQUESTING_MODEL", !.at = "model"]
  <2>1. /\ v \in TurnRecords /\ v.at = "model" /\ v.state = "REQUESTING_MODEL"
        /\ v.told = r.told /\ v.stopped = r.stopped /\ v.failed = r.failed /\ v.limited = r.limited
    BY DEF Working, TurnRecords, TurnStates, Awaits
  <2> HIDE DEF v
  <2>2. Fits(v, request'[t])
    BY <2>1 DEF Fits, Working
  <2>3. \A u \in Turns \ {t} : request'[u] = request[u]
    BY <1>1
  <2>4. TurnsOK'
    BY <1>1, <2>2, <2>3, TurnChanges DEF EngineInv, v
  <2>5. QED
    BY <1>1, <2>4 DEF EngineInv, ConversationsOK, SavedOK
<1>2. CASE UNCHANGED request /\ Validate(t, [r EXCEPT !.limited = TRUE])
  <2> DEFINE v == [r EXCEPT !.limited = TRUE]
  <2>1. /\ v \in TurnRecords /\ v.limited = TRUE
        /\ v.told = r.told /\ v.failed = r.failed
    BY DEF Working, TurnRecords
  <2> HIDE DEF v
  <2>2. Working(v) /\ v.limited
    BY <2>1 DEF Working
  <2>3. Validate(t, v)
    BY <1>2 DEF v
  <2>4. QED
    BY <1>2, <2>2, <2>3, ValidateFits
<1>3. QED
  BY <1>1, <1>2 DEF AskModel

-----------------------------------------------------------------------------
(* Tool calls *)

LEMMA NewCallFits ==
  ASSUME NEW state \in CallStates, NEW protected \in BOOLEAN
  PROVE  /\ Permitted(NewCall(state, protected))
         /\ NewCall(state, protected).flying = 0
         /\ NewCall(state, protected).protected = protected
BY DEF NewCall, Permitted, CallRecords

LEMMA CallChanges ==
  ASSUME CallsOK, NEW k \in ToolCalls, NEW r, Permitted(r), call' = [call EXCEPT ![k] = r],
         asked' \in Seq(ToolCalls)
  PROVE  CallsOK'
<1>1. \A j \in ToolCalls : call'[j] = IF j = k THEN r ELSE call[j]
  BY DEF CallsOK
<1>2. call' \in [ToolCalls -> CallRecords]
  BY DEF CallsOK, Permitted
<1>3. QED
  BY <1>1, <1>2 DEF CallsOK

\* The deterministic call of a turn needs no approval, and the order grows by it.
LEMMA MakeSafeCallFits ==
  ASSUME EngineInv, NEW t \in Turns, NEW r, Working(r), MakeSafeCall(t, r)
  PROVE  EngineInv'
<1> DEFINE k == <<t, "safe">>
           made == [call EXCEPT ![k] = NewCall("PROPOSED", FALSE)]
           order == Append(asked, k)
           bounded == Cardinality(CallsOf(r.of)) + 1 >= MaxToolCalls
           begun == ~bounded /\ ~Duplicate(k, made, order)
           new == CASE bounded -> made[k]
                    [] begun -> [made[k] EXCEPT !.state = "RUNNING", !.flying = 1]
                    [] OTHER -> [made[k] EXCEPT !.state = "INVALID"]
<1>1. k \in ToolCalls
  BY DEF ToolCalls
<1>2. /\ asked' = order
      /\ call' = [made EXCEPT ![k] = new]
      /\ IF begun
         THEN /\ turn' = [turn EXCEPT ![t] =
                            [r EXCEPT !.state = "PROPOSING_TOOLS", !.at = "tools", !.ran = TRUE]]
              /\ UNCHANGED <<request, conversation, saved>>
         ELSE AskModel(t, [r EXCEPT !.limited = @ \/ bounded])
  BY DEF MakeSafeCall
<1>3. order \in Seq(ToolCalls)
  BY <1>1 DEF EngineInv, CallsOK
<1>4. made[k] = NewCall("PROPOSED", FALSE) /\ made = [call EXCEPT ![k] = made[k]]
  BY <1>1 DEF EngineInv, CallsOK
<1> DEFINE fresh == NewCall("PROPOSED", FALSE)
<1>5. Permitted(fresh) /\ fresh.flying = 0 /\ fresh.protected = FALSE
  BY NewCallFits DEF CallStates
<1>6. Permitted(new)
  <2>1. fresh \in CallRecords
    BY <1>5 DEF Permitted
  <2>2. made[k] = fresh
    BY <1>4
  <2> HIDE DEF fresh, made, k, bounded, begun
  <2>3. \/ new = fresh
        \/ new = [fresh EXCEPT !.state = "RUNNING", !.flying = 1]
        \/ new = [fresh EXCEPT !.state = "INVALID"]
    BY <2>2
  <2>4. Permitted([fresh EXCEPT !.state = "RUNNING", !.flying = 1])
    BY <1>5, <2>1 DEF Permitted, CallRecords, CallStates
  <2>5. Permitted([fresh EXCEPT !.state = "INVALID"])
    BY <1>5, <2>1 DEF Permitted, CallRecords, CallStates
  <2> HIDE DEF new
  <2>6. QED
    BY <1>5, <2>3, <2>4, <2>5
<1>7. call' = [call EXCEPT ![k] = new]
  BY <1>1, <1>2 DEF EngineInv, CallsOK
<1> HIDE DEF new, fresh, made, order
<1>8. CallsOK'
  BY <1>1, <1>2, <1>3, <1>6, <1>7, CallChanges DEF EngineInv
<1>9. CASE begun
  <2> DEFINE v == [r EXCEPT !.state = "PROPOSING_TOOLS", !.at = "tools", !.ran = TRUE]
  <2>1. /\ v \in TurnRecords /\ v.at = "tools" /\ v.state = "PROPOSING_TOOLS"
        /\ v.told = r.told /\ v.stopped = r.stopped /\ v.failed = r.failed /\ v.limited = r.limited
    BY DEF Working, TurnRecords, TurnStates, Awaits
  <2>2. turn' = [turn EXCEPT ![t] = v] /\ UNCHANGED <<request, conversation, saved>>
    BY <1>2, <1>9
  <2> HIDE DEF v
  <2>3. Fits(v, request'[t])
    BY <2>1 DEF Fits, Working
  <2>4. TurnsOK'
    BY <2>2, <2>3, TurnChanges DEF EngineInv
  <2>5. QED
    BY <1>8, <2>2, <2>4 DEF EngineInv, ConversationsOK, SavedOK
<1>10. CASE ~begun
  <2> DEFINE v == [r EXCEPT !.limited = @ \/ bounded]
  <2>1. AskModel(t, v)
    BY <1>2, <1>10
  <2> HIDE DEF bounded, begun
  <2>2. bounded \in BOOLEAN
    BY DEF bounded
  <2>3. /\ v \in TurnRecords /\ v.told = r.told /\ v.failed = r.failed /\ v.stopped = r.stopped
        /\ v.limited = (r.limited \/ bounded)
    BY <2>2 DEF Working, TurnRecords
  <2> HIDE DEF v
  <2>4. Working(v)
    BY <2>3 DEF Working
  <2>5. QED
    BY <1>8, <2>1, <2>4, AskModelFits
<1>11. QED
  BY <1>9, <1>10

\* What a step of the execution begins with.
LEMMA WorkingFacts ==
  ASSUME EngineInv, NEW t \in Turns, turn[t].at # "none"
  PROVE  Working(turn[t]) /\ Fits(turn[t], request[t])
BY DEF EngineInv, TurnsOK, Fits

LEMMA LimitedWorks ==
  ASSUME NEW r, Working(r), NEW limited \in BOOLEAN
  PROVE  /\ Working([r EXCEPT !.limited = @ \/ limited])
         /\ [r EXCEPT !.limited = @ \/ limited].limited = (r.limited \/ limited)
<1> DEFINE v == [r EXCEPT !.limited = @ \/ limited]
<1>1. /\ v \in TurnRecords /\ v.told = r.told /\ v.failed = r.failed /\ v.stopped = r.stopped
      /\ v.limited = (r.limited \/ limited)
  BY DEF Working, TurnRecords
<1> HIDE DEF v
<1>2. Working(v)
  BY <1>1 DEF Working
<1>3. QED
  BY <1>1, <1>2 DEF v

LEMMA ContextBuiltFits ==
  ASSUME EngineInv, NEW t \in Turns, NEW limited \in BOOLEAN, ContextBuilt(t, limited)
  PROVE  EngineInv'
<1> DEFINE r == [turn[t] EXCEPT !.limited = @ \/ limited]
<1>1. Working(turn[t])
  BY WorkingFacts DEF ContextBuilt
<1>2. Working(r)
  BY <1>1, LimitedWorks
<1>3. MakeSafeCall(t, r) \/ (UNCHANGED <<call, asked>> /\ AskModel(t, r))
  BY DEF ContextBuilt
<1> HIDE DEF r
<1>4. CASE UNCHANGED <<call, asked>> /\ AskModel(t, r)
  <2>1. CallsOK'
    BY <1>4 DEF EngineInv, CallsOK
  <2>2. QED
    BY <1>2, <1>4, <2>1, AskModelFits
<1>5. QED
  BY <1>2, <1>3, <1>4, MakeSafeCallFits

LEMMA ToolsDoneFits ==
  ASSUME EngineInv, NEW t \in Turns, ToolsDone(t)
  PROVE  EngineInv'
<1>1. Working(turn[t]) /\ UNCHANGED <<call, asked>> /\ AskModel(t, turn[t])
  BY WorkingFacts DEF ToolsDone
<1>2. CallsOK'
  BY <1>1 DEF EngineInv, CallsOK
<1>3. QED
  BY <1>1, <1>2, AskModelFits

\* A turn goes on to its validation unmarked only with the answer of the model.
LEMMA ModelAnsweredFits ==
  ASSUME EngineInv, NEW t \in Turns, ModelAnswered(t)
  PROVE  EngineInv'
<1>1. Working(turn[t]) /\ request' = request
  BY WorkingFacts DEF ModelAnswered, gatewayVars
<1>2. CASE /\ request[t].state = "SUCCEEDED"
           /\ call' = Proposed(t)
           /\ asked' = Append(asked, <<t, "proposed">>)
           /\ Validate(t, [turn[t] EXCEPT
                          !.waits = call'[<<t, "proposed">>].state = "WAITING_FOR_APPROVAL"])
  <2> DEFINE k == <<t, "proposed">>
             waits == call'[k].state = "WAITING_FOR_APPROVAL"
             v == [turn[t] EXCEPT !.waits = waits]
  <2>1. k \in ToolCalls
    BY DEF ToolCalls
  <2>2. asked' \in Seq(ToolCalls)
    BY <1>2, <2>1 DEF EngineInv, CallsOK
  <2>3. CallsOK'
    <3> DEFINE made == [call EXCEPT ![k] = NewCall("PROPOSED", FALSE)]
               fresh == NewCall("PROPOSED", FALSE)
               late == NewCall("WAITING_FOR_APPROVAL", TRUE)
               new == [fresh EXCEPT !.state = "INVALID"]
    <3>1. call \in [ToolCalls -> CallRecords]
      BY DEF EngineInv, CallsOK
    <3>2. \/ call' = [made EXCEPT ![k].state = "INVALID"]
          \/ call' = [made EXCEPT ![k] = late]
      BY <1>2, Zenon DEF Proposed
    <3>3. /\ Permitted(fresh) /\ fresh.flying = 0 /\ fresh.protected = FALSE
          /\ Permitted(late)
      BY NewCallFits DEF CallStates
    <3> HIDE DEF fresh, late
    <3>4. call' = [call EXCEPT ![k] = new] \/ call' = [call EXCEPT ![k] = late]
      BY <2>1, <3>1, <3>2 DEF fresh
    <3>5. Permitted(new)
      BY <3>3 DEF Permitted, CallRecords, CallStates
    <3> HIDE DEF new
    <3>6. QED
      BY <2>1, <2>2, <3>3, <3>4, <3>5, CallChanges DEF EngineInv
  <2>4. waits \in BOOLEAN
    OBVIOUS
  <2>5. Validate(t, v)
    BY <1>2
  <2> HIDE DEF waits
  <2>6. /\ v \in TurnRecords /\ v.told = turn[t].told /\ v.failed = turn[t].failed
        /\ v.stopped = turn[t].stopped /\ v.limited = turn[t].limited
    BY <1>1, <2>4 DEF Working, TurnRecords
  <2> HIDE DEF v
  <2>7. Working(v)
    BY <1>1, <2>6 DEF Working
  <2>8. QED
    BY <1>1, <1>2, <2>3, <2>5, <2>7, ValidateFits
<1>3. CASE /\ UNCHANGED <<call, asked>>
           /\ Validate(t, [turn[t] EXCEPT
                          !.limited = @ \/ ~(request[t].at = "returned" /\ request[t].state = "SUCCEEDED")])
  <2> DEFINE lacks == ~(request[t].at = "returned" /\ request[t].state = "SUCCEEDED")
             v == [turn[t] EXCEPT !.limited = @ \/ lacks]
  <2>1. Validate(t, v)
    BY <1>3
  <2>2. lacks \in BOOLEAN /\ (~lacks => request[t].state = "SUCCEEDED")
    OBVIOUS
  <2> HIDE DEF lacks
  <2>3. Working(v) /\ v.limited = (turn[t].limited \/ lacks)
    BY <1>1, <2>2, LimitedWorks
  <2>4. CallsOK'
    BY <1>3 DEF EngineInv, CallsOK
  <2> HIDE DEF v
  <2>5. ~v.limited => request'[t].state = "SUCCEEDED"
    BY <1>1, <2>2, <2>3
  <2>6. QED
    BY <1>1, <2>1, <2>3, <2>4, <2>5, ValidateFits
<1>4. QED
  BY <1>2, <1>3 DEF ModelAnswered

LEMMA ValidatedFits ==
  ASSUME EngineInv, NEW t \in Turns, NEW invalid \in BOOLEAN, NEW limited \in BOOLEAN,
         Validated(t, invalid, limited)
  PROVE  EngineInv'
<1> DEFINE v == [turn[t] EXCEPT !.invalid = invalid, !.limited = @ \/ limited]
<1>1. /\ Working(turn[t]) /\ Fits(turn[t], request[t]) /\ turn[t].at = "validation"
      /\ request' = request /\ UNCHANGED <<call, asked>> /\ Finish(t, v)
  BY WorkingFacts DEF Validated, gatewayVars
<1>2. /\ v \in TurnRecords /\ v.told = turn[t].told /\ v.failed = turn[t].failed
      /\ v.stopped = turn[t].stopped /\ v.limited = (turn[t].limited \/ limited)
  BY <1>1 DEF Working, TurnRecords
<1> HIDE DEF v
<1>3. Working(v) /\ (~v.limited => request'[t].state = "SUCCEEDED")
  BY <1>1, <1>2 DEF Working, Fits
<1>4. CallsOK'
  BY <1>1 DEF EngineInv, CallsOK
<1>5. QED
  BY <1>1, <1>3, <1>4, FinishFits DEF EngineInv

\* The timer marks the turn, so that its execution cannot end well.
LEMMA TimeOutFits ==
  ASSUME EngineInv, NEW t \in Turns, TimeOut(t)
  PROVE  EngineInv'
<1> DEFINE v == [turn[t] EXCEPT !.state = "TIMED_OUT", !.failed = TRUE, !.told = "failed"]
<1>1. /\ Working(turn[t]) /\ Fits(turn[t], request[t]) /\ turn \in [Turns -> TurnRecords]
      /\ UNCHANGED <<request, call, asked>> /\ saved' = Summary'
      /\ turn' = [turn EXCEPT ![t].state = "TIMED_OUT", ![t].failed = TRUE, ![t].told = "failed"]
      /\ conversation' = [conversation EXCEPT ![turn[t].of].state = "FAILED"]
  BY WorkingFacts DEF TimeOut, gatewayVars, EngineInv, TurnsOK
<1>2. /\ v \in TurnRecords /\ v.told = "failed" /\ v.failed = TRUE /\ v.state = "TIMED_OUT"
      /\ v.at = turn[t].at /\ v.stopped = turn[t].stopped /\ v.limited = turn[t].limited
  BY <1>1 DEF TurnRecords, TurnStates, TurnEnds
<1>3. turn' = [turn EXCEPT ![t] = v]
  BY <1>1
<1> HIDE DEF v
<1>4. Fits(v, request'[t])
  BY <1>1, <1>2 DEF Fits, Working, TurnEnds, InProgress
<1>5. TurnsOK'
  BY <1>1, <1>3, <1>4, TurnChanges DEF EngineInv
<1>6. ConversationsOK' /\ CallsOK'
  BY <1>1 DEF EngineInv, ConversationsOK, ConversationRecords, ConversationStates,
     ConversationEnds, CallsOK
<1>7. QED
  BY <1>1, <1>5, <1>6, SummaryFits DEF EngineInv

-----------------------------------------------------------------------------
(* Control, tool calls of users, saving and recovery *)

LEMMA BeginFits ==
  ASSUME EngineInv, NEW c \in Conversations, NEW t \in Turns, NEW state \in ConversationStates,
         Begin(c, t, state)
  PROVE  EngineInv'
<1>1. /\ UNCHANGED <<request, call, asked, saved>> /\ turn' = [turn EXCEPT ![t] = NewTurn(c)]
      /\ conversation' = [conversation EXCEPT ![c] =
                            [state |-> state, turns |-> Append(@.turns, t), active |-> t]]
  BY DEF Begin, gatewayVars
<1>2. Fits(NewTurn(c), request'[t])
  BY DEF Fits, Working, NewTurn, TurnRecords, TurnStates, TurnEnds, Awaits
<1>3. TurnsOK'
  BY <1>1, <1>2, TurnChanges DEF EngineInv
<1>4. ConversationsOK'
  <2>1. conversation \in [Conversations -> ConversationRecords]
    BY DEF EngineInv, ConversationsOK
  <2>2. Append(conversation[c].turns, t) \in Seq(Turns)
    BY <2>1 DEF ConversationRecords
  <2>3. [state |-> state, turns |-> Append(conversation[c].turns, t), active |-> t]
          \in ConversationRecords
    BY <2>2 DEF ConversationRecords
  <2>4. QED
    BY <1>1, <2>1, <2>3 DEF ConversationsOK
<1>5. QED
  BY <1>1, <1>3, <1>4 DEF EngineInv, CallsOK, SavedOK

\* A command that changes only the state of a conversation.
LEMMA ConversationMoves ==
  ASSUME EngineInv, NEW c \in Conversations, NEW state \in ConversationStates,
         conversation' = [conversation EXCEPT ![c].state = state]
  PROVE  ConversationsOK'
BY DEF EngineInv, ConversationsOK, ConversationRecords

LEMMA OnlyConversationMoves ==
  ASSUME EngineInv, NEW c \in Conversations, NEW state \in ConversationStates,
         conversation' = [conversation EXCEPT ![c].state = state],
         UNCHANGED <<request, turn, call, asked, saved>>
  PROVE  EngineInv'
<1>1. ConversationsOK'
  BY ConversationMoves
<1>2. QED
  BY <1>1 DEF EngineInv, TurnsOK, CallsOK, SavedOK

\* A turn that is cancelled is marked, and its calls still need what they needed.
LEMMA TurnCancelledFits ==
  ASSUME EngineInv, NEW t \in Turns, TurnCancelled(t), UNCHANGED <<request, asked>>
  PROVE  TurnsOK' /\ CallsOK'
<1> DEFINE v == [turn[t] EXCEPT !.state = "CANCELLED", !.limited = TRUE, !.stopped = TRUE]
           Cancelling(k) == /\ k[1] = t
                            /\ call[k].state \notin {"NONE", "SUCCEEDED", "FAILED", "CANCELLED",
                                                     "REJECTED"}
<1>1. /\ Fits(turn[t], request[t]) /\ turn \in [Turns -> TurnRecords]
      /\ turn' = [turn EXCEPT ![t].state = "CANCELLED", ![t].limited = TRUE, ![t].stopped = TRUE]
      /\ call' = [k \in ToolCalls |-> IF Cancelling(k) THEN [call[k] EXCEPT !.state = "CANCELLED"]
                                      ELSE call[k]]
  BY DEF TurnCancelled, EngineInv, TurnsOK
<1>2. /\ v \in TurnRecords /\ v.stopped = TRUE /\ v.limited = TRUE /\ v.state = "CANCELLED"
      /\ v.at = turn[t].at /\ v.told = turn[t].told /\ v.failed = turn[t].failed
  BY <1>1 DEF TurnRecords, TurnStates, TurnEnds
<1>3. turn' = [turn EXCEPT ![t] = v]
  BY <1>1
<1> HIDE DEF v, Cancelling
<1>4. Fits(v, request'[t])
  BY <1>1, <1>2 DEF Fits, Working, TurnEnds, InProgress
<1>5. TurnsOK'
  BY <1>3, <1>4, TurnChanges DEF EngineInv
<1>6. ASSUME NEW r, Permitted(r)
      PROVE  Permitted([r EXCEPT !.state = "CANCELLED"])
  BY <1>6 DEF Permitted, CallRecords, CallStates
<1>7. \A k \in ToolCalls : Permitted(call'[k])
  BY <1>1, <1>6 DEF EngineInv, CallsOK
<1>8. call' \in [ToolCalls -> CallRecords]
  <2>1. \A k \in ToolCalls : call'[k] \in CallRecords
    BY <1>7 DEF Permitted
  <2>2. QED
    BY <1>1, <2>1
<1>9. QED
  BY <1>5, <1>7, <1>8 DEF EngineInv, CallsOK

LEMMA ControlFits ==
  ASSUME EngineInv, ControlNext
  PROVE  EngineInv'
<1> USE DEF gatewayVars
<1>1. ASSUME NEW c \in Conversations, NEW t \in Turns, SendMessage(c, t)
      PROVE  EngineInv'
  BY <1>1, BeginFits DEF SendMessage, ConversationStates
<1>2. ASSUME NEW c \in Conversations, SendTooMany(c) \/ Pause(c) \/ Resume(c)
      PROVE  EngineInv'
  <2>1. "ACTIVE" \in ConversationStates /\ "PAUSED" \in ConversationStates
    BY DEF ConversationStates
  <2>2. QED
    BY <1>2, <2>1, OnlyConversationMoves DEF SendTooMany, Pause, Resume
<1>3. ASSUME NEW c \in Conversations, NEW state \in {"COMPLETED", "FAILED"}, Mark(c, state)
      PROVE  EngineInv'
  <2>1. state \in ConversationStates
    BY DEF ConversationStates, ConversationEnds
  <2>2. QED
    BY <1>3, <2>1, OnlyConversationMoves DEF Mark
<1>4. "CANCELLED" \in ConversationStates
  BY DEF ConversationStates, ConversationEnds
<1>5. ASSUME NEW c \in Conversations, CancelConversation(c)
      PROVE  EngineInv'
  <2>1. ConversationsOK' /\ UNCHANGED <<request, asked, saved>>
    BY <1>4, <1>5, ConversationMoves DEF CancelConversation
  <2>2. conversation[c].active \in Turns \union {NoTurn}
    BY DEF EngineInv, ConversationsOK, ConversationRecords
  <2>3. TurnsOK' /\ CallsOK'
    <3>1. CASE conversation[c].active = NoTurn
      BY <1>5, <2>1, <3>1 DEF CancelConversation, EngineInv, TurnsOK, CallsOK
    <3>2. CASE conversation[c].active # NoTurn
      BY <1>5, <2>1, <2>2, <3>2, TurnCancelledFits DEF CancelConversation
    <3>3. QED
      BY <3>1, <3>2
  <2>4. QED
    BY <2>1, <2>3 DEF EngineInv, SavedOK
<1>6. ASSUME NEW t \in Turns, CancelTurn(t)
      PROVE  EngineInv'
  <2>1. turn[t].of \in Conversations
    BY DEF EngineInv, TurnsOK, TurnRecords
  <2>2. ConversationsOK' /\ UNCHANGED <<request, asked, saved>>
    BY <1>4, <1>6, <2>1, ConversationMoves DEF CancelTurn
  <2>3. TurnsOK' /\ CallsOK'
    BY <1>6, <2>2, TurnCancelledFits DEF CancelTurn
  <2>4. QED
    BY <2>2, <2>3 DEF EngineInv, SavedOK
<1>7. ASSUME NEW t \in Turns, NEW u \in Turns, RetryTurn(t, u)
      PROVE  EngineInv'
  <2>1. turn[t].of \in Conversations
    BY DEF EngineInv, TurnsOK, TurnRecords
  <2>2. conversation[turn[t].of].state \in ConversationStates
    BY <2>1 DEF EngineInv, ConversationsOK, ConversationRecords
  <2>3. QED
    BY <1>7, <2>1, <2>2, BeginFits DEF RetryTurn
<1>8. QED
  BY <1>1, <1>2, <1>3, <1>5, <1>6, <1>7 DEF ControlNext

\* A call is sent off by a user only with the approval it needs.
LEMMA ExecuteToolCallFits ==
  ASSUME EngineInv, NEW k \in ToolCalls, NEW approved \in BOOLEAN, NEW rejected \in BOOLEAN,
         ExecuteToolCall(k, approved, rejected)
  PROVE  EngineInv'
<1> DEFINE r == call[k]
           sent == [r EXCEPT !.state = "RUNNING", !.flying = @ + 1, !.permitted = approved \/ @]
<1>1. /\ call \in [ToolCalls -> CallRecords] /\ Permitted(r)
      /\ UNCHANGED <<request, conversation, turn, asked, saved>>
  BY DEF ExecuteToolCall, gatewayVars, EngineInv, CallsOK
<1>2. \/ call' = [call EXCEPT ![k] = [r EXCEPT !.state = "WAITING_FOR_APPROVAL"]]
      \/ call' = [call EXCEPT ![k] = [r EXCEPT !.state = "REJECTED"]]
      \/ (~r.protected \/ approved) /\ call' = [call EXCEPT ![k] = sent]
  <2>1. CASE r.protected /\ ~approved
    BY <2>1 DEF ExecuteToolCall
  <2>2. CASE r.protected /\ approved /\ rejected
    BY <2>2 DEF ExecuteToolCall
  <2>3. CASE ~(r.protected /\ ~approved) /\ ~(r.protected /\ approved /\ rejected)
    <3> DEFINE new == CASE r.protected /\ ~approved -> [r EXCEPT !.state = "WAITING_FOR_APPROVAL"]
                        [] r.protected /\ approved /\ rejected -> [r EXCEPT !.state = "REJECTED"]
                        [] OTHER -> sent
    <3>1. call' = [call EXCEPT ![k] = new]
      BY Zenon DEF ExecuteToolCall
    <3> HIDE DEF r, sent
    <3>2. new = sent
      BY <2>3, Zenon
    <3> HIDE DEF new
    <3>3. QED
      BY <2>3, <3>1, <3>2
  <2>4. QED
    BY <2>1, <2>2, <2>3
<1> HIDE DEF r
<1>3. /\ Permitted([r EXCEPT !.state = "WAITING_FOR_APPROVAL"])
      /\ Permitted([r EXCEPT !.state = "REJECTED"])
  BY <1>1 DEF Permitted, CallRecords, CallStates
<1>4. (~r.protected \/ approved) => Permitted(sent)
  <2> DEFINE may == approved \/ r.permitted
  <2>1. sent = [r EXCEPT !.state = "RUNNING", !.flying = @ + 1, !.permitted = may]
    OBVIOUS
  <2>2. may \in BOOLEAN /\ (approved => may = TRUE)
    OBVIOUS
  <2> HIDE DEF may, sent
  <2>3. r \in CallRecords /\ r.flying + 1 \in Nat
    BY <1>1 DEF Permitted, CallRecords
  <2>4. sent = [state |-> "RUNNING", protected |-> r.protected, flying |-> r.flying + 1,
                permitted |-> may]
    BY <2>1, <2>3 DEF CallRecords
  <2>5. r.protected \in BOOLEAN
    BY <2>3 DEF CallRecords
  <2>6. sent \in CallRecords /\ sent.protected = r.protected /\ sent.permitted = may
    BY <2>2, <2>3, <2>4, <2>5 DEF CallRecords, CallStates
  <2>7. QED
    BY <2>2, <2>6 DEF Permitted
<1> HIDE DEF sent
<1>5. PICK n : Permitted(n) /\ call' = [call EXCEPT ![k] = n]
  BY <1>2, <1>3, <1>4
<1>6. CallsOK'
  BY <1>1, <1>5, CallChanges DEF EngineInv, CallsOK
<1>7. QED
  BY <1>1, <1>6 DEF EngineInv, ConversationsOK, TurnsOK, SavedOK

LEMMA CallNextFits ==
  ASSUME EngineInv, CallNext
  PROVE  EngineInv'
<1>1. ASSUME NEW k \in ToolCalls, NEW result \in {"SUCCEEDED", "FAILED"}, CallReturns(k, result)
      PROVE  EngineInv'
  <2> DEFINE r == call[k]
             n == [r EXCEPT !.state = result, !.flying = @ - 1]
  <2>1. /\ call \in [ToolCalls -> CallRecords] /\ Permitted(r) /\ r.flying > 0
        /\ UNCHANGED <<request, conversation, turn, asked, saved>>
        /\ call' = [call EXCEPT ![k].state = result, ![k].flying = @ - 1]
    BY <1>1 DEF CallReturns, gatewayVars, EngineInv, CallsOK
  <2>2. call' = [call EXCEPT ![k] = n]
    BY <2>1
  <2> HIDE DEF r
  <2>3. Permitted(n)
    <3>1. r.flying - 1 \in Nat
      BY <2>1 DEF Permitted, CallRecords
    <3>2. n \in CallRecords /\ n.protected = r.protected /\ n.permitted = r.permitted
      BY <2>1, <3>1 DEF Permitted, CallRecords, CallStates
    <3>3. QED
      BY <2>1, <3>2 DEF Permitted
  <2> HIDE DEF n
  <2>4. CallsOK'
    BY <2>1, <2>2, <2>3, CallChanges DEF EngineInv, CallsOK
  <2>5. QED
    BY <2>1, <2>4 DEF EngineInv, ConversationsOK, TurnsOK, SavedOK
<1>2. ASSUME NEW k \in ToolCalls, CancelToolCall(k)
      PROVE  EngineInv'
  <2> DEFINE r == call[k]
             n == [r EXCEPT !.state = "CANCELLED"]
  <2>1. /\ call \in [ToolCalls -> CallRecords] /\ Permitted(r)
        /\ UNCHANGED <<request, conversation, turn, asked, saved>>
        /\ call' = [call EXCEPT ![k].state = "CANCELLED"]
    BY <1>2 DEF CancelToolCall, gatewayVars, EngineInv, CallsOK
  <2>2. call' = [call EXCEPT ![k] = n]
    BY <2>1
  <2> HIDE DEF r
  <2>3. Permitted(n)
    BY <2>1 DEF Permitted, CallRecords, CallStates
  <2> HIDE DEF n
  <2>4. CallsOK'
    BY <2>1, <2>2, <2>3, CallChanges DEF EngineInv, CallsOK
  <2>5. QED
    BY <2>1, <2>4 DEF EngineInv, ConversationsOK, TurnsOK, SavedOK
<1>3. QED
  BY <1>1, <1>2, ExecuteToolCallFits DEF CallNext

LEMMA ShutdownFits ==
  ASSUME EngineInv, Shutdown
  PROVE  EngineInv'
<1>1. UNCHANGED <<request, conversation, turn, call, asked>> /\ saved' = Summary
  BY DEF Shutdown, gatewayVars
<1>2. ConversationsOK' /\ TurnsOK' /\ CallsOK'
  BY <1>1 DEF EngineInv, ConversationsOK, TurnsOK, CallsOK
<1>3. saved' = Summary'
  BY <1>1 DEF Summary
<1>4. QED
  BY <1>2, <1>3, SummaryFits DEF EngineInv

\* What a snapshot keeps fits whatever request, as a restart loads it and as recover
\* ends it.
LEMMA LoadedFits ==
  ASSUME NEW r, FitsSaved(r), NEW q
  PROVE  /\ Fits([r EXCEPT !.orphan = InProgress(r)], q)
         /\ ~InProgress(r) => Fits(r, q)
         /\ Fits([r EXCEPT !.state = "FAILED"], q)
<1> DEFINE u == [r EXCEPT !.orphan = InProgress(r)]
           v == [r EXCEPT !.state = "FAILED"]
<1>1. InProgress(r) \in BOOLEAN
  BY DEF InProgress
<1>2. /\ u \in TurnRecords /\ u.state = r.state /\ u.at = r.at /\ u.told = r.told
      /\ u.stopped = r.stopped /\ u.orphan = InProgress(r)
  BY <1>1 DEF FitsSaved, TurnRecords
<1>3. /\ v \in TurnRecords /\ v.state = "FAILED" /\ v.at = r.at
      /\ v.told = r.told /\ v.stopped = r.stopped
  BY DEF FitsSaved, TurnRecords, TurnStates, TurnEnds
<1> HIDE DEF u, v
<1>4. Fits(u, q)
  BY <1>2 DEF Fits, FitsSaved, InProgress
<1>5. Fits(v, q)
  BY <1>3 DEF Fits, FitsSaved, TurnEnds, InProgress
<1>6. ~InProgress(r) => Fits(r, q)
  BY DEF Fits, FitsSaved
<1>7. QED
  BY <1>4, <1>5, <1>6 DEF u, v

\* Turns that recover looks at, of a snapshot or of memory.
LEMMA RecoveredFits ==
  ASSUME NEW turns \in [Turns -> TurnRecords], turn' = Recovered(turns),
         \A t \in Turns : FitsSaved(turns[t]) \/ (turns[t].at = "none" /\ Fits(turns[t], request'[t]))
  PROVE  TurnsOK'
<1>1. \A t \in Turns : Fits(turn'[t], request'[t])
  <2> SUFFICES ASSUME NEW t \in Turns
               PROVE  Fits(turn'[t], request'[t])
    OBVIOUS
  <2>1. turn'[t] = IF InProgress(turns[t]) THEN [turns[t] EXCEPT !.state = "FAILED"] ELSE turns[t]
    BY DEF Recovered
  <2>2. CASE FitsSaved(turns[t])
    <3>1. /\ ~InProgress(turns[t]) => Fits(turns[t], request'[t])
          /\ Fits([turns[t] EXCEPT !.state = "FAILED"], request'[t])
      BY <2>2, LoadedFits, Zenon
    <3>2. QED
      BY <2>1, <3>1
  <2>3. CASE turns[t].at = "none" /\ Fits(turns[t], request'[t])
    <3> DEFINE r == turns[t]
               v == [r EXCEPT !.state = "FAILED"]
    <3>1. /\ v \in TurnRecords /\ v.state = "FAILED" /\ v.at = "none"
          /\ v.told = r.told /\ v.stopped = r.stopped
      BY <2>3 DEF TurnRecords, TurnStates, TurnEnds
    <3> HIDE DEF v
    <3>2. Fits(v, request'[t])
      BY <2>3, <3>1 DEF Fits, TurnEnds, InProgress
    <3>3. QED
      BY <2>1, <2>3, <3>2 DEF v
  <2>4. QED
    BY <2>2, <2>3
<1>2. turn' \in [Turns -> TurnRecords]
  <2>1. \A t \in Turns : turn'[t] \in TurnRecords
    BY <1>1 DEF Fits
  <2>2. QED
    BY <2>1 DEF Recovered
<1>3. QED
  BY <1>1, <1>2 DEF TurnsOK

\* Conversations as restore leaves them.
LEMMA RestoredFits ==
  ASSUME EngineInv, conversation' = RestoredConversations
  PROVE  ConversationsOK'
<1>1. saved.conversation \in [Conversations -> ConversationRecords]
  BY DEF EngineInv, SavedOK
<1>2. \A c \in Conversations :
        /\ saved.conversation[c] \in ConversationRecords
        /\ [saved.conversation[c] EXCEPT !.state = "PAUSED"] \in ConversationRecords
  BY <1>1 DEF ConversationRecords, ConversationStates
<1>3. QED
  BY <1>2 DEF RestoredConversations, ConversationsOK

\* A restart leaves no turn in progress that it does not mark.
LEMMA RestartFits ==
  ASSUME EngineInv, Restart
  PROVE  EngineInv'
<1>1. ConversationsOK'
  BY RestoredFits DEF Restart
<1>2. TurnsOK'
  <2>1. \A t \in Turns : FitsSaved(saved.turn[t])
    BY DEF EngineInv, SavedOK
  <2>2. turn' = [t \in Turns |-> [saved.turn[t] EXCEPT !.orphan = InProgress(saved.turn[t])]]
    BY DEF Restart
  <2>3. \A t \in Turns : Fits(turn'[t], request'[t])
    BY <2>1, <2>2, LoadedFits
  <2>4. \A t \in Turns : turn'[t] \in TurnRecords
    BY <2>3 DEF Fits
  <2>5. QED
    BY <2>2, <2>3, <2>4 DEF TurnsOK
<1>3. CallsOK'
  BY DEF EngineInv, SavedOK, Restart, CallsOK, Permitted
<1>4. SavedOK'
  BY DEF EngineInv, SavedOK, Restart
<1>5. QED
  BY <1>1, <1>2, <1>3, <1>4 DEF EngineInv

\* No turn is in progress when recover is done.
LEMMA RecoverFits ==
  ASSUME EngineInv, Recover
  PROVE  EngineInv'
<1>1. UNCHANGED <<request, saved>>
  BY DEF Recover, gatewayVars
<1>2. SavedOK'
  BY <1>1 DEF EngineInv, SavedOK
<1>3. CASE saved = Nothing
  <2>1. turn' = Recovered(turn) /\ UNCHANGED <<conversation, call, asked>>
    BY <1>3 DEF Recover
  <2>2. \A t \in Turns : turn[t].at = "none" /\ Fits(turn[t], request'[t])
    BY <1>1 DEF Recover, EngineInv, TurnsOK
  <2>3. turn \in [Turns -> TurnRecords]
    BY DEF EngineInv, TurnsOK
  <2>4. TurnsOK'
    BY <2>1, <2>2, <2>3, RecoveredFits
  <2>5. QED
    BY <1>2, <2>1, <2>4 DEF EngineInv, ConversationsOK, CallsOK
<1>4. CASE saved # Nothing
  <2>1. /\ conversation' = RestoredConversations /\ turn' = Recovered(saved.turn)
        /\ call' = saved.call /\ asked' = saved.asked
    BY <1>4 DEF Recover
  <2>2. TurnsOK'
    BY <2>1, RecoveredFits DEF EngineInv, SavedOK
  <2>3. CallsOK'
    BY <2>1 DEF EngineInv, SavedOK, CallsOK, Permitted
  <2>4. QED
    BY <1>2, <2>1, <2>2, <2>3, RestoredFits DEF EngineInv
<1>5. QED
  BY <1>3, <1>4

-----------------------------------------------------------------------------
(* The gateway beneath *)

\* Whoever has a request of the gateway, a turn's that succeeded stays so.
LEMMA GatewayNextFits ==
  ASSUME TurnsInv, GatewayNext
  PROVE  EngineInv'
<1>1. UNCHANGED <<conversation, turn, call, asked, saved>>
  BY DEF GatewayNext
<1>2. AnswersStay
  <2> SUFFICES ASSUME NEW t \in Turns, request[t].state = "SUCCEEDED"
               PROVE  request'[t].state = "SUCCEEDED"
    BY DEF AnswersStay
  <2>1. /\ t \in Requests /\ request[t].at = "returned"
        /\ request \in [Requests -> RequestRecords]
    BY TurnsAssumption DEF TurnsInv, GatewayInv, Coherent, GatewayTypeOK, RequestRecords
  <2>2. ASSUME NEW r \in Requests, NEW q, r # t, request' = [request EXCEPT ![r] = q]
        PROVE  request'[t] = request[t]
    BY <2>1, <2>2
  <2>3. CASE AdapterNext
    <3>1. PICK r \in Requests :
            \/ Answer(r)
            \/ \E category \in Categories, retryable \in BOOLEAN : Fault(r, category, retryable)
      BY <2>3 DEF AdapterNext
    <3>2. Waiting(r)
      BY <3>1, Zenon DEF Answer, Fault, Waiting
    <3>3. r # t
      BY <2>1, <3>2 DEF Waiting
    <3>4. \E q : request' = [request EXCEPT ![r] = q]
      BY <3>1 DEF Answer, Fault
    <3>5. QED
      BY <2>2, <3>3, <3>4
  <2>4. CASE ProviderNext
    BY <2>4 DEF ProviderNext, EnableProvider, DisableProvider, HealthCheck, UpdateProvider,
       UnregisterProvider, RegisterProvider
  <2>5. CASE ClientNext(Requests \ Turns)
    <3>1. CASE \E r \in Requests \ Turns :
                 Complete(r) \/ Submit(r) \/ (\E s \in Requests : RetryRequest(s, r))
      <4>1. PICK r \in Requests \ Turns :
              Complete(r) \/ Submit(r) \/ (\E s \in Requests : RetryRequest(s, r))
        BY <3>1
      <4>2. \A u \in Turns : request'[u] = request[u]
        <5>1. ASSUME NEW q, request' = [request EXCEPT ![r] = q]
              PROVE  \A u \in Turns : request'[u] = request[u]
          BY <2>1, <5>1, TurnsAssumption
        <5>2. \E q : request' = [request EXCEPT ![r] = q]
          BY <4>1 DEF Complete, Submit, RetryRequest
        <5>3. QED
          BY <5>1, <5>2
      <4>3. QED
        BY <4>2
    <3>2. CASE \E r \in Requests : CancelRequest(r)
      <4>1. PICK r \in Requests : CancelRequest(r)
        BY <3>2
      <4>2. PICK aborts \in BOOLEAN : request' = Cancelled(r, aborts)
        BY <4>1 DEF CancelRequest
      <4>3. r # t \/ request' = request
        BY <4>2 DEF Cancelled, EndStates
      <4>4. request'[t] = request[t]
        BY <2>1, <4>2, <4>3 DEF Cancelled
      <4>5. QED
        BY <4>4
    <3>3. QED
      BY <2>5, <3>1, <3>2 DEF ClientNext
  <2>6. QED
    BY <2>3, <2>4, <2>5 DEF GatewayNext
<1>3. TurnsOK'
  BY <1>1, <1>2, TurnsStay DEF TurnsInv, EngineInv
<1>4. QED
  BY <1>1, <1>3 DEF TurnsInv, EngineInv, ConversationsOK, CallsOK, SavedOK

-----------------------------------------------------------------------------
(* The theorems *)

LEMMA InitFits == Init => TurnsInv
<1> SUFFICES ASSUME Init PROVE TurnsInv
  OBVIOUS
<1>1. GatewayInv
  BY GatewayInitSafe DEF Init
<1>2. \A c \in Conversations : FitsSaved(Unknown(c)) /\ (\A q : Fits(Unknown(c), q))
  BY DEF FitsSaved, Fits, Unknown, NewTurn, TurnRecords, TurnStates, TurnEnds, Awaits, InProgress
<1>3. NoCall \in CallRecords /\ NoCall.flying = 0 /\ Permitted(NoCall)
  BY NewCallFits DEF NoCall, CallStates, Permitted
<1> DEFINE c == CHOOSE c \in Conversations : TRUE
<1>4. c \in Conversations
  BY TurnsAssumption
<1> HIDE DEF c
<1>5. /\ Nothing.conversation \in [Conversations -> ConversationRecords]
      /\ Nothing.turn = [t \in Turns |-> Unknown(c)]
      /\ Nothing.call = [k \in ToolCalls |-> NoCall]
      /\ Nothing.asked \in Seq(ToolCalls)
  <2>1. <<>> \in Seq(Turns) /\ <<>> \in Seq(ToolCalls)
    OBVIOUS
  <2>2. [state |-> "CREATED", turns |-> <<>>, active |-> NoTurn] \in ConversationRecords
    BY <2>1 DEF ConversationRecords, ConversationStates
  <2>3. QED
    BY <2>1, <2>2 DEF Nothing, c
<1>6. Nothing.turn \in [Turns -> TurnRecords] /\ \A t \in Turns : FitsSaved(Nothing.turn[t])
  BY <1>2, <1>4, <1>5 DEF FitsSaved
<1>7. SavedOK
  BY <1>3, <1>5, <1>6 DEF Init, SavedOK
<1>8. ConversationsOK /\ CallsOK
  BY <1>3, <1>5 DEF Init, ConversationsOK, CallsOK
<1>9. TurnsOK
  BY <1>2, <1>4, <1>5, <1>6 DEF Init, TurnsOK
<1>10. QED
  BY <1>1, <1>7, <1>8, <1>9 DEF TurnsInv, EngineInv

\* A turn uses the gateway like any client, and a restart begins it anew.
LEMMA GatewayKept ==
  ASSUME GatewayInv, Next
  PROVE  GatewayInv'
<1>1. CASE UNCHANGED gatewayVars /\ commands' \in 0..MaxCommands
  BY <1>1, RequestsStay DEF gatewayVars, GatewayInv, GatewayTypeOK
<1>2. commands \in 0..MaxCommands
  BY DEF GatewayInv, GatewayTypeOK
<1>3. ASSUME NEW t \in Turns, NEW r, AskModel(t, r) \/ UNCHANGED request,
             UNCHANGED <<registered, enabled, healthy, accepts, commands>>
      PROVE  GatewayInv'
  <2>1. CASE UNCHANGED request
    BY <1>1, <1>2, <1>3, <2>1 DEF gatewayVars
  <2>2. CASE request' = [request EXCEPT ![t] = Executed(t, NoModel)]
    <3>1. t \in Requests
      BY TurnsAssumption
    <3>2. Coherent(t, Executed(t, NoModel))
      BY <3>1, ExecutedCoherent DEF GatewayInv
    <3>3. QED
      BY <1>2, <1>3, <2>2, <3>1, <3>2, RequestChanges
  <2>3. QED
    BY <1>3, <2>1, <2>2 DEF AskModel
<1>4. ASSUME NEW t \in Turns, NEW limited \in BOOLEAN, ContextBuilt(t, limited) \/ ToolsDone(t)
      PROVE  GatewayInv'
  <2>1. \E r : AskModel(t, r) \/ UNCHANGED request
    BY <1>4 DEF ContextBuilt, MakeSafeCall, ToolsDone
  <2>2. UNCHANGED <<registered, enabled, healthy, accepts, commands>>
    BY <1>4 DEF ContextBuilt, ToolsDone
  <2>3. QED
    BY <1>3, <2>1, <2>2
<1>5. ASSUME NEW o, Given(o)
      PROVE  commands' \in 0..MaxCommands
  BY <1>5, CommandCounts DEF Given
<1>6. CASE \E t \in Turns : TurnNext(t) \/ TimeOut(t)
  BY <1>1, <1>2, <1>4, <1>6 DEF TurnNext, ModelAnswered, Validated, TimeOut, gatewayVars
<1>7. CASE GatewayNext
  BY <1>7, AdapterNextSafe, ProviderNextSafe, ClientNextSafe DEF GatewayNext
<1>8. CASE ControlNext
  <2>1. UNCHANGED gatewayVars
    BY <1>8 DEF ControlNext, SendMessage, SendTooMany, Pause, Resume, Mark, CancelConversation,
       CancelTurn, RetryTurn, Begin
  <2>2. commands' \in 0..MaxCommands
    BY <1>2, <1>5, <1>8, CommandCounts DEF ControlNext, SendMessage, SendTooMany, Pause, Resume,
       Mark, CancelConversation, CancelTurn, RetryTurn
  <2>3. QED
    BY <1>1, <2>1, <2>2
<1>9. CASE CallNext
  <2>1. UNCHANGED gatewayVars
    BY <1>9 DEF CallNext, ExecuteToolCall, CallReturns, CancelToolCall
  <2>2. commands' \in 0..MaxCommands
    BY <1>2, <1>5, <1>9 DEF CallNext, ExecuteToolCall, CallReturns, CancelToolCall
  <2>3. QED
    BY <1>1, <2>1, <2>2
<1>10. CASE Shutdown
  BY <1>1, <1>5, <1>10 DEF Shutdown
<1>11. CASE Restart
  <2>1. commands' \in 0..MaxCommands
    BY <1>2, <1>11 DEF Restart
  <2>2. request' = [r \in Requests |-> NoRequest]
    BY <1>11 DEF Restart
  <2>3. \A r \in Requests : Coherent(r, request'[r])
    BY <2>2, NoRequestCoherent
  <2>4. request' \in [Requests -> RequestRecords]
    BY <2>2, NoRequestCoherent DEF Coherent
  <2>5. GatewayTypeOK'
    BY <1>11, <2>1, <2>4, ModelsAssumption DEF Restart, GatewayTypeOK, RequestRecords
  <2>6. QED
    BY <2>3, <2>5 DEF GatewayInv, Coherent
<1>12. CASE Recover
  BY <1>1, <1>5, <1>12 DEF Recover
<1>13. QED
  BY <1>6, <1>7, <1>8, <1>9, <1>10, <1>11, <1>12 DEF Next

LEMMA NextFits ==
  ASSUME TurnsInv, Next
  PROVE  EngineInv'
<1>1. EngineInv
  BY DEF TurnsInv
<1>2. CASE \E t \in Turns : TurnNext(t) \/ TimeOut(t)
  BY <1>1, <1>2, ContextBuiltFits, ToolsDoneFits, ModelAnsweredFits, ValidatedFits, TimeOutFits
  DEF TurnNext
<1>3. QED
  BY <1>1, <1>2, GatewayNextFits, ControlFits, CallNextFits, ShutdownFits, RestartFits,
     RecoverFits DEF Next

LEMMA TurnsInvariant == Spec => []TurnsInv
<1>1. TurnsInv /\ [Next]_vars => TurnsInv'
  <2> SUFFICES ASSUME TurnsInv, [Next]_vars PROVE TurnsInv'
    OBVIOUS
  <2>1. CASE Next
    BY <2>1, NextFits, GatewayKept DEF TurnsInv
  <2>2. CASE UNCHANGED vars
    <3>1. GatewayInv'
      BY <2>2, RequestsStay DEF vars, gatewayVars, TurnsInv, GatewayInv, GatewayTypeOK
    <3>2. EngineInv'
      BY <2>2 DEF vars, gatewayVars, TurnsInv, EngineInv, ConversationsOK, TurnsOK, CallsOK, SavedOK
    <3>3. QED
      BY <3>1, <3>2 DEF TurnsInv
  <2>3. QED
    BY <2>1, <2>2
<1>2. QED
  BY <1>1, InitFits, PTL DEF Spec

\* Conversations, turns, tool calls, the requests beneath and what is saved keep
\* their types, for any number of turns and overlapping executions.
THEOREM TypeCorrect == Spec => []TypeOK
<1>1. TurnsInv => TypeOK
  BY DEF TurnsInv, EngineInv, GatewayInv, ConversationsOK, TurnsOK, CallsOK, SavedOK, TypeOK,
     ConversationRecords, TurnRecords, CallRecords
<1>2. QED
  BY <1>1, TurnsInvariant, PTL

\* A late end of an execution never makes a success of a turn that was told of a
\* failure or cancelled: executeTurnInternal carries a mark of both along.
THEOREM LateResultsHonest == Spec => []LateResultsAreHonest
<1>1. TurnsInv => LateResultsAreHonest
  BY DEF TurnsInv, EngineInv, TurnsOK, Fits, LateResultsAreHonest
<1>2. QED
  BY <1>1, TurnsInvariant, PTL

\* A turn that succeeded has the answer to its own request, whose usage was
\* recorded once, whatever other clients of the gateway do.
THEOREM SuccessComplete == Spec => []SuccessIsComplete
<1>1. TurnsInv => SuccessIsComplete
  <2> SUFFICES ASSUME TurnsInv, NEW t \in Turns, turn[t].state = "SUCCEEDED", turn[t].told = "done"
               PROVE  request[t].state = "SUCCEEDED" /\ request[t].used = 1
    BY DEF SuccessIsComplete
  <2>1. request[t].state = "SUCCEEDED"
    BY DEF TurnsInv, EngineInv, TurnsOK, Fits
  <2>2. QED
    BY <2>1, TurnsAssumption DEF TurnsInv, GatewayInv, Coherent
<1>2. QED
  BY <1>1, TurnsInvariant, PTL

\* Nothing that happens to a turn leaves it in progress with nobody to end it, but
\* a restart that finds it so in its snapshot, until recover.
THEOREM TurnsInProgressExecuted == Spec => []TurnsInProgressAreExecuted
<1>1. TurnsInv => TurnsInProgressAreExecuted
  BY DEF TurnsInv, EngineInv, TurnsOK, Fits, TurnsInProgressAreExecuted
<1>2. QED
  BY <1>1, TurnsInvariant, PTL

\* A protected tool call is never under way without the approval of a user,
\* across cancelling, rejecting, saving, a restart and recovery.
THEOREM ApprovalAsked == Spec => []ApprovalIsAsked
<1>1. TurnsInv => ApprovalIsAsked
  BY DEF TurnsInv, EngineInv, CallsOK, Permitted, ApprovalIsAsked
<1>2. QED
  BY <1>1, TurnsInvariant, PTL
=============================================================================
