-------------------- MODULE ExecutionTransactionProofs --------------------
(* Proofs about ExecutionTransaction, for every number of steps, of        *)
(* generations and of edits that are open at once, and every bound.        *)
EXTENDS ExecutionTransaction, TLAPS

---------------------------------------------------------------------------
(* Types *)

\* What is public of a transaction has the type of what the panel shows.
LEMMA PublicType ==
  ASSUME NEW t \in Transactions, NEW ss \in StepStates
  PROVE  Public(t, ss) \in Shown
BY DEF Public, Transactions, StepStates, Shown

\* The initial state has the types.
LEMMA InitType == Init => TypeOK
<1> SUFFICES ASSUME Init PROVE TypeOK
  OBVIOUS
<1>1. 1 \in Steps
  BY StepsAssumption DEF Steps
<1>2. transaction \in Transactions
  BY <1>1 DEF Init, NewTransaction, Transactions, Statuses
<1>3. step \in StepStates
  BY DEF Init, NewStep, StepStates, StepStatuses, Proposals
<1>4. panel \in PanelStates
  <2>1. Public(transaction, step) \in Shown
    BY <1>2, <1>3, PublicType
  <2>2. QED
    BY <2>1 DEF Init, PanelStates
<1>5. file \in [Steps -> Texts] /\ generation \in GenerationStates /\ edit \in EditStates
  BY <1>1 DEF Init, Texts, NoGeneration, GenerationStates, NoEdit, EditStates
<1>6. active \in Proposals /\ clicks \in 0..MaxClicks
  BY StepsAssumption DEF Init, Proposals
<1>7. disturbed \in BOOLEAN /\ late \subseteq Steps
  BY Zenon DEF Init
<1>8. QED
  BY <1>2, <1>3, <1>4, <1>5, <1>6, <1>7 DEF TypeOK

\* What a call leaves when it returns has the types.
LEMMA ReturnsType ==
  ASSUME TypeOK, NEW e \in Edits, NEW shown \in Shown, Returns(e, shown)
  PROVE  edit' \in EditStates /\ panel' \in PanelStates
<1>1. NoEdit \in [at : {"idle", "rules", "check", "write", "verify"}, kind : {"apply", "rollback"},
                  of : Steps, text : Texts \ {"user"}, left : SUBSET Steps]
  BY StepsAssumption DEF NoEdit, Steps, Texts
<1>2. edit' \in EditStates
  BY <1>1 DEF TypeOK, Returns, EditStates
<1>3. panel' \in PanelStates
  BY DEF TypeOK, Returns, PanelStates
<1>4. QED
  BY <1>2, <1>3

\* A panel that is shown a transaction has the type.
LEMMA ShowsType ==
  ASSUME TypeOK, NEW t \in Transactions, NEW ss \in StepStates, Shows(t, ss)
  PROVE  panel' \in PanelStates
<1>1. Public(t, ss) \in Shown
  BY PublicType
<1>2. QED
  BY <1>1 DEF TypeOK, Shows, PanelStates

\* A click is counted within its bound.
LEMMA ClickType == TypeOK /\ Click => clicks' \in 0..MaxClicks
BY StepsAssumption DEF TypeOK, Click

\* A rejection gives steps and a transaction of their types.
LEMMA RejectedType ==
  ASSUME TypeOK
  PROVE  /\ Rejected \in StepStates
         /\ [transaction EXCEPT !.status = "prepared"] \in Transactions
<1>1. Rejected \in StepStates
  BY DEF TypeOK, Rejected, StepStates, StepStatuses, Proposals, Transactions
<1>2. [transaction EXCEPT !.status = "prepared"] \in Transactions
  BY DEF TypeOK, Transactions, Statuses
<1>3. QED
  BY <1>1, <1>2

\* Opening a generation keeps the types.
LEMMA ProposeType == TypeOK /\ Propose => generation' \in GenerationStates /\ disturbed' \in BOOLEAN
<1> SUFFICES ASSUME TypeOK, Propose
             PROVE  generation' \in GenerationStates /\ disturbed' \in BOOLEAN
  OBVIOUS
<1>1. generation' \in GenerationStates
  BY DEF TypeOK, Propose, GenerationStates
<1>2. disturbed' \in BOOLEAN
  BY Zenon DEF TypeOK, Propose
<1>3. QED
  BY <1>1, <1>2

\* Ending one does.
LEMMA GenerationEndsType ==
  ASSUME TypeOK, NEW g \in Generations, GenerationEnds(g)
  PROVE  generation' \in GenerationStates /\ active' \in Proposals
BY StepsAssumption DEF TypeOK, GenerationEnds, NoGeneration, GenerationStates, Steps, Proposals

\* Changing the status of the transaction, or of a step, keeps their types.
LEMMA StatusType ==
  ASSUME TypeOK, NEW x \in Statuses
  PROVE  [transaction EXCEPT !.status = x] \in Transactions
BY DEF TypeOK, Transactions

LEMMA FailedType ==
  ASSUME TypeOK, NEW s \in Steps
  PROVE  [step EXCEPT ![s].status = "failed"] \in StepStates
BY DEF TypeOK, StepStates, StepStatuses

\* Returning with a failed step and transaction keeps the types.
LEMMA FailsType ==
  ASSUME TypeOK, NEW e \in Edits, NEW s \in Steps, Fails(e, s)
  PROVE  /\ step' \in StepStates /\ transaction' \in Transactions
         /\ edit' \in EditStates /\ panel' \in PanelStates
<1>1. step' \in StepStates /\ transaction' \in Transactions
  BY FailedType, StatusType DEF Fails, Statuses
<1>2. panel.shown \in Shown
  BY DEF TypeOK, PanelStates
<1>3. edit' \in EditStates /\ panel' \in PanelStates
  BY <1>2, ReturnsType DEF Fails
<1>4. QED
  BY <1>1, <1>3

\* The end of a rollback does.
LEMMA RollbackEndsType ==
  ASSUME TypeOK, NEW e \in Edits, NEW ss \in StepStates, RollbackEnds(e, ss)
  PROVE  /\ step' \in StepStates /\ transaction' \in Transactions
         /\ edit' \in EditStates /\ panel' \in PanelStates
<1>1. step' \in StepStates
  BY DEF RollbackEnds
<1>2. transaction' \in Transactions
  BY DEF RollbackEnds, TypeOK, Transactions, Statuses
<1>3. Public(transaction', ss) \in Shown
  BY <1>2, PublicType
<1>4. edit' \in EditStates /\ panel' \in PanelStates
  BY <1>3, ReturnsType DEF RollbackEnds
<1>5. QED
  BY <1>1, <1>2, <1>4

\* A new call of applyStep or rollbackTransaction has the types.
LEMMA OpensType ==
  ASSUME TypeOK, NEW e \in Edits, NEW kind \in {"apply", "rollback"}, NEW s \in Steps,
         NEW left \in SUBSET Steps,
         Opens(e, [NoEdit EXCEPT !.at = "check", !.kind = kind, !.of = s, !.left = left])
  PROVE  edit' \in EditStates /\ panel' \in PanelStates
<1>1. edit' \in EditStates
  BY StepsAssumption DEF TypeOK, Opens, NoEdit, EditStates, Texts
<1>2. panel' \in PanelStates
  BY DEF TypeOK, Opens, PanelStates
<1>3. QED
  BY <1>1, <1>2

\* Every step keeps the types.
LEMMA NextType == TypeOK /\ [Next]_vars => TypeOK'
<1> SUFFICES ASSUME TypeOK, [Next]_vars PROVE TypeOK'
  OBVIOUS
<1>1. CASE Generate
  <2>1. generation' \in GenerationStates /\ disturbed' \in BOOLEAN /\ clicks' \in 0..MaxClicks
    BY <1>1, ProposeType, ClickType DEF Generate
  <2>2. QED
    BY <1>1, <2>1 DEF Generate, TypeOK
<1>2. CASE Reject
  <2>1. step' \in StepStates /\ transaction' \in Transactions
    BY <1>2, RejectedType DEF Reject
  <2>2. panel' \in PanelStates
    BY <1>2, <2>1, ShowsType DEF Reject
  <2>3. clicks' \in 0..MaxClicks
    BY <1>2, ClickType DEF Reject, Press
  <2>4. QED
    BY <1>2, <2>1, <2>2, <2>3 DEF Reject, TypeOK
<1>3. CASE Regenerate
  <2>1. step' \in StepStates /\ transaction' \in Transactions
    BY <1>3, RejectedType DEF Regenerate, TypeOK
  <2>2. generation' \in GenerationStates /\ disturbed' \in BOOLEAN
    BY <1>3, ProposeType DEF Regenerate
  <2>3. clicks' \in 0..MaxClicks
    BY <1>3, ClickType DEF Regenerate, Press
  <2>4. QED
    BY <1>3, <2>1, <2>2, <2>3 DEF Regenerate, TypeOK
<1>4. CASE Cancel
  <2>1. transaction' \in Transactions
    BY <1>4 DEF Cancel, TypeOK, Transactions, Statuses
  <2>2. panel' \in PanelStates
    BY <1>4, <2>1, ShowsType DEF Cancel, TypeOK
  <2>3. clicks' \in 0..MaxClicks
    BY <1>4, ClickType DEF Cancel, Press
  <2>4. QED
    BY <1>4, <2>1, <2>2, <2>3 DEF Cancel, TypeOK
<1>5. CASE Keep
  <2>1. transaction' \in Transactions
    BY <1>5 DEF Keep, TypeOK, Transactions, Statuses
  <2>2. step' \in StepStates
    BY <1>5 DEF Keep, TypeOK, StepStates, Proposals
  <2>3. panel' \in PanelStates
    BY <1>5, <2>1, <2>2, ShowsType DEF Keep
  <2>4. clicks' \in 0..MaxClicks
    BY <1>5, ClickType DEF Keep, Press
  <2>5. QED
    BY <1>5, <2>1, <2>2, <2>3, <2>4 DEF Keep, TypeOK
<1>6. CASE Reopen
  <2>1. Public(transaction, step) \in Shown
    BY PublicType DEF TypeOK
  <2>2. panel' \in PanelStates
    BY <1>6, <2>1 DEF Reopen, PanelStates
  <2>3. disturbed' \in BOOLEAN
    BY <1>6, Zenon DEF Reopen, TypeOK
  <2>4. QED
    BY <1>6, <2>2, <2>3 DEF Reopen, TypeOK
<1>7. CASE RulesChange
  <2>1. transaction' \in Transactions
    BY <1>7 DEF RulesChange, TypeOK, Transactions
  <2>2. QED
    BY <1>7, <2>1 DEF RulesChange, TypeOK
<1>8. ASSUME NEW g \in Generations, GenerationStarts(g)
      PROVE  TypeOK'
  <2>1. CASE /\ active' = g
             /\ generation' = [generation EXCEPT ![g] = [at |-> "read", of |-> transaction.current]]
             /\ transaction' = [transaction EXCEPT !.status = "generating"]
    <3>1. transaction' \in Transactions
      BY <2>1, StatusType DEF Statuses
    <3>2. generation' \in GenerationStates /\ active' \in Proposals
      BY <2>1 DEF TypeOK, Transactions, GenerationStates, Proposals
    <3>3. QED
      BY <1>8, <3>1, <3>2 DEF GenerationStarts, TypeOK
  <2>2. CASE /\ GenerationEnds(g)
             /\ transaction' = IF ~transaction.abort /\ ~transaction.fresh
                                 THEN [transaction EXCEPT !.status = "paused"] ELSE transaction
    <3>1. transaction' \in Transactions
      BY <2>2, StatusType DEF Statuses, TypeOK
    <3>2. generation' \in GenerationStates /\ active' \in Proposals
      BY <2>2, GenerationEndsType
    <3>3. QED
      BY <1>8, <3>1, <3>2 DEF GenerationStarts, TypeOK
  <2>3. QED
    BY <1>8, <2>1, <2>2 DEF GenerationStarts
<1>9. ASSUME NEW g \in Generations, GenerationReads(g)
      PROVE  TypeOK'
  <2>1. generation[g].of \in Steps
    BY DEF TypeOK, GenerationStates
  <2>2. CASE /\ generation' = [generation EXCEPT ![g].at = "model"]
             /\ UNCHANGED <<transaction, step, active>>
    <3>1. generation' \in GenerationStates
      BY <2>2 DEF TypeOK, GenerationStates
    <3>2. QED
      BY <1>9, <2>2, <3>1 DEF GenerationReads, TypeOK
  <2>3. CASE /\ step' = [step EXCEPT ![generation[g].of].status = "failed"]
             /\ transaction' = [transaction EXCEPT !.status = "failed"]
             /\ GenerationEnds(g)
    <3>1. step' \in StepStates /\ transaction' \in Transactions
      BY <2>1, <2>3, FailedType, StatusType DEF Statuses
    <3>2. generation' \in GenerationStates /\ active' \in Proposals
      BY <2>3, GenerationEndsType
    <3>3. QED
      BY <1>9, <3>1, <3>2 DEF GenerationReads, TypeOK
  <2>4. QED
    BY <1>9, <2>2, <2>3 DEF GenerationReads
<1>10. ASSUME NEW g \in Generations, GenerationAnswers(g)
       PROVE  TypeOK'
  <2>1. transaction' \in Transactions
    BY <1>10, StatusType DEF GenerationAnswers, Statuses
  <2>2. generation[g].of \in Steps
    BY DEF TypeOK, GenerationStates
  <2>3. step' \in StepStates
    BY <1>10, <2>2 DEF GenerationAnswers, TypeOK, StepStates, StepStatuses, Proposals
  <2>4. panel' \in PanelStates
    BY <1>10, <2>1, <2>3, ShowsType DEF GenerationAnswers
  <2>5. generation' \in GenerationStates /\ active' \in Proposals
    BY <1>10, GenerationEndsType DEF GenerationAnswers
  <2>6. QED
    BY <1>10, <2>1, <2>3, <2>4, <2>5 DEF GenerationAnswers, TypeOK
<1>11. ASSUME NEW g \in Generations, GenerationThrows(g)
       PROVE  TypeOK'
  <2>1. CASE generation' = [generation EXCEPT ![g] = NoGeneration] /\ UNCHANGED active
    <3>1. generation' \in GenerationStates
      BY <2>1, StepsAssumption DEF TypeOK, GenerationStates, NoGeneration, Steps
    <3>2. QED
      BY <1>11, <2>1, <3>1 DEF GenerationThrows, TypeOK
  <2>2. CASE GenerationEnds(g)
    <3>1. generation' \in GenerationStates /\ active' \in Proposals
      BY <2>2, GenerationEndsType
    <3>2. QED
      BY <1>11, <3>1 DEF GenerationThrows, TypeOK
  <2>3. QED
    BY <1>11, <2>1, <2>2 DEF GenerationThrows
<1>12. ASSUME NEW e \in Edits, Apply(e)
       PROVE  TypeOK'
  <2>1. clicks' \in 0..MaxClicks
    BY <1>12, ClickType DEF Apply, Press
  <2>2. transaction.current \in Steps
    BY DEF TypeOK, Transactions
  <2>3. edit' \in EditStates
    BY <1>12, <2>2, StepsAssumption DEF Apply, TypeOK, Opens, NoEdit, EditStates, Texts
  <2>4. panel' \in PanelStates
    BY <1>12 DEF Apply, TypeOK, Opens, PanelStates
  <2>5. QED
    BY <1>12, <2>1, <2>3, <2>4 DEF Apply, TypeOK
<1>23. ASSUME NEW e \in Edits, ApplyBegins(e)
       PROVE  TypeOK'
  <2>1. transaction' \in Transactions
    BY <1>23, StatusType DEF ApplyBegins, Statuses, TypeOK
  <2>2. CASE Returns(e, panel.shown)
    <3>1. panel.shown \in Shown
      BY DEF TypeOK, PanelStates
    <3>2. edit' \in EditStates /\ panel' \in PanelStates
      BY <2>2, <3>1, ReturnsType
    <3>3. QED
      BY <1>23, <2>1, <3>2 DEF ApplyBegins, TypeOK
  <2>3. CASE /\ edit' = [edit EXCEPT ![e].at = "check", ![e].of = transaction.current]
             /\ UNCHANGED panel
    <3>1. transaction.current \in Steps
      BY DEF TypeOK, Transactions
    <3>2. edit' = [edit EXCEPT ![e] = [edit[e] EXCEPT !.at = "check", !.of = transaction.current]]
      BY <2>3 DEF TypeOK, EditStates
    <3>3. edit' \in EditStates
      BY <3>1, <3>2 DEF TypeOK, EditStates
    <3>4. QED
      BY <1>23, <2>1, <2>3, <3>3 DEF ApplyBegins, TypeOK
  <2>4. QED
    BY <1>23, <2>2, <2>3 DEF ApplyBegins
<1>13. ASSUME NEW e \in Edits, ApplyChecks(e)
       PROVE  TypeOK'
  <2>1. edit[e].of \in Steps
    BY DEF TypeOK, EditStates
  <2>2. CASE Fails(e, edit[e].of)
    BY <1>13, <2>1, <2>2, FailsType DEF ApplyChecks, TypeOK
  <2>3. CASE /\ step[edit[e].of].proposal # None
             /\ edit' = [edit EXCEPT ![e].at = "write", ![e].text = step[edit[e].of].proposal]
             /\ UNCHANGED <<transaction, step, panel>>
    <3>1. step[edit[e].of].proposal \in Texts \ {"user"}
      BY <2>1, <2>3, StepsAssumption DEF TypeOK, StepStates, Proposals, Texts
    <3>2. edit' \in EditStates
      BY <2>3, <3>1 DEF TypeOK, EditStates
    <3>3. QED
      BY <1>13, <2>3, <3>2 DEF ApplyChecks, TypeOK
  <2>4. QED
    BY <1>13, <2>2, <2>3 DEF ApplyChecks
<1>14. ASSUME NEW e \in Edits, EditWrites(e)
       PROVE  TypeOK'
  <2>1. edit' \in EditStates
    BY <1>14 DEF EditWrites, TypeOK, EditStates
  <2>2. file' \in [Steps -> Texts]
    BY <1>14 DEF EditWrites, TypeOK, EditStates
  <2>3. QED
    BY <1>14, <2>1, <2>2 DEF EditWrites, TypeOK
<1>15. ASSUME NEW e \in Edits, ApplyVerifies(e)
       PROVE  TypeOK'
  <2>1. edit[e].of \in Steps
    BY DEF TypeOK, EditStates
  <2>2. CASE Fails(e, edit[e].of)
    BY <1>15, <2>1, <2>2, FailsType DEF ApplyVerifies, TypeOK
  <2>3. CASE ApplySucceeds(e)
    <3>1. step' \in StepStates
      BY <2>1, <2>3 DEF ApplySucceeds, TypeOK, StepStates, StepStatuses
    <3>2. Advanced(edit[e].of) \in Steps
      BY <2>1, StepsAssumption DEF Advanced, TypeOK, Transactions, Steps
    <3>3. transaction' \in Transactions
      BY <2>3, <3>2 DEF ApplySucceeds, TypeOK, Transactions, Statuses
    <3>4. Public(transaction', step') \in Shown
      BY <3>1, <3>3, PublicType
    <3>5. edit' \in EditStates /\ panel' \in PanelStates
      BY <2>3, <3>4, ReturnsType DEF ApplySucceeds
    <3>6. QED
      BY <1>15, <3>1, <3>3, <3>5 DEF ApplyVerifies, TypeOK
  <2>4. QED
    BY <1>15, <2>2, <2>3 DEF ApplyVerifies
<1>16. ASSUME NEW e \in Edits, Rollback(e)
       PROVE  TypeOK'
  <2>1. clicks' \in 0..MaxClicks
    BY <1>16, ClickType DEF Rollback, Press
  <2>2. CASE RollbackEnds(e, step)
    <3>1. step \in StepStates
      BY DEF TypeOK
    <3>2. /\ step' \in StepStates /\ transaction' \in Transactions
          /\ edit' \in EditStates /\ panel' \in PanelStates
      BY <2>2, <3>1, RollbackEndsType
    <3>3. QED
      BY <1>16, <2>1, <3>2 DEF Rollback, TypeOK
  <2>3. ASSUME NEW s \in Steps,
               Opens(e, [NoEdit EXCEPT !.at = "check", !.kind = "rollback", !.of = s,
                                       !.left = ToRestore \ {s}]),
               UNCHANGED <<transaction, step>>
        PROVE  TypeOK'
    <3>1. ToRestore \ {s} \in SUBSET Steps
      BY DEF ToRestore, Applied
    <3>2. edit' \in EditStates /\ panel' \in PanelStates
      BY <2>3, <3>1, OpensType
    <3>3. QED
      BY <1>16, <2>1, <2>3, <3>2 DEF Rollback, TypeOK
  <2>4. QED
    BY <1>16, <2>2, <2>3 DEF Rollback
<1>17. ASSUME NEW e \in Edits, RollbackChecks(e)
       PROVE  TypeOK'
  <2>1. step[edit[e].of].original \in Texts \ {"user"}
    BY DEF TypeOK, EditStates, StepStates, Texts
  <2>2. edit' \in EditStates
    BY <1>17, <2>1 DEF RollbackChecks, TypeOK, EditStates
  <2>3. QED
    BY <1>17, <2>2 DEF RollbackChecks, TypeOK
<1>18. ASSUME NEW e \in Edits, RollbackVerifies(e)
       PROVE  TypeOK'
  <2> DEFINE restored == [step EXCEPT ![edit[e].of].status = "pending",
                                      ![edit[e].of].applied = None,
                                      ![edit[e].of].proposal = None]
  <2>1. edit[e].of \in Steps
    BY DEF TypeOK, EditStates
  <2>2. restored \in StepStates
    BY <2>1 DEF TypeOK, StepStates, StepStatuses, Proposals
  <2> HIDE DEF restored
  <2>3. CASE RollbackEnds(e, restored)
    <3>1. /\ step' \in StepStates /\ transaction' \in Transactions
          /\ edit' \in EditStates /\ panel' \in PanelStates
      BY <2>2, <2>3, RollbackEndsType
    <3>2. QED
      BY <1>18, <3>1 DEF RollbackVerifies, TypeOK
  <2>4. ASSUME NEW s \in Steps,
               step' = restored,
               edit' = [edit EXCEPT ![e].at = "check", ![e].of = s, ![e].left = @ \ {s}],
               UNCHANGED <<transaction, panel>>
        PROVE  TypeOK'
    <3>1. edit[e].left \ {s} \in SUBSET Steps
      BY DEF TypeOK, EditStates
    <3>2. edit' = [edit EXCEPT ![e] = [edit[e] EXCEPT !.at = "check", !.of = s,
                                                      !.left = edit[e].left \ {s}]]
      BY <2>4 DEF TypeOK, EditStates
    <3>3. edit' \in EditStates
      BY <3>1, <3>2 DEF TypeOK, EditStates
    <3>4. QED
      BY <1>18, <2>2, <2>4, <3>3 DEF RollbackVerifies, TypeOK
  <2>5. QED
    BY <1>18, <2>3, <2>4 DEF RollbackVerifies, restored
<1>19. ASSUME NEW e \in Edits, EditThrows(e)
       PROVE  TypeOK'
  <2>1. panel.shown \in Shown
    BY DEF TypeOK, PanelStates
  <2>2. edit' \in EditStates /\ panel' \in PanelStates
    BY <1>19, <2>1, ReturnsType DEF EditThrows
  <2>3. disturbed' \in BOOLEAN
    BY <1>19, Zenon DEF EditThrows, TypeOK
  <2>4. QED
    BY <1>19, <2>2, <2>3 DEF EditThrows, TypeOK
<1>20. ASSUME NEW s \in Steps, UserSaves(s)
       PROVE  TypeOK'
  <2>1. file' \in [Steps -> Texts]
    BY <1>20 DEF UserSaves, TypeOK, Texts
  <2>2. QED
    BY <1>20, <2>1 DEF UserSaves, TypeOK
<1>21. CASE UNCHANGED vars
  BY <1>21 DEF vars, TypeOK
<1>22. QED
  BY <1>1, <1>2, <1>3, <1>4, <1>5, <1>6, <1>7, <1>8, <1>9, <1>10, <1>11, <1>12, <1>13, <1>14,
     <1>15, <1>16, <1>17, <1>18, <1>19, <1>20, <1>21, <1>23 DEF Next

\* The variables have their types in every reachable state.
THEOREM TypeCorrect == Spec => []TypeOK
BY InitType, NextType, PTL DEF Spec

---------------------------------------------------------------------------
(* Texts of the user *)

\* An edit that is about to write has found a text that is not the user's: if
\* there is one, it was saved since.
WritesOverKnown ==
  \A e \in Edits : edit[e].at = "write" /\ edit[e].of \notin late => file[edit[e].of] # "user"

\* The inductive invariant.
Known == TypeOK /\ WritesOverKnown

\* No step replaces a text of the user that is not late.
LEMMA StepKeepsUserText ==
  ASSUME Known, [Next]_vars, NEW s \in Steps \ late, file[s] = "user"
  PROVE  file'[s] = "user"
<1>1. ASSUME NEW e \in Edits, EditWrites(e)
      PROVE  file'[s] = "user"
  BY <1>1 DEF Known, TypeOK, WritesOverKnown, EditWrites
<1>2. ASSUME NEW t \in Steps, UserSaves(t)
      PROVE  file'[s] = "user"
  BY <1>2 DEF Known, TypeOK, UserSaves
<1>3. ASSUME UNCHANGED file
      PROVE  file'[s] = "user"
  BY <1>3
<1>4. QED
  BY <1>1, <1>2, <1>3
  DEF Next, vars, Generate, Regenerate, Reject, Cancel, Keep, Reopen, RulesChange,
      GenerationStarts, GenerationReads, GenerationAnswers, GenerationThrows,
      Apply, ApplyBegins, ApplyChecks, ApplyVerifies, Rollback, RollbackChecks,
      RollbackVerifies, EditThrows

\* Every step keeps the invariant.
LEMMA KnownType == Known /\ [Next]_vars => WritesOverKnown'
<1> SUFFICES ASSUME Known, [Next]_vars, NEW d \in Edits, edit'[d].at = "write",
                    edit'[d].of \notin late'
             PROVE  file'[edit'[d].of] # "user"
  BY DEF WritesOverKnown
<1> USE DEF Known, TypeOK, WritesOverKnown
<1>1. ASSUME UNCHANGED <<file, edit, late>>
      PROVE  file'[edit'[d].of] # "user"
  BY <1>1
<1>2. ASSUME NEW e \in Edits, NEW shown, Returns(e, shown), UNCHANGED <<file, late>>
      PROVE  file'[edit'[d].of] # "user"
  BY <1>2 DEF Returns, NoEdit, EditStates
<1>3. ASSUME NEW e \in Edits, Apply(e)
      PROVE  file'[edit'[d].of] # "user"
  <2>1. edit' = [edit EXCEPT ![e] = [NoEdit EXCEPT !.at = "rules", !.of = transaction.current]]
    BY <1>3 DEF Apply, Opens
  <2>2. d # e /\ edit'[d] = edit[d]
    BY <2>1 DEF NoEdit, EditStates
  <2>3. QED
    BY <1>3, <2>2 DEF Apply
<1>13. ASSUME NEW e \in Edits, ApplyBegins(e)
       PROVE  file'[edit'[d].of] # "user"
  <2>1. CASE Returns(e, panel.shown)
    BY <1>2, <1>13, <2>1 DEF ApplyBegins
  <2>2. CASE edit' = [edit EXCEPT ![e].at = "check", ![e].of = transaction.current]
    <3>1. d # e /\ edit'[d] = edit[d]
      BY <2>2 DEF EditStates
    <3>2. QED
      BY <1>13, <3>1 DEF ApplyBegins
  <2>3. QED
    BY <1>13, <2>1, <2>2 DEF ApplyBegins
<1>4. ASSUME NEW e \in Edits, ApplyChecks(e)
      PROVE  file'[edit'[d].of] # "user"
  <2>1. CASE Fails(e, edit[e].of)
    BY <1>4, <1>2, <2>1 DEF ApplyChecks, Fails
  <2>2. CASE /\ file[edit[e].of] = "base"
             /\ edit' = [edit EXCEPT ![e].at = "write", ![e].text = step[edit[e].of].proposal]
    BY <1>4, <2>2 DEF ApplyChecks, EditStates
  <2>3. QED
    BY <1>4, <2>1, <2>2 DEF ApplyChecks
<1>5. ASSUME NEW e \in Edits, EditWrites(e)
      PROVE  file'[edit'[d].of] # "user"
  BY <1>5 DEF EditWrites, EditStates
<1>6. ASSUME NEW e \in Edits, ApplyVerifies(e)
      PROVE  file'[edit'[d].of] # "user"
  BY <1>2, <1>6 DEF ApplyVerifies, Fails, ApplySucceeds
<1>7. ASSUME NEW e \in Edits, Rollback(e)
      PROVE  file'[edit'[d].of] # "user"
  <2>1. CASE RollbackEnds(e, step)
    BY <1>2, <1>7, <2>1 DEF Rollback, RollbackEnds
  <2>2. ASSUME NEW s \in Steps,
               Opens(e, [NoEdit EXCEPT !.at = "check", !.kind = "rollback", !.of = s,
                                       !.left = ToRestore \ {s}])
        PROVE  file'[edit'[d].of] # "user"
    BY <1>7, <2>2 DEF Rollback, Opens, NoEdit, EditStates
  <2>3. QED
    BY <1>7, <2>1, <2>2 DEF Rollback
<1>8. ASSUME NEW e \in Edits, RollbackChecks(e)
      PROVE  file'[edit'[d].of] # "user"
  <2>1. Expected(edit[e].of) # "user"
    BY StepsAssumption DEF Expected, StepStates, Proposals, EditStates
  <2>2. QED
    BY <1>8, <2>1 DEF RollbackChecks, EditStates
<1>9. ASSUME NEW e \in Edits, RollbackVerifies(e)
      PROVE  file'[edit'[d].of] # "user"
  <2> DEFINE restored == [step EXCEPT ![edit[e].of].status = "pending",
                                      ![edit[e].of].applied = None,
                                      ![edit[e].of].proposal = None]
  <2> HIDE DEF restored
  <2>1. CASE RollbackEnds(e, restored)
    BY <1>2, <1>9, <2>1 DEF RollbackVerifies, RollbackEnds
  <2>2. ASSUME NEW s \in Steps,
               edit' = [edit EXCEPT ![e].at = "check", ![e].of = s, ![e].left = @ \ {s}]
        PROVE  file'[edit'[d].of] # "user"
    <3>1. edit' = [edit EXCEPT ![e] = [edit[e] EXCEPT !.at = "check", !.of = s,
                                                      !.left = edit[e].left \ {s}]]
      BY <2>2 DEF EditStates
    <3>2. d # e /\ edit'[d] = edit[d]
      BY <3>1 DEF EditStates
    <3>3. QED
      BY <1>9, <3>2 DEF RollbackVerifies
  <2>3. QED
    BY <1>9, <2>1, <2>2 DEF RollbackVerifies, restored
<1>10. ASSUME NEW s \in Steps, UserSaves(s)
       PROVE  file'[edit'[d].of] # "user"
  BY <1>10 DEF UserSaves, EditStates
<1>11. ASSUME NEW e \in Edits, EditThrows(e)
       PROVE  file'[edit'[d].of] # "user"
  BY <1>2, <1>11 DEF EditThrows
<1>12. QED
  BY <1>1, <1>3, <1>4, <1>5, <1>6, <1>7, <1>8, <1>9, <1>10, <1>11, <1>13
  DEF Next, vars, Generate, Regenerate, Reject, Cancel, Keep, Reopen, RulesChange,
      GenerationStarts, GenerationReads, GenerationAnswers, GenerationThrows

\* A text the user saved is replaced only when it was saved between the comparison
\* of an edit and its write, in whatever order the calls of applyStep,
\* rollbackTransaction and the user's saves interleave.
THEOREM UserTextIsKept == Spec => UserTextSurvives
<1>1. Init => Known
  <2>1. Init => WritesOverKnown
    BY DEF Init, WritesOverKnown, NoEdit
  <2>2. QED
    BY <2>1, InitType DEF Known
<1>2. Known /\ [Next]_vars => Known'
  BY NextType, KnownType DEF Known
<1>3. Known /\ [Next]_vars => [\A s \in Steps \ late : file[s] = "user" => file'[s] = "user"]_vars
  BY StepKeepsUserText
<1>4. QED
  BY <1>1, <1>2, <1>3, PTL DEF Spec, UserTextSurvives

---------------------------------------------------------------------------
(* Changes can be rolled back *)

IsOpen(e) == edit[e].at # "idle"
Applies(e) == edit[e].at \in {"check", "write", "verify"} /\ edit[e].kind = "apply"
RollsBack(e) == IsOpen(e) /\ edit[e].kind = "rollback"
Generates(g) == generation[g].at # "idle"
Works(g) == generation[g].at \in {"read", "model"}

\* The steps before the current one are applied, as long as no rollback has
\* restored some and failed.
InOrder == 1..(transaction.current - 1) \subseteq Applied(step)

\* What the panel was told when the user stopped.
Stopped == panel.shown.status = "cancelled" /\ HasApplied(panel.shown)

\* No step will be applied any more.
Doomed ==
  \/ ~transaction.fresh
  \/ file[transaction.current] = "user"
  \/ transaction.status = "completed"
  \/ Stopped

OneAtATime ==
  /\ \A g, h \in Generations : Generates(g) /\ Generates(h) => g = h
  /\ \A e \in Edits : IsOpen(e) => panel.busy = e /\ transaction.registered
  /\ \A g \in Generations, e \in Edits : ~(Generates(g) /\ Applies(e))

\* How far a panel that is not told of everything can be behind.
PanelFollows ==
  /\ panel.shown.current = transaction.current
  /\ \A s \in Steps : step[s].proposal \in {None, panel.shown.step[s].proposal}
  /\ transaction.registered =>
       /\ Applied(step) \subseteq Applied(panel.shown.step)
       /\ Applied(panel.shown.step) # {} => Applied(step) # {}

\* What the states of the transaction and of the panel stand for.
Outcomes ==
  /\ transaction.status = "paused" \/ panel.shown.status = "paused" => ~transaction.fresh
  /\ transaction.status = "cancelled" \/ panel.shown.status = "cancelled" => transaction.abort
  /\ transaction.registered =>
       /\ transaction.status = "failed" \/ panel.shown.status = "failed"
            => file[transaction.current] = "user"
       /\ transaction.status = "completed" <=> panel.shown.status = "completed"
       /\ transaction.status = "completed" => \A g \in Generations : ~Generates(g)
       /\ Stopped => transaction.status \in {"cancelled", "failed"}
  /\ transaction.status = "rolled-back" => ~transaction.registered /\ Applied(step) = {}

Originals ==
  /\ transaction.registered => \A s \in Steps : step[s].original = "base"
  /\ \A s \in Steps : file[s] # "empty"

Generating ==
  \A g \in Generations :
    /\ Generates(g) /\ transaction.registered => Current.proposal = None
    /\ Works(g) => step[generation[g].of].status # "applied"
    /\ Works(g) /\ transaction.registered => generation[g].of = transaction.current

Advancing ==
  transaction.registered =>
    /\ InOrder \/ Doomed
    /\ Applied(step) \subseteq 1..transaction.current
    /\ Current.status = "applied" => transaction.status = "completed"

\* An apply that waits for the rules: nothing is known of the proposal yet.
Waiting ==
  \A e \in Edits : edit[e].at = "rules" => edit[e].kind = "apply" /\ ShowsReview(panel.shown)

Applying ==
  \A e \in Edits : Applies(e) =>
    /\ edit[e].of = transaction.current
    /\ Current.proposal # None /\ Current.status # "applied"
    /\ ShowsReview(panel.shown)
    /\ edit[e].at = "check" => InOrder \/ file[transaction.current] = "user"
    /\ edit[e].at \in {"write", "verify"} => InOrder /\ edit[e].text = Current.proposal
    /\ edit[e].at = "write" => transaction.status # "failed" /\ panel.shown.status # "failed"
    /\ edit[e].at = "verify" => file[transaction.current] \in {edit[e].text, "user"}

RollingBack ==
  \A e \in Edits : RollsBack(e) =>
    /\ Applied(step) = edit[e].left \union {edit[e].of} /\ edit[e].of \notin edit[e].left
    /\ edit[e].at = "write" => edit[e].text = "base"
    /\ Doomed

Accounting == \A s \in Steps : file[s] \in Generations => IsAccounted(s)

\* What holds until generations or panels overlap or a call fails after its write.
Calm ==
  /\ OneAtATime /\ PanelFollows /\ Outcomes /\ Originals /\ Generating
  /\ Advancing /\ Waiting /\ Applying /\ RollingBack /\ Accounting

\* A step of a transaction that is calm, and stays so.
CalmStep == TypeOK /\ TypeOK' /\ Calm /\ ~disturbed /\ ~disturbed'

\* A generation that is opened is the only one, and none is when one is active.
LEMMA ProposeFacts ==
  ASSUME CalmStep, Propose
  PROVE  \/ generation' = generation
         \/ \E g \in Generations :
              /\ generation' = [generation EXCEPT ![g].at = "available"]
              /\ \A h \in Generations : generation[h].at = "idle"
  BY DEF CalmStep, Propose

\* What an open generation needs of the other state.
LEMMA ProposeCalm ==
  ASSUME CalmStep, Propose, \A e \in Edits : ~Applies(e)
  PROVE  /\ \A g, h \in Generations : Generates(g)' /\ Generates(h)' => g = h
         /\ \A g \in Generations : Works(g)' => Works(g) /\ generation'[g] = generation[g]
<1>1. \A g, h \in Generations : Generates(g) /\ Generates(h) => g = h
  BY DEF CalmStep, Calm, OneAtATime
<1>2. generation \in GenerationStates
  BY DEF CalmStep, TypeOK
<1>3. ASSUME NEW g \in Generations, generation' = [generation EXCEPT ![g].at = "available"],
             \A h \in Generations : generation[h].at = "idle"
      PROVE  \A h \in Generations : /\ generation'[h].at = IF h = g THEN "available" ELSE "idle"
                                    /\ h # g => generation'[h] = generation[h]
  BY <1>2, <1>3 DEF GenerationStates
<1>4. QED
  BY <1>1, <1>3, ProposeFacts DEF Generates, Works

LEMMA GenerateCalm ==
  ASSUME CalmStep, Generate
  PROVE  Calm'
<1>1. Calm /\ Propose /\ UNCHANGED <<file, transaction, step, active, edit, panel>>
  BY DEF CalmStep, Generate
<1>2. /\ panel.shown.step[panel.shown.current].proposal = None
      /\ ~ShowsFinalize(panel.shown) /\ ~ShowsReview(panel.shown)
  BY DEF Generate, ShowsPrepare, ShowsReview
<1>3. \A e \in Edits : ~Applies(e)
  BY <1>1, <1>2 DEF Calm, Applying, Waiting
<1>4. /\ \A g, h \in Generations : Generates(g)' /\ Generates(h)' => g = h
      /\ \A g \in Generations : Works(g)' => Works(g) /\ generation'[g] = generation[g]
  BY <1>1, <1>3, ProposeCalm
<1>5. transaction.current \in Steps
  BY DEF CalmStep, TypeOK, Transactions
<1>6. Current.proposal = None
  BY <1>1, <1>2, <1>5 DEF Calm, PanelFollows, Current
<1>7. transaction.registered => transaction.status # "completed"
  BY <1>1, <1>2 DEF Calm, Outcomes, ShowsFinalize
<1>8. OneAtATime'
  BY <1>1, <1>3, <1>4 DEF Calm, OneAtATime, Applies, IsOpen
<1>9. PanelFollows' /\ Originals' /\ Advancing' /\ Applying' /\ Waiting' /\ RollingBack' /\ Accounting'
  BY <1>1 DEF Calm, PanelFollows, Originals, Advancing, Applying, Waiting, RollingBack, Accounting,
     Applies, RollsBack, IsOpen, InOrder, Doomed, Stopped, Current, IsAccounted
<1>10. Outcomes'
  BY <1>1, <1>7 DEF Calm, Outcomes, Stopped
<1>11. Generating'
  BY <1>1, <1>4, <1>6 DEF Calm, Generating, Works, Current
<1>12. QED
  BY <1>8, <1>9, <1>10, <1>11 DEF Calm

\* A generation that ends is closed, and the others stay as they are.
LEMMA GenerationEndsFacts ==
  ASSUME CalmStep, NEW g \in Generations,
         generation' = [generation EXCEPT ![g] = NoGeneration]
  PROVE  /\ \A h \in Generations : Generates(h)' => Generates(h) /\ h # g
         /\ \A h \in Generations : Works(h)' => Works(h) /\ h # g
         /\ \A h \in Generations : h # g => generation'[h] = generation[h]
<1>1. generation \in GenerationStates
  BY DEF CalmStep, TypeOK
<1>2. \A h \in Generations : generation'[h] = IF h = g THEN NoGeneration ELSE generation[h]
  BY <1>1 DEF GenerationStates
<1>3. NoGeneration.at = "idle"
  BY DEF NoGeneration
<1>4. QED
  BY <1>2, <1>3 DEF Generates, Works

LEMMA GenerationThrowsCalm ==
  ASSUME CalmStep, NEW g \in Generations, GenerationThrows(g)
  PROVE  Calm'
<1>1. Calm /\ UNCHANGED <<file, transaction, step, edit, panel>>
  BY DEF CalmStep, GenerationThrows
<1>2. generation' = [generation EXCEPT ![g] = NoGeneration]
  BY DEF GenerationThrows, GenerationEnds
<1>3. \A h \in Generations : /\ Generates(h)' => Generates(h)
                             /\ Works(h)' => Works(h) /\ generation'[h] = generation[h]
  BY <1>2, GenerationEndsFacts
<1>4. OneAtATime' /\ Outcomes' /\ Generating'
  BY <1>1, <1>3 DEF Calm, OneAtATime, Applies, IsOpen, Outcomes, Stopped, Generating, Current
<1>5. PanelFollows' /\ Originals' /\ Advancing' /\ Applying' /\ Waiting' /\ RollingBack' /\ Accounting'
  BY <1>1 DEF Calm, PanelFollows, Originals, Advancing, Applying, Waiting, RollingBack, Accounting,
     Applies, RollsBack, IsOpen, InOrder, Doomed, Stopped, Current, IsAccounted
<1>6. QED
  BY <1>4, <1>5 DEF Calm

\* The step that is shown for review can be taken back: it is not applied.
LEMMA ReviewFacts ==
  ASSUME CalmStep, Press(ShowsReview(panel.shown))
  PROVE  /\ transaction.registered /\ transaction.status # "completed" /\ ~Stopped
         /\ Current.status # "applied" /\ panel.shown.status # "completed"
         /\ \A e \in Edits : ~IsOpen(e)
<1>1. Calm /\ transaction.registered /\ panel.busy = None /\ ~ShowsFinalize(panel.shown)
  BY DEF CalmStep, Press, ShowsReview
<1>2. panel.shown.status # "completed" /\ ~Stopped
  BY <1>1 DEF ShowsFinalize, Stopped
<1>3. transaction.status # "completed"
  BY <1>1, <1>2 DEF Calm, Outcomes
<1>4. Current.status # "applied"
  BY <1>1, <1>3 DEF Calm, Advancing
<1>5. \A e \in Edits : ~IsOpen(e)
  BY <1>1, StepsAssumption DEF Calm, OneAtATime
<1>6. QED
  BY <1>1, <1>2, <1>3, <1>4, <1>5

\* What a rejection changes.
LEMMA RejectedFacts ==
  ASSUME TypeOK, step' = Rejected, transaction' = [transaction EXCEPT !.status = "prepared"],
         Current.status # "applied"
  PROVE  /\ \A s \in Steps :
              /\ step'[s].original = step[s].original /\ step'[s].applied = step[s].applied
              /\ step'[s].proposal = IF s = transaction.current THEN None ELSE step[s].proposal
              /\ step'[s].status = IF s = transaction.current THEN "pending" ELSE step[s].status
         /\ Applied(step') = Applied(step)
         /\ transaction'.status = "prepared" /\ transaction'.current = transaction.current
         /\ transaction'.abort = transaction.abort /\ transaction'.fresh = transaction.fresh
         /\ transaction'.registered = transaction.registered
<1>1. transaction \in Transactions /\ step \in StepStates
  BY DEF TypeOK
<1>2. \A s \in Steps :
        /\ step'[s].original = step[s].original /\ step'[s].applied = step[s].applied
        /\ step'[s].proposal = IF s = transaction.current THEN None ELSE step[s].proposal
        /\ step'[s].status = IF s = transaction.current THEN "pending" ELSE step[s].status
  BY <1>1 DEF Rejected, StepStates, Transactions
<1>3. Applied(step') = Applied(step)
  BY <1>2 DEF Applied, Current
<1>4. QED
  BY <1>1, <1>2, <1>3 DEF Transactions

\* What the panel is told.
LEMMA ShowsFacts ==
  ASSUME TypeOK, NEW t, NEW ss, Shows(t, ss)
  PROVE  /\ panel'.busy = panel.busy /\ panel'.shown = Public(t, ss)
  BY DEF TypeOK, PanelStates, Shows

LEMMA PublicFacts ==
  ASSUME NEW t, NEW ss
  PROVE  /\ Public(t, ss).status = t.status /\ Public(t, ss).current = t.current
         /\ \A s \in Steps : /\ Public(t, ss).step[s].status = ss[s].status
                             /\ Public(t, ss).step[s].proposal = ss[s].proposal
         /\ Applied(Public(t, ss).step) = Applied(ss)
<1>1. /\ Public(t, ss).status = t.status /\ Public(t, ss).current = t.current
      /\ \A s \in Steps : /\ Public(t, ss).step[s].status = ss[s].status
                          /\ Public(t, ss).step[s].proposal = ss[s].proposal
  BY DEF Public
<1>2. QED
  BY <1>1 DEF Applied

LEMMA RejectCalm ==
  ASSUME CalmStep, Reject
  PROVE  Calm'
<1>1. /\ Calm /\ TypeOK /\ UNCHANGED <<file, generation, active, edit>>
      /\ step' = Rejected /\ transaction' = [transaction EXCEPT !.status = "prepared"]
      /\ Shows(transaction', step') /\ transaction.current \in Steps
  BY DEF CalmStep, Reject, TypeOK, Transactions
<1>2. /\ transaction.registered /\ transaction.status # "completed" /\ ~Stopped
      /\ Current.status # "applied" /\ \A e \in Edits : ~IsOpen(e)
  BY ReviewFacts DEF Reject
<1>3. /\ \A s \in Steps :
           /\ step'[s].original = step[s].original /\ step'[s].applied = step[s].applied
           /\ step'[s].proposal = IF s = transaction.current THEN None ELSE step[s].proposal
           /\ step'[s].status = IF s = transaction.current THEN "pending" ELSE step[s].status
      /\ Applied(step') = Applied(step)
      /\ transaction'.status = "prepared" /\ transaction'.current = transaction.current
      /\ transaction'.abort = transaction.abort /\ transaction'.fresh = transaction.fresh
      /\ transaction'.registered = transaction.registered
  BY <1>1, <1>2, RejectedFacts
<1>4. /\ panel'.shown.status = transaction'.status
      /\ panel'.shown.current = transaction'.current
      /\ \A s \in Steps : panel'.shown.step[s].proposal = step'[s].proposal
      /\ Applied(panel'.shown.step) = Applied(step')
  <2>1. panel'.shown = Public(transaction', step')
    BY <1>1, ShowsFacts
  <2>2. QED
    BY <2>1, PublicFacts
<1>5. OneAtATime' /\ Originals'
  BY <1>1, <1>2, <1>3 DEF Calm, OneAtATime, Generates, Applies, IsOpen, Originals
<1>6. PanelFollows'
  BY <1>3, <1>4 DEF PanelFollows
<1>7. Outcomes'
  BY <1>1, <1>2, <1>3, <1>4 DEF Calm, Outcomes, Stopped
<1>8. Generating'
  BY <1>1, <1>3 DEF Calm, Generating, Generates, Works, Current, CalmStep, TypeOK, GenerationStates
<1>9. Advancing'
  BY <1>1, <1>2, <1>3 DEF Calm, Advancing, InOrder, Doomed, Current
<1>10. Applying' /\ Waiting' /\ RollingBack'
  BY <1>1, <1>2 DEF Applying, Waiting, RollingBack, Applies, RollsBack, IsOpen
<1>11. Accounting'
  BY <1>1, <1>2, <1>3 DEF Calm, Accounting, IsAccounted, Current
<1>12. QED
  BY <1>5, <1>6, <1>7, <1>8, <1>9, <1>10, <1>11 DEF Calm

LEMMA RegenerateCalm ==
  ASSUME CalmStep, Regenerate
  PROVE  Calm'
<1>1. /\ Calm /\ TypeOK /\ UNCHANGED <<file, active, edit, panel>> /\ Propose
      /\ transaction.current \in Steps
  BY DEF CalmStep, Regenerate, TypeOK, Transactions
<1>2. /\ transaction.registered /\ transaction.status # "completed" /\ ~Stopped
      /\ Current.status # "applied" /\ \A e \in Edits : ~IsOpen(e)
      /\ panel.shown.status # "completed"
  BY ReviewFacts DEF Regenerate
<1>3. /\ \A s \in Steps :
           /\ step'[s].original = step[s].original /\ step'[s].applied = step[s].applied
           /\ step'[s].proposal = IF s = transaction.current THEN None ELSE step[s].proposal
           /\ step'[s].status \in {step[s].status, IF s = transaction.current THEN "pending" ELSE step[s].status}
      /\ Applied(step') = Applied(step)
      /\ transaction'.status \in {"prepared", transaction.status}
      /\ transaction'.current = transaction.current
      /\ transaction'.abort = transaction.abort /\ transaction'.fresh = transaction.fresh
      /\ transaction'.registered = transaction.registered
  <2>1. CASE step' = Rejected /\ transaction' = [transaction EXCEPT !.status = "prepared"]
    BY <1>1, <1>2, <2>1, RejectedFacts
  <2>2. CASE Current.proposal = None /\ UNCHANGED <<step, transaction>>
    BY <2>2 DEF Current
  <2>3. QED
    BY <2>1, <2>2 DEF Regenerate
<1>4. /\ \A g, h \in Generations : Generates(g)' /\ Generates(h)' => g = h
      /\ \A g \in Generations : Works(g)' => Works(g) /\ generation'[g] = generation[g]
  BY <1>1, <1>2, ProposeCalm DEF Applies, IsOpen
<1>5. OneAtATime' /\ Originals'
  BY <1>1, <1>2, <1>3, <1>4 DEF Calm, OneAtATime, Applies, IsOpen, Originals
<1>6. PanelFollows'
  BY <1>1, <1>3 DEF Calm, PanelFollows
<1>7. Outcomes'
  BY <1>1, <1>2, <1>3 DEF Calm, Outcomes, Stopped
<1>8. Generating'
  BY <1>1, <1>3, <1>4 DEF Calm, Generating, Works, Current, CalmStep, TypeOK, GenerationStates
<1>9. Advancing'
  BY <1>1, <1>2, <1>3 DEF Calm, Advancing, InOrder, Doomed, Stopped, Current
<1>10. Applying' /\ Waiting' /\ RollingBack'
  BY <1>1, <1>2 DEF Applying, Waiting, RollingBack, Applies, RollsBack, IsOpen
<1>11. Accounting'
  BY <1>1, <1>2, <1>3 DEF Calm, Accounting, IsAccounted, Current
<1>12. QED
  BY <1>5, <1>6, <1>7, <1>8, <1>9, <1>10, <1>11 DEF Calm

\* A step that changes only the state of the transaction, when a generation starts.
LEMMA GenerationStartsCalm ==
  ASSUME CalmStep, NEW g \in Generations, GenerationStarts(g)
  PROVE  Calm'
<1>1. /\ Calm /\ UNCHANGED <<file, step, edit, panel>> /\ generation[g].at = "available"
      /\ transaction \in Transactions /\ generation \in GenerationStates
  BY DEF CalmStep, TypeOK, GenerationStarts
<1>2. /\ \A h \in Generations : h = g \/ ~Generates(h)
      /\ \A e \in Edits : ~Applies(e)
      /\ transaction.registered => transaction.status # "completed"
  BY <1>1 DEF Calm, OneAtATime, Generates, Outcomes
<1>3. CASE /\ MayGenerate
           /\ generation' = [generation EXCEPT ![g] = [at |-> "read", of |-> transaction.current]]
           /\ transaction' = [transaction EXCEPT !.status = "generating"]
  <2>1. \A h \in Generations :
          generation'[h] = IF h = g THEN [at |-> "read", of |-> transaction.current] ELSE generation[h]
    BY <1>1, <1>3 DEF GenerationStates
  <2>2. /\ \A h \in Generations : h = g \/ (~Generates(h)' /\ ~Works(h)')
        /\ generation'[g].of = transaction.current
    BY <1>2, <2>1 DEF Generates, Works
  <2>3. /\ transaction'.status = "generating" /\ transaction'.current = transaction.current
        /\ transaction'.abort = transaction.abort /\ transaction'.fresh = transaction.fresh
        /\ transaction'.registered = transaction.registered
    BY <1>1, <1>3 DEF Transactions
  <2>4. OneAtATime' /\ PanelFollows' /\ Originals' /\ Applying' /\ Waiting' /\ Accounting'
    BY <1>1, <1>2, <2>2, <2>3 DEF Calm, OneAtATime, PanelFollows, Originals, Applying, Waiting, Accounting,
       Applies, IsOpen, IsAccounted
  <2>5. Outcomes'
    BY <1>1, <1>2, <1>3, <2>3 DEF Calm, Outcomes, MayGenerate, Stopped
  <2>6. Generating'
    <3>1. Generates(g) /\ Current.status # "applied"
      BY <1>1, <1>3 DEF Generates, MayGenerate
    <3>2. QED
      BY <1>1, <2>2, <2>3, <3>1 DEF Calm, Generating, Generates, Works, Current
  <2>7. Advancing' /\ RollingBack'
    <3>1. transaction.registered /\ Doomed => Doomed'
      BY <1>1, <1>2, <2>3 DEF Doomed, Stopped
    <3>2. \A e \in Edits : RollsBack(e) => transaction.registered
      BY <1>1 DEF Calm, OneAtATime, RollsBack
    <3>3. Advancing'
      BY <1>1, <1>2, <2>3, <3>1 DEF Calm, Advancing, InOrder, Current
    <3>4. QED
      BY <1>1, <3>1, <3>2, <3>3 DEF Calm, RollingBack, RollsBack, IsOpen
  <2>8. QED
    BY <2>4, <2>5, <2>6, <2>7 DEF Calm
<1>4. CASE /\ ~MayGenerate /\ generation' = [generation EXCEPT ![g] = NoGeneration]
           /\ transaction' = IF ~transaction.abort /\ ~transaction.fresh
                               THEN [transaction EXCEPT !.status = "paused"] ELSE transaction
  <2>1. \A h \in Generations : ~Generates(h)' /\ ~Works(h)'
    BY <1>2, <1>4, GenerationEndsFacts DEF Works, Generates
  <2>2. /\ \/ transaction'.status = transaction.status
           \/ transaction'.status = "paused" /\ ~transaction.abort /\ ~transaction.fresh
        /\ transaction'.current = transaction.current
        /\ transaction'.abort = transaction.abort /\ transaction'.fresh = transaction.fresh
        /\ transaction'.registered = transaction.registered
    BY <1>1, <1>4 DEF Transactions
  <2>3. OneAtATime' /\ PanelFollows' /\ Originals' /\ Applying' /\ Waiting' /\ Accounting' /\ Generating'
    BY <1>1, <1>2, <2>1, <2>2 DEF Calm, OneAtATime, PanelFollows, Originals, Applying, Waiting, Accounting,
       Generating, Applies, IsOpen, IsAccounted
  <2>4. Outcomes'
    BY <1>1, <1>2, <2>1, <2>2 DEF Calm, Outcomes, Stopped
  <2>5. transaction.registered /\ Doomed => Doomed'
    BY <1>1, <1>2, <2>2 DEF Doomed, Stopped
  <2>6. \A e \in Edits : RollsBack(e) => transaction.registered
    BY <1>1 DEF Calm, OneAtATime, RollsBack
  <2>7. Advancing'
    BY <1>1, <1>2, <2>2, <2>5 DEF Calm, Advancing, InOrder, Current
  <2>8. RollingBack'
    BY <1>1, <2>5, <2>6 DEF Calm, RollingBack, RollsBack, IsOpen
  <2>9. QED
    BY <2>3, <2>4, <2>7, <2>8 DEF Calm
<1>5. QED
  BY <1>3, <1>4 DEF GenerationStarts, GenerationEnds

\* A generation or an apply that finds another text in its file than the one of the
\* preparation has found one of the user: the step is not applied.
LEMMA OtherText ==
  ASSUME CalmStep, NEW s \in Steps, file[s] # "base", step[s].status # "applied",
         \A e \in Edits : ~(Applies(e) /\ edit[e].of = s /\ edit[e].at = "verify")
  PROVE  file[s] = "user"
<1>1. file[s] \in Texts /\ file[s] # "empty"
  BY DEF CalmStep, TypeOK, Calm, Originals
<1>2. ~IsAccounted(s)
  BY DEF IsAccounted, Applies, IsOpen
<1>3. file[s] \notin Generations
  BY <1>2 DEF CalmStep, Calm, Accounting
<1>4. QED
  BY <1>1, <1>3 DEF Texts

LEMMA GenerationReadsCalm ==
  ASSUME CalmStep, NEW g \in Generations, GenerationReads(g)
  PROVE  Calm'
<1> DEFINE s == generation[g].of
<1>1. /\ Calm /\ UNCHANGED <<file, edit, panel>> /\ generation[g].at = "read"
      /\ transaction \in Transactions /\ generation \in GenerationStates /\ step \in StepStates
      /\ s \in Steps /\ transaction.current \in Steps
  BY DEF CalmStep, TypeOK, GenerationReads, GenerationStates, Transactions
<1>2. /\ \A h \in Generations : h = g \/ ~Generates(h)
      /\ \A e \in Edits : ~Applies(e)
      /\ transaction.registered => transaction.status # "completed" /\ s = transaction.current
      /\ step[s].status # "applied"
  BY <1>1 DEF Calm, OneAtATime, Generates, Works, Outcomes, Generating
<1>3. CASE generation' = [generation EXCEPT ![g].at = "model"] /\ UNCHANGED <<transaction, step>>
  <2>1. \A h \in Generations :
          /\ generation'[h].of = generation[h].of
          /\ generation'[h].at = IF h = g THEN "model" ELSE generation[h].at
    BY <1>1, <1>3 DEF GenerationStates
  <2>2. \A h \in Generations : (Generates(h)' => Generates(h)) /\ (Works(h)' => Works(h))
    BY <1>1, <2>1 DEF Generates, Works
  <2>3. OneAtATime' /\ Outcomes' /\ Generating'
    BY <1>1, <1>3, <2>1, <2>2 DEF Calm, OneAtATime, Applies, IsOpen, Outcomes, Stopped, Generating,
       Current
  <2>4. PanelFollows' /\ Originals' /\ Advancing' /\ Applying' /\ Waiting' /\ RollingBack' /\ Accounting'
    BY <1>1, <1>3 DEF Calm, PanelFollows, Originals, Advancing, Applying, Waiting, RollingBack, Accounting,
       Applies, RollsBack, IsOpen, InOrder, Doomed, Stopped, Current, IsAccounted
  <2>5. QED
    BY <2>3, <2>4 DEF Calm
<1>4. CASE /\ file[s] # "base"
           /\ step' = [step EXCEPT ![s].status = "failed"]
           /\ transaction' = [transaction EXCEPT !.status = "failed"]
           /\ generation' = [generation EXCEPT ![g] = NoGeneration]
  <2>1. \A h \in Generations : ~Generates(h)' /\ ~Works(h)'
    BY <1>2, <1>4, GenerationEndsFacts DEF Works, Generates
  <2>2. /\ transaction'.status = "failed" /\ transaction'.current = transaction.current
        /\ transaction'.abort = transaction.abort /\ transaction'.fresh = transaction.fresh
        /\ transaction'.registered = transaction.registered
    BY <1>1, <1>4 DEF Transactions
  <2>3. \A t \in Steps :
          /\ step'[t].original = step[t].original /\ step'[t].applied = step[t].applied
          /\ step'[t].proposal = step[t].proposal
          /\ step'[t].status = IF t = s THEN "failed" ELSE step[t].status
    BY <1>1, <1>4 DEF StepStates
  <2>4. Applied(step') = Applied(step)
    BY <1>2, <2>3 DEF Applied
  <2>5. file[s] = "user"
    BY <1>1, <1>2, <1>4, OtherText
  <2> HIDE DEF s
  <2>6. OneAtATime' /\ PanelFollows' /\ Originals' /\ Applying' /\ Waiting' /\ Generating'
    BY <1>1, <1>2, <2>1, <2>2, <2>3, <2>4 DEF Calm, OneAtATime, PanelFollows, Originals, Applying, Waiting,
       Generating, Applies, IsOpen
  <2>7. Accounting'
    BY <1>1, <1>2, <2>2, <2>3 DEF Calm, Accounting, IsAccounted
  <2>8. Outcomes'
    BY <1>1, <1>2, <2>1, <2>2, <2>4, <2>5 DEF Calm, Outcomes, Stopped
  <2>9. transaction.registered /\ Doomed => Doomed'
    BY <1>1, <1>2, <2>2 DEF Doomed, Stopped
  <2>10. \A e \in Edits : RollsBack(e) => transaction.registered
    BY <1>1 DEF Calm, OneAtATime, RollsBack
  <2>11. Advancing'
    BY <1>1, <1>2, <2>2, <2>3, <2>4, <2>9 DEF Calm, Advancing, InOrder, Current
  <2>12. RollingBack'
    BY <1>1, <2>4, <2>9, <2>10 DEF Calm, RollingBack, RollsBack, IsOpen
  <2>13. QED
    BY <2>6, <2>7, <2>8, <2>11, <2>12 DEF Calm
<1>5. QED
  BY <1>3, <1>4 DEF GenerationReads, GenerationEnds

LEMMA GenerationAnswersCalm ==
  ASSUME CalmStep, NEW g \in Generations, GenerationAnswers(g)
  PROVE  Calm'
<1> DEFINE s == generation[g].of
<1>1. /\ Calm /\ TypeOK /\ UNCHANGED <<file, edit>> /\ generation[g].at = "model"
      /\ transaction \in Transactions /\ generation \in GenerationStates /\ step \in StepStates
      /\ s \in Steps /\ transaction.current \in Steps
  BY DEF CalmStep, TypeOK, GenerationAnswers, GenerationStates, Transactions
<1>2. ~transaction.abort /\ Current.status # "applied" /\ s = transaction.current
  BY DEF GenerationAnswers, AnswerFits
<1>3. /\ \A h \in Generations : h = g \/ ~Generates(h)
      /\ \A e \in Edits : ~Applies(e)
      /\ transaction.registered => transaction.status # "completed" /\ panel.shown.status # "completed"
      /\ step[s].status # "applied"
  BY <1>1, <1>2 DEF Calm, OneAtATime, Generates, Works, Outcomes, Current
<1>4. /\ step' = [step EXCEPT ![s].proposal = g, ![s].status = "proposed"]
      /\ transaction' = [transaction EXCEPT !.status = "step-proposed"]
      /\ generation' = [generation EXCEPT ![g] = NoGeneration]
      /\ Shows(transaction', step')
  BY DEF GenerationAnswers, GenerationEnds
<1>5. \A h \in Generations : ~Generates(h)' /\ ~Works(h)'
  BY <1>3, <1>4, GenerationEndsFacts DEF Works, Generates
<1>6. /\ transaction'.status = "step-proposed" /\ transaction'.current = transaction.current
      /\ transaction'.abort = transaction.abort /\ transaction'.fresh = transaction.fresh
      /\ transaction'.registered = transaction.registered
  BY <1>1, <1>4 DEF Transactions
<1>7. \A t \in Steps :
        /\ step'[t].original = step[t].original /\ step'[t].applied = step[t].applied
        /\ step'[t].proposal = IF t = s THEN g ELSE step[t].proposal
        /\ step'[t].status = IF t = s THEN "proposed" ELSE step[t].status
  BY <1>1, <1>4 DEF StepStates
<1>8. Applied(step') = Applied(step)
  BY <1>3, <1>7 DEF Applied
<1>9. /\ panel'.shown.status = transaction'.status /\ panel'.busy = panel.busy
      /\ panel'.shown.current = transaction'.current
      /\ \A t \in Steps : panel'.shown.step[t].proposal = step'[t].proposal
      /\ Applied(panel'.shown.step) = Applied(step')
  <2>1. panel'.shown = Public(transaction', step') /\ panel'.busy = panel.busy
    BY <1>1, <1>4, ShowsFacts
  <2>2. QED
    BY <2>1, PublicFacts
<1> HIDE DEF s
<1>10. OneAtATime' /\ PanelFollows' /\ Originals' /\ Applying' /\ Generating'
  BY <1>1, <1>3, <1>5, <1>6, <1>7, <1>8, <1>9 DEF Calm, OneAtATime, PanelFollows, Originals,
     Applying, Generating, Applies, IsOpen
<1>18. Waiting'
  <2>1. ShowsReview(panel.shown)'
    BY <1>1, <1>2, <1>6, <1>7, <1>9, StepsAssumption
    DEF ShowsReview, ShowsFinalize, HasApplied, Finalized, s
  <2>2. QED
    BY <1>1, <2>1 DEF Calm, Waiting
<1>11. Accounting'
  BY <1>1, <1>3, <1>6, <1>7 DEF Calm, Accounting, IsAccounted
<1>12. Outcomes'
  BY <1>1, <1>3, <1>5, <1>6, <1>8, <1>9 DEF Calm, Outcomes, Stopped
<1>13. transaction.registered /\ Doomed => Doomed'
  BY <1>1, <1>2, <1>3, <1>6 DEF Doomed, Stopped, Calm, Outcomes
<1>14. \A e \in Edits : RollsBack(e) => transaction.registered
  BY <1>1 DEF Calm, OneAtATime, RollsBack
<1>15. Advancing'
  BY <1>1, <1>2, <1>3, <1>6, <1>7, <1>8, <1>13 DEF Calm, Advancing, InOrder, Current
<1>16. RollingBack'
  BY <1>1, <1>8, <1>13, <1>14 DEF Calm, RollingBack, RollsBack, IsOpen
<1>17. QED
  BY <1>10, <1>11, <1>12, <1>15, <1>16, <1>18 DEF Calm

---------------------------------------------------------------------------
(* The panel and the user *)

LEMMA CancelCalm ==
  ASSUME CalmStep, Cancel
  PROVE  Calm'
<1>1. /\ Calm /\ TypeOK /\ UNCHANGED <<file, step, generation, active, edit>>
      /\ transaction \in Transactions /\ Shows(transaction', step)
      /\ transaction' = [transaction EXCEPT
           !.abort = TRUE, !.status = IF Applied(step) = Steps THEN "completed" ELSE "cancelled"]
  BY DEF CalmStep, Cancel, TypeOK
<1>2. /\ transaction.registered /\ transaction.status # "completed" /\ ~Stopped
      /\ Current.status # "applied" /\ \A e \in Edits : ~IsOpen(e)
  BY ReviewFacts DEF Cancel
<1>3. Applied(step) # Steps
  BY <1>1, <1>2 DEF Applied, Current, Transactions
<1>4. /\ transaction'.status = "cancelled" /\ transaction'.current = transaction.current
      /\ transaction'.abort = TRUE /\ transaction'.fresh = transaction.fresh
      /\ transaction'.registered = transaction.registered
  BY <1>1, <1>3 DEF Transactions
<1>5. /\ panel'.shown.status = transaction'.status /\ panel'.busy = panel.busy
      /\ panel'.shown.current = transaction'.current
      /\ \A t \in Steps : panel'.shown.step[t].proposal = step[t].proposal
      /\ Applied(panel'.shown.step) = Applied(step)
  <2>1. panel'.shown = Public(transaction', step) /\ panel'.busy = panel.busy
    BY <1>1, ShowsFacts
  <2>2. QED
    BY <2>1, PublicFacts
<1>6. OneAtATime' /\ PanelFollows' /\ Originals' /\ Generating'
  BY <1>1, <1>2, <1>4, <1>5 DEF Calm, OneAtATime, PanelFollows, Originals, Generating, Generates,
     Works, Applies, IsOpen, Current
<1>7. Applying' /\ Waiting' /\ RollingBack'
  BY <1>1, <1>2 DEF Applying, Waiting, RollingBack, Applies, RollsBack, IsOpen
<1>8. Outcomes'
  BY <1>1, <1>2, <1>4, <1>5 DEF Calm, Outcomes, Stopped
<1>9. Advancing'
  BY <1>1, <1>2, <1>4 DEF Calm, Advancing, InOrder, Doomed, Current
<1>10. Accounting'
  BY <1>1, <1>4 DEF Calm, Accounting, IsAccounted
<1>11. QED
  BY <1>6, <1>7, <1>8, <1>9, <1>10 DEF Calm

\* A transaction that is kept is no longer registered, and its steps stay applied.
LEMMA KeepCalm ==
  ASSUME CalmStep, Keep
  PROVE  Calm'
<1>1. /\ Calm /\ TypeOK /\ UNCHANGED <<file, generation, active, edit>>
      /\ transaction \in Transactions /\ Shows(transaction', step') /\ step \in StepStates
      /\ transaction' = [transaction EXCEPT !.status = "kept", !.registered = FALSE]
      /\ step' = [s \in Steps |-> [step[s] EXCEPT
           !.original = IF step[s].status = "applied" THEN "empty" ELSE @, !.proposal = None]]
  BY DEF CalmStep, Keep, TypeOK
<1>2. \A e \in Edits : ~IsOpen(e)
  BY StepsAssumption DEF Keep, Press, CalmStep, Calm, OneAtATime
<1>3. /\ transaction'.status = "kept" /\ transaction'.current = transaction.current
      /\ transaction'.abort = transaction.abort /\ transaction'.fresh = transaction.fresh
      /\ transaction'.registered = FALSE
  BY <1>1 DEF Transactions
<1>4. \A s \in Steps : /\ step'[s].applied = step[s].applied /\ step'[s].status = step[s].status
                       /\ step'[s].proposal = None
  BY <1>1 DEF StepStates
<1>5. /\ panel'.shown.status = transaction'.status
      /\ panel'.shown.current = transaction'.current
  <2>1. panel'.shown = Public(transaction', step')
    BY <1>1, ShowsFacts
  <2>2. QED
    BY <2>1, PublicFacts
<1>6. OneAtATime' /\ PanelFollows' /\ Originals' /\ Advancing'
  BY <1>1, <1>2, <1>3, <1>4, <1>5 DEF Calm, OneAtATime, PanelFollows, Originals, Generates,
     Applies, IsOpen, Advancing
<1>7. Generating'
  <2>1. \A g \in Generations : generation[g].of \in Steps
    BY <1>1 DEF TypeOK, GenerationStates
  <2>2. QED
    BY <1>1, <1>3, <1>4, <2>1 DEF Calm, Generating, Generates, Works
<1>8. Applying' /\ Waiting' /\ RollingBack'
  BY <1>1, <1>2 DEF Applying, Waiting, RollingBack, Applies, RollsBack, IsOpen
<1>9. Outcomes'
  BY <1>3, <1>5 DEF Outcomes
<1>10. Accounting'
  BY <1>1, <1>3, <1>4 DEF Calm, Accounting, IsAccounted
<1>11. QED
  BY <1>6, <1>7, <1>8, <1>9, <1>10 DEF Calm

\* A new panel is shown what the transaction is now; the old one was not busy.
LEMMA ReopenCalm ==
  ASSUME CalmStep, Reopen
  PROVE  Calm'
<1>1. /\ Calm /\ UNCHANGED <<file, transaction, step, generation, active, edit>>
      /\ transaction.registered /\ panel.busy = None
      /\ panel' = [shown |-> Public(transaction, step), busy |-> None]
  BY DEF CalmStep, Reopen
<1>2. \A e \in Edits : ~IsOpen(e)
  BY <1>1, StepsAssumption DEF Calm, OneAtATime
<1>3. /\ panel'.shown.status = transaction.status
      /\ panel'.shown.current = transaction.current
      /\ \A t \in Steps : panel'.shown.step[t].proposal = step[t].proposal
      /\ Applied(panel'.shown.step) = Applied(step)
  BY <1>1, PublicFacts
<1>4. OneAtATime' /\ PanelFollows' /\ Originals' /\ Generating' /\ Accounting'
  BY <1>1, <1>2, <1>3 DEF Calm, OneAtATime, PanelFollows, Originals, Generating, Generates,
     Works, Applies, IsOpen, Current, Accounting, IsAccounted
<1>5. Applying' /\ Waiting' /\ RollingBack'
  BY <1>1, <1>2 DEF Applying, Waiting, RollingBack, Applies, RollsBack, IsOpen
<1>6. Outcomes'
  BY <1>1, <1>3 DEF Calm, Outcomes, Stopped, Generates
<1>7. Doomed => Doomed'
  BY <1>1, <1>3 DEF Doomed, Calm, Outcomes, PanelFollows, Stopped, HasApplied
<1>8. Advancing'
  BY <1>1, <1>7 DEF Calm, Advancing, InOrder, Current
<1>9. QED
  BY <1>4, <1>5, <1>6, <1>8 DEF Calm

LEMMA RulesChangeCalm ==
  ASSUME CalmStep, RulesChange
  PROVE  Calm'
<1>1. /\ Calm /\ UNCHANGED <<file, step, generation, active, edit, panel>>
      /\ transaction \in Transactions /\ transaction' = [transaction EXCEPT !.fresh = FALSE]
  BY DEF CalmStep, TypeOK, RulesChange
<1>2. /\ transaction'.status = transaction.status /\ transaction'.current = transaction.current
      /\ transaction'.abort = transaction.abort /\ transaction'.fresh = FALSE
      /\ transaction'.registered = transaction.registered
  BY <1>1 DEF Transactions
<1>3. OneAtATime' /\ PanelFollows' /\ Originals' /\ Generating' /\ Accounting'
  BY <1>1, <1>2 DEF Calm, OneAtATime, PanelFollows, Originals, Generating, Generates,
     Works, Applies, IsOpen, Current, Accounting, IsAccounted
<1>4. Outcomes' /\ Advancing' /\ Applying' /\ Waiting' /\ RollingBack'
  BY <1>1, <1>2 DEF Calm, Outcomes, Stopped, Advancing, Applying, Waiting, RollingBack, InOrder, Doomed,
     Generates, Applies, RollsBack, IsOpen, Current
<1>5. QED
  BY <1>3, <1>4 DEF Calm

\* A text of the user is none of a generation's.
LEMMA UserSavesCalm ==
  ASSUME CalmStep, NEW s \in Steps, UserSaves(s)
  PROVE  Calm'
<1>1. /\ Calm /\ UNCHANGED <<transaction, step, generation, active, edit, panel>>
      /\ \A t \in Steps : file'[t] = IF t = s THEN "user" ELSE file[t]
      /\ transaction.current \in Steps
  BY DEF CalmStep, TypeOK, UserSaves, Transactions
<1>2. "user" \notin Generations
  BY StepsAssumption
<1>3. OneAtATime' /\ PanelFollows' /\ Originals' /\ Generating' /\ Accounting'
  BY <1>1, <1>2 DEF Calm, OneAtATime, PanelFollows, Originals, Generating, Generates,
     Works, Applies, IsOpen, Current, Accounting, IsAccounted
<1>4. Outcomes' /\ Advancing' /\ Applying' /\ Waiting' /\ RollingBack'
  BY <1>1 DEF Calm, Outcomes, Stopped, Advancing, Applying, Waiting, RollingBack, InOrder, Doomed,
     Generates, Applies, RollsBack, IsOpen, Current
<1>5. QED
  BY <1>3, <1>4 DEF Calm

---------------------------------------------------------------------------
(* Applying and rolling back *)

LEMMA ReturnsFacts ==
  ASSUME CalmStep, NEW e \in Edits, NEW shown, Returns(e, shown)
  PROVE  /\ \A d \in Edits : IsOpen(d)' => d # e /\ IsOpen(d) /\ edit'[d] = edit[d]
         /\ panel'.shown = shown
         /\ panel'.busy = IF panel.busy = e THEN None ELSE panel.busy
<1>1. edit \in EditStates
  BY DEF CalmStep, TypeOK
<1>2. \A d \in Edits : edit'[d] = IF d = e THEN NoEdit ELSE edit[d]
  BY <1>1 DEF Returns, EditStates
<1>3. NoEdit.at = "idle"
  BY DEF NoEdit
<1>4. QED
  BY <1>2, <1>3 DEF IsOpen, Returns

\* A call that returns leaves no call open.
LEMMA ReturnsCalm ==
  ASSUME CalmStep, NEW e \in Edits, IsOpen(e), NEW shown, Returns(e, shown)
  PROVE  /\ \A d \in Edits : ~IsOpen(d)'
         /\ Applying' /\ Waiting' /\ RollingBack'
         /\ transaction.registered
<1>1. \A d \in Edits : IsOpen(d) => d = e
  BY DEF CalmStep, Calm, OneAtATime
<1>2. \A d \in Edits : ~IsOpen(d)'
  BY <1>1, ReturnsFacts
<1>3. QED
  BY <1>2 DEF Applying, Waiting, RollingBack, Applies, IsOpen, RollsBack, CalmStep, Calm, OneAtATime

LEMMA EditThrowsCalm ==
  ASSUME CalmStep, NEW e \in Edits, EditThrows(e)
  PROVE  Calm'
<1>1. /\ Calm /\ UNCHANGED <<file, transaction, step, generation>> /\ IsOpen(e)
      /\ Returns(e, panel.shown) /\ edit[e].at # "verify"
  BY Zenon DEF CalmStep, EditThrows, IsOpen
<1>2. /\ \A d \in Edits : ~IsOpen(d)'
      /\ Applying' /\ Waiting' /\ RollingBack' /\ panel'.shown = panel.shown
  BY <1>1, ReturnsCalm, ReturnsFacts
<1>3. OneAtATime' /\ PanelFollows' /\ Originals' /\ Generating'
  BY <1>1, <1>2 DEF Calm, OneAtATime, PanelFollows, Originals, Generating, Generates,
     Works, Applies, IsOpen, Current
<1>4. Outcomes' /\ Advancing'
  BY <1>1, <1>2 DEF Calm, Outcomes, Stopped, Advancing, InOrder, Doomed, Generates, Current
<1>5. Accounting'
  <2>1. \A d \in Edits : edit[d].at # "verify"
    BY <1>1 DEF Calm, OneAtATime, IsOpen
  <2>2. QED
    BY <1>1, <2>1 DEF Calm, Accounting, IsAccounted
<1>6. QED
  BY <1>2, <1>3, <1>4, <1>5 DEF Calm

LEMMA OpensFacts ==
  ASSUME CalmStep, NEW e \in Edits, NEW r, Opens(e, r), \A d \in Edits : ~IsOpen(d)
  PROVE  /\ edit'[e] = r /\ panel'.shown = panel.shown /\ panel'.busy = e
         /\ \A d \in Edits \ {e} : ~IsOpen(d)'
<1>1. edit \in EditStates /\ panel \in PanelStates
  BY DEF CalmStep, TypeOK
<1>2. \A d \in Edits : edit'[d] = IF d = e THEN r ELSE edit[d]
  BY <1>1 DEF Opens, EditStates
<1>3. panel'.shown = panel.shown /\ panel'.busy = e
  BY <1>1 DEF Opens, PanelStates
<1>4. QED
  BY <1>2, <1>3 DEF IsOpen

\* An apply waits for the rules first.
LEMMA ApplyCalm ==
  ASSUME CalmStep, NEW e \in Edits, Apply(e)
  PROVE  Calm'
<1> DEFINE r == [NoEdit EXCEPT !.at = "rules", !.of = transaction.current]
<1>1. /\ Calm /\ UNCHANGED <<file, transaction, step, generation, active>>
      /\ transaction.current \in Steps /\ Opens(e, r)
  BY DEF CalmStep, TypeOK, Transactions, Apply
<1>2. /\ transaction.registered /\ \A d \in Edits : ~IsOpen(d)
      /\ ShowsReview(panel.shown)
  BY ReviewFacts DEF Apply, Press
<1>3. r.at = "rules" /\ r.kind = "apply"
  BY DEF NoEdit
<1> HIDE DEF r
<1>4. /\ edit'[e] = r /\ panel'.shown = panel.shown /\ panel'.busy = e
      /\ \A d \in Edits \ {e} : ~IsOpen(d)'
  BY <1>1, <1>2, OpensFacts
<1>5. OneAtATime' /\ PanelFollows' /\ Originals' /\ Generating'
  BY <1>1, <1>2, <1>3, <1>4 DEF Calm, OneAtATime, PanelFollows, Originals, Generating,
     Generates, Works, Applies, IsOpen, Current
<1>6. Outcomes' /\ Advancing'
  BY <1>1, <1>4 DEF Calm, Outcomes, Stopped, Generates, Advancing, InOrder, Doomed, Current
<1>7. Waiting' /\ Applying' /\ RollingBack'
  BY <1>2, <1>3, <1>4 DEF Waiting, Applying, Applies, RollingBack, RollsBack, IsOpen
<1>8. Accounting'
  BY <1>1, <1>2, <1>3, <1>4 DEF Calm, Accounting, IsAccounted, IsOpen
<1>9. QED
  BY <1>5, <1>6, <1>7, <1>8 DEF Calm

\* A call that works on its file, with another place, text, file or work left.
LEMMA MovesFacts ==
  ASSUME CalmStep, NEW e \in Edits, IsOpen(e), NEW r, edit' = [edit EXCEPT ![e] = r]
  PROVE  edit'[e] = r /\ \A d \in Edits \ {e} : ~IsOpen(d) /\ ~IsOpen(d)'
<1>1. edit \in EditStates
  BY DEF CalmStep, TypeOK
<1>2. \A d \in Edits : edit'[d] = IF d = e THEN r ELSE edit[d]
  BY <1>1 DEF EditStates
<1>3. \A d \in Edits \ {e} : ~IsOpen(d)
  BY DEF CalmStep, Calm, OneAtATime
<1>4. QED
  BY <1>2, <1>3 DEF IsOpen

\* An apply begins only with a proposal in hand, so that no generation is open.
LEMMA ApplyBeginsCalm ==
  ASSUME CalmStep, NEW e \in Edits, ApplyBegins(e)
  PROVE  Calm'
<1>1. /\ Calm /\ UNCHANGED <<file, step, generation, active>> /\ transaction \in Transactions
      /\ transaction.current \in Steps /\ edit[e].at = "rules" /\ IsOpen(e) /\ edit \in EditStates
  BY DEF CalmStep, TypeOK, Transactions, ApplyBegins, IsOpen
<1>2. /\ transaction.registered /\ edit[e].kind = "apply" /\ ShowsReview(panel.shown)
      /\ \A d \in Edits : IsOpen(d) => d = e
  BY <1>1 DEF Calm, OneAtATime, Waiting
<1>3. panel.shown.status # "completed" /\ ~Stopped
  BY <1>2 DEF ShowsReview, ShowsFinalize, Stopped
<1>4. transaction.status # "completed" /\ Current.status # "applied"
  BY <1>1, <1>2, <1>3 DEF Calm, Outcomes, Advancing
<1>5. ASSUME Returns(e, panel.shown),
             \/ UNCHANGED transaction
             \/ ~transaction.fresh /\ transaction' = [transaction EXCEPT !.status = "paused"]
      PROVE  Calm'
  <2>1. /\ \A d \in Edits : ~IsOpen(d)'
        /\ Applying' /\ RollingBack' /\ panel'.shown = panel.shown
    BY <1>1, <1>5, ReturnsCalm, ReturnsFacts
  <2>2. Waiting'
    BY <2>1 DEF Waiting, IsOpen
  <2>3. /\ transaction'.current = transaction.current
        /\ transaction'.abort = transaction.abort /\ transaction'.fresh = transaction.fresh
        /\ transaction'.registered = transaction.registered
        /\ transaction'.status = transaction.status
           \/ (transaction'.status = "paused" /\ ~transaction.fresh)
    BY <1>1, <1>5 DEF Transactions
  <2>4. OneAtATime' /\ PanelFollows' /\ Originals' /\ Generating'
    BY <1>1, <2>1, <2>3 DEF Calm, OneAtATime, PanelFollows, Originals, Generating, Generates,
       Works, Applies, IsOpen, Current
  <2>5. Outcomes'
    BY <1>1, <1>3, <1>4, <2>1, <2>3 DEF Calm, Outcomes, Stopped, Generates
  <2>6. Advancing'
    BY <1>1, <1>3, <1>4, <2>1, <2>3 DEF Calm, Advancing, InOrder, Doomed, Stopped, Current
  <2>7. Accounting'
    <3>1. \A d \in Edits : edit[d].at # "verify"
      BY <1>1, <1>2 DEF IsOpen
    <3>2. QED
      BY <1>1, <2>3, <3>1 DEF Calm, Accounting, IsAccounted
  <2>8. QED
    BY <2>1, <2>2, <2>4, <2>5, <2>6, <2>7 DEF Calm
<1>6. CASE /\ MayApply /\ transaction.fresh
           /\ transaction' = [transaction EXCEPT !.status = "applying"]
           /\ edit' = [edit EXCEPT ![e].at = "check", ![e].of = transaction.current]
           /\ UNCHANGED panel
  <2> DEFINE r == [edit[e] EXCEPT !.at = "check", !.of = transaction.current]
  <2>1. r.at = "check" /\ r.of = transaction.current /\ r.kind = "apply"
    BY <1>1, <1>2 DEF EditStates
  <2>2. edit' = [edit EXCEPT ![e] = r]
    BY <1>1, <1>6 DEF EditStates
  <2> HIDE DEF r
  <2>3. edit'[e] = r /\ \A d \in Edits \ {e} : ~IsOpen(d) /\ ~IsOpen(d)'
    BY <1>1, <2>2, MovesFacts
  <2>4. Current.proposal # None /\ \A g \in Generations : ~Generates(g)
    BY <1>1, <1>2, <1>6 DEF Calm, Generating, MayApply
  <2>5. /\ transaction'.status = "applying" /\ transaction'.current = transaction.current
        /\ transaction'.abort = transaction.abort /\ transaction'.fresh = transaction.fresh
        /\ transaction'.registered = transaction.registered
    BY <1>1, <1>6 DEF Transactions
  <2>6. InOrder \/ file[transaction.current] = "user"
    BY <1>1, <1>2, <1>3, <1>4, <1>6 DEF Calm, Advancing, Doomed
  <2>7. OneAtATime' /\ PanelFollows' /\ Originals' /\ Generating'
    BY <1>1, <1>2, <1>6, <2>3, <2>4, <2>5 DEF Calm, OneAtATime, PanelFollows, Originals,
       Generating, Generates, Works, Applies, IsOpen, Current
  <2>8. Outcomes'
    BY <1>1, <1>3, <1>4, <1>6, <2>5 DEF Calm, Outcomes, Stopped, Generates
  <2>9. Advancing'
    BY <1>1, <1>4, <2>5, <2>6 DEF Calm, Advancing, InOrder, Doomed, Current
  <2>10. Applying' /\ Waiting' /\ RollingBack'
    BY <1>1, <1>2, <1>4, <1>6, <2>1, <2>3, <2>4, <2>5, <2>6
    DEF Applying, Applies, Waiting, RollingBack, RollsBack, IsOpen, InOrder, Current
  <2>11. Accounting'
    BY <1>1, <2>1, <2>3, <2>5 DEF Calm, Accounting, IsAccounted, IsOpen
  <2>12. QED
    BY <2>7, <2>8, <2>9, <2>10, <2>11 DEF Calm
<1>7. QED
  BY <1>1, <1>5, <1>6 DEF ApplyBegins

\* What is known of the one call that applies.
LEMMA AppliesFacts ==
  ASSUME CalmStep, NEW e \in Edits, Applies(e)
  PROVE  /\ edit[e].of = transaction.current /\ transaction.current \in Steps
         /\ transaction.registered /\ transaction.status # "completed" /\ ~Stopped
         /\ panel.shown.status # "completed" /\ Current.status # "applied"
         /\ \A g \in Generations : ~Generates(g)
         /\ \A d \in Edits : IsOpen(d) => d = e
<1>1. Calm /\ transaction.current \in Steps
  BY DEF CalmStep, TypeOK, Transactions
<1>2. /\ edit[e].of = transaction.current /\ transaction.registered
      /\ ~ShowsFinalize(panel.shown) /\ Current.status # "applied"
      /\ \A g \in Generations : ~Generates(g)
      /\ \A d \in Edits : IsOpen(d) => d = e
  BY <1>1 DEF Calm, Applying, Waiting, OneAtATime, Applies, IsOpen, ShowsReview
<1>3. panel.shown.status # "completed" /\ ~Stopped
  BY <1>2 DEF ShowsFinalize, Stopped
<1>4. QED
  BY <1>1, <1>2, <1>3 DEF Calm, Outcomes

\* An apply that fails has found a text of the user.
LEMMA FailsCalm ==
  ASSUME CalmStep, NEW e \in Edits, Applies(e), Fails(e, edit[e].of), file[edit[e].of] = "user",
         UNCHANGED <<file, generation>>
  PROVE  Calm'
<1> DEFINE s == edit[e].of
<1>1. /\ Calm /\ transaction \in Transactions /\ step \in StepStates
      /\ step' = [step EXCEPT ![s].status = "failed"]
      /\ transaction' = [transaction EXCEPT !.status = "failed"]
      /\ Returns(e, panel.shown)
  BY DEF CalmStep, TypeOK, Fails
<1>2. /\ s = transaction.current /\ s \in Steps /\ transaction.registered
      /\ transaction.status # "completed" /\ ~Stopped /\ panel.shown.status # "completed"
      /\ step[s].status # "applied" /\ \A g \in Generations : ~Generates(g)
      /\ \A d \in Edits : IsOpen(d) => d = e
  BY AppliesFacts DEF Current
<1>3. /\ \A d \in Edits : ~IsOpen(d)'
      /\ Applying' /\ Waiting' /\ RollingBack' /\ panel'.shown = panel.shown
  BY <1>1, ReturnsCalm, ReturnsFacts DEF Applies, IsOpen
<1>4. /\ transaction'.status = "failed" /\ transaction'.current = transaction.current
      /\ transaction'.abort = transaction.abort /\ transaction'.fresh = transaction.fresh
      /\ transaction'.registered = transaction.registered
  BY <1>1 DEF Transactions
<1>5. \A t \in Steps :
        /\ step'[t].original = step[t].original /\ step'[t].applied = step[t].applied
        /\ step'[t].proposal = step[t].proposal
        /\ step'[t].status = IF t = s THEN "failed" ELSE step[t].status
  BY <1>1, <1>2 DEF StepStates
<1>6. Applied(step') = Applied(step) /\ file[s] = "user"
  BY <1>2, <1>5 DEF Applied
<1> HIDE DEF s
<1>7. OneAtATime' /\ PanelFollows' /\ Originals' /\ Generating'
  <2>1. OneAtATime' /\ Generating'
    BY <1>2, <1>3 DEF OneAtATime, Generating, Generates, Works, Applies, IsOpen
  <2>2. PanelFollows'
    BY <1>1, <1>3, <1>4, <1>5, <1>6 DEF Calm, PanelFollows
  <2>3. Originals'
    BY <1>1, <1>4, <1>5 DEF Calm, Originals
  <2>4. QED
    BY <2>1, <2>2, <2>3
<1>8. Accounting'
  <2> SUFFICES ASSUME NEW t \in Steps, file[t] \in Generations
               PROVE  IsAccounted(t)'
    BY DEF Accounting
  <2>1. t # s
    BY <1>6, StepsAssumption
  <2>2. \A d \in Edits : edit[d].of = t => edit[d].at = "idle"
    BY <1>2, <2>1 DEF IsOpen, s
  <2>3. step[t].status = "applied" /\ step[t].applied = file[t] /\ step[t].original = "base"
    BY <1>1, <1>2, <2>2 DEF Calm, Accounting, IsAccounted
  <2>4. QED
    BY <1>5, <2>1, <2>3 DEF IsAccounted
<1>9. Outcomes'
  BY <1>1, <1>2, <1>3, <1>4, <1>6 DEF Calm, Outcomes, Stopped, Generates
<1>10. Advancing'
  BY <1>1, <1>2, <1>4, <1>5, <1>6 DEF Calm, Advancing, InOrder, Doomed, Current
<1>11. QED
  BY <1>3, <1>7, <1>8, <1>9, <1>10 DEF Calm

\* A step of the only open call that changes the call alone.
LEMMA MovesCalm ==
  ASSUME CalmStep, NEW e \in Edits, IsOpen(e), NEW r, edit' = [edit EXCEPT ![e] = r],
         UNCHANGED <<file, transaction, step, generation, panel>>,
         r.at # "idle", r.kind = edit[e].kind, Applying' /\ Waiting', RollingBack',
         edit[e].at \in {"check", "write"}
  PROVE  Calm'
<1>1. edit'[e] = r /\ \A d \in Edits \ {e} : ~IsOpen(d) /\ ~IsOpen(d)'
  BY MovesFacts
<1>2. Calm
  BY DEF CalmStep
<1>3. OneAtATime'
  BY <1>1, <1>2 DEF Calm, OneAtATime, Generates, Applies, IsOpen
<1>4. PanelFollows' /\ Originals' /\ Generating' /\ Outcomes' /\ Advancing'
  BY <1>2 DEF Calm, PanelFollows, Originals, Generating, Outcomes, Advancing, Generates, Works,
     Current, InOrder, Doomed, Stopped
<1>5. \A d \in Edits : edit[d].at # "verify"
  BY <1>1 DEF IsOpen
<1>6. Accounting'
  BY <1>2, <1>5 DEF Calm, Accounting, IsAccounted
<1>7. QED
  BY <1>3, <1>4, <1>6 DEF Calm

LEMMA ApplyChecksCalm ==
  ASSUME CalmStep, NEW e \in Edits, ApplyChecks(e)
  PROVE  Calm'
<1> DEFINE s == edit[e].of
<1>1. /\ Calm /\ UNCHANGED <<file, generation>> /\ Applies(e) /\ edit[e].at = "check"
      /\ edit \in EditStates
  BY DEF CalmStep, TypeOK, ApplyChecks, Applies, IsOpen
<1>2. s = transaction.current /\ s \in Steps /\ Current.status # "applied"
  BY <1>1, AppliesFacts
<1>3. CASE file[s] # "base" /\ Fails(e, s)
  <2>1. \A d \in Edits : ~(Applies(d) /\ edit[d].of = s /\ edit[d].at = "verify")
    BY <1>1, AppliesFacts DEF Applies, IsOpen
  <2>2. file[s] = "user"
    BY <1>2, <1>3, <2>1, OtherText DEF Current
  <2>3. QED
    BY <1>1, <1>3, <2>2, FailsCalm
<1>4. CASE /\ file[s] = "base"
           /\ edit' = [edit EXCEPT ![e].at = "write", ![e].text = step[s].proposal]
           /\ UNCHANGED <<transaction, step, panel>>
  <2> DEFINE r == [edit[e] EXCEPT !.at = "write", !.text = step[s].proposal]
  <2>1. edit' = [edit EXCEPT ![e] = r]
    BY <1>1, <1>4 DEF EditStates
  <2>2. /\ r.at = "write" /\ r.kind = "apply" /\ r.of = edit[e].of /\ r.text = step[s].proposal
    BY <1>1 DEF EditStates, Applies, IsOpen
  <2> HIDE DEF r
  <2>3. edit'[e] = r /\ \A d \in Edits \ {e} : ~IsOpen(d)'
    BY <1>1, <2>1, MovesFacts DEF Applies, IsOpen
  <2>4. InOrder
    BY <1>1, <1>2, <1>4 DEF Calm, Applying, Waiting
  <2>5. Applying' /\ Waiting'
    <3>1. transaction.status # "failed" /\ panel.shown.status # "failed"
      BY <1>1, <1>2, <1>4, AppliesFacts DEF Calm, Outcomes
    <3>2. QED
      BY <1>1, <1>2, <1>4, <2>2, <2>3, <2>4, <3>1
      DEF Calm, Applying, Waiting, Applies, IsOpen, InOrder, Current
  <2>6. RollingBack'
    BY <2>2, <2>3 DEF RollingBack, RollsBack
  <2>7. QED
    BY <1>1, <1>4, <2>1, <2>2, <2>5, <2>6, MovesCalm DEF Applies, IsOpen
<1>5. QED
  BY <1>3, <1>4 DEF ApplyChecks

LEMMA RollbackChecksCalm ==
  ASSUME CalmStep, NEW e \in Edits, RollbackChecks(e)
  PROVE  Calm'
<1>1. /\ Calm /\ RollsBack(e) /\ edit[e].at = "check" /\ edit \in EditStates
      /\ UNCHANGED <<file, transaction, step, generation, panel>>
      /\ edit' = [edit EXCEPT ![e].at = "write", ![e].text = step[edit[e].of].original]
  BY DEF CalmStep, TypeOK, RollbackChecks, RollsBack, IsOpen
<1> DEFINE r == [edit[e] EXCEPT !.at = "write", !.text = step[edit[e].of].original]
<1>2. edit' = [edit EXCEPT ![e] = r]
  BY <1>1 DEF EditStates
<1>3. /\ r.at = "write" /\ r.kind = "rollback" /\ r.of = edit[e].of /\ r.left = edit[e].left
      /\ r.text = step[edit[e].of].original
  BY <1>1 DEF EditStates, RollsBack
<1> HIDE DEF r
<1>4. edit'[e] = r /\ \A d \in Edits \ {e} : ~IsOpen(d)'
  BY <1>1, <1>2, MovesFacts DEF RollsBack
<1>5. step[edit[e].of].original = "base"
  BY <1>1 DEF Calm, OneAtATime, RollsBack, Originals, EditStates
<1>6. RollingBack'
  BY <1>1, <1>3, <1>4, <1>5 DEF Calm, RollingBack, RollsBack, IsOpen, Doomed, Stopped
<1>7. Applying' /\ Waiting'
  BY <1>3, <1>4 DEF Applying, Waiting, Applies, IsOpen
<1>8. QED
  BY <1>1, <1>2, <1>3, <1>6, <1>7, MovesCalm DEF RollsBack

\* A write goes over a late text of the user at most, and the transaction keeps its
\* outcome: the apply was not failed when it found its text.
LEMMA EditWritesCalm ==
  ASSUME CalmStep, NEW e \in Edits, EditWrites(e)
  PROVE  Calm'
<1> DEFINE s == edit[e].of
<1>1. /\ Calm /\ IsOpen(e) /\ edit[e].at = "write" /\ edit \in EditStates /\ s \in Steps
      /\ UNCHANGED <<transaction, step, generation, panel>>
      /\ \A t \in Steps : file'[t] = IF t = s THEN edit[e].text ELSE file[t]
      /\ edit' = [edit EXCEPT ![e].at = "verify"]
  BY DEF CalmStep, TypeOK, EditWrites, IsOpen, EditStates
<1> DEFINE r == [edit[e] EXCEPT !.at = "verify"]
<1>2. edit' = [edit EXCEPT ![e] = r]
  BY <1>1 DEF EditStates
<1>3. /\ r.at = "verify" /\ r.kind = edit[e].kind /\ r.of = edit[e].of /\ r.left = edit[e].left
      /\ r.text = edit[e].text
  BY <1>1 DEF EditStates
<1> HIDE DEF r
<1>4. edit'[e] = r /\ \A d \in Edits \ {e} : ~IsOpen(d)' /\ ~IsOpen(d)
  BY <1>1, <1>2, MovesFacts
<1>5. \/ Applies(e) /\ s = transaction.current /\ edit[e].text = Current.proposal /\ InOrder
      \/ RollsBack(e) /\ edit[e].text = "base"
  BY <1>1 DEF Calm, Applying, Waiting, RollingBack, Applies, IsOpen, RollsBack, EditStates
<1>6. edit[e].text \notin {"empty", "user"}
  <2>1. Current.proposal \in Proposals /\ edit[e].text \in Texts \ {"user"}
    BY <1>1 DEF CalmStep, TypeOK, Current, StepStates, Transactions, EditStates
  <2>2. CASE edit[e].text = Current.proposal
    BY <2>1, <2>2, StepsAssumption DEF Proposals
  <2>3. QED
    BY <1>5, <2>2
<1>7. \/ file'[transaction.current] = file[transaction.current]
      \/ transaction.registered /\ transaction.status = "completed"
      \/ Applies(e)
  <2> SUFFICES ASSUME RollsBack(e), s = transaction.current
               PROVE  transaction.registered /\ transaction.status = "completed"
    BY <1>1, <1>5 DEF CalmStep, TypeOK, Transactions
  <2>1. s \in Applied(step) /\ transaction.registered
    BY <1>1 DEF Calm, OneAtATime, RollingBack
  <2>2. QED
    BY <1>1, <2>1 DEF Calm, Advancing, Applied, Current
<1>8. Doomed => Doomed' \/ Applies(e)
  BY <1>1, <1>7 DEF Doomed, Stopped
<1>16. Applies(e) => /\ InOrder /\ transaction.status # "failed"
                     /\ panel.shown.status # "failed"
  BY <1>1 DEF Calm, Applying
<1>9. OneAtATime'
  BY <1>1, <1>3, <1>4 DEF Calm, OneAtATime, Generates, Applies, IsOpen
<1>10. PanelFollows' /\ Generating' /\ Originals'
  BY <1>1, <1>6 DEF Calm, PanelFollows, Originals, Generating, Generates, Works, Current
<1>11. Outcomes' /\ Advancing'
  <2>1. Outcomes'
    BY <1>1, <1>7, <1>16 DEF Calm, Outcomes, Generates, Stopped
  <2>2. Advancing'
    BY <1>1, <1>8, <1>16 DEF Calm, Advancing, Current, InOrder
  <2>3. QED
    BY <2>1, <2>2
<1>12. Applying' /\ Waiting'
  <2>1. CASE Applies(e)
    <3>1. transaction.current = s /\ edit[e].text = Current.proposal /\ InOrder
      BY <1>1, <2>1 DEF Calm, Applying, Waiting
    <3>2. /\ Current.proposal # None /\ Current.status # "applied" /\ ShowsReview(panel.shown)
      BY <1>1, <2>1 DEF Calm, Applying, Waiting
    <3>3. file'[transaction.current] = edit[e].text
      BY <1>1, <3>1
    <3>4. QED
      BY <1>1, <1>3, <1>4, <3>1, <3>2, <3>3 DEF Applying, Waiting, Applies, IsOpen, InOrder, Current
  <2>2. CASE ~Applies(e)
    BY <1>1, <1>3, <1>4, <2>2 DEF Applying, Waiting, Applies, IsOpen
  <2>3. QED
    BY <2>1, <2>2
<1>13. RollingBack'
  BY <1>1, <1>3, <1>4, <1>8 DEF Calm, RollingBack, RollsBack, Applies, IsOpen
<1>14. Accounting'
  <2> SUFFICES ASSUME NEW t \in Steps, file'[t] \in Generations
               PROVE  IsAccounted(t)'
    BY DEF Accounting
  <2>1. CASE t = s
    <3>1. edit[e].text \in Generations
      BY <1>1, <2>1
    <3>2. edit[e].kind = "apply"
      BY <1>5, <3>1, StepsAssumption DEF Applies, IsOpen
    <3>3. QED
      BY <1>3, <1>4, <2>1, <3>2 DEF IsAccounted
  <2>2. CASE t # s
    <3>1. \A d \in Edits : edit[d].of = t => edit[d].at # "verify"
      BY <1>1, <1>4, <2>2 DEF IsOpen
    <3>2. IsAccounted(t)
      BY <1>1, <2>2 DEF Calm, Accounting
    <3>3. step[t].status = "applied" /\ step[t].applied = file[t]
          /\ (transaction.registered => step[t].original = "base")
      BY <3>1, <3>2 DEF IsAccounted
    <3>4. QED
      BY <1>1, <2>2, <3>3 DEF IsAccounted
  <2>3. QED
    BY <2>1, <2>2
<1>15. QED
  BY <1>9, <1>10, <1>11, <1>12, <1>13, <1>14 DEF Calm

\* An apply that finds its text in the file makes its step the last applied one.
LEMMA ApplySucceedsCalm ==
  ASSUME CalmStep, NEW e \in Edits, Applies(e), edit[e].at = "verify", ApplySucceeds(e),
         step[edit[e].of].proposal # None, file[edit[e].of] = step[edit[e].of].proposal,
         UNCHANGED <<file, generation>>
  PROVE  Calm'
<1> DEFINE s == edit[e].of
<1>1. /\ Calm /\ transaction \in Transactions /\ step \in StepStates /\ IsOpen(e)
      /\ step' = [step EXCEPT ![s].status = "applied", ![s].applied = step[s].proposal]
      /\ transaction' = [transaction EXCEPT
           !.current = Advanced(s),
           !.status = IF Applied(step') = Steps THEN "completed" ELSE "step-applied"]
      /\ Returns(e, Public(transaction', step'))
  BY DEF CalmStep, TypeOK, ApplySucceeds, Applies, IsOpen
<1>2. /\ s = transaction.current /\ s \in Steps /\ transaction.registered
      /\ step[s].status # "applied" /\ \A g \in Generations : ~Generates(g)
      /\ \A d \in Edits : IsOpen(d) => d = e
  BY AppliesFacts DEF Current
<1>3. \A d \in Edits : ~IsOpen(d)'
  BY <1>1, ReturnsCalm
<1>4. /\ transaction'.status = IF Applied(step') = Steps THEN "completed" ELSE "step-applied"
      /\ transaction'.current = Advanced(s)
      /\ transaction'.abort = transaction.abort /\ transaction'.fresh = transaction.fresh
      /\ transaction'.registered = transaction.registered
  BY <1>1 DEF Transactions
<1>5. \A t \in Steps :
        /\ step'[t].original = step[t].original /\ step'[t].proposal = step[t].proposal
        /\ step'[t].applied = IF t = s THEN step[s].proposal ELSE step[t].applied
        /\ step'[t].status = IF t = s THEN "applied" ELSE step[t].status
  BY <1>1, <1>2 DEF StepStates
<1>6. Applied(step') = Applied(step) \union {s}
  BY <1>2, <1>5 DEF Applied
<1>7. 1..(s - 1) \subseteq Applied(step) /\ Applied(step) \subseteq 1..s
  BY <1>1, <1>2 DEF Calm, Applying, Waiting, InOrder, Advancing
<1>8. /\ panel'.shown.status = transaction'.status
      /\ panel'.shown.current = transaction'.current
      /\ \A t \in Steps : panel'.shown.step[t].proposal = step'[t].proposal
      /\ Applied(panel'.shown.step) = Applied(step')
  <2>1. panel'.shown = Public(transaction', step')
    BY <1>1, ReturnsFacts
  <2>2. QED
    BY <2>1, PublicFacts
<1>9. Applying' /\ Waiting' /\ RollingBack'
  BY <1>1, ReturnsCalm
<1>10. Accounting'
  <2> SUFFICES ASSUME NEW t \in Steps, file[t] \in Generations
               PROVE  IsAccounted(t)'
    BY DEF Accounting
  <2>1. step[t].original = "base"
    BY <1>1, <1>2 DEF Calm, Originals
  <2>2. CASE t = s
    BY <1>5, <2>1, <2>2 DEF IsAccounted
  <2>3. CASE t # s
    <3>1. \A d \in Edits : edit[d].of = t => edit[d].at # "verify"
      BY <1>2, <2>3 DEF IsOpen
    <3>2. step[t].status = "applied" /\ step[t].applied = file[t]
      BY <1>1, <3>1 DEF Calm, Accounting, IsAccounted
    <3>3. QED
      BY <1>5, <2>1, <2>3, <3>2 DEF IsAccounted
  <2>4. QED
    BY <2>2, <2>3
<1> HIDE DEF s
<1>11. OneAtATime' /\ PanelFollows' /\ Originals' /\ Generating'
  <2>1. OneAtATime' /\ Generating'
    BY <1>2, <1>3 DEF OneAtATime, Generating, Generates, Works, Applies, IsOpen
  <2>2. PanelFollows'
    BY <1>8 DEF PanelFollows
  <2>3. Originals'
    BY <1>1, <1>2, <1>5 DEF Calm, Originals
  <2>4. QED
    BY <2>1, <2>2, <2>3
<1>12. Outcomes'
  <2>1. transaction'.status \in {"completed", "step-applied"}
    BY <1>4
  <2>2. QED
    BY <1>2, <1>8, <2>1 DEF Outcomes, Stopped, Generates
<1>13. Advancing'
  <2>1. StepCount \in Nat \ {0} /\ s \in 1..StepCount
    BY <1>2, StepsAssumption DEF Steps
  <2>2. CASE s # StepCount
    <3>1. transaction'.current = s + 1 /\ s + 1 \in Steps
      BY <1>2, <1>4, <2>1, <2>2 DEF Advanced, Steps
    <3>2. InOrder' /\ Applied(step') \subseteq 1..transaction'.current
      BY <1>6, <1>7, <2>1, <3>1 DEF InOrder
    <3>3. s + 1 \notin Applied(step')
      BY <1>6, <1>7, <2>1
    <3>4. Current'.status # "applied"
      BY <3>1, <3>3 DEF Current, Applied
    <3>5. QED
      BY <3>2, <3>4 DEF Advancing
  <2>3. CASE s = StepCount
    <3>1. transaction'.current = s
      BY <1>2, <1>4, <2>3 DEF Advanced
    <3>2. InOrder' /\ Applied(step') \subseteq 1..transaction'.current
      BY <1>6, <1>7, <2>1, <3>1 DEF InOrder
    <3>3. Applied(step') = Steps
      BY <1>6, <1>7, <2>1, <2>3 DEF Steps
    <3>4. transaction'.status = "completed"
      BY <1>4, <3>3
    <3>5. QED
      BY <3>2, <3>4 DEF Advancing
  <2>4. QED
    BY <2>2, <2>3
<1>14. QED
  BY <1>9, <1>10, <1>11, <1>12, <1>13 DEF Calm

LEMMA ApplyVerifiesCalm ==
  ASSUME CalmStep, NEW e \in Edits, ApplyVerifies(e)
  PROVE  Calm'
<1> DEFINE s == edit[e].of
<1>1. /\ Calm /\ Applies(e) /\ edit[e].at = "verify" /\ UNCHANGED <<file, generation>>
      /\ step[s].proposal # None
      /\ \/ file[s] # step[s].proposal /\ Fails(e, s)
         \/ file[s] = step[s].proposal /\ ApplySucceeds(e)
  BY DEF CalmStep, ApplyVerifies, Applies, IsOpen
<1>2. CASE file[s] # step[s].proposal /\ Fails(e, s)
  <2>1. file[s] = "user"
    BY <1>1, <1>2 DEF Calm, Applying, Waiting, Current
  <2>2. QED
    BY <1>1, <1>2, <2>1, FailsCalm
<1>3. CASE file[s] = step[s].proposal /\ ApplySucceeds(e)
  BY <1>1, <1>3, ApplySucceedsCalm
<1>4. QED
  BY <1>1, <1>2, <1>3

\* A rollback ends when no step is applied: no text of the model is on the disk.
LEMMA RollbackEndsCalm ==
  ASSUME CalmStep, NEW e \in Edits, NEW ss, RollbackEnds(e, ss), Applied(ss) = {},
         \A d \in Edits : IsOpen(d) => d = e, \A t \in Steps : file[t] \notin Generations,
         UNCHANGED <<file, generation>>
  PROVE  Calm'
<1>1. PICK c \in Steps :
        transaction' = [transaction EXCEPT !.current = c, !.status = "rolled-back",
                                           !.registered = FALSE]
  BY DEF RollbackEnds
<1>2. /\ Calm /\ transaction \in Transactions /\ generation \in GenerationStates
      /\ step' = ss /\ Returns(e, Public(transaction', ss))
  BY DEF CalmStep, TypeOK, RollbackEnds
<1>3. /\ transaction'.status = "rolled-back" /\ transaction'.current = c
      /\ transaction'.abort = transaction.abort /\ transaction'.fresh = transaction.fresh
      /\ transaction'.registered = FALSE
  BY <1>1, <1>2 DEF Transactions
<1>4. \A d \in Edits : ~IsOpen(d)'
  BY <1>2, ReturnsFacts
<1>5. /\ panel'.shown.status = transaction'.status
      /\ panel'.shown.current = transaction'.current
      /\ \A t \in Steps : panel'.shown.step[t].proposal = step'[t].proposal
  <2>1. panel'.shown = Public(transaction', ss)
    BY <1>2, ReturnsFacts
  <2>2. QED
    BY <1>2, <2>1, PublicFacts
<1>6. OneAtATime' /\ PanelFollows' /\ Originals' /\ Advancing'
  BY <1>2, <1>3, <1>4, <1>5 DEF Calm, OneAtATime, PanelFollows, Originals, Advancing,
     Generates, Applies, IsOpen
<1>7. Outcomes'
  BY <1>2, <1>3, <1>5 DEF Outcomes
<1>8. Generating'
  BY <1>2, <1>3 DEF Generating, Works, Applied, GenerationStates
<1>9. Applying' /\ Waiting' /\ RollingBack' /\ Accounting'
  BY <1>4 DEF Applying, Waiting, RollingBack, Applies, IsOpen, RollsBack, Accounting
<1>10. QED
  BY <1>6, <1>7, <1>8, <1>9 DEF Calm

\* A rollback begins when no step will be applied any more.
LEMMA RollbackCalm ==
  ASSUME CalmStep, NEW e \in Edits, Rollback(e)
  PROVE  Calm'
<1>1. /\ Calm /\ UNCHANGED <<file, generation>> /\ ShowsFinalize(panel.shown)
      /\ transaction.registered /\ panel.busy = None /\ step \in StepStates
      /\ transaction.current \in Steps
  BY DEF CalmStep, TypeOK, Rollback, Press, Transactions
<1>2. \A d \in Edits : ~IsOpen(d)
  BY <1>1, StepsAssumption DEF Calm, OneAtATime
<1>3. CASE Applied(step) = {} /\ RollbackEnds(e, step)
  <2>1. \A t \in Steps : file[t] \notin Generations
    BY <1>1, <1>2, <1>3 DEF Calm, Accounting, IsAccounted, IsOpen, Applied
  <2>2. QED
    BY <1>1, <1>2, <1>3, <2>1, RollbackEndsCalm
<1>4. ASSUME NEW s \in Steps, IsLast(s, Applied(step)), UNCHANGED <<transaction, step>>,
             Opens(e, [NoEdit EXCEPT !.at = "check", !.kind = "rollback", !.of = s,
                                     !.left = Applied(step) \ {s}])
      PROVE  Calm'
  <2> DEFINE r == [NoEdit EXCEPT !.at = "check", !.kind = "rollback", !.of = s,
                                 !.left = Applied(step) \ {s}]
  <2>1. r.at = "check" /\ r.of = s /\ r.kind = "rollback" /\ r.left = Applied(step) \ {s}
    BY DEF NoEdit
  <2> HIDE DEF r
  <2>2. /\ edit'[e] = r /\ panel'.shown = panel.shown /\ panel'.busy = e
        /\ \A d \in Edits \ {e} : ~IsOpen(d)'
    BY <1>2, <1>4, OpensFacts DEF r
  <2>3. Doomed
    BY <1>1 DEF ShowsFinalize, Doomed, Stopped, Calm, Outcomes
  <2>4. OneAtATime' /\ PanelFollows' /\ Originals' /\ Generating'
    BY <1>1, <1>2, <1>4, <2>1, <2>2 DEF Calm, OneAtATime, PanelFollows, Originals, Generating,
       Generates, Works, Applies, IsOpen, Current
  <2>5. Outcomes' /\ Advancing'
    BY <1>1, <1>4, <2>2 DEF Calm, Outcomes, Stopped, Generates, Advancing, InOrder, Doomed, Current
  <2>6. Applying' /\ Waiting'
    BY <2>1, <2>2 DEF Applying, Waiting, Applies, IsOpen
  <2>7. RollingBack'
    <3>1. Doomed'
      BY <1>1, <1>4, <2>2, <2>3 DEF Doomed, Stopped
    <3>2. Applied(step') = edit'[e].left \union {edit'[e].of} /\ edit'[e].of \notin edit'[e].left
      BY <1>4, <2>1, <2>2 DEF IsLast
    <3>3. QED
      BY <2>1, <2>2, <3>1, <3>2 DEF RollingBack, RollsBack
  <2>8. Accounting'
    BY <1>1, <1>2, <1>4 DEF Calm, Accounting, IsAccounted, IsOpen
  <2>9. QED
    BY <2>4, <2>5, <2>6, <2>7, <2>8 DEF Calm
<1>5. QED
  BY <1>3, <1>4 DEF Rollback, ToRestore

LEMMA RollbackVerifiesCalm ==
  ASSUME CalmStep, NEW e \in Edits, RollbackVerifies(e)
  PROVE  Calm'
<1> DEFINE s == edit[e].of
           restored == [step EXCEPT ![s].status = "pending", ![s].applied = None,
                                    ![s].proposal = None]
<1>1. /\ Calm /\ RollsBack(e) /\ edit[e].at = "verify" /\ edit \in EditStates /\ s \in Steps
      /\ UNCHANGED <<file, generation>> /\ file[s] = "base" /\ step \in StepStates
      /\ transaction.current \in Steps /\ generation \in GenerationStates
  BY DEF CalmStep, TypeOK, RollbackVerifies, RollsBack, IsOpen, EditStates, Transactions
<1>2. /\ Applied(step) = edit[e].left \union {s} /\ s \notin edit[e].left /\ Doomed
      /\ transaction.registered /\ \A d \in Edits : IsOpen(d) => d = e
  BY <1>1 DEF Calm, RollingBack, OneAtATime, RollsBack
<1>3. \A t \in Steps :
        /\ restored[t].original = step[t].original
        /\ restored[t].proposal = IF t = s THEN None ELSE step[t].proposal
        /\ restored[t].applied = IF t = s THEN None ELSE step[t].applied
        /\ restored[t].status = IF t = s THEN "pending" ELSE step[t].status
  BY <1>1 DEF StepStates
<1> HIDE DEF restored
<1>4. Applied(restored) = edit[e].left
  <2>1. Applied(restored) = Applied(step) \ {s}
    BY <1>3 DEF Applied
  <2>2. QED
    BY <1>2, <2>1
<1>5. \A t \in Steps : file[t] \in Generations =>
        t # s /\ step[t].status = "applied" /\ step[t].applied = file[t]
        /\ step[t].original = "base"
  <2>1. \A d \in Edits : ~(edit[d].kind = "apply" /\ edit[d].at = "verify")
    BY <1>1, <1>2 DEF IsOpen, RollsBack
  <2>2. QED
    BY <1>1, <1>2, <2>1, StepsAssumption DEF Calm, Accounting, IsAccounted
<1>6. CASE edit[e].left = {} /\ RollbackEnds(e, restored)
  <2>1. \A t \in Steps : file[t] \notin Generations
    BY <1>2, <1>5, <1>6 DEF Applied
  <2>2. QED
    BY <1>1, <1>2, <1>4, <1>6, <2>1, RollbackEndsCalm
<1>7. ASSUME NEW t \in Steps, IsLast(t, edit[e].left), step' = restored,
             edit' = [edit EXCEPT ![e].at = "check", ![e].of = t, ![e].left = @ \ {t}],
             UNCHANGED <<transaction, panel>>
      PROVE  Calm'
  <2> DEFINE r == [edit[e] EXCEPT !.at = "check", !.of = t, !.left = @ \ {t}]
  <2>1. edit' = [edit EXCEPT ![e] = r]
    BY <1>1, <1>7 DEF EditStates
  <2>2. r.at = "check" /\ r.of = t /\ r.kind = "rollback" /\ r.left = edit[e].left \ {t}
    BY <1>1 DEF EditStates, RollsBack
  <2> HIDE DEF r
  <2>3. edit'[e] = r /\ \A d \in Edits \ {e} : ~IsOpen(d)' /\ ~IsOpen(d)
    BY <1>1, <2>1, MovesFacts DEF RollsBack
  <2>4. t \in edit[e].left /\ Applied(step') = edit[e].left
    BY <1>4, <1>7 DEF IsLast
  <2>5. Applied(step') \subseteq Applied(step) /\ Applied(step') # {}
    BY <1>2, <2>4
  <2>6. \A u \in Steps :
          /\ step'[u].original = step[u].original
          /\ step'[u].proposal \in {None, step[u].proposal}
          /\ step'[u].status = "applied" => step[u].status = "applied"
          /\ u # s => step'[u].applied = step[u].applied /\ step'[u].status = step[u].status
    BY <1>3, <1>7
  <2>7. OneAtATime'
    BY <1>1, <1>2, <1>7, <2>2, <2>3 DEF Calm, OneAtATime, Generates, Applies, IsOpen
  <2>8. PanelFollows'
    BY <1>1, <1>7, <2>5, <2>6 DEF Calm, PanelFollows
  <2>9. Originals'
    BY <1>1, <1>7, <2>6 DEF Calm, Originals
  <2>10. Generating'
    BY <1>1, <1>7, <2>6 DEF Calm, Generating, Generates, Works, Current, GenerationStates
  <2>11. Outcomes'
    BY <1>1, <1>2, <1>7 DEF Calm, Outcomes, Stopped, Generates
  <2>12. Doomed'
    BY <1>1, <1>2, <1>7 DEF Doomed, Stopped
  <2>13. Advancing'
    BY <1>1, <1>2, <1>7, <2>5, <2>6, <2>12 DEF Calm, Advancing, Current
  <2>14. Applying' /\ Waiting'
    BY <2>2, <2>3 DEF Applying, Waiting, Applies, IsOpen
  <2>15. RollingBack'
    BY <2>2, <2>3, <2>4, <2>12 DEF RollingBack, RollsBack
  <2>16. Accounting'
    BY <1>1, <1>5, <1>7, <2>6 DEF Accounting, IsAccounted
  <2>17. QED
    BY <2>7, <2>8, <2>9, <2>10, <2>11, <2>13, <2>14, <2>15, <2>16 DEF Calm
<1>8. QED
  BY <1>6, <1>7 DEF RollbackVerifies, restored

---------------------------------------------------------------------------
(* The inductive invariant *)

Restorable == Known /\ (disturbed \/ Calm)

LEMMA InitCalm == Init => Calm
<1> SUFFICES ASSUME Init PROVE Calm
  OBVIOUS
<1>1. /\ transaction.status = "prepared" /\ transaction.current = 1 /\ transaction.registered
      /\ panel.shown = Public(transaction, step)
      /\ \A s \in Steps : /\ file[s] = "base" /\ step[s].status = "pending"
                          /\ step[s].original = "base"
      /\ \A g \in Generations : generation[g].at = "idle"
      /\ \A e \in Edits : edit[e].at = "idle"
  BY DEF Init, NewTransaction, NewStep, NoGeneration, NoEdit
<1>2. /\ panel.shown.status = "prepared" /\ panel.shown.current = transaction.current
      /\ \A s \in Steps : panel.shown.step[s].proposal = step[s].proposal
      /\ Applied(panel.shown.step) = Applied(step)
  BY <1>1, PublicFacts
<1>3. Applied(step) = {} /\ 1 \in Steps
  BY <1>1, StepsAssumption DEF Applied, Steps
<1>4. OneAtATime /\ Generating
  BY <1>1 DEF OneAtATime, Generating, Generates, Works, Applies, IsOpen, Init, NewStep, Current
<1>5. PanelFollows /\ Outcomes /\ Originals
  BY <1>1, <1>2, <1>3 DEF PanelFollows, Outcomes, Originals, Stopped
<1>6. Advancing
  BY <1>1, <1>3 DEF Advancing, InOrder, Current
<1>7. Applying /\ Waiting /\ RollingBack
  BY <1>1 DEF Applying, Waiting, RollingBack, Applies, RollsBack, IsOpen
<1>8. Accounting
  BY <1>1, StepsAssumption DEF Accounting
<1>9. QED
  BY <1>4, <1>5, <1>6, <1>7, <1>8 DEF Calm

\* A state that is disturbed stays so.
LEMMA DisturbedStays == TypeOK /\ disturbed /\ [Next]_vars => disturbed'
<1> SUFFICES ASSUME TypeOK, disturbed, [Next]_vars PROVE disturbed'
  OBVIOUS
<1>1. CASE UNCHANGED disturbed
  BY <1>1, Zenon
<1>2. CASE Propose
  BY <1>2, Zenon DEF Propose
<1>3. CASE Reopen
  BY <1>3, Zenon DEF Reopen
<1>4. ASSUME NEW e \in Edits, EditThrows(e)
      PROVE  disturbed'
  BY <1>4, Zenon DEF EditThrows
<1>5. QED
  BY <1>1, <1>2, <1>3, <1>4, Zenon
  DEF Next, vars, Generate, Regenerate, Reject, Cancel, Keep, RulesChange,
      GenerationStarts, GenerationReads, GenerationAnswers, GenerationThrows,
      Apply, ApplyBegins, ApplyChecks, EditWrites, ApplyVerifies, Rollback, RollbackChecks,
      RollbackVerifies, UserSaves

\* A step that does not disturb keeps what holds until then.
LEMMA NextCalm ==
  ASSUME CalmStep, Next
  PROVE  Calm'
<1>1. CASE Generate
  BY <1>1, GenerateCalm
<1>2. CASE Regenerate
  BY <1>2, RegenerateCalm
<1>3. CASE Reject
  BY <1>3, RejectCalm
<1>4. CASE Cancel
  BY <1>4, CancelCalm
<1>5. CASE Keep
  BY <1>5, KeepCalm
<1>6. CASE Reopen
  BY <1>6, ReopenCalm
<1>7. CASE RulesChange
  BY <1>7, RulesChangeCalm
<1>8. ASSUME NEW g \in Generations,
             \/ GenerationStarts(g) \/ GenerationReads(g)
             \/ GenerationAnswers(g) \/ GenerationThrows(g)
      PROVE  Calm'
  BY <1>8, GenerationStartsCalm, GenerationReadsCalm, GenerationAnswersCalm, GenerationThrowsCalm
<1>9. ASSUME NEW e \in Edits, \/ Apply(e) \/ ApplyBegins(e) \/ ApplyChecks(e)
             \/ EditWrites(e) \/ ApplyVerifies(e)
      PROVE  Calm'
  BY <1>9, ApplyCalm, ApplyBeginsCalm, ApplyChecksCalm, EditWritesCalm, ApplyVerifiesCalm
<1>10. ASSUME NEW e \in Edits,
              Rollback(e) \/ RollbackChecks(e) \/ RollbackVerifies(e) \/ EditThrows(e)
       PROVE  Calm'
  BY <1>10, RollbackCalm, RollbackChecksCalm, RollbackVerifiesCalm, EditThrowsCalm
<1>11. ASSUME NEW s \in Steps, UserSaves(s)
       PROVE  Calm'
  BY <1>11, UserSavesCalm
<1>12. QED
  BY <1>1, <1>2, <1>3, <1>4, <1>5, <1>6, <1>7, <1>8, <1>9, <1>10, <1>11 DEF Next

\* A stutter changes nothing.
LEMMA StutterCalm ==
  ASSUME Calm, UNCHANGED vars
  PROVE  Calm'
BY DEF vars, Calm, OneAtATime, PanelFollows, Outcomes, Originals, Generating, Advancing, Applying, Waiting,
   RollingBack, Accounting, Generates, Works, Applies, RollsBack, IsOpen, InOrder, Doomed, Stopped,
   Current, IsAccounted

LEMMA CalmRestores == TypeOK /\ Calm => ChangesAreRestorable
BY DEF Calm, Accounting, Outcomes, ChangesAreRestorable

LEMMA CalmReviews == TypeOK /\ Calm => WritesWhatIsReviewed
BY DEF TypeOK, Transactions, Calm, Applying, Applies, IsOpen, PanelFollows, Current, WritesWhatIsReviewed

\* The invariant holds in every reachable state.
LEMMA StaysRestorable == Spec => []Restorable
<1>1. Init => Restorable
  <2>1. Init => WritesOverKnown
    BY DEF Init, WritesOverKnown, NoEdit
  <2>2. QED
    BY <2>1, InitType, InitCalm DEF Restorable, Known
<1>2. Restorable /\ [Next]_vars => Restorable'
  <2> SUFFICES ASSUME Restorable, [Next]_vars PROVE Restorable'
    OBVIOUS
  <2>1. Known /\ Known'
    BY NextType, KnownType DEF Restorable, Known
  <2>2. CASE disturbed \/ disturbed'
    <3>1. disturbed'
      BY <2>1, <2>2, DisturbedStays DEF Known
    <3>2. QED
      BY <2>1, <3>1 DEF Restorable
  <2>3. CASE ~disturbed /\ ~disturbed'
    <3>1. Calm
      BY <2>3 DEF Restorable
    <3>2. CASE UNCHANGED vars
      BY <2>1, <3>1, <3>2, StutterCalm DEF Restorable
    <3>3. CASE Next
      <4>1. CalmStep
        BY <2>1, <2>3, <3>1 DEF CalmStep, Known
      <4>2. QED
        BY <2>1, <3>3, <4>1, NextCalm DEF Restorable
    <3>4. QED
      BY <3>2, <3>3
  <2>4. QED
    BY <2>2, <2>3
<1>3. QED
  BY <1>1, <1>2, PTL DEF Spec

\* Unless generations or panels overlap or a call fails right after its write,
\* a text of the model on the disk is one a rollback takes away, and after a
\* rollback none is left: applyStep, rollbackTransaction and the panel that
\* calls them, for any number of steps.
THEOREM ChangesCanBeRolledBack == Spec => []ChangesAreRestorable
<1>1. Restorable => ChangesAreRestorable
  BY CalmRestores DEF Restorable, Known, ChangesAreRestorable
<1>2. QED
  BY <1>1, StaysRestorable, PTL

\* Unless generations or panels overlap or a call fails right after its write,
\* what an apply writes is the text that the panel has under review: applyStep,
\* proposeExecutionStep, rejectStepProposal and the panel that calls them.
THEOREM OnlyReviewedTextIsWritten == Spec => []WritesWhatIsReviewed
<1>1. Restorable => WritesWhatIsReviewed
  BY CalmReviews DEF Restorable, Known, WritesWhatIsReviewed
<1>2. QED
  BY <1>1, StaysRestorable, PTL

===========================================================================
