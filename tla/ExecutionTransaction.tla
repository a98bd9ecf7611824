----------------------- MODULE ExecutionTransaction -----------------------
(***************************************************************************)
(* The multi-file execution transaction of the desktop application:        *)
(* src/packages/levi-desktop/electron/main/execution-context.ts, its       *)
(* handlers in index.ts and the panel of the window that calls them,       *)
(* ExecutionReviewPanel.tsx.  The model is asked for the text of one step  *)
(* at a time; the user applies or rejects it, and at last keeps the        *)
(* applied files or rolls them back.                                       *)
(*                                                                         *)
(* The life of one prepared transaction in one window.  Each step has a    *)
(* file of its own (duplicates are refused when it is prepared).  A text   *)
(* is known by who wrote it: it is the one read at the preparation, the    *)
(* answer of a generation, the user's, or empty; equal hashes are equal    *)
(* texts.  An event reaches the panel with the step that sends it.         *)
(***************************************************************************)
EXTENDS Naturals

CONSTANTS
  StepCount,      \* the number of steps of the plan
  Generations,    \* calls of proposeExecutionStep that may be open at once
  Edits,          \* calls of apply and rollback that may be open at once
  None,           \* no generation, no edit, no text
  MaxClicks       \* bound: clicks of a behaviour

ASSUME StepsAssumption ==
  /\ StepCount \in Nat \ {0}
  /\ None \notin Generations \union Edits \union {"base", "user", "empty"}
  /\ Generations \intersect {"base", "user", "empty"} = {}
  /\ MaxClicks \in Nat

VARIABLES
  file,         \* the texts on the disk
  transaction,  \* the transaction without its steps, and whether it is registered
  step,         \* transaction.steps
  generation,   \* the open calls of proposeExecutionStep
  active,       \* activeExecutionGenerations of the window
  edit,         \* the open calls of applyStep and rollbackTransaction
  panel,        \* what the panel shows, and the call it is busy with
  disturbed,    \* history: two generations were open at once, or an edit failed after its write
  late,         \* history: steps last saved by the user after an edit had compared their file
  clicks        \* clicks so far

vars == <<file, transaction, step, generation, active, edit, panel, disturbed, late, clicks>>

\* The steps in the order of the plan.
Steps == 1..StepCount

Statuses == {"prepared", "generating", "step-proposed", "applying", "step-applied", "completed",
             "kept", "rolled-back", "failed", "cancelled", "paused"}

StepStatuses == {"pending", "proposed", "applied", "failed"}

Texts == Generations \union {"base", "user", "empty"}

\* fresh: the fingerprint of the project rules is still the one of the preparation.
NewTransaction ==
  [status |-> "prepared", current |-> 1, abort |-> FALSE, fresh |-> TRUE, registered |-> TRUE]

NewStep == [status |-> "pending", proposal |-> None, applied |-> None, original |-> "base"]

NoGeneration == [at |-> "idle", of |-> 1]

\* left: the steps a rollback has still to restore after this one.
NoEdit == [at |-> "idle", kind |-> "apply", of |-> 1, text |-> "empty", left |-> {}]

\* publicExecutionTransaction, as far as the panel looks at it.
Public(t, ss) ==
  [status |-> t.status, current |-> t.current,
   step |-> [s \in Steps |-> [status |-> ss[s].status, proposal |-> ss[s].proposal]]]

Init ==
  /\ file = [s \in Steps |-> "base"]
  /\ transaction = NewTransaction
  /\ step = [s \in Steps |-> NewStep]
  /\ generation = [g \in Generations |-> NoGeneration]
  /\ active = None
  /\ edit = [e \in Edits |-> NoEdit]
  /\ panel = [shown |-> Public(transaction, step), busy |-> None]
  /\ disturbed = FALSE
  /\ late = {}
  /\ clicks = 0

Applied(ss) == {s \in Steps : ss[s].status = "applied"}

Current == step[transaction.current]

---------------------------------------------------------------------------
\* The panel.

HasApplied(shown) == Applied(shown.step) # {}

Finalized(shown) == shown.status \in {"kept", "rolled-back"}

ShowsFinalize(shown) ==
  \/ shown.status = "completed"
  \/ HasApplied(shown) /\ shown.status \in {"cancelled", "failed", "paused"}

ShowsReview(shown) ==
  /\ shown.step[shown.current].proposal # None
  /\ ~ShowsFinalize(shown) /\ ~Finalized(shown)

ShowsPrepare(shown) ==
  /\ ~ShowsFinalize(shown) /\ ~ShowsReview(shown) /\ ~Finalized(shown)
  /\ shown.status \notin {"cancelled", "failed", "paused"}
  /\ Applied(shown.step) # Steps

Click ==
  /\ clicks < MaxClicks
  /\ clicks' = clicks + 1

\* Mutant of Press: a busy panel does not disable its buttons.
PressWhileBusy(shows) ==
  /\ Click
  /\ shows
  /\ transaction.registered

\* A button of the review or of the final choice, which a busy panel disables.
Press(shows) ==
  /\ Click
  /\ shows /\ panel.busy = None
  /\ transaction.registered

Shows(t, ss) == panel' = [panel EXCEPT !.shown = Public(t, ss)]

---------------------------------------------------------------------------
\* proposeExecutionStep and proposeStepContent.

\* Opens a generation unless one is active.
Propose ==
  IF active # None
    THEN UNCHANGED <<generation, disturbed>>
    ELSE \E g \in Generations :
           /\ generation[g].at = "idle"
           /\ generation' = [generation EXCEPT ![g].at = "available"]
           /\ disturbed' = (disturbed \/ \E h \in Generations : generation[h].at # "idle")

\* "Generate Code".
Generate ==
  /\ Click
  /\ ShowsPrepare(panel.shown)
  /\ transaction.registered
  /\ Propose
  /\ UNCHANGED <<file, transaction, step, active, edit, panel, late>>

\* rejectStepProposal.
Rejected == [step EXCEPT ![transaction.current].proposal = None,
                         ![transaction.current].status = "pending"]

Reject ==
  /\ Press(ShowsReview(panel.shown))
  /\ Current.proposal # None
  /\ step' = Rejected
  /\ transaction' = [transaction EXCEPT !.status = "prepared"]
  /\ Shows(transaction', step')
  /\ UNCHANGED <<file, generation, active, edit, disturbed, late>>

\* The panel is not told of the rejection.
Regenerate ==
  /\ Press(ShowsReview(panel.shown))
  /\ \/ /\ Current.proposal # None
        /\ step' = Rejected
        /\ transaction' = [transaction EXCEPT !.status = "prepared"]
     \/ /\ Current.proposal = None
        /\ UNCHANGED <<step, transaction>>
  /\ Propose
  /\ UNCHANGED <<file, active, edit, panel, late>>

\* The end of a generation removes whatever generation is active.
GenerationEnds(g) ==
  /\ generation' = [generation EXCEPT ![g] = NoGeneration]
  /\ active' = None

\* The guards of proposeStepContent.
MayGenerate == ~transaction.abort /\ transaction.fresh /\ Current.status # "applied"

\* The model is available: the generation becomes the active one.
GenerationStarts(g) ==
  /\ generation[g].at = "available"
  /\ \/ /\ MayGenerate
        /\ active' = g
        /\ generation' = [generation EXCEPT ![g] = [at |-> "read", of |-> transaction.current]]
        /\ transaction' = [transaction EXCEPT !.status = "generating"]
     \/ /\ ~MayGenerate
        /\ GenerationEnds(g)
        /\ transaction' = IF ~transaction.abort /\ ~transaction.fresh
                            THEN [transaction EXCEPT !.status = "paused"] ELSE transaction
  /\ UNCHANGED <<file, step, edit, panel, disturbed, clicks, late>>

GenerationReads(g) ==
  /\ generation[g].at = "read"
  /\ LET s == generation[g].of
     IN \/ /\ file[s] = "base"
           /\ generation' = [generation EXCEPT ![g].at = "model"]
           /\ UNCHANGED <<transaction, step, active>>
        \/ /\ file[s] # "base"
           /\ step' = [step EXCEPT ![s].status = "failed"]
           /\ transaction' = [transaction EXCEPT !.status = "failed"]
           /\ GenerationEnds(g)
  /\ UNCHANGED <<file, edit, panel, disturbed, clicks, late>>

\* createExecutionProposalFromModelOutput accepts the answer.
AnswerFits(g) ==
  /\ ~transaction.abort
  /\ Current.status # "applied"
  /\ generation[g].of = transaction.current

GenerationAnswers(g) ==
  /\ generation[g].at = "model"
  /\ AnswerFits(g)
  /\ LET s == generation[g].of
     IN step' = [step EXCEPT ![s].proposal = g, ![s].status = "proposed"]
  /\ transaction' = [transaction EXCEPT !.status = "step-proposed"]
  /\ GenerationEnds(g)
  /\ Shows(transaction', step')
  /\ UNCHANGED <<file, edit, disturbed, clicks, late>>

\* The model is not available, fails or is stopped, its answer is not
\* accepted, or the file cannot be read.
GenerationThrows(g) ==
  /\ generation[g].at # "idle"
  /\ IF generation[g].at = "available"
       THEN generation' = [generation EXCEPT ![g] = NoGeneration] /\ UNCHANGED active
       ELSE GenerationEnds(g)
  /\ UNCHANGED <<file, transaction, step, edit, panel, disturbed, clicks, late>>

---------------------------------------------------------------------------
\* cancelTransaction, keepTransaction.

\* The abort is never taken back: it also stops the active generation.
Cancel ==
  /\ Press(ShowsReview(panel.shown))
  /\ transaction' = [transaction EXCEPT
       !.abort = TRUE,
       !.status = IF Applied(step) = Steps THEN "completed" ELSE "cancelled"]
  /\ Shows(transaction', step)
  /\ UNCHANGED <<file, step, generation, active, edit, disturbed, late>>

Keep ==
  /\ Press(ShowsFinalize(panel.shown))
  /\ step' = [s \in Steps |-> [step[s] EXCEPT
       !.original = IF step[s].status = "applied" THEN "empty" ELSE @,
       !.proposal = None]]
  /\ transaction' = [transaction EXCEPT !.status = "kept", !.registered = FALSE]
  /\ Shows(transaction', step')
  /\ UNCHANGED <<file, generation, active, edit, disturbed, late>>

---------------------------------------------------------------------------
\* applyStep.

Opens(e, r) ==
  /\ edit[e].at = "idle"
  /\ edit' = [edit EXCEPT ![e] = r]
  /\ panel' = [panel EXCEPT !.busy = e]

\* The call returns; when it throws the panel is shown nothing new.
Returns(e, shown) ==
  /\ edit' = [edit EXCEPT ![e] = NoEdit]
  /\ panel' = [shown |-> shown, busy |-> IF panel.busy = e THEN None ELSE panel.busy]

MayApply ==
  /\ transaction.status # "applying"
  /\ Current.proposal # None
  /\ Current.status # "applied"

\* The handler awaits the project rules, which are read again when there are none,
\* before it looks at the transaction.
Apply(e) ==
  /\ Press(ShowsReview(panel.shown))
  /\ Opens(e, [NoEdit EXCEPT !.at = "rules", !.of = transaction.current])
  /\ UNCHANGED <<file, transaction, step, generation, active, disturbed, late>>

ApplyBegins(e) ==
  /\ edit[e].at = "rules"
  /\ \/ /\ MayApply /\ transaction.fresh
        /\ transaction' = [transaction EXCEPT !.status = "applying"]
        /\ edit' = [edit EXCEPT ![e].at = "check", ![e].of = transaction.current]
        /\ UNCHANGED panel
     \/ /\ MayApply /\ ~transaction.fresh
        /\ transaction' = [transaction EXCEPT !.status = "paused"]
        /\ Returns(e, panel.shown)
     \/ /\ ~MayApply
        /\ Returns(e, panel.shown)
        /\ UNCHANGED transaction
  /\ UNCHANGED <<file, step, generation, active, disturbed, late, clicks>>

\* A call throws and the step and the transaction have failed.
Fails(e, s) ==
  /\ step' = [step EXCEPT ![s].status = "failed"]
  /\ transaction' = [transaction EXCEPT !.status = "failed"]
  /\ Returns(e, panel.shown)

\* The file was read; the text to write is the one of the proposal as it is now.
ApplyChecks(e) ==
  /\ edit[e].at = "check" /\ edit[e].kind = "apply"
  /\ LET s == edit[e].of
     IN \/ /\ file[s] # "base"
           /\ Fails(e, s)
        \/ /\ file[s] = "base" /\ step[s].proposal # None
           /\ edit' = [edit EXCEPT ![e].at = "write", ![e].text = step[s].proposal]
           /\ UNCHANGED <<transaction, step, panel>>
  /\ UNCHANGED <<file, generation, active, disturbed, clicks, late>>

\* writeAtomically, of an apply or a rollback.
EditWrites(e) ==
  /\ edit[e].at = "write"
  /\ file' = [file EXCEPT ![edit[e].of] = edit[e].text]
  /\ edit' = [edit EXCEPT ![e].at = "verify"]
  /\ UNCHANGED <<transaction, step, generation, active, panel, disturbed, clicks, late>>

\* Mutant of Advanced: the current step advances past the last one.
AdvancedPastEnd(s) == IF s = transaction.current THEN s + 1 ELSE transaction.current

\* The current step advances when it is the one applied, except the last.
Advanced(s) ==
  IF s = transaction.current /\ s # StepCount THEN s + 1 ELSE transaction.current

ApplySucceeds(e) ==
  LET s == edit[e].of
  IN /\ step' = [step EXCEPT ![s].status = "applied", ![s].applied = step[s].proposal]
     /\ transaction' = [transaction EXCEPT
          !.current = Advanced(s),
          !.status = IF Applied(step') = Steps THEN "completed" ELSE "step-applied"]
     /\ Returns(e, Public(transaction', step'))

ApplyVerifies(e) ==
  /\ edit[e].at = "verify" /\ edit[e].kind = "apply"
  /\ LET s == edit[e].of
     IN /\ step[s].proposal # None
        /\ \/ file[s] # step[s].proposal /\ Fails(e, s)
           \/ file[s] = step[s].proposal /\ ApplySucceeds(e)
  /\ UNCHANGED <<file, generation, active, disturbed, clicks, late>>

---------------------------------------------------------------------------
\* rollbackTransaction.

\* The first step that is not applied is the current one again.
IsFirstLeft(c, ss) ==
  \/ c \notin Applied(ss) /\ 1..(c - 1) \subseteq Applied(ss)
  \/ c = 1 /\ Applied(ss) = Steps

RollbackEnds(e, ss) ==
  /\ step' = ss
  /\ \E c \in Steps :
       /\ IsFirstLeft(c, ss)
       /\ transaction' = [transaction EXCEPT !.current = c, !.status = "rolled-back",
                                             !.registered = FALSE]
  /\ Returns(e, Public(transaction', ss))

\* Mutant of ToRestore: the list ends one step before the last one applied.
ToRestoreButLast == {s \in Applied(step) : s + 1 < transaction.current}

ToRestore == Applied(step)

\* They are restored the last one first.
IsLast(s, steps) == s \in steps /\ \A t \in steps : t <= s

Rollback(e) ==
  /\ Press(ShowsFinalize(panel.shown))
  /\ edit[e].at = "idle"
  /\ \/ /\ ToRestore = {}
        /\ RollbackEnds(e, step)
     \/ \E s \in Steps :
          /\ IsLast(s, ToRestore)
          /\ Opens(e, [NoEdit EXCEPT !.at = "check", !.kind = "rollback", !.of = s,
                                     !.left = ToRestore \ {s}])
          /\ UNCHANGED <<transaction, step>>
  /\ UNCHANGED <<file, generation, active, disturbed, late>>

\* The text its apply left, with which the file is compared.
Expected(s) == IF step[s].applied # None THEN step[s].applied ELSE step[s].proposal

\* Mutant of RollbackChecks: it does not look at the file.
RollbackChecksNothing(e) ==
  /\ edit[e].at = "check" /\ edit[e].kind = "rollback"
  /\ edit' = [edit EXCEPT ![e].at = "write", ![e].text = step[edit[e].of].original]
  /\ UNCHANGED <<file, transaction, step, generation, active, panel, disturbed, clicks, late>>

RollbackChecks(e) ==
  /\ edit[e].at = "check" /\ edit[e].kind = "rollback"
  /\ file[edit[e].of] = Expected(edit[e].of)
  /\ edit' = [edit EXCEPT ![e].at = "write", ![e].text = step[edit[e].of].original]
  /\ UNCHANGED <<file, transaction, step, generation, active, panel, disturbed, clicks, late>>

\* It goes on with the next step, or ends.
RollbackVerifies(e) ==
  /\ edit[e].at = "verify" /\ edit[e].kind = "rollback"
  /\ file[edit[e].of] = "base"
  /\ LET restored == [step EXCEPT ![edit[e].of].status = "pending",
                                  ![edit[e].of].applied = None,
                                  ![edit[e].of].proposal = None]
     IN \/ /\ edit[e].left = {}
           /\ RollbackEnds(e, restored)
        \/ \E s \in Steps :
             /\ IsLast(s, edit[e].left)
             /\ step' = restored
             /\ edit' = [edit EXCEPT ![e].at = "check", ![e].of = s, ![e].left = @ \ {s}]
             /\ UNCHANGED <<transaction, panel>>
  /\ UNCHANGED <<file, generation, active, disturbed, clicks, late>>

\* A call of the file system fails or the target is another file now; the
\* proposal was taken away, a text is not the expected one.  The
\* transaction and its steps stay as they are.
EditThrows(e) ==
  /\ edit[e].at # "idle"
  /\ Returns(e, panel.shown)
  /\ disturbed' = (disturbed \/ edit[e].at = "verify")
  /\ UNCHANGED <<file, transaction, step, generation, active, clicks, late>>

---------------------------------------------------------------------------
\* The user and the workspace.

\* The user leaves the view and comes back: a new panel is shown the
\* transaction of the window, and knows of no open call.
Reopen ==
  /\ transaction.registered
  /\ disturbed' = (disturbed \/ panel.busy # None)
  /\ panel' = [shown |-> Public(transaction, step), busy |-> None]
  /\ UNCHANGED <<file, transaction, step, generation, active, edit, clicks, late>>

\* The user saves a file. Between the comparison of an edit and its rename there
\* are five awaited calls of the file system (writeAtomically): what is saved then
\* comes too late for the comparison.
UserSaves(s) ==
  /\ file' = [file EXCEPT ![s] = "user"]
  /\ late' = IF \E e \in Edits : edit[e].at = "write" /\ edit[e].of = s
             THEN late \union {s} ELSE late \ {s}
  /\ UNCHANGED <<transaction, step, generation, active, edit, panel, disturbed, clicks>>

\* The project rules are read again and are not the same.
RulesChange ==
  /\ transaction.fresh
  /\ transaction' = [transaction EXCEPT !.fresh = FALSE]
  /\ UNCHANGED <<file, step, generation, active, edit, panel, disturbed, clicks, late>>

Next ==
  \/ Generate \/ Regenerate \/ Reject \/ Cancel \/ Keep \/ Reopen \/ RulesChange
  \/ \E g \in Generations :
       GenerationStarts(g) \/ GenerationReads(g) \/ GenerationAnswers(g) \/ GenerationThrows(g)
  \/ \E e \in Edits :
       \/ Apply(e) \/ ApplyBegins(e) \/ ApplyChecks(e) \/ EditWrites(e) \/ ApplyVerifies(e)
       \/ Rollback(e) \/ RollbackChecks(e) \/ RollbackVerifies(e) \/ EditThrows(e)
  \/ \E s \in Steps : UserSaves(s)

Spec == Init /\ [][Next]_vars

---------------------------------------------------------------------------
\* Properties.

Proposals == Generations \union {None}

Transactions ==
  [status : Statuses, current : Steps, abort : BOOLEAN, fresh : BOOLEAN, registered : BOOLEAN]

StepStates ==
  [Steps -> [status : StepStatuses, proposal : Proposals, applied : Proposals,
             original : {"base", "empty"}]]

GenerationStates ==
  [Generations -> [at : {"idle", "available", "read", "model"}, of : Steps]]

EditStates ==
  [Edits -> [at : {"idle", "rules", "check", "write", "verify"}, kind : {"apply", "rollback"},
             of : Steps, text : Texts \ {"user"}, left : SUBSET Steps]]

Shown ==
  [status : Statuses, current : Steps,
   step : [Steps -> [status : StepStatuses, proposal : Proposals]]]

PanelStates == [shown : Shown, busy : Edits \union {None}]

TypeOK ==
  /\ file \in [Steps -> Texts]
  /\ transaction \in Transactions
  /\ step \in StepStates
  /\ generation \in GenerationStates
  /\ active \in Proposals
  /\ edit \in EditStates
  /\ panel \in PanelStates
  /\ disturbed \in BOOLEAN
  /\ late \subseteq Steps
  /\ clicks \in 0..MaxClicks

\* The only texts of the user that are ever replaced are those saved after an edit
\* had compared the file and before it wrote: any other stays, whatever calls of
\* applyStep and rollbackTransaction are open and however the saves fall among them.
UserTextSurvives ==
  [][\A s \in Steps \ late : file[s] = "user" => file'[s] = "user"]_vars

\* What an apply writes is the text that the panel shows for review, unless
\* generations or panels overlap: no rejection, regeneration or late answer makes
\* the two differ between the comparison and the write. (An apply clicked while a
\* regeneration is open writes its answer if that comes before the rules are read:
\* the panel shows it by then.)
WritesWhatIsReviewed ==
  \/ disturbed
  \/ \A e \in Edits :
       edit[e].kind = "apply" /\ edit[e].at \in {"write", "verify"} =>
         edit[e].text = panel.shown.step[edit[e].of].proposal

\* A file holds a text of the model because an apply has just written it, or
\* its step is applied with that very text and, until the transaction is
\* kept, the original that a rollback would write back.
IsAccounted(s) ==
  \/ \E e \in Edits : edit[e].of = s /\ edit[e].kind = "apply" /\ edit[e].at = "verify"
  \/ /\ step[s].status = "applied" /\ step[s].applied = file[s]
     /\ transaction.registered => step[s].original = "base"

\* Unless generations or panels overlap or a call fails right after its
\* write, every change of the transaction can be rolled back, and when it is
\* rolled back nothing of it is left on the disk (rollbackTransaction).
ChangesAreRestorable ==
  \/ disturbed
  \/ /\ \A s \in Steps : file[s] \in Generations => IsAccounted(s)
     /\ transaction.status = "rolled-back" => Applied(step) = {}

===========================================================================
