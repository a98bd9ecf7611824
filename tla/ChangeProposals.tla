-------------------------- MODULE ChangeProposals --------------------------
(***************************************************************************)
(* The change proposals of src/src/controlled-workspace-tool-engine.js:    *)
(* creating, validating, approving and rejecting a proposal, applying it   *)
(* file by file, verifying, rolling back and reverting, by calls that run  *)
(* at the same time, while the user edits the files.                       *)
(*                                                                         *)
(* Every access to a file is awaited, so that a call is suspended at each: *)
(* one action is one access and the block up to the next.  The file        *)
(* changes of a proposal are UPDATEs, in the order of the files' numbers.  *)
(* Files are reached as VSCodeWorkspaceMutationAdapter does: applyEdits    *)
(* awaits a read, compares and awaits a write.                             *)
(*                                                                         *)
(* A text is a number: 0 at first, p when proposal p put it there, and     *)
(* below 0 one that the user typed.  Texts stand for their hashes.         *)
(***************************************************************************)
EXTENDS Integers, FiniteSets

CONSTANTS
  Proposals,   \* every proposal of a behaviour
  Files,       \* the files of the workspace
  Touches,     \* the files each proposal changes
  Calls,       \* every call of validateProposal, applyPatch and revertChange
  NoCall,      \* none of them
  MaxEdits,    \* bound of the model: edits by the user
  Modes        \* the configurations a host may give the engine

ASSUME ProposalsAssumption ==
  /\ Proposals \subseteq Nat \ {0} /\ Proposals \intersect Calls = {}
  /\ Files \subseteq Nat
  /\ Touches \in [Proposals -> SUBSET Files]
  /\ \A p \in Proposals : IsFiniteSet(Touches[p]) /\ Touches[p] # {}
  /\ MaxEdits \in Nat /\ NoCall \notin Calls \union Proposals
  \* checkpoint: off, not required; unavailable, required, and no
  \* SourceControlAdapter (the default); taken, required, and an adapter takes it.
  \* asks: requireApprovalForSourceChanges
  /\ Modes \subseteq [checkpoint : {"off", "unavailable", "taken"}, asks : BOOLEAN]

VARIABLES
  mode,      \* the configuration of this engine
  content,   \* the text of each file
  status,    \* proposal.state, "NONE" before it is stored
  base,      \* originalContent and expectedHash of each file change
  approved,  \* proposal.approval is APPROVED, and for the text of the proposal
  call,      \* the calls, those of createProposal under the name of its proposal;
             \* a call of applyPatch stays as its application
  edits,     \* edits of the user so far
  vouched,   \* history: proposals for which a caller has given an APPROVED record
  hasty      \* history: proposals reverted while an application was under way

vars == <<mode, content, status, base, approved, call, edits, vouched, hasty>>

Texts == (0 - MaxEdits)..0 \union Proposals

Every == Calls \union Proposals

Statuses ==
  {"NONE", "READY_FOR_REVIEW", "INVALID", "APPROVED", "REJECTED", "APPLYING",
   "APPLIED", "VERIFIED", "FAILED", "REVERTED"}

Kinds == {"none", "create", "validate", "apply", "revert"}

\* Where a call is suspended, and how it ended.
Places ==
  {"unused", "drafting", "validating", "checkpointing", "reading", "writing",
   "verifying", "restoring", "done", "refused", "failed", "verified", "reverted"}

Ended == {"unused", "done", "refused", "failed", "verified", "reverted"}

\* left: the files still to be reached; stale: validation has a finding;
\* evidence: the proposal that the APPROVED record given with the call names, or 0;
\* undoes: the application that revertChange was asked for; saved: the checkpoint.
\* History: start, the files when the call began; disturbed, whether anyone else
\* wrote one of its files since; broken, whether the adapter failed to write.
Unused ==
  [kind |-> "none", at |-> "unused", of |-> 0, left |-> {}, stale |-> FALSE,
   evidence |-> 0, undoes |-> NoCall, saved |-> [f \in Files |-> 0], start |-> [f \in Files |-> 0],
   disturbed |-> FALSE, broken |-> FALSE]

Init ==
  /\ mode \in Modes
  /\ content = [f \in Files |-> 0]
  /\ status = [p \in Proposals |-> "NONE"]
  /\ base = [p \in Proposals |-> [f \in Files |-> 0]]
  /\ approved = [p \in Proposals |-> FALSE]
  /\ call = [c \in Every |-> Unused]
  /\ edits = 0
  /\ vouched = {} /\ hasty = {}

-----------------------------------------------------------------------------
(* Calls and files *)

Active(c) == call[c].at \notin Ended

Stored == {p \in Proposals : status[p] # "NONE"}

\* The file a call reaches next: revertChange goes through them in reverse.
NextFile(c) ==
  CHOOSE f \in call[c].left :
    \A g \in call[c].left : IF call[c].kind = "revert" THEN g <= f ELSE f <= g

At(place) == {c \in Every : call[c].at = place}

\* The history of the calls when the files become text: a call is disturbed by
\* a write to its files that is not its own.
Disturbed(calls, writer, text) ==
  [c \in Every |->
     IF c # writer /\ calls[c].at \notin Ended
          /\ \E f \in Touches[calls[c].of] : text[f] # content[f]
     THEN [calls[c] EXCEPT !.disturbed = TRUE] ELSE calls[c]]

Write(calls, writer, text) ==
  /\ content' = text
  /\ call' = Disturbed(calls, writer, text)

Starts(c, kind, p, at, e, a) ==
  /\ call[c].at = "unused"
  /\ call' = [call EXCEPT ![c] =
                [Unused EXCEPT !.kind = kind, !.of = p, !.at = at, !.evidence = e,
                               !.undoes = a, !.left = Touches[p], !.start = content]]

\* What is kept of a call that ends: its application, with its checkpoint.
Closed(c, how) ==
  IF how \in {"verified", "failed"} /\ call[c].kind = "apply"
  THEN [Unused EXCEPT !.kind = "apply", !.of = call[c].of, !.at = how,
                      !.saved = call[c].saved]
  ELSE [Unused EXCEPT !.at = how]

\* The call has made its application, which stays in this.applications.
Application(c) ==
  /\ call[c].kind = "apply"
  /\ call[c].at \in {"reading", "writing", "verifying", "restoring",
                     "verified", "failed", "reverted"}

-----------------------------------------------------------------------------
(* createProposal and validateProposal *)

\* The proposal has an identity of its own and is not known until it is stored.
CreateProposal(p) ==
  /\ Starts(p, "create", p, "drafting", 0, NoCall)
  /\ UNCHANGED <<mode, content, status, base, approved, edits, vouched, hasty>>

\* normalizeFileChanges reads the text the proposal is made against.
DraftFile(c) ==
  /\ c \in At("drafting")
  /\ LET p == call[c].of
         f == NextFile(c)
         rest == call[c].left \ {f}
     IN /\ base' = [base EXCEPT ![p][f] = content[f]]
        /\ call' = [call EXCEPT
                      ![c].left = IF rest = {} THEN Touches[p] ELSE rest,
                      ![c].at = IF rest = {} THEN "validating" ELSE "drafting"]
  /\ UNCHANGED <<mode, content, status, approved, edits, vouched, hasty>>

ValidateProposal(c) ==
  /\ \E p \in Stored : Starts(c, "validate", p, "validating", 0, NoCall)
  /\ UNCHANGED <<mode, content, status, base, approved, edits, vouched, hasty>>

ValidateFile(c) ==
  /\ c \in At("validating") /\ call[c].left # {}
  /\ LET f == NextFile(c)
     IN call' = [call EXCEPT ![c].left = @ \ {f},
                             ![c].stale = @ \/ content[f] # base[call[c].of][f]]
  /\ UNCHANGED <<mode, content, status, base, approved, edits, vouched, hasty>>

\* The new state of a proposal, whatever its state was.
Validity(c) == IF call[c].stale THEN "INVALID" ELSE "READY_FOR_REVIEW"

Validated(c) ==
  /\ c \in At("validating") /\ call[c].left = {}
  /\ call[c].kind \in {"create", "validate"}
  /\ status' = [status EXCEPT ![call[c].of] = Validity(c)]
  /\ call' = [call EXCEPT ![c] = Closed(c, "done")]
  /\ UNCHANGED <<mode, content, base, approved, edits, vouched, hasty>>

\* The record replaces the proposal's approval, whatever it says and whoever it
\* comes from: the caller may give another hash or revision than the proposal's.
Binds(p, verdict, matches) ==
  /\ approved' = [approved EXCEPT ![p] = verdict = "APPROVED" /\ matches]
  /\ vouched' = IF verdict = "APPROVED" /\ matches THEN vouched \union {p} ELSE vouched
  /\ UNCHANGED <<mode, content, base, call, edits, hasty>>

\* Mutant of BindApproval: the status of the approval is the new state.
BindApprovalVerbatim(p) ==
  /\ p \in Stored
  /\ \E verdict \in {"APPROVED", "REJECTED", "PENDING"}, matches \in BOOLEAN :
       /\ status' = [status EXCEPT ![p] = verdict]
       /\ Binds(p, verdict, matches)

\* bindApproval and rejectProposal
BindApproval(p) ==
  /\ p \in Stored
  /\ \E verdict \in {"APPROVED", "REJECTED", "PENDING"}, matches \in BOOLEAN :
       /\ status' = IF verdict = "PENDING" THEN status ELSE [status EXCEPT ![p] = verdict]
       /\ Binds(p, verdict, matches)

-----------------------------------------------------------------------------
(* applyPatch *)

\* The caller may give an APPROVED record, of its own writing or of
\* runtimeApprovalForProposal, for this proposal or another; one that is not
\* APPROVED, or is for another text, is refused as one for another proposal is.
ApplyPatch(c) ==
  /\ \E p \in Stored, e \in Stored \union {0} :
       /\ status[p] \notin {"APPLIED", "VERIFIED"}
       /\ Starts(c, "apply", p, "validating", e, NoCall)
       /\ vouched' = vouched \union ({e} \ {0})
  /\ UNCHANGED <<mode, content, status, base, approved, edits, hasty>>

\* Mutant of Bound: an approval of any proposal will do.
BoundToAny(c) ==
  mode.asks => IF call[c].evidence # 0 THEN TRUE ELSE approved[call[c].of]

\* validateApprovalBinding, of the approval given or else the proposal's own
Bound(c) ==
  mode.asks =>
    IF call[c].evidence # 0 THEN call[c].evidence = call[c].of ELSE approved[call[c].of]

ApplyValidated(c) ==
  /\ c \in At("validating") /\ call[c].left = {} /\ call[c].kind = "apply"
  /\ status' = [status EXCEPT ![call[c].of] = Validity(c)]
  /\ call' = IF ~call[c].stale /\ Bound(c)
             THEN [call EXCEPT ![c].at = "checkpointing", ![c].evidence = 0]
             ELSE [call EXCEPT ![c] = Closed(c, "refused")]
  /\ UNCHANGED <<mode, content, base, approved, edits, vouched, hasty>>

\* createCheckpointIfAvailable returns; the application is made.
Checkpoint(c) ==
  /\ c \in At("checkpointing")
  /\ call' = [call EXCEPT ![c].at = "reading", ![c].left = Touches[call[c].of],
                ![c].saved = IF mode.checkpoint = "taken" THEN content ELSE @]
  /\ status' = [status EXCEPT ![call[c].of] = "APPLYING"]
  /\ UNCHANGED <<mode, content, base, approved, edits, vouched, hasty>>

\* It throws: there is no application, and the proposal stays as validated.
CheckpointFails(c) ==
  /\ c \in At("checkpointing") /\ mode.checkpoint = "taken"
  /\ call' = [call EXCEPT ![c] = Closed(c, "refused")]
  /\ UNCHANGED <<mode, content, status, base, approved, edits, vouched, hasty>>

\* What the next file must hold for a call to replace it, and with what.
Expected(c) ==
  IF call[c].kind = "apply" THEN base[call[c].of][NextFile(c)] ELSE call[c].of

Replacement(c) ==
  IF call[c].kind = "apply" THEN call[c].of ELSE base[call[c].of][NextFile(c)]

\* The catch block of applyPatch, which restores unless there is no checkpoint or
\* the caller's rollbackOnFailure is false; a revertChange that throws leaves its application as it is.
Fails(c, calls) ==
  IF call[c].kind = "apply"
  THEN /\ status' = [status EXCEPT ![call[c].of] = "FAILED"]
       /\ \/ call' = [calls EXCEPT ![c] = Closed(c, "failed")]
          \/ mode.checkpoint # "off" /\ call' = [calls EXCEPT ![c].at = "restoring"]
  ELSE /\ call' = [calls EXCEPT ![c] = Closed(c, "failed")]
       /\ UNCHANGED status

ReadFile(c) ==
  /\ c \in At("reading")
  /\ IF content[NextFile(c)] = Expected(c)
     THEN call' = [call EXCEPT ![c].at = "writing"] /\ UNCHANGED status
     ELSE Fails(c, call)
  /\ UNCHANGED <<mode, content, base, approved, edits, vouched, hasty>>

\* An application that is reverted: what is marked on one that is still under way
\* is replaced by the end of its call.
Marked(a) == IF call[a].at \in Ended THEN [call[a] EXCEPT !.at = "reverted"] ELSE call[a]

\* The last write of applyPatch leads to the verification, that of revertChange
\* marks the application.
WriteFile(c) ==
  /\ c \in At("writing")
  /\ LET p == call[c].of
         f == NextFile(c)
         rest == call[c].left \ {f}
         applies == call[c].kind = "apply"
         after ==
           IF rest # {}
           THEN [call EXCEPT ![c].left = rest, ![c].at = "reading"]
           ELSE IF applies
           THEN [call EXCEPT ![c].left = Touches[p], ![c].at = "verifying"]
           ELSE [call EXCEPT ![c] = Closed(c, "reverted"),
                             ![call[c].undoes] = Marked(call[c].undoes)]
     IN /\ Write(after, c, [content EXCEPT ![f] = Replacement(c)])
        /\ status' = IF rest # {} THEN status
                     ELSE [status EXCEPT ![p] = IF applies THEN "APPLIED" ELSE "REVERTED"]
  /\ UNCHANGED <<mode, base, approved, edits, vouched, hasty>>

WriteFails(c) ==
  /\ c \in At("writing")
  /\ Fails(c, [call EXCEPT ![c].broken = TRUE])
  /\ UNCHANGED <<mode, content, base, approved, edits, vouched, hasty>>

\* verifyApplication
VerifyFile(c) ==
  /\ c \in At("verifying")
  /\ LET p == call[c].of
         rest == call[c].left \ {NextFile(c)}
     IN IF content[NextFile(c)] # p THEN Fails(c, call)
        ELSE IF rest # {}
        THEN call' = [call EXCEPT ![c].left = rest] /\ UNCHANGED status
        ELSE /\ call' = [call EXCEPT ![c] = Closed(c, "verified")]
             /\ status' = [status EXCEPT ![p] = "VERIFIED"]
  /\ UNCHANGED <<mode, content, base, approved, edits, vouched, hasty>>

\* Mutant of Restore: the checkpoint is not put back.
RestoreNothing(c) ==
  /\ c \in At("restoring") /\ call[c].kind = "apply"
  /\ call' = [call EXCEPT ![c] = Closed(c, "failed")]
  /\ UNCHANGED <<mode, content, status, base, approved, edits, vouched, hasty>>

\* restoreCheckpoint after a failure: without a SourceControlAdapter it answers
\* UNAVAILABLE, and nobody looks at the answer.
Restore(c) ==
  /\ c \in At("restoring") /\ call[c].kind = "apply"
  /\ Write([call EXCEPT ![c] = Closed(c, "failed")], c,
           IF mode.checkpoint = "taken" THEN call[c].saved ELSE content)
  /\ UNCHANGED <<mode, status, base, approved, edits, vouched, hasty>>

-----------------------------------------------------------------------------
(* revertChange *)

\* Mutant of RevertChange: the application is reverted at once.
RevertUnseen(c) ==
  /\ call[c].at = "unused"
  /\ \E a \in Calls :
       /\ Application(a) /\ call[a].at \in Ended
       /\ call' = [call EXCEPT ![a].at = "reverted"]
       /\ status' = [status EXCEPT ![call[a].of] = "REVERTED"]
  /\ UNCHANGED <<mode, content, base, approved, edits, vouched, hasty>>

\* Of the last application of a proposal or, by its id, of any other, failed ones
\* and those under way included, whatever the state of the proposal is: one with
\* a checkpoint is restored, another is undone file by file.
RevertChange(c) ==
  /\ \E a \in Calls :
       /\ Application(a)
       /\ Starts(c, "revert", call[a].of,
                 IF mode.checkpoint = "off" THEN "reading" ELSE "restoring", 0, a)
       /\ hasty' = IF Active(a) THEN hasty \union {call[a].of} ELSE hasty
  /\ UNCHANGED <<mode, content, status, base, approved, edits, vouched>>

RestoreForRevert(c) ==
  /\ c \in At("restoring") /\ call[c].kind = "revert"
  /\ LET a == call[c].undoes
     IN Write([call EXCEPT ![c] = Closed(c, "reverted"), ![a] = Marked(a)], c,
              IF mode.checkpoint = "taken" THEN call[a].saved ELSE content)
  /\ status' = [status EXCEPT ![call[c].of] = "REVERTED"]
  /\ UNCHANGED <<mode, base, approved, edits, vouched, hasty>>

-----------------------------------------------------------------------------
\* The user types into a file.
UserEdits ==
  /\ edits < MaxEdits
  /\ edits' = edits + 1
  /\ \E f \in Files :
       Write(call, NoCall, [content EXCEPT ![f] = 0 - edits'])
  /\ UNCHANGED <<mode, status, base, approved, vouched, hasty>>

Next ==
  \/ \E p \in Proposals : CreateProposal(p) \/ BindApproval(p)
  \/ \E c \in Calls : ValidateProposal(c) \/ ApplyPatch(c) \/ RevertChange(c)
  \/ \E c \in Every :
       \/ DraftFile(c) \/ ValidateFile(c) \/ Validated(c)
       \/ ApplyValidated(c) \/ Checkpoint(c) \/ CheckpointFails(c)
       \/ ReadFile(c) \/ WriteFile(c) \/ WriteFails(c) \/ VerifyFile(c)
       \/ Restore(c) \/ RestoreForRevert(c)
  \/ UserEdits

Spec == Init /\ [][Next]_vars

-----------------------------------------------------------------------------
(* Properties *)

CallRecords ==
  [kind : Kinds, at : Places, of : Proposals \union {0}, left : SUBSET Files,
   stale : BOOLEAN, evidence : Proposals \union {0},
   undoes : Calls \union {NoCall}, saved : [Files -> Texts],
   start : [Files -> Texts], disturbed : BOOLEAN, broken : BOOLEAN]

TypeOK ==
  /\ mode \in Modes
  /\ content \in [Files -> Texts]
  /\ status \in [Proposals -> Statuses]
  /\ base \in [Proposals -> [Files -> Texts]]
  /\ approved \in [Proposals -> BOOLEAN]
  /\ call \in [Every -> CallRecords]
  /\ edits \in 0..MaxEdits
  /\ vouched \subseteq Proposals /\ hasty \subseteq Proposals

\* "Approval must be explicit, approved, and bound to proposal ID": unless the
\* configuration asks for none, no file ever holds the text of a proposal for
\* which no caller has bound or given an APPROVED record that names it, whatever
\* records callers hold for others and however their calls interleave.
OnlyApprovedText ==
  mode.asks => \A f \in Files : content[f] \in Proposals => content[f] \in vouched

\* The adapter failed to write for this call.
Broke(c) == call[c].broken \/ (call[c].at = "writing" /\ content' = content)

\* The files a call leaves when nobody else writes them: all of the proposal
\* when it ends well, and as it found them when it ends badly, unless a write
\* failed and no checkpoint is put back, as there is none or the caller declines.
AllOrNothing ==
  [][\A c \in Calls :
       LET p == call[c].of
           before == call[c].start
           end == call'[c].at
       IN /\ Active(c) /\ end \in Ended
          /\ call[c].kind = "apply" /\ ~call[c].disturbed
          => \A f \in Touches[p] :
               IF end = "verified" THEN content'[f] = p
               ELSE ~Broke(c) \/ (mode.checkpoint = "taken" /\ call[c].at = "restoring")
                      => content'[f] = before[f]]_vars

\* Without checkpoints every text of a proposal in the files belongs to an
\* application that is not reverted, so that what was applied can be found and
\* undone, unless another proposal was made against that text (a revert of the
\* other may bring it back after its own application was reverted), or one of its
\* applications was reverted while it was still under way.
AppliedTextIsRecorded ==
  mode.checkpoint = "off" =>
    \A f \in Files, p \in Proposals \ hasty :
      content[f] = p =>
        \/ \E c \in Calls :
             /\ call[c].kind = "apply" /\ call[c].of = p
             /\ call[c].at \in {"reading", "writing", "verifying", "verified", "failed"}
        \/ \E q \in Proposals \ {p} : base[q][f] = p

\* "rollback uses checkpoint restoration or inverse file edits where possible"
\* (LAYER_3_WORKSPACE_TOOLS.md:91): revertChange takes the text of a verified
\* application out of the files.
RevertTakesTextOut ==
  [][\A c \in Calls :
       Active(c) /\ call[c].kind = "revert" /\ call'[c].at = "reverted"
         /\ ~call[c].disturbed /\ call[call[c].undoes].at = "verified"
       => \A f \in Touches[call[c].of] : content'[f] # call[c].of]_vars
=============================================================================
