----------------------- MODULE ChangeProposalsProofs -----------------------
(* Proofs about ChangeProposals, for every set of proposals, files and     *)
(* calls and every kind of checkpoint.                                     *)
EXTENDS ChangeProposals, FiniteSetTheorems, WellFoundedInduction, TLAPS

-----------------------------------------------------------------------------
(* The inductive invariant *)

\* The texts of proposals that are found are of those that are stored and, where
\* the host asks for approvals, vouched for.
Fine(text) ==
  \A f \in Files : text[f] \in Proposals =>
    /\ status[text[f]] # "NONE"
    /\ mode.asks => text[f] \in vouched

\* What a call holds was vouched for, and so is what it may write.
Cleared(k) ==
  k.kind = "apply" /\ k.at \in {"checkpointing", "reading", "writing", "verifying"}
    => (mode.asks => k.of \in vouched)

Vouched(c) ==
  /\ Fine(call[c].saved)
  /\ call[c].evidence \in vouched \union {0}
  /\ Cleared(call[c])

Vouching ==
  /\ \A p \in Proposals : approved[p] => p \in vouched
  /\ Fine(content)
  /\ \A p \in Proposals : Fine(base[p])
  /\ \A c \in Every : Vouched(c)

\* Which calls are found at which await, and what they hold there.
Placed(c) ==
  LET k == call[c]
  IN /\ k.at \notin Ended =>
          /\ k.of \in Proposals /\ k.left \subseteq Touches[k.of]
          /\ c \in Calls => k.kind \in {"validate", "apply", "revert"} /\ status[k.of] # "NONE"
          /\ c \in Proposals => k.kind = "create" /\ k.of = c /\ status[c] = "NONE"
     /\ k.at = "unused" /\ c \in Proposals => status[c] = "NONE" /\ base[c] = [f \in Files |-> 0]
     /\ k.at = "drafting" => k.kind = "create" /\ \A f \in k.left : base[k.of][f] = 0
     /\ k.at = "validating" => k.kind \in {"create", "validate", "apply"}
     /\ k.at \in {"checkpointing", "verifying"} => k.kind = "apply"
     /\ k.at \in {"reading", "writing", "restoring"} => k.kind \in {"apply", "revert"}
     /\ k.at \in {"drafting", "reading", "writing", "verifying"} => k.left # {}
     /\ k.at \in Ended => k.kind \in {"none", "apply"}
     /\ Application(c) => k.of \in Proposals /\ status[k.of] # "NONE"
     /\ k.at = "restoring" => mode.checkpoint # "off"
     /\ k.kind = "revert" =>
          /\ k.undoes \in Calls /\ k.undoes # c
          /\ Application(k.undoes) /\ call[k.undoes].of = k.of
          /\ k.of \in hasty \/ ~Active(k.undoes)

\* Application c has put p into f.
Put(c, f, p) ==
  /\ call[c].kind = "apply" /\ call[c].of = p /\ f \in Touches[p]
  /\ \/ call[c].at \in {"reading", "writing"} /\ f \notin call[c].left
     \/ call[c].at \in {"verifying", "verified", "failed"}

\* It has, and no revert of it has passed f.
Holds(c, f, p) ==
  /\ Put(c, f, p)
  /\ \A r \in Calls : call[r].kind = "revert" /\ call[r].undoes = c => f \in call[r].left

\* No proposal was made against a text of its own.
NotOwn == \A p \in Proposals, f \in Files : base[p][f] # p

Recording ==
  mode.checkpoint = "off" =>
    \A f \in Files, p \in Proposals \ hasty :
      content[f] = p => \/ \E c \in Calls : Holds(c, f, p)
                        \/ \E q \in Proposals \ {p} : base[q][f] = p

\* What an application that nobody disturbed has done to its files so far.
Progress(c) ==
  LET k == call[c]
      p == k.of
      Found(files) == \A f \in files : content[f] = k.start[f]
      Changed(files) == \A f \in files : content[f] = p
      Based(files) == \A f \in files : base[p][f] = k.start[f]
      Saved == mode.checkpoint = "taken" => \A f \in Touches[p] : k.saved[f] = k.start[f]
  IN k.kind = "apply" /\ ~k.disturbed =>
       /\ k.at = "validating" =>
            Found(Touches[p]) /\ (~k.stale => Based(Touches[p] \ k.left))
       /\ k.at = "checkpointing" => Found(Touches[p]) /\ Based(Touches[p])
       /\ k.at \in {"reading", "writing"} =>
            Found(k.left) /\ Changed(Touches[p] \ k.left) /\ Based(Touches[p]) /\ Saved
       /\ k.at = "verifying" => Changed(Touches[p]) /\ Saved
       /\ k.at = "restoring" => k.broken /\ Saved

IInv ==
  /\ TypeOK
  /\ Vouching
  /\ \A c \in Every : Placed(c)
  /\ NotOwn
  /\ Recording
  /\ \A c \in Calls : Progress(c)

-----------------------------------------------------------------------------
(* What a call leaves alone *)

\* Another call goes on as it is; a write to its files disturbs it.
Stays(x) ==
  /\ call'[x] = call[x] \/ call'[x] = [call[x] EXCEPT !.disturbed = TRUE]
  /\ Active(x) /\ ~call'[x].disturbed
       => \A f \in Touches[call[x].of] : content'[f] = content[f]

\* An application is marked as reverted.
Undone(x) ==
  /\ Application(x) /\ ~Active(x)
  /\ call'[x] = [call[x] EXCEPT !.at = "reverted"]

\* The application that a call has made stays one, of the same proposal.
Keeps(c) == Application(c) => Active(c) /\ Application(c)' /\ call'[c].of = call[c].of

\* A step of call c, or of the host or the user.
Frame(c) ==
  /\ mode' = mode
  /\ vouched \subseteq vouched' /\ hasty \subseteq hasty'
  /\ \A p \in Proposals :
       /\ status[p] # "NONE" => status'[p] # "NONE" /\ base'[p] = base[p]
       /\ p # c => base'[p] = base[p] /\ (status[p] = "NONE" => status'[p] = "NONE")
  /\ \A x \in Every \ {c} : Stays(x) \/ Undone(x)
  /\ c \in Every => Keeps(c)

\* The fields of another call that the invariant speaks of.
LEMMA StaysFacts ==
  ASSUME TypeOK, NEW x \in Every, Stays(x)
  PROVE  LET k == call[x]
             l == call'[x]
         IN /\ l.kind = k.kind /\ l.at = k.at /\ l.of = k.of /\ l.left = k.left
            /\ l.stale = k.stale /\ l.evidence = k.evidence /\ l.undoes = k.undoes
            /\ l.saved = k.saved /\ l.start = k.start /\ l.broken = k.broken
            /\ l \in CallRecords
            /\ ~l.disturbed => ~k.disturbed
  BY DEF TypeOK, Stays, CallRecords

LEMMA UndoneFacts ==
  ASSUME TypeOK, NEW x \in Every, Undone(x)
  PROVE  LET k == call[x]
             l == call'[x]
         IN /\ k.kind = "apply" /\ k.at \in {"verified", "failed", "reverted"}
            /\ l.kind = "apply" /\ l.at = "reverted" /\ l.of = k.of /\ l.left = k.left
            /\ l.saved = k.saved /\ l.evidence = k.evidence
<1>1. call[x] \in CallRecords
  BY DEF TypeOK
<1>2. call[x].kind = "apply" /\ call[x].at \in {"verified", "failed", "reverted"}
  BY DEF Undone, Application, Active, Ended
<1>3. QED
  BY <1>1, <1>2 DEF Undone, CallRecords

\* An application stays one of its proposal, and one that has ended stays so.
LEMMA ApplicationStays ==
  ASSUME IInv, NEW c, Frame(c), NEW x \in Every, Application(x)
  PROVE  /\ Application(x)' /\ call'[x].of = call[x].of
         /\ ~Active(x) => ~Active(x)'
<1>1. CASE x = c
  BY <1>1 DEF Frame, Keeps
<1>2. CASE x # c /\ Stays(x)
  BY <1>2, StaysFacts DEF IInv, Application, Active
<1>3. CASE x # c /\ Undone(x)
  BY <1>3, UndoneFacts DEF IInv, Application, Active, Ended
<1>4. QED
  BY <1>1, <1>2, <1>3 DEF Frame

\* What is required of the next state of a revert, k, of call c.
Undoing(c, k) ==
  /\ k.undoes \in Calls /\ k.undoes # c
  /\ call'[k.undoes].kind = "apply"
  /\ call'[k.undoes].at \in {"reading", "writing", "verifying", "restoring",
                             "verified", "failed", "reverted"}
  /\ call'[k.undoes].of = k.of
  /\ k.of \in hasty' \/ call'[k.undoes].at \in Ended

\* The other calls keep their places.
LEMMA OthersPlaced ==
  ASSUME IInv, NEW c, Frame(c), NEW x \in Every \ {c}
  PROVE  Placed(x)'
<1>1. CASE Undone(x)
  BY <1>1, UndoneFacts DEF IInv, Placed, Application, Ended, Frame, Undone
<1>2. CASE Stays(x)
  <2> DEFINE k == call[x]
             l == call'[x]
  <2>1. /\ l.kind = k.kind /\ l.at = k.at /\ l.of = k.of /\ l.left = k.left
        /\ l.undoes = k.undoes
    BY <1>2, StaysFacts DEF IInv
  <2>2. Placed(x)
    BY DEF IInv
  <2> HIDE DEF k, l
  <2>3. l.at \notin Ended =>
          /\ l.of \in Proposals /\ l.left \subseteq Touches[l.of]
          /\ x \in Calls => l.kind \in {"validate", "apply", "revert"} /\ status'[l.of] # "NONE"
          /\ x \in Proposals => l.kind = "create" /\ l.of = x /\ status'[x] = "NONE"
    BY <2>1, <2>2 DEF Placed, Frame, k
  <2>4. l.at = "drafting" => l.kind = "create" /\ \A f \in l.left : base'[l.of][f] = 0
    <3> SUFFICES ASSUME l.at = "drafting"
                 PROVE  l.kind = "create" /\ \A f \in l.left : base'[l.of][f] = 0
      OBVIOUS
    <3>1. l.at \notin Ended
      BY DEF Ended
    <3>2. l.of = x /\ x \in Proposals
      BY <2>1, <2>2, <2>3, <3>1 DEF Placed, k, Every
    <3>3. base'[x] = base[x]
      BY <3>2 DEF Frame
    <3>4. QED
      BY <2>1, <2>2, <3>2, <3>3 DEF Placed, k
  <2>5. k.kind = "revert" => Undoing(x, l)
    <3> SUFFICES ASSUME k.kind = "revert"
                 PROVE  Undoing(x, l)
      OBVIOUS
    <3>1. PICK u \in Calls :
            /\ u = k.undoes /\ u # x
            /\ Application(u) /\ call[u].of = k.of
            /\ k.of \in hasty \/ ~Active(u)
      BY <2>2 DEF Placed, k
    <3>2. /\ Application(u)' /\ call'[u].of = call[u].of
          /\ ~Active(u) => ~Active(u)'
      BY <3>1, ApplicationStays DEF Every
    <3>3. hasty \subseteq hasty' /\ l.undoes = u /\ l.of = k.of
      BY <2>1, <3>1 DEF Frame
    <3> HIDE DEF k, l
    <3>4. QED
      BY <3>1, <3>2, <3>3 DEF Undoing, Application, Active
  <2>6. Application(x)' => l.of \in Proposals /\ status'[l.of] # "NONE"
    BY <2>1, <2>2 DEF Placed, Application, Frame, k, l
  <2>7. QED
    BY <2>1, <2>2, <2>3, <2>4, <2>5, <2>6 DEF Placed, Frame, k, l, Undoing, Application, Active
<1>3. QED
  BY <1>1, <1>2 DEF Frame

\* The other applications have done to their files what they had, or are disturbed.
LEMMA OthersProgress ==
  ASSUME IInv, NEW c, Frame(c), NEW x \in Calls \ {c}
  PROVE  Progress(x)'
<1>0. x \in Every
  BY DEF Every
<1>1. CASE Undone(x)
  BY <1>0, <1>1, UndoneFacts DEF IInv, Progress
<1>2. CASE Stays(x) /\ Active(x) /\ ~call'[x].disturbed
  <2> DEFINE k == call[x]
             l == call'[x]
  <2>1. /\ l.kind = k.kind /\ l.at = k.at /\ l.of = k.of /\ l.left = k.left /\ l.stale = k.stale
        /\ l.saved = k.saved /\ l.start = k.start /\ l.broken = k.broken /\ ~k.disturbed
    BY <1>0, <1>2, StaysFacts DEF IInv
  <2>2. Placed(x) /\ Progress(x)
    BY <1>0 DEF IInv
  <2>3. k.of \in Proposals /\ status[k.of] # "NONE" /\ k.left \subseteq Touches[k.of]
    BY <1>2, <2>2 DEF Placed, Active
  <2>4. mode' = mode /\ base'[k.of] = base[k.of]
    BY <2>3 DEF Frame
  <2>5. \A f \in Touches[k.of] : content'[f] = content[f]
    BY <1>2 DEF Stays
  <2>6. QED
    BY <2>1, <2>2, <2>3, <2>4, <2>5 DEF Progress
<1>3. CASE Stays(x) /\ ~Active(x)
  BY <1>0, <1>3, StaysFacts DEF IInv, Progress, Active, Ended
<1>4. CASE call'[x].disturbed
  BY <1>4 DEF Progress
<1>5. QED
  BY <1>0, <1>1, <1>2, <1>3, <1>4 DEF Frame

\* What was fine stays so.
LEMMA FineStays ==
  ASSUME mode' = mode, vouched \subseteq vouched',
         \A p \in Proposals : status[p] # "NONE" => status'[p] # "NONE",
         NEW text, Fine(text)
  PROVE  \A f \in Files : text[f] \in Proposals =>
           /\ status'[text[f]] # "NONE"
           /\ mode'.asks => text[f] \in vouched'
  BY DEF Fine

LEMMA OthersVouched ==
  ASSUME IInv, NEW c, Frame(c), NEW x \in Every \ {c}
  PROVE  Vouched(x)'
<1>1. /\ Vouched(x) /\ vouched \subseteq vouched' /\ mode' = mode
      /\ \A p \in Proposals : status[p] # "NONE" => status'[p] # "NONE"
  BY DEF IInv, Vouching, Frame
<1>2. /\ call'[x].saved = call[x].saved /\ call'[x].evidence = call[x].evidence
      /\ call'[x].kind = call[x].kind /\ call'[x].of = call[x].of
      /\ call'[x].at = call[x].at \/ call'[x].at = "reverted"
  BY StaysFacts, UndoneFacts DEF IInv, Frame
<1>3. Fine(call[x].saved)'
  <2>1. Fine(call[x].saved)
    BY <1>1 DEF Vouched
  <2>2. QED
    BY <1>1, <1>2, <2>1, FineStays DEF Fine
<1>4. QED
  BY <1>1, <1>2, <1>3 DEF Vouched, Cleared

\* A step that puts no text into the files, starts a revert only from the first of
\* its files and takes nothing back that an application has put there, leaves
\* every text recorded.
LEMMA RecordingStays ==
  ASSUME IInv, NEW c, Frame(c), \A x \in Every \ {c} : Stays(x),
         \A f \in Files, p \in Proposals : content'[f] = p => content[f] = p,
         \A f \in Files, q \in Proposals : base[q][f] \in Proposals => base'[q][f] = base[q][f],
         c \in Calls =>
           /\ Placed(c)'
           /\ \A f \in Files, p \in Proposals : mode.checkpoint = "off" /\ Put(c, f, p) => Put(c, f, p)'
           /\ call'[c].kind = "revert" =>
                \/ /\ call[c].kind = "revert" /\ call'[c].undoes = call[c].undoes
                   /\ call[c].left \subseteq call'[c].left
                \/ call'[c].left = Touches[call'[c].of]
  PROVE  Recording'
<1> SUFFICES ASSUME mode'.checkpoint = "off", NEW f \in Files,
                    NEW p \in Proposals \ hasty', content'[f] = p
             PROVE  \/ \E x \in Calls : Holds(x, f, p)'
                    \/ \E q \in Proposals \ {p} : base'[q][f] = p
  BY DEF Recording
<1>1. mode.checkpoint = "off" /\ content[f] = p /\ p \in Proposals \ hasty
  BY DEF Frame
<1>2. CASE \E q \in Proposals \ {p} : base[q][f] = p
  BY <1>2
<1>3. ASSUME NEW x \in Calls, Holds(x, f, p)
      PROVE  Holds(x, f, p)'
  <2>1. Put(x, f, p)'
    <3>1. CASE x = c
      BY <1>1, <1>3, <3>1 DEF Holds
    <3>2. CASE x # c
      BY <1>3, <3>2, StaysFacts DEF IInv, Holds, Put, Every
    <3>3. QED
      BY <3>1, <3>2
  <2>2. ASSUME NEW r \in Calls, call'[r].kind = "revert", call'[r].undoes = x
        PROVE  f \in call'[r].left
    <3>1. CASE r # c
      <4>1. /\ call[r].kind = "revert" /\ call[r].undoes = x /\ call'[r].left = call[r].left
        BY <2>2, <3>1, StaysFacts DEF IInv, Every
      <4>2. QED
        BY <1>3, <4>1 DEF Holds
    <3>2. CASE r = c /\ call[c].kind = "revert" /\ call'[c].undoes = call[c].undoes
                    /\ call[c].left \subseteq call'[c].left
      BY <1>3, <2>2, <3>2 DEF Holds
    <3>3. CASE r = c /\ call'[c].left = Touches[call'[c].of]
      <4>1. call'[x].of = call'[c].of
        BY <2>2, <3>3 DEF Placed
      <4>2. call'[x].of = p /\ f \in Touches[p]
        BY <2>1 DEF Put
      <4>3. QED
        BY <3>3, <4>1, <4>2
    <3>4. QED
      BY <2>2, <3>1, <3>2, <3>3
  <2>3. QED
    BY <2>1, <2>2 DEF Holds
<1>4. QED
  BY <1>1, <1>2, <1>3 DEF IInv, Recording

\* Nearly every step is that of one call which touches no file, leaves the others
\* alone and changes at most the states of proposals.
LEMMA QuietSafe ==
  ASSUME IInv, NEW c \in Every, NEW k \in CallRecords, call' = [call EXCEPT ![c] = k],
         UNCHANGED <<mode, content, base, approved, edits>>,
         vouched \subseteq vouched', vouched' \subseteq Proposals,
         hasty \subseteq hasty', hasty' \subseteq Proposals,
         status' \in [Proposals -> Statuses],
         \A p \in Proposals :
           /\ status[p] # "NONE" => status'[p] # "NONE"
           /\ p # c /\ status[p] = "NONE" => status'[p] = "NONE",
         Keeps(c), Placed(c)', c \in Calls => Progress(c)',
         Fine(k.saved), k.evidence \in vouched' \union {0}, Cleared(k),
         c \in Calls =>
           \A f \in Files, p \in Proposals : mode.checkpoint = "off" /\ Put(c, f, p) => Put(c, f, p)',
         k.kind = "revert" =>
           \/ /\ call[c].kind = "revert" /\ k.undoes = call[c].undoes
              /\ call[c].left \subseteq k.left
           \/ k.left = Touches[k.of]
  PROVE  IInv'
<1>1. /\ call' \in [Every -> CallRecords] /\ call'[c] = k
      /\ \A x \in Every \ {c} : call'[x] = call[x]
  BY DEF IInv, TypeOK
<1>2. TypeOK'
  BY <1>1 DEF IInv, TypeOK
<1>3. \A x \in Every \ {c} : Stays(x)
  BY <1>1 DEF Stays
<1>4. Frame(c)
  <2>1. mode' = mode /\ base' = base
    OBVIOUS
  <2>2. \A p \in Proposals :
          /\ status[p] # "NONE" => status'[p] # "NONE" /\ base'[p] = base[p]
          /\ p # c => base'[p] = base[p] /\ (status[p] = "NONE" => status'[p] = "NONE")
    BY <2>1
  <2>3. \A x \in Every \ {c} : Stays(x) \/ Undone(x)
    BY <1>3
  <2>4. QED
    BY <2>1, <2>2, <2>3 DEF Frame
<1>5. \A x \in Every : Placed(x)'
  BY <1>4, OthersPlaced
<1>6. \A x \in Calls : Progress(x)'
  BY <1>4, OthersProgress
<1>7. NotOwn'
  BY DEF IInv, NotOwn
<1>8. \A x \in Every : Vouched(x)'
  <2>1. Vouched(c)'
    <3>1. Fine(call[c].saved)'
      BY <1>1, FineStays DEF Fine
    <3>2. QED
      BY <1>1, <3>1 DEF Vouched, Cleared
  <2>2. QED
    BY <1>4, <2>1, OthersVouched
<1>9. Vouching'
  <2>1. approved' = approved /\ content' = content /\ base' = base
    OBVIOUS
  <2>2. Vouching
    BY DEF IInv
  <2>3. Fine(content)' /\ \A p \in Proposals : Fine(base[p])'
    BY <2>1, <2>2, FineStays DEF Vouching, Fine
  <2>4. \A p \in Proposals : approved'[p] => p \in vouched'
    BY <2>1, <2>2 DEF Vouching
  <2>5. QED
    BY <1>8, <2>3, <2>4 DEF Vouching
<1>10. Recording'
  BY <1>1, <1>3, <1>4, RecordingStays
<1>11. QED
  BY <1>2, <1>5, <1>6, <1>7, <1>9, <1>10 DEF IInv

-----------------------------------------------------------------------------
(* How calls begin and end *)

\* The empty text is one, and none of a proposal's.
LEMMA NoText ==
  /\ 0 \in Texts /\ 0 \notin Proposals
  /\ [f \in Files |-> 0] \in [Files -> Texts] /\ Fine([f \in Files |-> 0])
<1>1. 0 \in Texts /\ 0 \notin Proposals
  BY ProposalsAssumption DEF Texts
<1>2. QED
  BY <1>1 DEF Fine

LEMMA UnusedFacts ==
  /\ Unused \in CallRecords /\ Unused.kind = "none" /\ Unused.left = {}
  /\ Unused.evidence = 0 /\ Unused.saved = [f \in Files |-> 0] /\ ~Unused.disturbed
  BY NoText DEF Unused, CallRecords, Kinds, Places

\* The record of a call that begins.
Begun(kind, p, at, e, a) ==
  [Unused EXCEPT !.kind = kind, !.of = p, !.at = at, !.evidence = e,
                 !.undoes = a, !.left = Touches[p], !.start = content]

LEMMA BegunFacts ==
  ASSUME TypeOK, NEW kind \in Kinds, NEW p \in Proposals, NEW at \in Places,
         NEW e \in Proposals \union {0}, NEW a \in Calls \union {NoCall}
  PROVE  LET k == Begun(kind, p, at, e, a)
         IN /\ k \in CallRecords /\ k.kind = kind /\ k.of = p /\ k.at = at /\ k.evidence = e
            /\ k.undoes = a /\ k.left = Touches[p] /\ k.start = content
            /\ k.saved = [f \in Files |-> 0] /\ ~k.stale
<1>1. Touches[p] \in SUBSET Files /\ content \in [Files -> Texts]
  BY ProposalsAssumption DEF TypeOK
<1>2. Begun(kind, p, at, e, a) \in CallRecords
  BY <1>1, UnusedFacts DEF Begun, CallRecords
<1>3. QED
  BY <1>2 DEF Begun, Unused

\* What is left of a call that ends.
LEMMA ClosedFacts ==
  ASSUME TypeOK, NEW c \in Every, NEW how \in Ended
  PROVE  LET k == Closed(c, how)
         IN /\ k \in CallRecords /\ k.at = how /\ k.left = {} /\ k.evidence = 0
            /\ k.kind \in {"none", "apply"} /\ ~k.disturbed
            /\ k.saved \in {call[c].saved, [f \in Files |-> 0]}
            /\ how \in {"verified", "failed"} /\ call[c].kind = "apply"
                 => k.kind = "apply" /\ k.of = call[c].of
            /\ k.kind = "apply" => how \in {"verified", "failed"}
<1>1. call[c] \in CallRecords /\ how \in Places
  BY DEF TypeOK, Ended, Places
<1>2. CASE how \in {"verified", "failed"} /\ call[c].kind = "apply"
  <2> DEFINE k == [Unused EXCEPT !.kind = "apply", !.of = call[c].of, !.at = how,
                                 !.saved = call[c].saved]
  <2>1. Closed(c, how) = k
    BY <1>2 DEF Closed
  <2>2. k \in CallRecords
    BY <1>1, UnusedFacts DEF CallRecords, Kinds
  <2>3. /\ k.at = how /\ k.left = {} /\ k.evidence = 0 /\ k.kind = "apply" /\ ~k.disturbed
        /\ k.of = call[c].of /\ k.saved \in {call[c].saved, [f \in Files |-> 0]}
    BY DEF Unused
  <2> HIDE DEF k
  <2>4. QED
    BY <1>2, <2>1, <2>2, <2>3
<1>3. CASE ~(how \in {"verified", "failed"} /\ call[c].kind = "apply")
  <2> DEFINE k == [Unused EXCEPT !.at = how]
  <2>1. Closed(c, how) = k
    BY <1>3 DEF Closed
  <2>2. k \in CallRecords
    BY <1>1, UnusedFacts DEF CallRecords
  <2>3. /\ k.at = how /\ k.left = {} /\ k.evidence = 0 /\ k.kind = "none" /\ ~k.disturbed
        /\ k.saved = [f \in Files |-> 0]
    BY DEF Unused
  <2> HIDE DEF k
  <2>4. QED
    BY <1>3, <2>1, <2>2, <2>3
<1>4. QED
  BY <1>2, <1>3

\* A call that ends does nothing more.
LEMMA ClosedPlaced ==
  ASSUME IInv, NEW c \in Every, Active(c), NEW how \in Ended \ {"unused"},
         call'[c] = Closed(c, how),
         \A p \in Proposals : status[p] # "NONE" => status'[p] # "NONE"
  PROVE  /\ Placed(c)' /\ Progress(c)'
         /\ Fine(Closed(c, how).saved) /\ Closed(c, how).evidence = 0
         /\ Cleared(Closed(c, how))
<1> DEFINE k == Closed(c, how)
<1>1. /\ k.at \in Ended \ {"unused"} /\ k.left = {} /\ k.evidence = 0 /\ k.kind \in {"none", "apply"}
      /\ k.saved \in {call[c].saved, [f \in Files |-> 0]}
  BY ClosedFacts DEF IInv
<1> HIDE DEF k
<1>2. Fine(k.saved)
  BY <1>1, NoText DEF IInv, Vouching, Vouched
<1>3. call'[c] = k
  BY DEF k
<1>4. Placed(c)' /\ Progress(c)'
  <2>1. k.kind = "apply" => k.of \in Proposals /\ status'[k.of] # "NONE"
    <3>1. k.kind = "apply" => call[c].kind = "apply" /\ k.of = call[c].of
      BY ClosedFacts DEF IInv, Closed, Unused, k
    <3>2. call[c].kind = "apply" => call[c].of \in Proposals /\ status[call[c].of] # "NONE"
      BY DEF IInv, Placed, Active, Every
    <3>3. QED
      BY <3>1, <3>2
  <2>2. QED
    BY <1>1, <1>3, <2>1 DEF Placed, Progress, Application, Ended
<1>5. Cleared(k)
  BY <1>1 DEF Cleared, Ended
<1>6. QED
  BY <1>1, <1>2, <1>4, <1>5 DEF k

-----------------------------------------------------------------------------
(* The steps that touch no file *)

\* A call that begins to validate, apply or revert a proposal that is stored, or
\* to create one that is not.
LEMMA StartsSafe ==
  ASSUME IInv, NEW c \in Every, NEW kind \in {"create", "validate", "apply", "revert"},
         NEW p \in Proposals, NEW at \in {"drafting", "validating", "reading", "restoring"},
         NEW e \in Proposals \union {0}, NEW a \in Calls \union {NoCall},
         Starts(c, kind, p, at, e, a),
         UNCHANGED <<mode, content, status, base, approved, edits>>,
         vouched \subseteq vouched', vouched' \subseteq Proposals, e \in vouched' \union {0},
         hasty \subseteq hasty', hasty' \subseteq Proposals,
         IF c \in Calls THEN kind # "create" /\ status[p] # "NONE"
         ELSE kind = "create" /\ p = c /\ status[p] = "NONE" /\ base[p] = [f \in Files |-> 0],
         at = "drafting" => kind = "create",
         at = "validating" => kind \in {"validate", "apply"},
         at \in {"reading", "restoring"} => kind = "revert",
         at = "restoring" => mode.checkpoint # "off",
         kind = "revert" => /\ a \in Calls /\ Application(a) /\ call[a].of = p
                            /\ p \in hasty' \/ ~Active(a)
  PROVE  IInv'
<1> DEFINE k == Begun(kind, p, at, e, a)
<1>1. /\ k \in CallRecords /\ k.kind = kind /\ k.of = p /\ k.at = at /\ k.evidence = e
      /\ k.undoes = a /\ k.left = Touches[p] /\ k.start = content
      /\ k.saved = [f \in Files |-> 0] /\ ~k.stale
  <2>1. kind \in Kinds /\ at \in Places /\ TypeOK
    BY DEF IInv, Kinds, Places
  <2>2. QED
    BY <2>1, BegunFacts
<1>2. call' = [call EXCEPT ![c] = k] /\ call[c].at = "unused"
  BY DEF Starts, Begun
<1> HIDE DEF k
<1>3. call'[c] = k /\ \A x \in Every \ {c} : call'[x] = call[x]
  BY <1>2 DEF IInv, TypeOK
<1>4. at \notin Ended /\ Touches[p] # {} /\ Touches[p] \subseteq Files
  BY ProposalsAssumption DEF Ended
<1>5. kind = "revert" => /\ a \in Calls /\ a # c
                         /\ Application(a)' /\ call'[a].of = p
                         /\ p \in hasty' \/ ~Active(a)'
  <2> SUFFICES ASSUME kind = "revert"
               PROVE  /\ a \in Calls /\ a # c
                      /\ Application(a)' /\ call'[a].of = p
                      /\ p \in hasty' \/ ~Active(a)'
    OBVIOUS
  <2>1. a # c
    BY <1>2 DEF Application
  <2>2. call'[a] = call[a]
    BY <1>3, <2>1 DEF Every
  <2>3. QED
    BY <2>1, <2>2 DEF Application, Active
<1>6. Placed(c)'
  <2>1. c \notin Calls => c \in Proposals
    BY DEF Every
  <2>2. c \in Calls => c \notin Proposals
    BY ProposalsAssumption
  <2>3. at = "drafting" => \A f \in Touches[p] : base[p][f] = 0
    BY <1>4
  <2>4. QED
    BY <1>1, <1>3, <1>4, <1>5, <2>1, <2>2, <2>3 DEF Placed, Application
<1>7. Fine(k.saved) /\ Cleared(k)
  BY <1>1, NoText DEF Cleared
<1>8. Progress(c)'
  BY <1>1, <1>3 DEF Progress
<1>9. Keeps(c) /\ \A f \in Files, q \in Proposals : ~Put(c, f, q)
  BY <1>2 DEF Keeps, Application, Put
<1>10. status' \in [Proposals -> Statuses]
  BY DEF IInv, TypeOK
<1>11. QED
  BY <1>1, <1>2, <1>6, <1>7, <1>8, <1>9, <1>10, QuietSafe

\* The histories are sets of proposals.
LEMMA Histories ==
  ASSUME IInv
  PROVE  vouched \subseteq Proposals /\ hasty \subseteq Proposals
  BY DEF IInv, TypeOK

LEMMA CreateProposalSafe ==
  ASSUME IInv, NEW p \in Proposals, CreateProposal(p)
  PROVE  IInv'
<1>1. p \in Every /\ p \notin Calls
  BY ProposalsAssumption DEF Every
<1>2. Starts(p, "create", p, "drafting", 0, NoCall)
  BY DEF CreateProposal
<1>3. status[p] = "NONE" /\ base[p] = [f \in Files |-> 0]
  BY <1>1, <1>2 DEF IInv, Placed, Starts
<1>4. QED
  BY <1>1, <1>2, <1>3, Histories, StartsSafe DEF CreateProposal

LEMMA ValidateProposalSafe ==
  ASSUME IInv, NEW c \in Calls, ValidateProposal(c)
  PROVE  IInv'
<1>1. PICK p \in Stored : Starts(c, "validate", p, "validating", 0, NoCall)
  BY DEF ValidateProposal
<1>2. c \in Every /\ p \in Proposals /\ status[p] # "NONE"
  BY <1>1 DEF Every, Stored
<1>3. QED
  BY <1>1, <1>2, Histories, StartsSafe DEF ValidateProposal

LEMMA ApplyPatchSafe ==
  ASSUME IInv, NEW c \in Calls, ApplyPatch(c)
  PROVE  IInv'
<1>1. PICK p \in Stored, e \in Stored \union {0} :
        Starts(c, "apply", p, "validating", e, NoCall) /\ vouched' = vouched \union ({e} \ {0})
  BY DEF ApplyPatch
<1>2. c \in Every /\ p \in Proposals /\ status[p] # "NONE" /\ e \in Proposals \union {0}
  BY <1>1 DEF Every, Stored
<1>3. vouched' \subseteq Proposals /\ e \in vouched' \union {0}
  BY <1>1, <1>2, Histories
<1>4. QED
  BY <1>1, <1>2, <1>3, Histories, StartsSafe DEF ApplyPatch

\* revertChange restores the checkpoint of an application that has one and undoes
\* another file by file.
LEMMA RevertChangeSafe ==
  ASSUME IInv, NEW c \in Calls, RevertChange(c)
  PROVE  IInv'
<1> DEFINE at == IF mode.checkpoint = "off" THEN "reading" ELSE "restoring"
<1>1. PICK a \in Calls : /\ Application(a) /\ Starts(c, "revert", call[a].of, at, 0, a)
                         /\ hasty' = IF Active(a) THEN hasty \union {call[a].of} ELSE hasty
  BY DEF RevertChange
<1>2. c \in Every /\ a \in Every
  BY DEF Every
<1>3. call[a].of \in Proposals /\ status[call[a].of] # "NONE"
  BY <1>1, <1>2 DEF IInv, Placed
<1>4. at \in {"reading", "restoring"} /\ (at = "restoring" => mode.checkpoint # "off")
  OBVIOUS
<1>5. /\ hasty \subseteq hasty' /\ hasty' \subseteq Proposals
      /\ call[a].of \in hasty' \/ ~Active(a)
  BY <1>1, <1>3, Histories
<1> HIDE DEF at
<1>6. QED
  BY <1>1, <1>2, <1>3, <1>4, <1>5, Histories, StartsSafe DEF RevertChange

\* A step of a call that goes on, or ends, with its proposal in another state.
LEMMA StateSafe ==
  ASSUME IInv, NEW c \in Every, Active(c), NEW k \in CallRecords,
         call' = [call EXCEPT ![c] = k],
         \/ status' = status
         \/ \E st \in Statuses \ {"NONE"} : status' = [status EXCEPT ![call[c].of] = st],
         UNCHANGED <<mode, content, base, approved, edits, vouched, hasty>>,
         Application(c) => Application(c)' /\ k.of = call[c].of,
         Placed(c)', c \in Calls => Progress(c)',
         Fine(k.saved), k.evidence \in vouched \union {0}, Cleared(k),
         c \in Calls =>
           \A f \in Files, p \in Proposals : mode.checkpoint = "off" /\ Put(c, f, p) => Put(c, f, p)',
         k.kind = "revert" => /\ call[c].kind = "revert" /\ k.undoes = call[c].undoes
                              /\ call[c].left \subseteq k.left
  PROVE  IInv'
<1> DEFINE p == call[c].of
<1>1. /\ p \in Proposals /\ (c \in Calls => status[p] # "NONE")
      /\ (c \in Proposals => p = c)
  BY DEF IInv, Placed, Active
<1>2. c \in Calls \/ c \in Proposals
  BY DEF Every
<1> HIDE DEF p
<1>3. status \in [Proposals -> Statuses]
  BY DEF IInv, TypeOK
<1>4. status' = status \/ \E st \in Statuses \ {"NONE"} : status' = [status EXCEPT ![p] = st]
  BY DEF p
<1>5. /\ status' \in [Proposals -> Statuses]
      /\ \A q \in Proposals :
           /\ status[q] # "NONE" => status'[q] # "NONE"
           /\ q # c /\ status[q] = "NONE" => status'[q] = "NONE"
  BY <1>1, <1>2, <1>3, <1>4
<1>6. Keeps(c)
  <2>1. call'[c] = k
    BY DEF IInv, TypeOK
  <2>2. QED
    BY <2>1 DEF Keeps
<1>7. QED
  BY <1>5, <1>6, Histories, QuietSafe

LEMMA ValidateFileSafe ==
  ASSUME IInv, NEW c \in Every, ValidateFile(c)
  PROVE  IInv'
<1> DEFINE f == NextFile(c)
           b == call[c].stale \/ content[f] # base[call[c].of][f]
           k == [call[c] EXCEPT !.left = @ \ {f}, !.stale = b]
<1>1. call[c].at = "validating" /\ call[c] \in CallRecords
  BY DEF ValidateFile, At, IInv, TypeOK
<1>2. call' = [call EXCEPT ![c] = k]
  BY DEF ValidateFile, IInv, TypeOK
<1>3. b \in BOOLEAN
  BY <1>1, Zenon DEF CallRecords
<1>4. b = (call[c].stale \/ content[f] # base[call[c].of][f])
  OBVIOUS
<1> HIDE DEF f, b
<1>5. /\ k \in CallRecords /\ k.kind = call[c].kind /\ k.at = call[c].at /\ k.of = call[c].of
      /\ k.left = call[c].left \ {f} /\ k.stale = b /\ k.evidence = call[c].evidence
      /\ k.saved = call[c].saved /\ k.start = call[c].start /\ k.undoes = call[c].undoes
      /\ k.disturbed = call[c].disturbed
  BY <1>1, <1>3 DEF CallRecords
<1> HIDE DEF k
<1>6. call'[c] = k
  BY <1>2 DEF IInv, TypeOK
<1>7. Placed(c) /\ Vouched(c)
  BY DEF IInv, Vouching
<1>8. UNCHANGED <<mode, content, status, base, approved, edits, vouched, hasty>>
  BY DEF ValidateFile
<1>9. Placed(c)'
  BY <1>1, <1>5, <1>6, <1>7, <1>8 DEF Placed, Application, Ended
<1>10. Fine(k.saved) /\ k.evidence \in vouched \union {0} /\ Cleared(k)
  BY <1>1, <1>5, <1>7 DEF Vouched, Cleared
<1>11. c \in Calls => Progress(c)'
  <2> SUFFICES ASSUME c \in Calls, k.kind = "apply", ~k.disturbed
               PROVE  /\ \A g \in Touches[k.of] : content[g] = k.start[g]
                      /\ ~k.stale => \A g \in Touches[k.of] \ k.left : base[k.of][g] = k.start[g]
    BY <1>1, <1>5, <1>6, <1>8 DEF Progress
  <2>1. Progress(c)
    BY DEF IInv
  <2>2. QED
    BY <1>1, <1>4, <1>5, <2>1 DEF Progress
<1>12. ~Application(c) /\ \A g \in Files, p \in Proposals : ~Put(c, g, p)
  BY <1>1 DEF Application, Put
<1>13. k.kind # "revert" /\ Active(c)
  BY <1>1, <1>5, <1>7 DEF Placed, Active, Ended
<1>14. QED
  BY <1>2, <1>5, <1>8, <1>9, <1>10, <1>11, <1>12, <1>13, StateSafe

\* A call that ends: a text it has put into the files stays recorded.
LEMMA EndsSafe ==
  ASSUME IInv, NEW c \in Every, Active(c), NEW how \in Ended \ {"unused"},
         call' = [call EXCEPT ![c] = Closed(c, how)],
         \/ status' = status
         \/ \E st \in Statuses \ {"NONE"} : status' = [status EXCEPT ![call[c].of] = st],
         UNCHANGED <<mode, content, base, approved, edits, vouched, hasty>>,
         Application(c) => how \in {"verified", "failed"}
  PROVE  IInv'
<1> DEFINE k == Closed(c, how)
<1>1. /\ k \in CallRecords /\ k.at = how /\ k.left = {} /\ k.kind \in {"none", "apply"}
      /\ how \in {"verified", "failed"} /\ call[c].kind = "apply"
           => k.kind = "apply" /\ k.of = call[c].of
  BY ClosedFacts DEF IInv
<1>2. call' = [call EXCEPT ![c] = k]
  OBVIOUS
<1> HIDE DEF k
<1>3. call'[c] = k
  BY <1>2 DEF IInv, TypeOK
<1>4. /\ Placed(c)' /\ Progress(c)'
      /\ Fine(k.saved) /\ k.evidence = 0 /\ Cleared(k)
  <2>1. \A p \in Proposals : status[p] # "NONE" => status'[p] # "NONE"
    BY DEF IInv, TypeOK
  <2>2. QED
    BY <1>3, <2>1, ClosedPlaced DEF k
<1>5. \A f \in Files, p \in Proposals : Put(c, f, p) => Put(c, f, p)'
  BY <1>1, <1>3 DEF Put, Application, Active, Ended
<1>6. Application(c) => Application(c)' /\ k.of = call[c].of
  BY <1>1, <1>3 DEF Application
<1>7. k.kind # "revert"
  BY <1>1
<1>8. QED
  BY <1>1, <1>2, <1>4, <1>5, <1>6, <1>7, StateSafe

LEMMA ValidatedSafe ==
  ASSUME IInv, NEW c \in Every, Validated(c)
  PROVE  IInv'
<1>1. /\ call[c].at = "validating" /\ Active(c)
      /\ call' = [call EXCEPT ![c] = Closed(c, "done")] /\ ~Application(c)
      /\ UNCHANGED <<mode, content, base, approved, edits, vouched, hasty>>
  BY DEF Validated, At, Active, Application, Ended
<1>2. \E st \in Statuses \ {"NONE"} : status' = [status EXCEPT ![call[c].of] = st]
  <2>1. Validity(c) \in Statuses \ {"NONE"}
    BY DEF Validity, Statuses
  <2>2. status' = [status EXCEPT ![call[c].of] = Validity(c)]
    BY DEF Validated
  <2>3. QED
    BY <2>1, <2>2
<1>3. "done" \in Ended \ {"unused"}
  BY DEF Ended
<1>4. QED
  BY <1>1, <1>2, <1>3, EndsSafe

\* A call that applies goes on only with an approval of its own proposal.
LEMMA ApplyValidatedSafe ==
  ASSUME IInv, NEW c \in Every, ApplyValidated(c)
  PROVE  IInv'
<1>1. /\ call[c].at = "validating" /\ call[c].left = {} /\ call[c].kind = "apply" /\ Active(c)
      /\ ~Application(c)
      /\ UNCHANGED <<mode, content, base, approved, edits, vouched, hasty>>
  BY DEF ApplyValidated, At, Active, Application, Ended
<1>2. \E st \in Statuses \ {"NONE"} : status' = [status EXCEPT ![call[c].of] = st]
  <2>1. Validity(c) \in Statuses \ {"NONE"}
    BY DEF Validity, Statuses
  <2>2. status' = [status EXCEPT ![call[c].of] = Validity(c)]
    BY DEF ApplyValidated
  <2>3. QED
    BY <2>1, <2>2
<1>3. CASE call[c].stale \/ ~Bound(c)
  <2>1. call' = [call EXCEPT ![c] = Closed(c, "refused")]
    BY <1>3 DEF ApplyValidated
  <2>2. "refused" \in Ended \ {"unused"}
    BY DEF Ended
  <2>3. QED
    BY <1>1, <1>2, <2>1, <2>2, EndsSafe
<1>4. CASE ~call[c].stale /\ Bound(c)
  <2> DEFINE k == [call[c] EXCEPT !.at = "checkpointing", !.evidence = 0]
  <2>1. call' = [call EXCEPT ![c] = k]
    BY <1>4 DEF ApplyValidated, IInv, TypeOK
  <2>2. call[c] \in CallRecords /\ "checkpointing" \in Places
    BY DEF IInv, TypeOK, Places
  <2>3. /\ k \in CallRecords /\ k.at = "checkpointing" /\ k.kind = "apply" /\ k.of = call[c].of
        /\ k.left = call[c].left /\ k.evidence = 0 /\ k.saved = call[c].saved
        /\ k.start = call[c].start /\ k.disturbed = call[c].disturbed /\ k.undoes = call[c].undoes
    BY <1>1, <2>2 DEF CallRecords
  <2> HIDE DEF k
  <2>4. call'[c] = k
    BY <2>1 DEF IInv, TypeOK
  <2>5. Placed(c) /\ Vouched(c) /\ call[c].of \in Proposals /\ c \notin Proposals
    BY <1>1 DEF IInv, Vouching, Placed, Active, Ended
  <2>6. status' [call[c].of] # "NONE"
    BY <1>2, <2>5 DEF IInv, TypeOK
  <2>7. Placed(c)'
    BY <1>1, <2>3, <2>4, <2>5, <2>6 DEF Placed, Application, Active, Ended
  <2>8. mode.asks => call[c].of \in vouched
    <3> SUFFICES ASSUME mode.asks
                 PROVE  call[c].of \in vouched
      OBVIOUS
    <3>1. CASE call[c].evidence # 0
      BY <1>4, <2>5, <3>1 DEF Bound, Vouched
    <3>2. CASE call[c].evidence = 0
      BY <1>4, <2>5, <3>2 DEF Bound, IInv, Vouching
    <3>3. QED
      BY <3>1, <3>2
  <2>9. Fine(k.saved) /\ k.evidence = 0 /\ Cleared(k)
    BY <2>3, <2>5, <2>8 DEF Vouched, Cleared
  <2>10. c \in Calls => Progress(c)'
    <3> SUFFICES ASSUME c \in Calls, ~k.disturbed
                 PROVE  \A f \in Touches[k.of] : content[f] = k.start[f] /\ base[k.of][f] = k.start[f]
      BY <1>1, <2>3, <2>4 DEF Progress
    <3>1. Progress(c)
      BY DEF IInv
    <3>2. QED
      BY <1>1, <1>4, <2>3, <3>1 DEF Progress
  <2>11. \A f \in Files, p \in Proposals : ~Put(c, f, p)
    BY <1>1 DEF Put
  <2>12. k.kind # "revert"
    BY <2>3
  <2>13. QED
    BY <1>1, <1>2, <2>1, <2>3, <2>7, <2>9, <2>10, <2>11, <2>12, StateSafe
<1>5. QED
  BY <1>3, <1>4

\* Of a set of files there is a first one.
LEMMA FirstFile ==
  ASSUME NEW files \in SUBSET Files, files # {}
  PROVE  \E f \in files : \A g \in files : f <= g
<1>1. PICK f \in files : \A g \in files : ~(<<g, f>> \in OpToRel(<, Nat))
  BY ProposalsAssumption, NatLessThanWellFounded, WFMin, Zenon
<1>2. \A g \in files : <<g, f>> \in Nat \X Nat
  BY ProposalsAssumption
<1>3. \A g \in files : ~(g < f)
  BY <1>1, <1>2, Zenon DEF OpToRel
<1>4. QED
  BY <1>3, ProposalsAssumption

\* The next file of a call that applies is one of those it has left.
LEMMA NextFileIsLeft ==
  ASSUME NEW c, call[c].left \in SUBSET Files, call[c].left # {}, call[c].kind # "revert"
  PROVE  NextFile(c) \in call[c].left
<1>1. \E f \in call[c].left : \A g \in call[c].left : f <= g
  BY FirstFile
<1>2. \E f \in call[c].left :
        \A g \in call[c].left : IF call[c].kind = "revert" THEN g <= f ELSE f <= g
  BY <1>1
<1>3. QED
  BY <1>2, Zenon DEF NextFile

\* A call that fails while it works on its files: one that applies ends there or is
\* to be restored, which an undisturbed one needs only if the adapter failed.
LEMMA FailsSafe ==
  ASSUME IInv, NEW c \in Every, call[c].at \in {"reading", "writing", "verifying"},
         NEW calls, calls \in {call, [call EXCEPT ![c].broken = TRUE]}, Fails(c, calls),
         UNCHANGED <<mode, content, base, approved, edits, vouched, hasty>>,
         call[c].kind = "apply" /\ mode.checkpoint # "off" /\ ~call[c].disturbed => calls[c].broken
  PROVE  IInv'
<1>1. Active(c) /\ "failed" \in Ended \ {"unused"} /\ "FAILED" \in Statuses \ {"NONE"}
  BY DEF Active, Ended, Statuses
<1>2. calls \in [Every -> CallRecords] /\ \A x \in Every \ {c} : calls[x] = call[x]
  <2>1. call \in [Every -> CallRecords] /\ call[c] \in CallRecords
    BY DEF IInv, TypeOK
  <2>2. [call[c] EXCEPT !.broken = TRUE] \in CallRecords
    BY <2>1 DEF CallRecords
  <2>3. QED
    BY <2>1, <2>2
<1>3. \A k : [calls EXCEPT ![c] = k] = [call EXCEPT ![c] = k]
  BY DEF IInv, TypeOK
<1>4. CASE /\ call[c].kind = "apply" /\ mode.checkpoint # "off"
           /\ call' = [calls EXCEPT ![c].at = "restoring"]
  <2> DEFINE k == [calls[c] EXCEPT !.at = "restoring"]
  <2>1. call' = [calls EXCEPT ![c] = k] /\ status' = [status EXCEPT ![call[c].of] = "FAILED"]
    BY <1>2, <1>4 DEF Fails
  <2>2. call' = [call EXCEPT ![c] = k]
    BY <1>3, <2>1
  <2>3. /\ calls[c].kind = "apply" /\ calls[c].of = call[c].of /\ calls[c].left = call[c].left
        /\ calls[c].evidence = call[c].evidence /\ calls[c].saved = call[c].saved
        /\ calls[c].start = call[c].start /\ calls[c].disturbed = call[c].disturbed
        /\ calls[c].undoes = call[c].undoes /\ calls[c] \in CallRecords /\ "restoring" \in Places
    BY <1>2, <1>4 DEF IInv, TypeOK, CallRecords, Places
  <2>4. /\ k \in CallRecords /\ k.at = "restoring" /\ k.kind = "apply" /\ k.of = call[c].of
        /\ k.left = call[c].left /\ k.evidence = call[c].evidence /\ k.saved = call[c].saved
        /\ k.start = call[c].start /\ k.disturbed = call[c].disturbed
        /\ k.undoes = call[c].undoes /\ k.broken = calls[c].broken
    BY <2>3 DEF CallRecords
  <2> HIDE DEF k
  <2>5. call'[c] = k
    BY <2>2 DEF IInv, TypeOK
  <2>6. Placed(c) /\ Vouched(c) /\ call[c].of \in Proposals /\ c \notin Proposals
    BY <1>1, <1>4 DEF IInv, Vouching, Placed, Active
  <2>7. status'[call[c].of] # "NONE"
    BY <2>1, <2>6 DEF IInv, TypeOK
  <2>8. Placed(c)'
    BY <1>1, <1>4, <2>4, <2>5, <2>6, <2>7 DEF Placed, Application, Active, Ended
  <2>9. Fine(k.saved) /\ k.evidence \in vouched \union {0} /\ Cleared(k)
    BY <2>4, <2>6 DEF Vouched, Cleared
  <2>10. c \in Calls => Progress(c)'
    <3> SUFFICES ASSUME c \in Calls, ~k.disturbed
                 PROVE  /\ k.broken
                        /\ mode.checkpoint = "taken" => \A f \in Touches[k.of] : k.saved[f] = k.start[f]
      BY <2>4, <2>5 DEF Progress
    <3>1. Progress(c)
      BY DEF IInv
    <3>2. QED
      BY <1>4, <2>4, <3>1 DEF Progress
  <2>11. \A f \in Files, p \in Proposals : mode.checkpoint = "off" /\ Put(c, f, p) => Put(c, f, p)'
    BY <1>4
  <2>12. k.kind # "revert" /\ Application(c)'
    BY <2>4, <2>5 DEF Application
  <2>13. QED
    BY <1>1, <2>1, <2>2, <2>4, <2>8, <2>9, <2>10, <2>11, <2>12, StateSafe
<1>5. CASE call' = [calls EXCEPT ![c] = Closed(c, "failed")]
  <2>2. call' = [call EXCEPT ![c] = Closed(c, "failed")]
    BY <1>3, <1>5
  <2>3. status' = status \/ status' = [status EXCEPT ![call[c].of] = "FAILED"]
    BY DEF Fails
  <2>4. QED
    BY <1>1, <2>2, <2>3, EndsSafe
<1>6. QED
  BY <1>4, <1>5 DEF Fails

\* A read that finds another text than the expected one has found that of another.
LEMMA ReadFileSafe ==
  ASSUME IInv, NEW c \in Every, ReadFile(c)
  PROVE  IInv'
<1>1. /\ call[c].at = "reading" /\ Active(c)
      /\ UNCHANGED <<mode, content, base, approved, edits, vouched, hasty>>
  BY DEF ReadFile, At, Active, Ended
<1>2. /\ Placed(c) /\ Vouched(c) /\ call[c] \in CallRecords /\ call[c].of \in Proposals
      /\ call[c].left # {} /\ call[c].left \subseteq Touches[call[c].of]
      /\ call[c].left \in SUBSET Files /\ c \in Calls
  BY <1>1 DEF IInv, TypeOK, Vouching, Placed, Active, CallRecords, Every
<1>3. CASE content[NextFile(c)] = Expected(c)
  <2> DEFINE k == [call[c] EXCEPT !.at = "writing"]
  <2>1. call' = [call EXCEPT ![c] = k] /\ status' = status
    BY <1>3 DEF ReadFile
  <2>2. "writing" \in Places
    BY DEF Places
  <2>3. /\ k \in CallRecords /\ k.at = "writing" /\ k.kind = call[c].kind /\ k.of = call[c].of
        /\ k.left = call[c].left /\ k.evidence = call[c].evidence /\ k.saved = call[c].saved
        /\ k.start = call[c].start /\ k.disturbed = call[c].disturbed /\ k.undoes = call[c].undoes
    BY <1>2, <2>2 DEF CallRecords
  <2> HIDE DEF k
  <2>4. call'[c] = k /\ \A x \in Every \ {c} : call'[x] = call[x]
    BY <2>1 DEF IInv, TypeOK
  <2>5. Placed(c)'
    <3>1. call[c].kind = "revert" => call[c].undoes \in Every \ {c}
      BY <1>2 DEF Placed, Every
    <3>2. QED
      BY <1>1, <1>2, <2>1, <2>3, <2>4, <3>1 DEF Placed, Application, Active, Ended, Every
  <2>6. Fine(k.saved) /\ k.evidence \in vouched \union {0} /\ Cleared(k)
    BY <1>1, <1>2, <2>3 DEF Vouched, Cleared
  <2>7. Progress(c)'
    <3>1. Progress(c)
      BY <1>2 DEF IInv
    <3>2. QED
      BY <1>1, <2>3, <2>4, <3>1 DEF Progress
  <2>8. \A f \in Files, p \in Proposals : Put(c, f, p) => Put(c, f, p)'
    BY <1>1, <2>3, <2>4 DEF Put
  <2>9. Application(c) => Application(c)'
    BY <2>3, <2>4 DEF Application
  <2>10. QED
    BY <1>1, <2>1, <2>3, <2>5, <2>6, <2>7, <2>8, <2>9, StateSafe
<1>4. CASE content[NextFile(c)] # Expected(c)
  <2>1. Fails(c, call)
    BY <1>4 DEF ReadFile
  <2>2. ~(call[c].kind = "apply" /\ ~call[c].disturbed)
    <3> SUFFICES ASSUME call[c].kind = "apply", ~call[c].disturbed
                 PROVE  FALSE
      OBVIOUS
    <3>1. NextFile(c) \in call[c].left
      BY <1>2, NextFileIsLeft
    <3>2. Progress(c)
      BY <1>2 DEF IInv
    <3>3. /\ content[NextFile(c)] = call[c].start[NextFile(c)]
          /\ base[call[c].of][NextFile(c)] = call[c].start[NextFile(c)]
      BY <1>1, <1>2, <3>1, <3>2 DEF Progress
    <3>4. QED
      BY <1>4, <3>3 DEF Expected
  <2>3. QED
    BY <1>1, <2>1, <2>2, FailsSafe
<1>5. QED
  BY <1>3, <1>4

LEMMA WriteFailsSafe ==
  ASSUME IInv, NEW c \in Every, WriteFails(c)
  PROVE  IInv'
<1> DEFINE calls == [call EXCEPT ![c].broken = TRUE]
<1>1. call[c].at = "writing" /\ Fails(c, calls)
  BY DEF WriteFails, At
<1>2. calls[c].broken
  BY DEF IInv, TypeOK, CallRecords
<1>3. UNCHANGED <<mode, content, base, approved, edits, vouched, hasty>>
  BY DEF WriteFails
<1> HIDE DEF calls
<1>4. calls \in {call, [call EXCEPT ![c].broken = TRUE]}
  BY DEF calls
<1>5. QED
  BY <1>1, <1>2, <1>3, <1>4, FailsSafe

\* The checkpoint holds the files as they are, which all have approved texts.
LEMMA CheckpointSafe ==
  ASSUME IInv, NEW c \in Every, Checkpoint(c)
  PROVE  IInv'
<1> DEFINE saves == IF mode.checkpoint = "taken" THEN content ELSE call[c].saved
           k == [call[c] EXCEPT !.at = "reading", !.left = Touches[call[c].of], !.saved = saves]
<1>1. /\ call[c].at = "checkpointing" /\ Active(c) /\ call[c] \in CallRecords
      /\ UNCHANGED <<mode, content, base, approved, edits, vouched, hasty>>
  BY DEF Checkpoint, At, Active, Ended, IInv, TypeOK
<1>2. /\ Placed(c) /\ Vouched(c) /\ call[c].of \in Proposals /\ call[c].kind = "apply"
      /\ c \in Calls /\ c \notin Proposals
  BY <1>1 DEF IInv, Vouching, Placed, Active, Every
<1>3. Touches[call[c].of] # {} /\ Touches[call[c].of] \in SUBSET Files
  BY <1>2, ProposalsAssumption
<1>4. saves \in [Files -> Texts] /\ Fine(saves)
  BY <1>1, <1>2 DEF CallRecords, IInv, TypeOK, Vouching, Vouched
<1>5. (mode.checkpoint = "taken" => saves = content)
  OBVIOUS
<1>6. call' = [call EXCEPT ![c] = k] /\ status' = [status EXCEPT ![call[c].of] = "APPLYING"]
  BY DEF Checkpoint, IInv, TypeOK
<1> HIDE DEF saves
<1>7. "reading" \in Places /\ "APPLYING" \in Statuses \ {"NONE"}
  BY DEF Places, Statuses
<1>8. /\ k \in CallRecords /\ k.at = "reading" /\ k.kind = "apply" /\ k.of = call[c].of
      /\ k.left = Touches[k.of] /\ k.evidence = call[c].evidence /\ k.saved = saves
      /\ k.start = call[c].start /\ k.disturbed = call[c].disturbed /\ k.undoes = call[c].undoes
  BY <1>1, <1>2, <1>3, <1>4, <1>7 DEF CallRecords
<1> HIDE DEF k
<1>9. call'[c] = k
  BY <1>6 DEF IInv, TypeOK
<1>10. status'[call[c].of] # "NONE"
  BY <1>2, <1>6 DEF IInv, TypeOK
<1>11. Placed(c)'
  BY <1>1, <1>2, <1>3, <1>8, <1>9, <1>10 DEF Placed, Application, Ended
<1>12. Fine(k.saved) /\ k.evidence \in vouched \union {0} /\ Cleared(k)
  BY <1>1, <1>2, <1>4, <1>8 DEF Vouched, Cleared
<1>13. Progress(c)'
  <2> SUFFICES ASSUME ~k.disturbed
               PROVE  /\ \A f \in Touches[k.of] : content[f] = k.start[f]
                      /\ \A f \in Touches[k.of] : base[k.of][f] = k.start[f]
                      /\ mode.checkpoint = "taken" => \A f \in Touches[k.of] : k.saved[f] = k.start[f]
    BY <1>1, <1>8, <1>9 DEF Progress
  <2>1. Progress(c)
    BY <1>2 DEF IInv
  <2>2. QED
    BY <1>1, <1>2, <1>5, <1>8, <2>1 DEF Progress
<1>14. ~Application(c) /\ \A f \in Files, p \in Proposals : ~Put(c, f, p)
  BY <1>1 DEF Application, Put
<1>15. k.kind # "revert"
  BY <1>8
<1>16. QED
  BY <1>1, <1>6, <1>7, <1>8, <1>11, <1>12, <1>13, <1>14, <1>15, StateSafe

LEMMA CheckpointFailsSafe ==
  ASSUME IInv, NEW c \in Every, CheckpointFails(c)
  PROVE  IInv'
<1>1. /\ Active(c) /\ ~Application(c) /\ "refused" \in Ended \ {"unused"}
      /\ call' = [call EXCEPT ![c] = Closed(c, "refused")]
      /\ UNCHANGED <<mode, content, status, base, approved, edits, vouched, hasty>>
  BY DEF CheckpointFails, At, Active, Application, Ended
<1>2. QED
  BY <1>1, EndsSafe

\* An application is the last of its proposal when every file was seen to hold
\* its text.
LEMMA VerifyFileSafe ==
  ASSUME IInv, NEW c \in Every, VerifyFile(c)
  PROVE  IInv'
<1> DEFINE rest == call[c].left \ {NextFile(c)}
<1>1. /\ call[c].at = "verifying" /\ Active(c) /\ call[c] \in CallRecords
      /\ UNCHANGED <<mode, content, base, approved, edits, vouched, hasty>>
  BY DEF VerifyFile, At, Active, Ended, IInv, TypeOK
<1>2. /\ Placed(c) /\ Vouched(c) /\ call[c].of \in Proposals /\ call[c].kind = "apply"
      /\ call[c].left # {} /\ call[c].left \subseteq Touches[call[c].of]
      /\ call[c].left \in SUBSET Files /\ c \in Calls /\ Progress(c)
  BY <1>1 DEF IInv, Vouching, Placed, Active, Every, CallRecords
<1>3. CASE content[NextFile(c)] # call[c].of
  <2>1. Fails(c, call)
    BY <1>3 DEF VerifyFile
  <2>2. call[c].disturbed
    <3>1. NextFile(c) \in call[c].left
      BY <1>2, NextFileIsLeft
    <3>2. QED
      BY <1>1, <1>2, <1>3, <3>1 DEF Progress
  <2>3. QED
    BY <1>1, <2>1, <2>2, FailsSafe
<1>4. CASE content[NextFile(c)] = call[c].of /\ rest # {}
  <2> DEFINE k == [call[c] EXCEPT !.left = rest]
  <2>1. call' = [call EXCEPT ![c] = k] /\ UNCHANGED status
    BY <1>4 DEF VerifyFile
  <2>2. rest \subseteq call[c].left
    OBVIOUS
  <2> HIDE DEF rest
  <2>3. /\ k \in CallRecords /\ k.at = "verifying" /\ k.kind = "apply" /\ k.of = call[c].of
        /\ k.left = rest /\ k.evidence = call[c].evidence /\ k.saved = call[c].saved
        /\ k.start = call[c].start /\ k.disturbed = call[c].disturbed /\ k.undoes = call[c].undoes
    BY <1>1, <1>2, <2>2 DEF CallRecords
  <2> HIDE DEF k
  <2>4. call'[c] = k
    BY <2>1 DEF IInv, TypeOK
  <2>5. Placed(c)'
    BY <1>1, <1>2, <1>4, <2>1, <2>2, <2>3, <2>4 DEF Placed, Application, Ended
  <2>6. Fine(k.saved) /\ k.evidence \in vouched \union {0} /\ Cleared(k)
    BY <1>1, <1>2, <2>3 DEF Vouched, Cleared
  <2>7. Progress(c)'
    BY <1>1, <1>2, <2>3, <2>4 DEF Progress
  <2>8. \A f \in Files, p \in Proposals : Put(c, f, p) => Put(c, f, p)'
    BY <1>1, <2>3, <2>4 DEF Put
  <2>9. k.kind # "revert" /\ Application(c)'
    BY <2>3, <2>4 DEF Application
  <2>10. QED
    BY <1>1, <2>1, <2>3, <2>5, <2>6, <2>7, <2>8, <2>9, StateSafe
<1>5. CASE content[NextFile(c)] = call[c].of /\ rest = {}
  <2>1. /\ call' = [call EXCEPT ![c] = Closed(c, "verified")]
        /\ status' = [status EXCEPT ![call[c].of] = "VERIFIED"]
    BY <1>5 DEF VerifyFile
  <2>2. "verified" \in Ended \ {"unused"} /\ "VERIFIED" \in Statuses \ {"NONE"}
    BY DEF Ended, Statuses
  <2>3. QED
    BY <1>1, <1>2, <2>1, <2>2, EndsSafe
<1>6. QED
  BY <1>3, <1>4, <1>5

-----------------------------------------------------------------------------
(* The steps that change texts *)

\* A step within its frame is safe if what it changes itself is.
LEMMA FrameSafe ==
  ASSUME IInv, NEW c, Frame(c), TypeOK',
         c \in Every => Placed(c)' /\ Vouched(c)',
         c \in Calls => Progress(c)',
         NotOwn', Recording',
         \A p \in Proposals : approved'[p] => p \in vouched',
         Fine(content)', \A p \in Proposals : Fine(base[p])'
  PROVE  IInv'
<1>1. \A x \in Every : Placed(x)'
  BY OthersPlaced
<1>2. \A x \in Every : Vouched(x)'
  BY OthersVouched
<1>3. \A x \in Calls : Progress(x)'
  BY OthersProgress
<1>4. Vouching'
  BY <1>2 DEF Vouching
<1>5. QED
  BY <1>1, <1>3, <1>4 DEF IInv

\* A write disturbs the calls that work on the file, and changes no other of them.
LEMMA DisturbedFacts ==
  ASSUME TypeOK, NEW calls \in [Every -> CallRecords], NEW c, NEW text, Write(calls, c, text)
  PROVE  /\ call' \in [Every -> CallRecords]
         /\ c \in Every => call'[c] = calls[c]
         /\ \A x \in Every \ {c} :
              /\ calls[x] = call[x] => Stays(x)
              /\ calls[x].at \in Ended => call'[x] = calls[x]
<1>1. call' = Disturbed(calls, c, text) /\ content' = text
  BY DEF Write
<1>2. ASSUME NEW x \in Every
      PROVE  [calls[x] EXCEPT !.disturbed = TRUE] \in CallRecords
  BY <1>2 DEF CallRecords
<1>3. call' \in [Every -> CallRecords]
  BY <1>1, <1>2 DEF Disturbed
<1>4. c \in Every => call'[c] = calls[c]
  BY <1>1 DEF Disturbed
<1>5. ASSUME NEW x \in Every \ {c}
      PROVE  /\ calls[x] = call[x] => Stays(x)
             /\ calls[x].at \in Ended => call'[x] = calls[x]
  <2> DEFINE hit == calls[x].at \notin Ended
                      /\ \E f \in Touches[calls[x].of] : text[f] # content[f]
  <2>1. call'[x] = IF hit THEN [calls[x] EXCEPT !.disturbed = TRUE] ELSE calls[x]
    BY <1>1 DEF Disturbed
  <2>2. [calls[x] EXCEPT !.disturbed = TRUE].disturbed
    BY DEF CallRecords
  <2>3. calls[x].at \in Ended => ~hit
    OBVIOUS
  <2>4. ASSUME calls[x] = call[x]
        PROVE  Stays(x)
    <3>1. CASE hit
      BY <2>1, <2>2, <2>4, <3>1 DEF Stays
    <3>2. CASE ~hit
      BY <1>1, <2>1, <2>4, <3>2 DEF Stays, Active
    <3>3. QED
      BY <3>1, <3>2
  <2>5. QED
    BY <2>1, <2>3, <2>4
<1>6. QED
  BY <1>3, <1>4, <1>5

\* A step of a call that writes into the files, and may mark the application that
\* it reverts, stays in its frame.
LEMMA WritesFrame ==
  ASSUME IInv, NEW c \in Calls, Active(c), NEW calls \in [Every -> CallRecords], NEW text,
         Write(calls, c, text),
         \A x \in Every \ {c} :
           \/ calls[x] = call[x]
           \/ /\ Application(x) /\ ~Active(x)
              /\ calls[x] = [call[x] EXCEPT !.at = "reverted"],
         Keeps(c),
         \/ status' = status
         \/ \E st \in Statuses \ {"NONE"} : status' = [status EXCEPT ![call[c].of] = st],
         UNCHANGED <<mode, base, approved, edits, vouched, hasty>>
  PROVE  /\ Frame(c)
         /\ \A x \in Every \ {c} : calls[x] = call[x] => Stays(x)
<1>1. c \in Every /\ c \notin Proposals
  BY ProposalsAssumption DEF Every
<1>2. call[c].of \in Proposals /\ status[call[c].of] # "NONE"
  BY <1>1 DEF IInv, Placed, Active
<1>3. \A x \in Every \ {c} :
        /\ calls[x] = call[x] => Stays(x)
        /\ calls[x].at \in Ended => call'[x] = calls[x]
  BY DisturbedFacts DEF IInv
<1>4. \A x \in Every : [call[x] EXCEPT !.at = "reverted"].at \in Ended
  BY DEF IInv, TypeOK, CallRecords, Ended
<1>5. \A x \in Every \ {c} : Stays(x) \/ Undone(x)
  BY <1>3, <1>4 DEF Undone
<1>6. status \in [Proposals -> Statuses]
  BY DEF IInv, TypeOK
<1>7. \A p \in Proposals : /\ status[p] # "NONE" => status'[p] # "NONE"
                           /\ status[p] = "NONE" => status'[p] = "NONE"
  BY <1>2, <1>6
<1>8. QED
  BY <1>3, <1>5, <1>7 DEF Frame

\* Such a step is safe if it writes approved texts that are recorded.
LEMMA WritesSafe ==
  ASSUME IInv, NEW c \in Calls, Active(c), NEW calls \in [Every -> CallRecords],
         NEW text \in [Files -> Texts], Write(calls, c, text),
         Fine(text),
         \A x \in Every \ {c} :
           \/ calls[x] = call[x]
           \/ /\ Application(x) /\ ~Active(x)
              /\ calls[x] = [call[x] EXCEPT !.at = "reverted"],
         Keeps(c),
         \/ status' = status
         \/ \E st \in Statuses \ {"NONE"} : status' = [status EXCEPT ![call[c].of] = st],
         UNCHANGED <<mode, base, approved, edits, vouched, hasty>>,
         Placed(c)', Vouched(c)', Progress(c)', Recording'
  PROVE  IInv'
<1>1. Frame(c)
  BY WritesFrame
<1>2. status' \in [Proposals -> Statuses]
  BY DEF IInv, TypeOK
<1>3. content' = text /\ call' \in [Every -> CallRecords]
  BY DisturbedFacts DEF IInv, Write
<1>4. TypeOK'
  BY <1>2, <1>3 DEF IInv, TypeOK
<1>5. \A p \in Proposals : approved'[p] => p \in vouched'
  BY DEF IInv, Vouching
<1>6. Fine(content)' /\ \A p \in Proposals : Fine(base[p])'
  <2>1. \A p \in Proposals : status[p] # "NONE" => status'[p] # "NONE"
    BY <1>1 DEF Frame
  <2>2. Fine(text) /\ \A p \in Proposals : Fine(base[p])
    BY DEF IInv, Vouching
  <2>3. QED
    BY <1>3, <2>1, <2>2, FineStays DEF Fine
<1>7. NotOwn'
  BY DEF IInv, NotOwn
<1>8. QED
  BY <1>1, <1>4, <1>5, <1>6, <1>7, FrameSafe

\* A call that a write does not concern keeps what it holds.
LEMMA VouchedStays ==
  ASSUME mode' = mode, vouched \subseteq vouched',
         \A p \in Proposals : status[p] # "NONE" => status'[p] # "NONE",
         NEW c \in Every, Fine(call'[c].saved), call'[c].evidence \in vouched \union {0},
         Cleared(call'[c])
  PROVE  Vouched(c)'
<1>1. Fine(call[c].saved)'
  BY FineStays DEF Fine
<1>2. QED
  BY <1>1 DEF Vouched, Cleared

LEMMA RestoreSafe ==
  ASSUME IInv, NEW c \in Every, Restore(c)
  PROVE  IInv'
<1> DEFINE calls == [call EXCEPT ![c] = Closed(c, "failed")]
           text == IF mode.checkpoint = "taken" THEN call[c].saved ELSE content
<1>1. /\ call[c].at = "restoring" /\ call[c].kind = "apply" /\ Active(c)
      /\ Write(calls, c, text) /\ status' = status
      /\ UNCHANGED <<mode, base, approved, edits, vouched, hasty>>
  BY DEF Restore, At, Active, Ended
<1>2. /\ Placed(c) /\ Vouched(c) /\ call[c] \in CallRecords /\ c \in Calls /\ mode.checkpoint # "off"
  BY <1>1 DEF IInv, TypeOK, Vouching, Placed, Active, Every
<1>3. text \in [Files -> Texts] /\ Fine(text)
  BY <1>2 DEF CallRecords, IInv, TypeOK, Vouching, Vouched
<1>4. "failed" \in Ended \ {"unused"}
  BY DEF Ended
<1>5. Closed(c, "failed") \in CallRecords
  BY <1>4, ClosedFacts DEF IInv
<1>6. calls \in [Every -> CallRecords] /\ \A x \in Every \ {c} : calls[x] = call[x]
  BY <1>5 DEF IInv, TypeOK
<1>7. calls[c] = Closed(c, "failed")
  BY DEF IInv, TypeOK
<1> HIDE DEF calls, text
<1>8. call'[c] = Closed(c, "failed")
  BY <1>1, <1>6, <1>7, DisturbedFacts DEF IInv
<1>9. /\ Placed(c)' /\ Progress(c)'
      /\ Fine(call'[c].saved) /\ call'[c].evidence = 0 /\ Cleared(call'[c])
  BY <1>1, <1>4, <1>8, ClosedPlaced
<1>10. Vouched(c)'
  BY <1>1, <1>9, VouchedStays
<1>11. Keeps(c)
  <2>1. /\ Closed(c, "failed").kind = "apply" /\ Closed(c, "failed").of = call[c].of
        /\ Closed(c, "failed").at = "failed"
    BY <1>1, <1>4, ClosedFacts DEF IInv
  <2>2. QED
    BY <1>1, <1>8, <2>1 DEF Keeps, Application
<1>12. Recording'
  BY <1>1, <1>2 DEF Recording
<1>13. QED
  BY <1>1, <1>2, <1>3, <1>6, <1>9, <1>10, <1>11, <1>12, WritesSafe

LEMMA MarkedFacts ==
  ASSUME TypeOK, NEW a \in Every
  PROVE  /\ Marked(a) \in CallRecords
         /\ Marked(a) = call[a] \/ (~Active(a) /\ Marked(a) = [call[a] EXCEPT !.at = "reverted"])
<1>1. call[a] \in CallRecords /\ "reverted" \in Places
  BY DEF TypeOK, Places
<1>2. [call[a] EXCEPT !.at = "reverted"] \in CallRecords
  BY <1>1 DEF CallRecords
<1>3. QED
  BY <1>1, <1>2 DEF Marked, Active

\* The application that a revert has undone is marked.
LEMMA RestoreForRevertSafe ==
  ASSUME IInv, NEW c \in Every, RestoreForRevert(c)
  PROVE  IInv'
<1> DEFINE a == call[c].undoes
           gone == Closed(c, "reverted")
           calls == [call EXCEPT ![c] = gone, ![a] = Marked(a)]
           text == IF mode.checkpoint = "taken" THEN call[a].saved ELSE content
<1>1. /\ call[c].at = "restoring" /\ call[c].kind = "revert" /\ Active(c)
      /\ Write(calls, c, text) /\ status' = [status EXCEPT ![call[c].of] = "REVERTED"]
      /\ UNCHANGED <<mode, base, approved, edits, vouched, hasty>>
  BY DEF RestoreForRevert, At, Active, Ended
<1>2. /\ c \in Calls /\ mode.checkpoint # "off" /\ a \in Calls /\ a \in Every /\ a # c
      /\ Application(a)
  BY <1>1 DEF IInv, Placed, Active, Every
<1>3. call[a] \in CallRecords /\ Vouched(a)
  BY <1>2 DEF IInv, TypeOK, Vouching
<1>4. text \in [Files -> Texts] /\ Fine(text)
  BY <1>3 DEF CallRecords, IInv, TypeOK, Vouching, Vouched
<1>5. "reverted" \in Ended \ {"unused"} /\ "REVERTED" \in Statuses \ {"NONE"}
  BY DEF Ended, Statuses
<1>6. gone \in CallRecords
  BY <1>5, ClosedFacts DEF IInv
<1>7. /\ Marked(a) \in CallRecords
      /\ Marked(a) = call[a] \/ (~Active(a) /\ Marked(a) = [call[a] EXCEPT !.at = "reverted"])
  BY <1>2, MarkedFacts DEF IInv
<1>8. /\ calls \in [Every -> CallRecords] /\ calls[c] = gone
      /\ \A x \in Every \ {c} : calls[x] = call[x] \/ (x = a /\ calls[x] = Marked(a))
  <2>1. call \in [Every -> CallRecords] /\ calls = [call EXCEPT ![c] = gone, ![a] = Marked(a)]
    BY DEF IInv, TypeOK
  <2> HIDE DEF gone, a, calls
  <2>2. calls \in [Every -> CallRecords]
    BY <1>2, <1>6, <1>7, <2>1
  <2>3. c \in Every
    OBVIOUS
  <2>4. \A x \in Every : calls[x] = IF x = a THEN Marked(a) ELSE IF x = c THEN gone ELSE call[x]
    BY <1>2, <2>1
  <2>5. QED
    BY <1>2, <2>2, <2>3, <2>4
<1>9. call'[c] = gone
  BY <1>1, <1>8, DisturbedFacts DEF IInv
<1>10. Placed(c)' /\ Vouched(c)' /\ Progress(c)' /\ Keeps(c)
  <2>1. \A p \in Proposals : status[p] # "NONE" => status'[p] # "NONE"
    BY <1>1 DEF IInv, TypeOK
  <2>2. /\ Placed(c)' /\ Progress(c)'
        /\ Fine(call'[c].saved) /\ call'[c].evidence = 0 /\ Cleared(call'[c])
    BY <1>1, <1>5, <1>9, <2>1, ClosedPlaced
  <2>3. Keeps(c)
    BY <1>1 DEF Keeps, Application
  <2>4. QED
    BY <1>1, <2>1, <2>2, <2>3, VouchedStays
<1>11. Recording'
  BY <1>1, <1>2 DEF Recording
<1>12. \A x \in Every \ {c} :
         \/ calls[x] = call[x]
         \/ /\ Application(x) /\ ~Active(x)
            /\ calls[x] = [call[x] EXCEPT !.at = "reverted"]
  BY <1>2, <1>7, <1>8
<1>13. \E st \in Statuses \ {"NONE"} : status' = [status EXCEPT ![call[c].of] = st]
  BY <1>1, <1>5
<1> HIDE DEF calls, text, gone, a
<1>14. QED
  BY <1>1, <1>2, <1>4, <1>8, <1>10, <1>11, <1>12, <1>13, WritesSafe

\* The text that a call writes is recorded by the application it makes, or is one
\* that the proposal it reverts was made against; and a revert has the others left
\* that its application holds.
LEMMA RecordingWrites ==
  ASSUME IInv, NEW c \in Calls, call[c].at = "writing", Active(c), NEW f, f = NextFile(c),
         call[c].kind = "apply" => f \in call[c].left,
         content' = [content EXCEPT ![f] = Replacement(c)],
         UNCHANGED <<mode, base, hasty>>,
         \A r \in Calls : Placed(r)',
         \A x \in Every \ {c} :
           \/ Stays(x)
           \/ /\ Undone(x) /\ call[c].kind = "revert" /\ x = call[c].undoes
              /\ call[c].left \ {f} = {},
         call[c].kind = "apply" =>
           /\ call'[c].kind = "apply" /\ call'[c].of = call[c].of
           /\ \/ call'[c].at = "reading" /\ call'[c].left = call[c].left \ {f}
              \/ call'[c].at = "verifying",
         call[c].kind = "revert" =>
           \/ /\ call'[c].kind = "revert" /\ call'[c].undoes = call[c].undoes
              /\ call'[c].left = call[c].left \ {f}
           \/ call'[c].kind = "none"
  PROVE  Recording'
<1> DEFINE p == call[c].of
<1>0. p \in Proposals /\ call[c].left \subseteq Touches[p] /\ call[c].kind \in {"apply", "revert"}
  BY DEF IInv, Placed, Active, Every
<1> HIDE DEF p
<1> SUFFICES ASSUME mode'.checkpoint = "off", NEW g \in Files,
                    NEW q \in Proposals \ hasty, content'[g] = q
             PROVE  \/ \E x \in Calls : Holds(x, g, q)'
                    \/ \E o \in Proposals \ {q} : base'[o][g] = q
  BY DEF Recording
<1>1. ASSUME call[c].kind = "apply", Put(c, g, q)'
      PROVE  Holds(c, g, q)'
  <2>1. Active(c)'
    BY <1>1 DEF Active, Ended
  <2>2. \A r \in Calls : ~(call'[r].kind = "revert" /\ call'[r].undoes = c)
    BY <1>1, <2>1 DEF Placed, Put
  <2>3. QED
    BY <1>1, <2>2 DEF Holds
<1>2. CASE g = f
  <2>1. Replacement(c) = q
    BY <1>2 DEF IInv, TypeOK
  <2>2. CASE call[c].kind = "apply"
    <3>1. q = p /\ f \in Touches[p]
      BY <1>0, <2>1, <2>2 DEF Replacement, p
    <3>2. Put(c, g, q)'
      BY <1>2, <2>2, <3>1 DEF Put, p
    <3>3. QED
      BY <1>1, <2>2, <3>2
  <2>3. CASE call[c].kind = "revert"
    <3>1. base[p][g] = q
      BY <1>2, <2>1, <2>3 DEF Replacement, p
    <3>2. p # q
      BY <1>0, <3>1 DEF IInv, NotOwn
    <3>3. QED
      BY <1>0, <3>1, <3>2
  <2>4. QED
    BY <1>0, <2>2, <2>3
<1>3. CASE g # f
  <2>1. content[g] = q /\ mode.checkpoint = "off"
    BY <1>3 DEF IInv, TypeOK
  <2>2. CASE \E o \in Proposals \ {q} : base[o][g] = q
    BY <2>2
  <2>3. ASSUME NEW x \in Calls, Holds(x, g, q)
        PROVE  Holds(x, g, q)'
    <3>1. CASE x = c
      <4>1. Put(c, g, q)' /\ call[c].kind = "apply"
        BY <1>3, <2>3, <3>1 DEF Holds, Put
      <4>2. QED
        BY <1>1, <3>1, <4>1
    <3>2. CASE x # c
      <4>1. x \in Every \ {c} /\ c \in Every
        BY <3>2 DEF Every
      <4>2. Stays(x)
        <5>1. ~(call[c].kind = "revert" /\ x = call[c].undoes /\ call[c].left \ {f} = {})
          BY <1>3, <2>3 DEF Holds
        <5>2. QED
          BY <4>1, <5>1
      <4>3. Put(x, g, q)'
        BY <2>3, <4>1, <4>2, StaysFacts DEF IInv, Holds, Put
      <4>4. ASSUME NEW r \in Calls, call'[r].kind = "revert", call'[r].undoes = x
            PROVE  g \in call'[r].left
        <5>1. CASE r = c
          <6>1. call[c].kind = "revert" /\ call[c].undoes = x /\ call'[c].left = call[c].left \ {f}
            BY <1>0, <4>4, <5>1
          <6>2. QED
            BY <1>3, <2>3, <5>1, <6>1 DEF Holds
        <5>2. CASE r # c
          <6>1. Stays(r) /\ r \in Every
            BY <4>4, <5>2, UndoneFacts DEF Every, IInv
          <6>2. call[r].kind = "revert" /\ call[r].undoes = x /\ call'[r].left = call[r].left
            BY <4>4, <6>1, StaysFacts DEF IInv
          <6>3. QED
            BY <2>3, <6>2 DEF Holds
        <5>3. QED
          BY <5>1, <5>2
      <4>5. QED
        BY <4>3, <4>4 DEF Holds
    <3>3. QED
      BY <3>1, <3>2
  <2>4. QED
    BY <2>1, <2>2, <2>3 DEF IInv, Recording
<1>4. QED
  BY <1>2, <1>3

LEMMA WriteFileSafe ==
  ASSUME IInv, NEW c \in Every, WriteFile(c)
  PROVE  IInv'
<1> DEFINE p == call[c].of
           f == NextFile(c)
           rest == call[c].left \ {f}
           applies == call[c].kind = "apply"
           a == call[c].undoes
           gone == Closed(c, "reverted")
           text == [content EXCEPT ![f] = Replacement(c)]
           after == IF rest # {}
                    THEN [call EXCEPT ![c].left = rest, ![c].at = "reading"]
                    ELSE IF applies
                    THEN [call EXCEPT ![c].left = Touches[p], ![c].at = "verifying"]
                    ELSE [call EXCEPT ![c] = gone, ![a] = Marked(a)]
<1>1. /\ call[c].at = "writing" /\ Active(c) /\ Write(after, c, text)
      /\ UNCHANGED <<mode, base, approved, edits, vouched, hasty>>
  BY DEF WriteFile, At, Active, Ended
<1>2. status' = IF rest # {} THEN status
                ELSE [status EXCEPT ![p] = IF applies THEN "APPLIED" ELSE "REVERTED"]
  BY DEF WriteFile
<1>3. /\ Placed(c) /\ Vouched(c) /\ call[c] \in CallRecords /\ p \in Proposals /\ c \in Calls
      /\ call[c].left # {} /\ call[c].left \subseteq Touches[p] /\ call[c].left \in SUBSET Files
      /\ call[c].kind \in {"apply", "revert"} /\ Progress(c) /\ status[p] # "NONE"
  BY <1>1 DEF IInv, TypeOK, Vouching, Placed, Active, Every, CallRecords
<1>4. applies => f \in call[c].left
  BY <1>3, NextFileIsLeft
<1>5. call \in [Every -> CallRecords] /\ content \in [Files -> Texts]
  BY DEF IInv, TypeOK
<1>6. f \in Files => /\ Replacement(c) \in Texts
                     /\ Replacement(c) \in Proposals =>
                          /\ status[Replacement(c)] # "NONE"
                          /\ mode.asks => Replacement(c) \in vouched
  <2>1. CASE applies
    BY <1>1, <1>3, <2>1 DEF Replacement, Vouched, Cleared, Texts
  <2>2. CASE ~applies
    BY <1>3, <2>2 DEF Replacement, IInv, TypeOK, Vouching, Fine
  <2>3. QED
    BY <2>1, <2>2
<1>7. text \in [Files -> Texts] /\ Fine(text)
  <2>1. text = [content EXCEPT ![f] = Replacement(c)]
    OBVIOUS
  <2>2. Fine(content)
    BY DEF IInv, Vouching
  <2> HIDE DEF text, f
  <2>3. \A g \in Files : text[g] = IF g = f THEN Replacement(c) ELSE content[g]
    BY <1>5, <2>1
  <2>4. text = [g \in Files |-> IF g = f THEN Replacement(c) ELSE content[g]]
    BY <1>5, <2>1
  <2>5. text \in [Files -> Texts]
    <3>1. \A g \in Files : (IF g = f THEN Replacement(c) ELSE content[g]) \in Texts
      BY <1>5, <1>6
    <3>2. QED
      BY <2>4, <3>1
  <2>6. Fine(text)
    BY <1>6, <2>2, <2>3 DEF Fine
  <2>7. QED
    BY <2>5, <2>6
<1>8. \E st \in Statuses \ {"NONE"} :
        status' = status \/ status' = [status EXCEPT ![p] = st]
  BY <1>2 DEF Statuses
<1>9. "reading" \in Places /\ "verifying" \in Places /\ "reverted" \in Ended \ {"unused"}
  BY DEF Places, Ended
<1>10. Touches[p] # {} /\ Touches[p] \in SUBSET Files
  BY <1>3, ProposalsAssumption
<1> DEFINE k == IF rest # {} THEN [call[c] EXCEPT !.left = rest, !.at = "reading"]
                ELSE IF applies THEN [call[c] EXCEPT !.left = Touches[p], !.at = "verifying"]
                ELSE gone
<1>11. gone \in CallRecords /\ gone.kind = "none"
  BY <1>9, ClosedFacts DEF IInv
<1>12. rest # {} \/ applies =>
         /\ k \in CallRecords /\ k.kind = call[c].kind /\ k.of = p
         /\ k.evidence = call[c].evidence /\ k.saved = call[c].saved /\ k.start = call[c].start
         /\ k.disturbed = call[c].disturbed /\ k.undoes = a
         /\ IF rest # {} THEN k.at = "reading" /\ k.left = rest
            ELSE k.at = "verifying" /\ k.left = Touches[p]
  <2> SUFFICES ASSUME rest # {} \/ applies
               PROVE  /\ k \in CallRecords /\ k.kind = call[c].kind /\ k.of = p
                      /\ k.evidence = call[c].evidence /\ k.saved = call[c].saved
                      /\ k.start = call[c].start
                      /\ k.disturbed = call[c].disturbed /\ k.undoes = a
                      /\ IF rest # {} THEN k.at = "reading" /\ k.left = rest
                         ELSE k.at = "verifying" /\ k.left = Touches[p]
    OBVIOUS
  <2>1. rest \in SUBSET Files
    BY <1>3
  <2>2. CASE rest # {}
    <3> HIDE DEF rest
    <3>1. QED
      BY <1>3, <1>9, <2>1, <2>2 DEF CallRecords
  <2>3. CASE rest = {} /\ applies
    <3> HIDE DEF rest, gone
    <3>1. QED
      BY <1>3, <1>9, <1>10, <2>3 DEF CallRecords
  <2>4. QED
    BY <2>2, <2>3
<1>13. ~(rest # {} \/ applies) => k = gone
  OBVIOUS
<1>14. /\ after \in [Every -> CallRecords] /\ after[c] = k
       /\ \A x \in Every \ {c} :
            \/ after[x] = call[x]
            \/ rest = {} /\ ~applies /\ x = a /\ after[x] = Marked(a)
  <2>1. CASE rest # {}
    <3>1. after = [call EXCEPT ![c] = k]
      BY <1>5, <2>1
    <3> HIDE DEF after, k, rest
    <3>2. QED
      BY <1>5, <1>12, <2>1, <3>1
  <2>2. CASE rest = {} /\ applies
    <3>1. after = [call EXCEPT ![c] = k]
      BY <1>5, <2>2
    <3> HIDE DEF after, k, rest
    <3>2. QED
      BY <1>5, <1>12, <2>2, <3>1
  <2>3. CASE rest = {} /\ ~applies
    <3>1. after = [call EXCEPT ![c] = gone, ![a] = Marked(a)]
      BY <2>3
    <3>2. a \in Every /\ a # c
      BY <1>3, <2>3 DEF Placed, Every
    <3>3. Marked(a) \in CallRecords
      BY <3>2, MarkedFacts DEF IInv
    <3> HIDE DEF after, k, rest, gone, a
    <3>4. QED
      BY <1>5, <1>11, <1>13, <2>3, <3>1, <3>2, <3>3
  <2>4. QED
    BY <2>1, <2>2, <2>3
<1>15. call'[c] = k
  <2> HIDE DEF after, k, text
  <2>1. QED
    BY <1>1, <1>14, DisturbedFacts DEF IInv
<1>16. \A x \in Every \ {c} :
         \/ after[x] = call[x]
         \/ /\ Application(x) /\ ~Active(x)
            /\ after[x] = [call[x] EXCEPT !.at = "reverted"]
            /\ x = a /\ ~applies /\ rest = {}
  <2>1. ~applies => Application(a) /\ a \in Every
    BY <1>3 DEF Placed, Every
  <2>2. a \in Every =>
          Marked(a) = call[a] \/ (~Active(a) /\ Marked(a) = [call[a] EXCEPT !.at = "reverted"])
    BY MarkedFacts DEF IInv
  <2> HIDE DEF after, k, rest, gone, a
  <2>3. QED
    BY <1>14, <2>1, <2>2
<1>17. \/ status' = status
       \/ \E st \in Statuses \ {"NONE"} : status' = [status EXCEPT ![call[c].of] = st]
  BY <1>8
<1>24. Keeps(c)
  <2> SUFFICES ASSUME applies
               PROVE  Application(c)' /\ call'[c].of = call[c].of
    BY <1>1 DEF Keeps, Application
  <2> HIDE DEF k
  <2>1. QED
    BY <1>12, <1>15 DEF Application
<1>18. Frame(c) /\ \A x \in Every \ {c} : after[x] = call[x] => Stays(x)
  <2> HIDE DEF after, k, text, rest, gone, a
  <2>1. QED
    BY <1>1, <1>3, <1>14, <1>16, <1>17, <1>24, WritesFrame
<1>19. \A x \in Every \ {c} :
         Stays(x) \/ (Undone(x) /\ ~applies /\ x = a /\ rest = {})
  <2>1. \A x \in Every \ {c} : after[x].at \in Ended => call'[x] = after[x]
    <3> HIDE DEF after, k, text, rest
    <3>1. QED
      BY <1>1, <1>14, DisturbedFacts DEF IInv
  <2>2. \A x \in Every : [call[x] EXCEPT !.at = "reverted"].at \in Ended
    BY DEF IInv, TypeOK, CallRecords, Ended
  <2> HIDE DEF after, k, text, rest, gone, a, applies
  <2>3. QED
    BY <1>16, <1>18, <2>1, <2>2 DEF Undone
<1>20. Placed(c)' /\ Vouched(c)' /\ Progress(c)'
  <2>1. CASE ~(rest # {} \/ applies)
    <3>1. call'[c] = gone
      BY <1>13, <1>15, <2>1
    <3>2. \A q \in Proposals : status[q] # "NONE" => status'[q] # "NONE"
      BY <1>18 DEF Frame
    <3> HIDE DEF k, gone
    <3>3. QED
      BY <1>1, <1>9, <3>1, <3>2, ClosedPlaced, VouchedStays DEF gone
  <2>2. CASE rest # {} \/ applies
    <3>1. /\ call'[c].kind = call[c].kind /\ call'[c].of = p /\ call'[c].undoes = a
          /\ call'[c].evidence = call[c].evidence /\ call'[c].saved = call[c].saved
          /\ call'[c].start = call[c].start /\ call'[c].disturbed = call[c].disturbed
          /\ IF rest # {} THEN call'[c].at = "reading" /\ call'[c].left = rest
             ELSE call'[c].at = "verifying" /\ call'[c].left = Touches[p]
      <4> HIDE DEF k
      <4>1. QED
        BY <1>12, <1>15, <2>2
    <3>2. Vouched(c)'
      <4>1. \A q \in Proposals : status[q] # "NONE" => status'[q] # "NONE"
        BY <1>18 DEF Frame
      <4> HIDE DEF k, after, text, gone
      <4>2. /\ Fine(call'[c].saved) /\ call'[c].evidence \in vouched \union {0}
            /\ Cleared(call'[c])
        BY <1>1, <1>3, <2>2, <3>1 DEF Vouched, Cleared
      <4>3. QED
        BY <1>1, <4>1, <4>2, VouchedStays
    <3>3. Placed(c)'
      <4>1. c \notin Proposals /\ c \in Every
        BY <1>3, ProposalsAssumption
      <4>2. status'[p] # "NONE"
        BY <1>3, <1>18 DEF Frame
      <4>3. applies => call'[c].kind = "apply"
        BY <3>1
      <4>4. call[c].kind = "revert" => Undoing(c, call'[c])
        <5> SUFFICES ASSUME call[c].kind = "revert"
                     PROVE  Undoing(c, call'[c])
          OBVIOUS
        <5>1. PICK u \in Calls :
                /\ u = a /\ u # c /\ Application(u) /\ call[u].of = p
                /\ p \in hasty \/ ~Active(u)
          BY <1>3 DEF Placed
        <5>2. /\ Application(u)' /\ call'[u].of = call[u].of
              /\ ~Active(u) => ~Active(u)'
          BY <1>18, <5>1, ApplicationStays DEF Every
        <5>3. hasty' = hasty /\ call'[c].undoes = u /\ call'[c].of = p
          BY <1>1, <3>1, <5>1
        <5> HIDE DEF p, a, after, k, gone, text, rest
        <5>4. QED
          BY <5>1, <5>2, <5>3 DEF Undoing, Application, Active
      <4>5. rest \subseteq Touches[p]
        BY <1>3
      <4> HIDE DEF rest, after, text, k, gone, a
      <4>6. QED
        BY <1>3, <1>10, <2>2, <3>1, <4>1, <4>2, <4>3, <4>4, <4>5
           DEF Placed, Application, Active, Ended, Undoing
    <3>4. Progress(c)'
      <4> SUFFICES ASSUME applies, ~call[c].disturbed
                   PROVE  Progress(c)'
        BY <3>1 DEF Progress
      <4>1. /\ \A g \in call[c].left : content[g] = call[c].start[g]
            /\ \A g \in Touches[p] \ call[c].left : content[g] = p
            /\ \A g \in Touches[p] : base[p][g] = call[c].start[g]
            /\ mode.checkpoint = "taken" => \A g \in Touches[p] : call[c].saved[g] = call[c].start[g]
        BY <1>1, <1>3 DEF Progress
      <4>2. content' = [content EXCEPT ![f] = p]
        BY <1>1 DEF Write, Replacement
      <4>3. \A g \in Files : content'[g] = IF g = f THEN p ELSE content[g]
        BY <1>5, <4>2
      <4>4. f \in call[c].left
        BY <1>4
      <4>5. /\ \A g \in rest : content'[g] = call[c].start[g]
            /\ \A g \in Touches[p] \ rest : content'[g] = p
        BY <1>3, <1>10, <4>1, <4>3, <4>4
      <4>6. mode' = mode /\ base' = base
        BY <1>1
      <4>7. rest = {} => \A g \in Touches[p] : content'[g] = p
        BY <4>5
      <4> HIDE DEF rest, after, text, k, gone, a, f
      <4>8. QED
        BY <3>1, <4>1, <4>5, <4>6, <4>7 DEF Progress
    <3>5. QED
      BY <3>2, <3>3, <3>4
  <2>3. QED
    BY <2>1, <2>2
<1>21. Recording'
  <2>1. content' = [content EXCEPT ![f] = Replacement(c)]
    BY <1>1 DEF Write
  <2>2. \A r \in Calls : Placed(r)'
    BY <1>18, <1>20, OthersPlaced DEF Every
  <2>3. applies => /\ call'[c].kind = "apply" /\ call'[c].of = call[c].of
                   /\ \/ call'[c].at = "reading" /\ call'[c].left = call[c].left \ {f}
                      \/ call'[c].at = "verifying"
    <3> HIDE DEF k
    <3>1. QED
      BY <1>12, <1>15
  <2>4. ~applies => \/ /\ call'[c].kind = "revert" /\ call'[c].undoes = call[c].undoes
                       /\ call'[c].left = call[c].left \ {f}
                    \/ call'[c].kind = "none"
    <3>1. rest # {} \/ k = gone \/ applies
      BY <1>13
    <3> HIDE DEF k, gone
    <3>2. QED
      BY <1>3, <1>11, <1>12, <1>15, <3>1
  <2> HIDE DEF k, gone, text, after
  <2>5. QED
    BY <1>1, <1>3, <1>4, <1>19, <2>1, <2>2, <2>3, <2>4, RecordingWrites
<1>22. \A x \in Every \ {c} :
         \/ after[x] = call[x]
         \/ /\ Application(x) /\ ~Active(x)
            /\ after[x] = [call[x] EXCEPT !.at = "reverted"]
  BY <1>16
<1> HIDE DEF after, text, k, gone, a, rest, applies
<1>23. QED
  BY <1>1, <1>3, <1>7, <1>14, <1>17, <1>20, <1>21, <1>22, <1>24, WritesSafe

\* The text that a proposal is made against is one of others: nobody has seen this
\* proposal, and no file holds a text that is not approved.
LEMMA DraftFileSafe ==
  ASSUME IInv, NEW c \in Every, DraftFile(c)
  PROVE  IInv'
<1> DEFINE f == NextFile(c)
           rest == call[c].left \ {f}
           k == [call[c] EXCEPT !.left = IF rest = {} THEN Touches[c] ELSE rest,
                                !.at = IF rest = {} THEN "validating" ELSE "drafting"]
<1>1. /\ call[c].at = "drafting" /\ Active(c)
      /\ UNCHANGED <<mode, content, status, approved, edits, vouched, hasty>>
  BY DEF DraftFile, At, Active, Ended
<1>2. /\ Placed(c) /\ Vouched(c) /\ call[c] \in CallRecords /\ call[c].kind = "create"
      /\ c \in Proposals /\ c \notin Calls /\ call[c].of = c /\ status[c] = "NONE"
      /\ call[c].left # {} /\ call[c].left \subseteq Touches[c] /\ call[c].left \in SUBSET Files
      /\ \A g \in call[c].left : base[c][g] = 0
  BY <1>1, ProposalsAssumption DEF IInv, TypeOK, Vouching, Placed, Active, Every, CallRecords
<1>3. f \in call[c].left /\ f \in Files
  BY <1>2, NextFileIsLeft
<1>4. /\ base \in [Proposals -> [Files -> Texts]] /\ content \in [Files -> Texts]
      /\ call \in [Every -> CallRecords]
  BY DEF IInv, TypeOK
<1>5. base' = [base EXCEPT ![c][f] = content[f]]
  BY <1>2 DEF DraftFile
<1>6. call' = [call EXCEPT ![c] = k]
  BY <1>2, <1>4 DEF DraftFile
<1>7. Touches[c] # {} /\ Touches[c] \in SUBSET Files
  BY <1>2, ProposalsAssumption
<1>8. /\ k \in CallRecords /\ k.kind = "create" /\ k.of = c /\ k.evidence = call[c].evidence
      /\ k.saved = call[c].saved
      /\ IF rest = {} THEN k.at = "validating" /\ k.left = Touches[c]
         ELSE k.at = "drafting" /\ k.left = rest
  <2>1. "validating" \in Places /\ "drafting" \in Places /\ rest \in SUBSET Files
    BY <1>2 DEF Places
  <2>2. CASE rest = {}
    <3>1. k = [call[c] EXCEPT !.left = Touches[c], !.at = "validating"]
      BY <2>2
    <3> HIDE DEF k, rest
    <3>2. QED
      BY <1>2, <1>7, <2>1, <2>2, <3>1 DEF CallRecords
  <2>3. CASE rest # {}
    <3>1. k = [call[c] EXCEPT !.left = rest, !.at = "drafting"]
      BY <2>3
    <3> HIDE DEF k, rest
    <3>2. QED
      BY <1>2, <2>1, <2>3, <3>1 DEF CallRecords
  <2>4. QED
    BY <2>2, <2>3
<1>9. rest \subseteq call[c].left /\ f \notin rest
  OBVIOUS
<1> HIDE DEF f, rest, k
<1>10. call'[c] = k /\ \A x \in Every \ {c} : call'[x] = call[x]
  BY <1>4, <1>6
<1>11. /\ base' \in [Proposals -> [Files -> Texts]]
       /\ \A q \in Proposals \ {c} : base'[q] = base[q]
       /\ \A g \in Files : base'[c][g] = IF g = f THEN content[f] ELSE base[c][g]
  <2>1. [base[c] EXCEPT ![f] = content[f]] \in [Files -> Texts]
    BY <1>2, <1>3, <1>4
  <2>2. base' = [base EXCEPT ![c] = [base[c] EXCEPT ![f] = content[f]]]
    BY <1>5
  <2>3. QED
    BY <1>2, <1>4, <2>1, <2>2
<1>12. \A x \in Every \ {c} : Stays(x)
  BY <1>1, <1>10 DEF Stays
<1>13. Frame(c)
  <2>1. Keeps(c)
    BY <1>2 DEF Keeps, Application
  <2>2. QED
    BY <1>1, <1>2, <1>11, <1>12, <2>1 DEF Frame
<1>14. TypeOK'
  <2>1. call' \in [Every -> CallRecords]
    BY <1>4, <1>6, <1>8
  <2>2. QED
    BY <1>1, <1>11, <2>1 DEF IInv, TypeOK
<1>15. Placed(c)'
  <2>1. \A g \in rest : base'[c][g] = 0
    BY <1>2, <1>9, <1>11
  <2>2. rest \subseteq Touches[c]
    BY <1>2, <1>9
  <2>3. QED
    BY <1>1, <1>2, <1>7, <1>8, <1>10, <2>1, <2>2 DEF Placed, Application, Ended
<1>16. Vouched(c)'
  <2>1. /\ Fine(call'[c].saved) /\ call'[c].evidence \in vouched \union {0}
        /\ Cleared(call'[c])
    BY <1>2, <1>8, <1>10 DEF Vouched, Cleared
  <2>2. QED
    BY <1>1, <2>1, VouchedStays
<1>17. content[f] # c
  BY <1>2, <1>3 DEF IInv, Vouching, Fine
<1>18. NotOwn'
  BY <1>2, <1>11, <1>17 DEF IInv, NotOwn
<1>19. Recording'
  <2>1. \A g \in Files, q \in Proposals : base[q][g] \in Proposals => base'[q][g] = base[q][g]
    BY <1>2, <1>3, <1>11, NoText
  <2>2. \A g \in Files, q \in Proposals : content'[g] = q => content[g] = q
    BY <1>1
  <2>3. QED
    BY <1>2, <1>12, <1>13, <2>1, <2>2, RecordingStays
<1>21. \A p \in Proposals : approved'[p] => p \in vouched'
  BY <1>1 DEF IInv, Vouching
<1>22. Fine(content)' /\ \A p \in Proposals : Fine(base[p])'
  BY <1>1, <1>2, <1>3, <1>11 DEF IInv, Vouching, Fine
<1>23. QED
  BY <1>1, <1>2, <1>13, <1>14, <1>15, <1>16, <1>18, <1>19, <1>21, <1>22, FrameSafe

LEMMA BindApprovalSafe ==
  ASSUME IInv, NEW p \in Proposals, BindApproval(p)
  PROVE  IInv'
<1>1. PICK verdict \in {"APPROVED", "REJECTED", "PENDING"}, matches \in BOOLEAN :
        /\ status' = IF verdict = "PENDING" THEN status ELSE [status EXCEPT ![p] = verdict]
        /\ Binds(p, verdict, matches)
  BY DEF BindApproval
<1> DEFINE good == verdict = "APPROVED" /\ matches
<1>2. /\ status[p] # "NONE" /\ UNCHANGED <<mode, content, base, call, edits, hasty>>
      /\ approved' = [approved EXCEPT ![p] = good]
      /\ vouched' = IF good THEN vouched \union {p} ELSE vouched
  BY <1>1 DEF BindApproval, Stored, Binds
<1>3. NoCall \notin Every /\ NoCall \notin Calls /\ NoCall \notin Proposals
  BY ProposalsAssumption DEF Every
<1>4. TypeOK
  BY DEF IInv
<1>5. /\ status' \in [Proposals -> Statuses]
      /\ \A q \in Proposals : (status[q] # "NONE") = (status'[q] # "NONE")
  BY <1>1, <1>2, <1>4 DEF TypeOK, Statuses
<1>6. good \in BOOLEAN
  OBVIOUS
<1> HIDE DEF good
<1>7. TypeOK'
  BY <1>2, <1>4, <1>5, <1>6 DEF TypeOK
<1>8. \A x \in Every \ {NoCall} : Stays(x)
  BY <1>2 DEF Stays
<1>9. vouched \subseteq vouched'
  BY <1>2
<1>10. Frame(NoCall)
  BY <1>2, <1>3, <1>5, <1>8, <1>9 DEF Frame
<1>11. Recording'
  BY <1>2, <1>3, <1>8, <1>10, RecordingStays
<1>12. \A q \in Proposals : approved'[q] => q \in vouched'
  <2> SUFFICES ASSUME NEW q \in Proposals, approved'[q]
               PROVE  q \in vouched'
    OBVIOUS
  <2>1. CASE q = p
    <3>1. good
      BY <1>2, <1>4, <2>1 DEF TypeOK
    <3>2. QED
      BY <1>2, <2>1, <3>1
  <2>2. CASE q # p
    <3>1. approved[q]
      BY <1>2, <1>4, <2>2 DEF TypeOK
    <3>2. QED
      BY <1>9, <3>1 DEF IInv, Vouching
  <2>3. QED
    BY <2>1, <2>2
<1>13. Fine(content)' /\ \A q \in Proposals : Fine(base[q])'
  BY <1>2, <1>5, <1>9, FineStays DEF IInv, Vouching, Fine
<1>14. NotOwn'
  BY <1>2 DEF IInv, NotOwn
<1>15. QED
  BY <1>3, <1>7, <1>10, <1>11, <1>12, <1>13, <1>14, FrameSafe

\* What the user types is the text of no proposal.
LEMMA UserEditsSafe ==
  ASSUME IInv, UserEdits
  PROVE  IInv'
<1>1. TypeOK /\ MaxEdits \in Nat /\ edits \in 0..MaxEdits
  BY ProposalsAssumption DEF IInv, TypeOK
<1>2. PICK f \in Files : Write(call, NoCall, [content EXCEPT ![f] = 0 - edits'])
  BY DEF UserEdits
<1>3. /\ edits < MaxEdits /\ edits' = edits + 1
      /\ UNCHANGED <<mode, status, base, approved, vouched, hasty>>
  BY DEF UserEdits
<1>4. NoCall \notin Every /\ NoCall \notin Calls /\ NoCall \notin Proposals
  BY ProposalsAssumption DEF Every
<1> DEFINE typed == 0 - edits'
<1>5. typed \in Texts /\ typed \notin Proposals /\ edits' \in 0..MaxEdits
  BY <1>1, <1>3, ProposalsAssumption DEF Texts
<1>6. content' = [content EXCEPT ![f] = typed]
  BY <1>2 DEF Write
<1>7. call' \in [Every -> CallRecords] /\ \A x \in Every \ {NoCall} : Stays(x)
  BY <1>1, <1>2, DisturbedFacts DEF TypeOK
<1> HIDE DEF typed
<1>8. /\ content' \in [Files -> Texts]
      /\ \A g \in Files : content'[g] = IF g = f THEN typed ELSE content[g]
  BY <1>1, <1>5, <1>6 DEF TypeOK
<1>9. TypeOK'
  BY <1>1, <1>3, <1>5, <1>7, <1>8 DEF TypeOK
<1>10. Frame(NoCall)
  BY <1>3, <1>4, <1>7 DEF Frame
<1>11. \A g \in Files, p \in Proposals : content'[g] = p => content[g] = p
  BY <1>5, <1>8
<1>12. Recording'
  BY <1>3, <1>4, <1>7, <1>10, <1>11, RecordingStays
<1>14. \A q \in Proposals : approved'[q] => q \in vouched'
  BY <1>3 DEF IInv, Vouching
<1>15. Fine(content)' /\ \A q \in Proposals : Fine(base[q])'
  BY <1>3, <1>5, <1>8 DEF IInv, Vouching, Fine
<1>16. NotOwn'
  BY <1>3 DEF IInv, NotOwn
<1>17. QED
  BY <1>3, <1>4, <1>9, <1>10, <1>12, <1>14, <1>15, <1>16, FrameSafe

-----------------------------------------------------------------------------
(* The theorems *)

LEMMA InitIInv == Init => IInv
<1> SUFFICES ASSUME Init
             PROVE  IInv
  OBVIOUS
<1>1. /\ mode \in Modes /\ content = [f \in Files |-> 0] /\ status = [p \in Proposals |-> "NONE"]
      /\ base = [p \in Proposals |-> [f \in Files |-> 0]]
      /\ approved = [p \in Proposals |-> FALSE] /\ call = [c \in Every |-> Unused]
      /\ edits = 0 /\ vouched = {} /\ hasty = {}
  BY DEF Init
<1>2. Unused.at = "unused"
  BY DEF Unused
<1>3. TypeOK
  BY <1>1, NoText, UnusedFacts, ProposalsAssumption DEF TypeOK, Statuses
<1>4. Vouching
  BY <1>1, <1>2, NoText, UnusedFacts DEF Vouching, Vouched, Cleared, Fine
<1>5. \A c \in Every : Placed(c)
  BY <1>1, <1>2, UnusedFacts DEF Placed, Application, Ended
<1>7. NotOwn /\ Recording
  BY <1>1, NoText DEF NotOwn, Recording
<1>8. \A c \in Calls : Progress(c)
  BY <1>1, <1>2, UnusedFacts DEF Progress, Every
<1>9. QED
  BY <1>3, <1>4, <1>5, <1>7, <1>8 DEF IInv

LEMMA StutterIInv ==
  ASSUME IInv, UNCHANGED vars
  PROVE  IInv'
<1>1. NoCall \notin Every /\ NoCall \notin Calls
  BY ProposalsAssumption DEF Every
<1>2. /\ mode' = mode /\ content' = content /\ status' = status /\ base' = base
      /\ approved' = approved /\ call' = call /\ edits' = edits
      /\ vouched' = vouched /\ hasty' = hasty
  BY DEF vars
<1>3. \A x \in Every \ {NoCall} : Stays(x)
  BY <1>2 DEF Stays
<1>4. Frame(NoCall)
  BY <1>1, <1>2, <1>3 DEF Frame
<1>5. TypeOK' /\ NotOwn'
  BY <1>2 DEF IInv, TypeOK, NotOwn
<1>6. Recording'
  BY <1>1, <1>2, <1>3, <1>4, RecordingStays
<1>7. /\ \A p \in Proposals : approved'[p] => p \in vouched'
      /\ Fine(content)' /\ \A p \in Proposals : Fine(base[p])'
  BY <1>2 DEF IInv, Vouching, Fine
<1>8. QED
  BY <1>1, <1>2, <1>4, <1>5, <1>6, <1>7, FrameSafe

LEMMA NextIInv == IInv /\ [Next]_vars => IInv'
<1> SUFFICES ASSUME IInv, [Next]_vars
             PROVE  IInv'
  OBVIOUS
<1>1. ASSUME NEW p \in Proposals, CreateProposal(p) \/ BindApproval(p)
      PROVE  IInv'
  BY <1>1, CreateProposalSafe, BindApprovalSafe
<1>2. ASSUME NEW c \in Calls, ValidateProposal(c) \/ ApplyPatch(c) \/ RevertChange(c)
      PROVE  IInv'
  BY <1>2, ValidateProposalSafe, ApplyPatchSafe, RevertChangeSafe
<1>3. ASSUME NEW c \in Every, DraftFile(c) \/ ValidateFile(c) \/ Validated(c)
      PROVE  IInv'
  BY <1>3, DraftFileSafe, ValidateFileSafe, ValidatedSafe
<1>4. ASSUME NEW c \in Every, ApplyValidated(c) \/ Checkpoint(c) \/ CheckpointFails(c)
               \/ ReadFile(c) \/ WriteFile(c)
      PROVE  IInv'
  BY <1>4, ApplyValidatedSafe, CheckpointSafe, CheckpointFailsSafe, ReadFileSafe, WriteFileSafe
<1>5. ASSUME NEW c \in Every,
             WriteFails(c) \/ VerifyFile(c) \/ Restore(c) \/ RestoreForRevert(c)
      PROVE  IInv'
  BY <1>5, WriteFailsSafe, VerifyFileSafe, RestoreSafe, RestoreForRevertSafe
<1>6. QED
  BY <1>1, <1>2, <1>3, <1>4, <1>5, UserEditsSafe, StutterIInv DEF Next

LEMMA Invariance == Spec => []IInv
  BY InitIInv, NextIInv, PTL DEF Spec

\* Every state of the proposals has its type.
THEOREM TypeCorrect == Spec => []TypeOK
<1>1. IInv => TypeOK
  BY DEF IInv
<1>2. QED
  BY <1>1, Invariance, PTL

\* Where approvals are required no file ever holds the text of a proposal for
\* which no caller gave or bound an APPROVED record, however calls interleave and
\* whatever is rolled back.
THEOREM ApprovedTextOnly == Spec => []OnlyApprovedText
<1>1. IInv => OnlyApprovedText
  BY DEF IInv, Vouching, Fine, OnlyApprovedText
<1>2. QED
  BY <1>1, Invariance, PTL

\* Without checkpoints every text of a proposal in the files can be found again,
\* in an application or in a proposal that was made against it, unless one of its
\* applications was reverted while it was under way.
THEOREM TextRecorded == Spec => []AppliedTextIsRecorded
<1>1. IInv => AppliedTextIsRecorded
  BY DEF IInv, Recording, Holds, Put, AppliedTextIsRecorded
<1>2. QED
  BY <1>1, Invariance, PTL

-----------------------------------------------------------------------------
(* All or nothing *)

\* A call that works on its proposal ends by a step of its own.
LEMMA EndsByItself ==
  ASSUME IInv, [Next]_vars, NEW c \in Calls, Active(c), call'[c].at \in Ended
  PROVE  \/ ValidateFile(c) \/ Validated(c) \/ ApplyValidated(c) \/ Checkpoint(c) \/ DraftFile(c)
         \/ CheckpointFails(c) \/ ReadFile(c) \/ WriteFile(c) \/ WriteFails(c) \/ VerifyFile(c)
         \/ Restore(c) \/ RestoreForRevert(c)
<1>0. /\ c \in Every /\ call[c].at \notin Ended /\ call \in [Every -> CallRecords] /\ TypeOK
      /\ call[c].at # "unused"
  BY DEF Every, Active, IInv, TypeOK, Ended
<1>1. call'[c].at # call[c].at
  BY <1>0
<1>2. ASSUME NEW d \in Every, NEW k, call' = [call EXCEPT ![d] = k]
      PROVE  d = c
  BY <1>0, <1>1, <1>2
<1>3. ASSUME NEW d \in Every, NEW kind, NEW p, NEW at, NEW e, NEW a, Starts(d, kind, p, at, e, a)
      PROVE  FALSE
  BY <1>0, <1>2, <1>3 DEF Starts
<1>4. ASSUME NEW d, NEW calls \in [Every -> CallRecords], NEW text, Write(calls, d, text),
             calls[c] = call[c], d # c
      PROVE  FALSE
  <2>1. Stays(c)
    BY <1>0, <1>4, DisturbedFacts
  <2>2. QED
    BY <1>0, <1>1, <2>1, StaysFacts
<1>5. ASSUME NEW p \in Proposals, CreateProposal(p) \/ BindApproval(p)
      PROVE  FALSE
  <2>1. p \in Every
    BY DEF Every
  <2>2. QED
    BY <1>1, <1>3, <1>5, <2>1 DEF CreateProposal, BindApproval, Binds
<1>6. ASSUME NEW d \in Calls, ValidateProposal(d) \/ ApplyPatch(d) \/ RevertChange(d)
      PROVE  FALSE
  <2>1. d \in Every
    BY DEF Every
  <2>2. QED
    BY <1>3, <1>6, <2>1 DEF ValidateProposal, ApplyPatch, RevertChange
<1>7. ~UserEdits
  <2> SUFFICES ASSUME UserEdits
               PROVE  FALSE
    OBVIOUS
  <2>1. NoCall # c
    BY ProposalsAssumption
  <2>2. QED
    BY <1>0, <1>4, <2>1 DEF UserEdits
<1>8. ASSUME NEW d \in Every,
             DraftFile(d) \/ ValidateFile(d) \/ Validated(d) \/ ApplyValidated(d) \/ Checkpoint(d)
               \/ CheckpointFails(d)
      PROVE  d = c
  BY <1>0, <1>1, <1>8 DEF DraftFile, ValidateFile, Validated, ApplyValidated, Checkpoint,
    CheckpointFails
<1>9. ASSUME NEW d \in Every, ReadFile(d) \/ WriteFails(d) \/ VerifyFile(d)
      PROVE  d = c
  BY <1>0, <1>1, <1>9 DEF ReadFile, WriteFails, VerifyFile, Fails
<1>10. ASSUME NEW d \in Every, Restore(d), d # c
       PROVE  FALSE
  <2>1. Closed(d, "failed") \in CallRecords
    BY <1>0, ClosedFacts DEF Ended
  <2>2. [call EXCEPT ![d] = Closed(d, "failed")] \in [Every -> CallRecords]
    BY <1>0, <2>1
  <2>3. [call EXCEPT ![d] = Closed(d, "failed")][c] = call[c]
    BY <1>0, <1>10
  <2>4. QED
    BY <1>4, <1>10, <2>2, <2>3 DEF Restore
<1>11. ASSUME NEW d \in Every, call[d].kind = "revert", d # c
       PROVE  LET gone == Closed(d, "reverted")
                  a == call[d].undoes
                  calls == [call EXCEPT ![d] = gone, ![a] = Marked(a)]
              IN calls \in [Every -> CallRecords] /\ calls[c] = call[c]
  <2> DEFINE gone == Closed(d, "reverted")
             a == call[d].undoes
  <2>1. a \in Every
    BY <1>0, <1>11 DEF IInv, Placed, Every
  <2>2. gone \in CallRecords
    BY <1>0, ClosedFacts DEF Ended
  <2>3. Marked(a) \in CallRecords /\ (a = c => Marked(a) = call[c])
    BY <1>0, <2>1, MarkedFacts DEF Active
  <2> HIDE DEF gone, a
  <2>4. /\ [call EXCEPT ![d] = gone, ![a] = Marked(a)] \in [Every -> CallRecords]
        /\ [call EXCEPT ![d] = gone, ![a] = Marked(a)][c] = call[c]
    BY <1>0, <1>11, <2>1, <2>2, <2>3
  <2>5. QED
    BY <2>4 DEF gone, a
<1>12. ASSUME NEW d \in Every, RestoreForRevert(d), d # c
       PROVE  FALSE
  BY <1>4, <1>11, <1>12 DEF RestoreForRevert
<1>13. ASSUME NEW d \in Every, WriteFile(d), d # c
       PROVE  FALSE
  <2> DEFINE rest == call[d].left \ {NextFile(d)}
             gone == Closed(d, "reverted")
             after == IF rest # {}
                      THEN [call EXCEPT ![d].left = rest, ![d].at = "reading"]
                      ELSE IF call[d].kind = "apply"
                      THEN [call EXCEPT ![d].left = Touches[call[d].of], ![d].at = "verifying"]
                      ELSE [call EXCEPT ![d] = gone, ![call[d].undoes] = Marked(call[d].undoes)]
             text == [content EXCEPT ![NextFile(d)] = Replacement(d)]
  <2>1. Write(after, d, text) /\ call[d].at = "writing"
    BY <1>13 DEF WriteFile, At
  <2>2. /\ call[d] \in CallRecords /\ call[d].of \in Proposals /\ "reading" \in Places
        /\ "verifying" \in Places /\ Touches[call[d].of] \in SUBSET Files
        /\ call[d].kind \in {"apply", "revert"}
    BY <1>0, <2>1, ProposalsAssumption DEF IInv, Placed, Ended, Places
  <2>3. after \in [Every -> CallRecords] /\ after[c] = call[c]
    <3>1. CASE rest # {}
      <4> DEFINE k == [call[d] EXCEPT !.left = rest, !.at = "reading"]
      <4>1. rest \in SUBSET Files
        BY <2>2 DEF CallRecords
      <4> HIDE DEF rest
      <4>2. k \in CallRecords
        BY <2>2, <4>1 DEF CallRecords
      <4>3. after = [call EXCEPT ![d] = k]
        BY <1>0, <3>1
      <4> HIDE DEF k, after
      <4>4. QED
        BY <1>0, <1>13, <4>2, <4>3
    <3>2. CASE rest = {} /\ call[d].kind = "apply"
      <4> DEFINE k == [call[d] EXCEPT !.left = Touches[call[d].of], !.at = "verifying"]
      <4>1. k \in CallRecords
        BY <2>2 DEF CallRecords
      <4>2. after = [call EXCEPT ![d] = k]
        BY <1>0, <3>2
      <4> HIDE DEF k, after
      <4>3. QED
        BY <1>0, <1>13, <4>1, <4>2
    <3>3. CASE rest = {} /\ call[d].kind = "revert"
      <4>1. after = [call EXCEPT ![d] = gone, ![call[d].undoes] = Marked(call[d].undoes)]
        BY <3>3
      <4>2. QED
        BY <1>11, <1>13, <3>3, <4>1
    <3>4. QED
      BY <2>2, <3>1, <3>2, <3>3
  <2> HIDE DEF after, text
  <2>4. QED
    BY <1>4, <1>13, <2>1, <2>3
<1>14. ~UNCHANGED vars
  BY <1>1 DEF vars
<1>15. QED
  BY <1>5, <1>6, <1>7, <1>8, <1>9, <1>10, <1>12, <1>13, <1>14 DEF Next

\* What the property demands of one step of one call.
WholeOrNone(c) ==
  \A f \in Touches[call[c].of] :
    IF call'[c].at = "verified" THEN content'[f] = call[c].of
    ELSE ~Broke(c) \/ (mode.checkpoint = "taken" /\ call[c].at = "restoring")
           => content'[f] = call[c].start[f]

LEMMA ApplicationEndsWell ==
  ASSUME IInv, [Next]_vars, NEW c \in Calls, Active(c), call'[c].at \in Ended,
         call[c].kind = "apply", ~call[c].disturbed
  PROVE  WholeOrNone(c)
<1>0. /\ c \in Every /\ call[c].at \notin Ended /\ call \in [Every -> CallRecords] /\ TypeOK
      /\ call[c].of \in Proposals /\ call[c].left \subseteq Touches[call[c].of]
      /\ call[c].left \in SUBSET Files /\ Touches[call[c].of] \in SUBSET Files
      /\ call[c] \in CallRecords
  <2>1. c \in Every /\ call[c].at \notin Ended /\ TypeOK /\ Placed(c)
    BY DEF Every, Active, IInv
  <2>2. call \in [Every -> CallRecords] /\ call[c] \in CallRecords
    BY <2>1 DEF TypeOK
  <2>3. call[c].of \in Proposals /\ call[c].left \subseteq Touches[call[c].of]
    BY <2>1 DEF Placed
  <2>4. QED
    BY <2>1, <2>2, <2>3, ProposalsAssumption
<1>1. Progress(c) /\ Placed(c)
  BY <1>0 DEF IInv
<1>2. ASSUME NEW k, call' = [call EXCEPT ![c] = k]
      PROVE  call'[c] = k
  BY <1>0, <1>2
<1>3. ASSUME NEW how \in Ended, call' = [call EXCEPT ![c] = Closed(c, how)]
      PROVE  call'[c].at = how
  BY <1>0, <1>2, <1>3, ClosedFacts
<1>4. ~(DraftFile(c) \/ ValidateFile(c) \/ Validated(c) \/ RestoreForRevert(c))
  <2>1. ~DraftFile(c)
    BY <1>0, <1>1 DEF DraftFile, At, Placed
  <2>2. ~ValidateFile(c)
    <3> DEFINE b == call[c].stale \/ content[NextFile(c)] # base[call[c].of][NextFile(c)]
               k == [call[c] EXCEPT !.left = @ \ {NextFile(c)}, !.stale = b]
    <3>1. ValidateFile(c) => call' = [call EXCEPT ![c] = k]
      BY <1>0 DEF ValidateFile
    <3>2. k.at = call[c].at
      BY <1>0 DEF CallRecords
    <3> HIDE DEF k
    <3>3. QED
      BY <1>0, <1>2, <3>1, <3>2
  <2>3. QED
    BY <2>1, <2>2 DEF Validated, RestoreForRevert
<1>5. ASSUME Checkpoint(c)
      PROVE  FALSE
  <2>1. call'[c].at = "reading"
    BY <1>0, <1>5 DEF Checkpoint, CallRecords
  <2>2. QED
    BY <2>1 DEF Ended
<1>13. ASSUME CheckpointFails(c)
       PROVE  WholeOrNone(c)
  <2>1. \A f \in Touches[call[c].of] : content[f] = call[c].start[f]
    BY <1>1, <1>13 DEF CheckpointFails, At, Progress
  <2>2. content' = content /\ call'[c].at = "refused"
    BY <1>3, <1>13 DEF CheckpointFails, Ended
  <2>3. QED
    BY <2>1, <2>2 DEF WholeOrNone
<1>6. ASSUME ApplyValidated(c)
      PROVE  WholeOrNone(c)
  <2>1. \A f \in Touches[call[c].of] : content[f] = call[c].start[f]
    BY <1>1, <1>6 DEF ApplyValidated, At, Progress
  <2>2. content' = content
    BY <1>6 DEF ApplyValidated
  <2>3. call'[c].at # "verified"
    <3>1. CASE ~call[c].stale /\ Bound(c)
      BY <1>0, <1>6, <3>1 DEF ApplyValidated, CallRecords
    <3>2. CASE ~(~call[c].stale /\ Bound(c))
      BY <1>3, <1>6, <3>2 DEF ApplyValidated, Ended
    <3>3. QED
      BY <3>1, <3>2
  <2>4. QED
    BY <2>1, <2>2, <2>3 DEF WholeOrNone
<1>7. ASSUME ReadFile(c)
      PROVE  FALSE
  <2>1. call[c].at = "reading" /\ call[c].left # {}
    BY <1>1, <1>7 DEF ReadFile, At, Placed
  <2>2. NextFile(c) \in call[c].left
    BY <1>0, <2>1, NextFileIsLeft
  <2>3. content[NextFile(c)] = Expected(c)
    BY <1>0, <1>1, <2>1, <2>2 DEF Progress, Expected
  <2>4. call'[c].at = "writing"
    BY <1>0, <1>7, <2>3 DEF ReadFile, CallRecords
  <2>5. QED
    BY <2>4 DEF Ended
<1>8. ASSUME WriteFile(c)
      PROVE  FALSE
  <2> DEFINE rest == call[c].left \ {NextFile(c)}
             after == IF rest # {}
                      THEN [call EXCEPT ![c].left = rest, ![c].at = "reading"]
                      ELSE [call EXCEPT ![c].left = Touches[call[c].of], ![c].at = "verifying"]
  <2>1. Write(after, c, [content EXCEPT ![NextFile(c)] = Replacement(c)])
    BY <1>8 DEF WriteFile
  <2>2. call'[c] = after[c]
    BY <1>0, <2>1 DEF Write, Disturbed
  <2> HIDE DEF rest
  <2>3. after[c].at \in {"reading", "verifying"}
    BY <1>0 DEF CallRecords
  <2>4. QED
    BY <2>2, <2>3 DEF Ended
<1>9. ASSUME WriteFails(c)
      PROVE  WholeOrNone(c)
  <2> DEFINE calls == [call EXCEPT ![c].broken = TRUE]
  <2>1. call[c].at = "writing" /\ content' = content /\ Fails(c, calls)
    BY <1>9 DEF WriteFails, At
  <2>2. Broke(c)
    BY <2>1 DEF Broke
  <2>3. call'[c].at # "verified"
    <3>1. calls \in [Every -> CallRecords] /\ \A k : [calls EXCEPT ![c] = k] = [call EXCEPT ![c] = k]
      <4>1. call[c] \in CallRecords
        BY <1>0
      <4>2. [call[c] EXCEPT !.broken = TRUE] \in CallRecords
        BY <4>1 DEF CallRecords
      <4>3. QED
        BY <1>0, <4>2
    <3> HIDE DEF calls
    <3>2. CASE call' = [calls EXCEPT ![c] = Closed(c, "failed")]
      BY <1>3, <3>1, <3>2 DEF Ended
    <3>3. CASE call' = [calls EXCEPT ![c].at = "restoring"]
      BY <1>0, <3>1, <3>3 DEF CallRecords
    <3>4. QED
      BY <2>1, <3>2, <3>3 DEF Fails
  <2>4. QED
    BY <2>1, <2>2, <2>3 DEF WholeOrNone
<1>10. ASSUME VerifyFile(c)
       PROVE  WholeOrNone(c)
  <2>1. call[c].at = "verifying" /\ call[c].left # {} /\ content' = content
    BY <1>1, <1>10 DEF VerifyFile, At, Placed
  <2>2. NextFile(c) \in call[c].left
    BY <1>0, <2>1, NextFileIsLeft
  <2>3. \A f \in Touches[call[c].of] : content[f] = call[c].of
    BY <1>1, <2>1 DEF Progress
  <2>4. content[NextFile(c)] = call[c].of
    BY <1>0, <2>2, <2>3
  <2>5. call'[c].at = "verified"
    <3>1. CASE call[c].left \ {NextFile(c)} = {}
      BY <1>3, <1>10, <2>4, <3>1 DEF VerifyFile, Ended
    <3>2. CASE call[c].left \ {NextFile(c)} # {}
      <4>1. call'[c].at = call[c].at
        <5> DEFINE k == [call[c] EXCEPT !.left = @ \ {NextFile(c)}]
        <5>1. call' = [call EXCEPT ![c] = k]
          BY <1>0, <1>10, <2>4, <3>2 DEF VerifyFile
        <5>2. k.at = call[c].at
          BY <1>0 DEF CallRecords
        <5> HIDE DEF k
        <5>3. QED
          BY <1>2, <5>1, <5>2
      <4>2. QED
        BY <1>0, <4>1
    <3>3. QED
      BY <3>1, <3>2
  <2>6. QED
    BY <2>1, <2>3, <2>5 DEF WholeOrNone
<1>11. ASSUME Restore(c)
       PROVE  WholeOrNone(c)
  <2>1. /\ call[c].at = "restoring" /\ content' = IF mode.checkpoint = "taken" THEN call[c].saved ELSE content
        /\ call' = Disturbed([call EXCEPT ![c] = Closed(c, "failed")], c, content')
    BY <1>11 DEF Restore, At, Write
  <2>2. call[c].broken /\ (mode.checkpoint = "taken" => \A f \in Touches[call[c].of] : call[c].saved[f] = call[c].start[f])
    BY <1>1, <2>1 DEF Progress
  <2>3. call'[c] = Closed(c, "failed")
    BY <1>0, <2>1 DEF Disturbed
  <2>4. call'[c].at = "failed"
    BY <1>0, <2>3, ClosedFacts DEF Ended
  <2>5. QED
    BY <2>1, <2>2, <2>4 DEF WholeOrNone, Broke
<1>12. QED
  BY <1>4, <1>5, <1>6, <1>7, <1>8, <1>9, <1>10, <1>11, <1>13, EndsByItself

\* An application that nobody disturbs leaves all of its proposal in the files, or
\* the files as it found them: a failure is rolled back or has written nothing,
\* unless a write failed and no checkpoint is put back.
THEOREM AppliesAllOrNothing == Spec => AllOrNothing
<1>1. IInv /\ [Next]_vars =>
        \A c \in Calls :
          LET p == call[c].of
              before == call[c].start
              end == call'[c].at
          IN /\ Active(c) /\ end \in Ended
             /\ call[c].kind = "apply" /\ ~call[c].disturbed
             => \A f \in Touches[p] :
                  IF end = "verified" THEN content'[f] = p
                  ELSE ~Broke(c) \/ (mode.checkpoint = "taken" /\ call[c].at = "restoring")
                         => content'[f] = before[f]
  BY ApplicationEndsWell DEF WholeOrNone
<1>2. QED
  BY <1>1, Invariance, PTL DEF Spec, AllOrNothing
=============================================================================
