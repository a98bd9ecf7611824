---------------------- MODULE RuntimeOperationsProofs ----------------------
(* Proofs about RuntimeOperations, for every set of operations, every      *)
(* assignment of priorities and every bound.                               *)
EXTENDS RuntimeOperations, FiniteSetTheorems, TLAPS

-----------------------------------------------------------------------------
(* The table *)

Flying ==
  {"QUEUED", "STARTING", "RUNNING", "WAITING", "WAITING_FOR_APPROVAL", "PAUSED",
   "CANCELLING"}

\* The states of the table, and what may follow each of those that occur.
LEMMA TableFacts ==
  /\ Terminal = {"CANCELLED", "SUCCEEDED", "PARTIALLY_SUCCEEDED", "FAILED",
                 "TIMED_OUT"}
  /\ Lifecycle!States = Flying \union Terminal
  /\ InFlight = Flying
  /\ \A s \in Flying : "FAILED" \in Transitions[s]
  /\ \A s \in Flying \ {"CANCELLING"} : "TIMED_OUT" \in Transitions[s]
<1>1. Terminal = {"CANCELLED", "SUCCEEDED", "PARTIALLY_SUCCEEDED", "FAILED",
                  "TIMED_OUT"}
  BY DEF Terminal, Lifecycle!Terminal
<1>2. Lifecycle!States = Flying \union Terminal
  BY <1>1 DEF Lifecycle!States, Lifecycle!Transitions, Flying
<1>3. InFlight = Flying
  BY <1>1, <1>2 DEF InFlight, Lifecycle!InFlight, Flying, Terminal
<1>4. \A s \in Flying : "FAILED" \in Transitions[s]
  BY DEF Transitions, Lifecycle!Transitions, Flying
<1>5. \A s \in Flying \ {"CANCELLING"} : "TIMED_OUT" \in Transitions[s]
  BY DEF Transitions, Lifecycle!Transitions, Flying
<1>6. QED
  BY <1>1, <1>2, <1>3, <1>4, <1>5

-----------------------------------------------------------------------------
(* The order of the queue, and what a free slot takes from it *)

\* The rank of a priority is a number.
LEMMA RankType ==
  \A o \in Operations : o \in Nat /\ PriorityOrder[Priority[o]] \in Nat
  BY OperationsAssumption DEF PriorityOrder

\* sortQueue orders the operations totally.
LEMMA BeforeIsOrder ==
  /\ \A o \in Operations : ~Before(o, o)
  /\ \A o, p \in Operations : o # p => Before(o, p) \/ Before(p, o)
  /\ \A o, p, m \in Operations : Before(o, p) /\ Before(p, m) => Before(o, m)
  BY RankType DEF Before

\* A queue longer than the free slots fills them all; a shorter one starts whole.
LEMMA FirstOfCount ==
  ASSUME NEW q \in SUBSET Operations, NEW n \in Nat
  PROVE  /\ FirstOf(q, n) \subseteq q
         /\ IsFiniteSet(FirstOf(q, n))
         /\ Cardinality(FirstOf(q, n)) <= n
         /\ FirstOf(q, n) # q => Cardinality(FirstOf(q, n)) = n
<1> DEFINE Ahead(o) == {p \in q : Before(p, o)}
           size == Cardinality(q)
           place == [o \in q |-> Cardinality(Ahead(o))]
           F == FirstOf(q, n)
<1>1. IsFiniteSet(q) /\ size \in Nat
  BY OperationsAssumption, FS_Subset, FS_CardinalityType
<1>2. \A o \in q : IsFiniteSet(Ahead(o)) /\ Cardinality(Ahead(o)) \in 0..(size - 1)
  <2> SUFFICES ASSUME NEW o \in q
               PROVE  IsFiniteSet(Ahead(o)) /\ Cardinality(Ahead(o)) \in 0..(size - 1)
    OBVIOUS
  <2>1. Ahead(o) \in SUBSET (q \ {o})
    BY BeforeIsOrder
  <2>2. IsFiniteSet(q \ {o}) /\ Cardinality(q \ {o}) = size - 1
    BY <1>1, FS_RemoveElement
  <2>3. IsFiniteSet(Ahead(o)) /\ Cardinality(Ahead(o)) <= size - 1
    BY <2>1, <2>2, FS_Subset
  <2>4. Cardinality(Ahead(o)) \in Nat
    BY <2>3, FS_CardinalityType
  <2>5. QED
    BY <1>1, <2>3, <2>4
<1>3. \A o, p \in q : Before(o, p) => Cardinality(Ahead(o)) < Cardinality(Ahead(p))
  <2> SUFFICES ASSUME NEW o \in q, NEW p \in q, Before(o, p)
               PROVE  Cardinality(Ahead(o)) < Cardinality(Ahead(p))
    OBVIOUS
  <2>1. Ahead(o) \in SUBSET Ahead(p) /\ o \in Ahead(p) /\ o \notin Ahead(o)
    BY BeforeIsOrder
  <2>2. /\ Cardinality(Ahead(o)) <= Cardinality(Ahead(p))
        /\ Cardinality(Ahead(p)) = Cardinality(Ahead(o)) => Ahead(p) = Ahead(o)
    BY <1>2, <2>1, FS_Subset
  <2>3. Cardinality(Ahead(o)) # Cardinality(Ahead(p))
    BY <2>1, <2>2
  <2> HIDE DEF Ahead
  <2>4. QED
    BY <1>1, <1>2, <2>2, <2>3
<1> HIDE DEF Ahead, size
<1>3a. \A o \in q : place[o] = Cardinality(Ahead(o)) /\ place[o] \in 0..(size - 1)
  BY <1>2
<1>4. place \in Injection(q, 0..(size - 1))
  <2>1. place \in [q -> 0..(size - 1)]
    BY <1>2
  <2>2. \A o, p \in q : place[o] = place[p] => o = p
    <3> SUFFICES ASSUME NEW o \in q, NEW p \in q, o # p
                 PROVE  place[o] # place[p]
      OBVIOUS
    <3>1. Before(o, p) \/ Before(p, o)
      BY BeforeIsOrder
    <3>2. QED
      BY <1>1, <1>3, <1>3a, <3>1
  <2>3. QED
    BY <2>1, <2>2 DEF Injection, IsInjective
<1> HIDE DEF place
<1>5. IsFiniteSet(0..(size - 1)) /\ Cardinality(0..(size - 1)) = size
  BY <1>1, FS_Interval
<1>6. place \in Surjection(q, 0..(size - 1))
  BY <1>4, <1>5, FS_Injection DEF size
<1>7. F \subseteq q /\ IsFiniteSet(F)
  <2>1. F \in SUBSET q
    BY DEF FirstOf
  <2>2. QED
    BY <1>1, <2>1, FS_Subset
<1>8. \A o \in q : o \in F <=> place[o] < n
  BY <1>3a DEF FirstOf, Ahead
<1> DEFINE first == [o \in F |-> place[o]]
<1>9. IsFiniteSet(0..(n - 1)) /\ Cardinality(0..(n - 1)) = n
  BY FS_Interval
<1>10. first \in Injection(F, 0..(n - 1))
  <2>1. \A o \in F : place[o] \in 0..(n - 1)
    BY <1>1, <1>7, <1>8, <1>3a
  <2>2. \A o, p \in F : first[o] = first[p] => o = p
    BY <1>4, <1>7 DEF Injection, IsInjective
  <2>3. QED
    BY <2>1, <2>2 DEF Injection, IsInjective
<1>11. Cardinality(F) <= n
  BY <1>9, <1>10, FS_Injection
<1>12. ASSUME F # q
       PROVE  Cardinality(F) = n
  <2>1. PICK m \in q : m \notin F
    BY <1>7, <1>12
  <2>2. n <= size - 1
    BY <1>1, <1>8, <1>3a, <2>1
  <2>3. \A k \in 0..(n - 1) : \E o \in F : first[o] = k
    <3> SUFFICES ASSUME NEW k \in 0..(n - 1)
                 PROVE  \E o \in F : first[o] = k
      OBVIOUS
    <3>1. k \in 0..(size - 1)
      BY <1>1, <2>2
    <3>2. PICK o \in q : place[o] = k
      BY <1>6, <3>1 DEF Surjection
    <3>3. o \in F
      BY <1>8, <3>2
    <3>4. QED
      BY <3>2, <3>3
  <2>4. first \in Surjection(F, 0..(n - 1))
    BY <1>10, <2>3 DEF Surjection, Injection
  <2>5. QED
    BY <1>9, <1>10, <2>4, FS_Injection
<1>13. QED
  BY <1>7, <1>11, <1>12

-----------------------------------------------------------------------------
(* The inductive invariant *)

\* The states in which work at each place finds its operation, and what still
\* moves an operation in each state.
Coherent(o) ==
  /\ state[o] = "NONE" => /\ work[o] = "none" /\ request[o] = "NONE"
                          /\ parent[o] = 0 /\ o \notin queue
  /\ o \in queue => work[o] = "none" /\ state[o] \in {"QUEUED"} \union Terminal
  /\ o \in queue \/ work[o] = "dispatched" => request[o] = "NONE"
  /\ state[o] = "QUEUED" => work[o] = "none" /\ (o \in queue \/ o \in stranded)
  /\ state[o] = "WAITING_FOR_APPROVAL" => request[o] = "PENDING"
  /\ work[o] \in {"dispatched", "handling"}
       => state[o] \in {"RUNNING", "PAUSED"} \union Terminal
  /\ work[o] = "asked" => state[o] \in {"WAITING_FOR_APPROVAL"} \union Terminal
  /\ work[o] \in {"refused", "adrift"} => state[o] \in Terminal
  /\ o \in running => work[o] \in {"dispatched", "asked", "handling", "refused"}
  /\ state[o] \in InFlight => Held(o) \/ o \in stranded
  /\ work[o] = "handling" => o \in ran /\ Approved(o)
  /\ state[o] \in {"SUCCEEDED", "PARTIALLY_SUCCEEDED"}
       => o \in Unhandled \/ (o \in ran /\ Approved(o))

IInv ==
  /\ TypeOK
  /\ \A o \in Operations : Coherent(o)
  /\ Cardinality(running) <= MaxConcurrent
  /\ NoIdleSlot
  /\ CancellationReachesChildren

\* What processQueue may be called with.
Ready(q, r, st, w) ==
  /\ q \subseteq Operations /\ r \subseteq Operations
  /\ Cardinality(r) <= MaxConcurrent
  /\ st \in [Operations -> Lifecycle!States \union {"NONE"}]
  /\ w \in [Operations -> Works]
  /\ \A o \in q : /\ o \notin r /\ w[o] = "none"
                  /\ st[o] \in {"QUEUED"} \union Terminal

\* What processQueue did to one operation.
Processed(q, r, st, w, o) ==
  \/ /\ o \in queue' <=> o \in q
     /\ o \in running' <=> o \in r
     /\ state'[o] = st[o] /\ work'[o] = w[o]
  \/ /\ o \in q /\ o \notin queue' /\ o \in running'
     /\ \/ st[o] = "QUEUED" /\ state'[o] = "RUNNING" /\ work'[o] = "dispatched"
        \/ st[o] \in Terminal /\ state'[o] = st[o] /\ work'[o] = "refused"

\* processQueue takes from the queue what it starts, within the bound, and stops
\* only at the bound or at the end of the queue.
LEMMA ProcessQueueFacts ==
  ASSUME NEW rt, NEW q, NEW r, NEW st, NEW w, idle \in BOOLEAN,
         Ready(q, r, st, w), ProcessQueue(rt, q, r, st, w)
  PROVE  /\ queue' \subseteq q /\ running' \subseteq Operations
         /\ state' \in [Operations -> Lifecycle!States \union {"NONE"}]
         /\ work' \in [Operations -> Works]
         /\ idle' \in BOOLEAN
         /\ Cardinality(running') <= MaxConcurrent
         /\ rt = "READY" /\ queue' # {} => Cardinality(running') = MaxConcurrent
         /\ \A o \in Operations : Processed(q, r, st, w, o)
<1> DEFINE n == MaxConcurrent - Cardinality(r)
           started == IF rt = "READY" THEN FirstOf(q, n) ELSE {}
           begins == {o \in started : st[o] = "QUEUED"}
<1>1. IsFiniteSet(r) /\ Cardinality(r) \in Nat
  BY OperationsAssumption, FS_Subset, FS_CardinalityType DEF Ready
<1>2. n \in Nat /\ MaxConcurrent \in Nat
  BY <1>1, BoundsAssumption DEF Ready
<1>3. /\ started \subseteq q /\ IsFiniteSet(started)
      /\ Cardinality(started) <= n
      /\ rt = "READY" /\ started # q => Cardinality(started) = n
  <2>1. q \in SUBSET Operations
    BY DEF Ready
  <2>2. IsFiniteSet({}) /\ Cardinality({}) = 0
    BY FS_EmptySet
  <2>3. CASE rt = "READY"
    BY <1>2, <2>1, <2>3, FirstOfCount
  <2>4. CASE rt # "READY"
    BY <1>2, <2>2, <2>4
  <2>5. QED
    BY <2>3, <2>4
<1>4. /\ queue' = q \ started
      /\ running' = r \union started
      /\ state' = [o \in Operations |-> IF o \in begins THEN "RUNNING" ELSE st[o]]
      /\ work' = [o \in Operations |->
                    IF o \in begins THEN "dispatched"
                    ELSE IF o \in started THEN "refused" ELSE w[o]]
      /\ idle' = (idle /\ rt # "READY")
  BY DEF ProcessQueue
<1> HIDE DEF started
<1>5. Cardinality(running') = Cardinality(r) + Cardinality(started)
  <2>1. r \intersect started = {}
    BY <1>3 DEF Ready
  <2>2. Cardinality(r \union started) =
          Cardinality(r) + Cardinality(started) - Cardinality(r \intersect started)
    BY <1>1, <1>3, FS_Union
  <2>3. Cardinality(started) \in Nat
    BY <1>3, FS_CardinalityType
  <2>4. Cardinality(r \intersect started) = 0
    BY <2>1, FS_EmptySet
  <2>5. QED
    BY <1>1, <1>4, <2>2, <2>3, <2>4
<1>6. Cardinality(started) \in Nat
  BY <1>3, FS_CardinalityType
<1>7. Cardinality(running') <= MaxConcurrent
  BY <1>1, <1>2, <1>3, <1>5, <1>6
<1>8. rt = "READY" /\ queue' # {} => Cardinality(running') = MaxConcurrent
  BY <1>1, <1>2, <1>3, <1>4, <1>5, <1>6
<1>9. \A o \in Operations : Processed(q, r, st, w, o)
  BY <1>3, <1>4 DEF Processed, Ready
<1>10. state' \in [Operations -> Lifecycle!States \union {"NONE"}]
  <2>1. "RUNNING" \in Lifecycle!States
    BY TableFacts DEF Flying
  <2>2. QED
    BY <1>4, <2>1 DEF Ready
<1>11. work' \in [Operations -> Works]
  BY <1>4 DEF Ready, Works
<1>12. QED
  BY <1>3, <1>4, <1>7, <1>8, <1>9, <1>10, <1>11 DEF Ready

-----------------------------------------------------------------------------
(* What every action owes *)

\* A step of one operation that OperationLifecycle allows.
LifeStep(o) ==
  \/ state'[o] = state[o]
  \/ state[o] = "NONE" /\ state'[o] \in {"QUEUED", "RUNNING"}
  \/ state[o] \in InFlight /\ Lifecycle!Moves(state[o], state'[o])

Good == IInv' /\ \A o \in Operations : LifeStep(o)

\* The moves the runtime makes.
LEMMA MoveFacts ==
  /\ Lifecycle!Moves("QUEUED", "RUNNING")
  /\ Lifecycle!Moves("RUNNING", "PAUSED") /\ Lifecycle!Moves("PAUSED", "RUNNING")
  /\ Lifecycle!Moves("RUNNING", "WAITING_FOR_APPROVAL")
  /\ Lifecycle!Moves("WAITING_FOR_APPROVAL", "RUNNING")
  /\ \A s \in Flying : Lifecycle!Moves(s, "FAILED") /\ Lifecycle!Moves(s, "CANCELLED")
  /\ \A s \in Flying \ {"CANCELLING"} : Lifecycle!Moves(s, "TIMED_OUT")
<1>1. \A s \in Flying : Lifecycle!Moves(s, "FAILED")
  BY TableFacts DEF Lifecycle!Moves, Transitions
<1>2. \A s \in Flying : Lifecycle!Moves(s, "CANCELLED")
  BY DEF Lifecycle!Moves, Lifecycle!Transitions, Flying
<1>3. \A s \in Flying \ {"CANCELLING"} : Lifecycle!Moves(s, "TIMED_OUT")
  BY TableFacts DEF Lifecycle!Moves, Transitions
<1>4. QED
  BY <1>1, <1>2, <1>3 DEF Lifecycle!Moves, Lifecycle!Transitions

\* Approvals that were given stay given.
ApprovalsStay ==
  \A o \in Operations : request[o] = "APPROVED" => request'[o] = "APPROVED"

LEMMA ApprovedStays ==
  ASSUME TypeOK, NEW o \in Operations, ApprovalsStay, Approved(o),
         evidence'[o] = evidence[o]
  PROVE  Approved(o)'
  BY DEF Approved, Presented, ApprovalsStay, TypeOK

\* An operation that an action does not touch, but which processQueue may start.
LEMMA UntouchedIsCoherent ==
  ASSUME IInv, NEW o \in Operations, NEW r, NEW st, NEW w,
         Processed(queue, r, st, w, o),
         st[o] = state[o], w[o] = work[o], o \in r <=> o \in running,
         request'[o] = request[o], parent'[o] = parent[o],
         evidence'[o] = evidence[o],
         ran \subseteq ran', stranded \subseteq stranded', ApprovalsStay
  PROVE  Coherent(o)' /\ LifeStep(o)
<1>1. Approved(o) => Approved(o)'
  BY ApprovedStays DEF IInv
<1>2. Coherent(o) /\ TypeOK
  BY DEF IInv
<1> USE TableFacts DEF Flying
<1>3. CASE /\ o \in queue' <=> o \in queue
           /\ o \in running' <=> o \in running
           /\ state'[o] = state[o] /\ work'[o] = work[o]
  BY <1>1, <1>2, <1>3 DEF Coherent, LifeStep, Held
<1>4. CASE /\ o \in queue /\ o \notin queue' /\ o \in running'
           /\ \/ /\ state[o] = "QUEUED" /\ state'[o] = "RUNNING"
                 /\ work'[o] = "dispatched"
              \/ /\ state[o] \in Terminal /\ state'[o] = state[o]
                 /\ work'[o] = "refused"
  BY <1>1, <1>2, <1>4, MoveFacts DEF Coherent, LifeStep, Held
<1>5. QED
  BY <1>3, <1>4 DEF Processed

\* No operation becomes CANCELLED, none gets a parent: the children stay reached.
LEMMA ChildrenStayReached ==
  ASSUME IInv, parent' = parent, late' = late,
         \A o \in Operations : LifeStep(o),
         \A o \in Operations : state'[o] = "CANCELLED" => state[o] = "CANCELLED"
  PROVE  CancellationReachesChildren'
<1> SUFFICES ASSUME NEW o \in Operations \ late,
                    parent[o] # 0, state'[parent[o]] = "CANCELLED"
             PROVE  state'[o] \notin InFlight
  BY DEF CancellationReachesChildren
<1>1. state[parent[o]] = "CANCELLED"
  BY DEF IInv, TypeOK
<1>2. state[o] \notin InFlight /\ state[o] # "NONE"
  BY <1>1 DEF IInv, CancellationReachesChildren, Coherent
<1>3. QED
  BY <1>2 DEF LifeStep

-----------------------------------------------------------------------------
(* The work of an operation *)

\* A slot given back: only the operation itself and those of the queue move.
LEMMA ReleaseFacts ==
  ASSUME IInv, NEW o \in Operations, o \notin queue,
         NEW st \in [Operations -> Lifecycle!States \union {"NONE"}],
         NEW w \in [Operations -> Works],
         \A p \in Operations \ {o} : st[p] = state[p] /\ w[p] = work[p],
         Release(o, st, w), runtime' = runtime
  PROVE  /\ state' \in [Operations -> Lifecycle!States \union {"NONE"}]
         /\ work' \in [Operations -> Works]
         /\ queue' \subseteq queue /\ running' \subseteq Operations
         /\ idle' \in BOOLEAN
         /\ Cardinality(running') <= MaxConcurrent
         /\ NoIdleSlot'
         /\ o \notin running' /\ state'[o] = st[o] /\ work'[o] = w[o]
         /\ \A p \in Operations \ {o} : Processed(queue, running \ {o}, st, w, p)
<1> DEFINE r == running \ {o}
<1>1. IInv /\ TypeOK /\ NoIdleSlot /\ Cardinality(running) <= MaxConcurrent
  BY DEF IInv
<1>2. CASE o \in running
  <2>1. IsFiniteSet(running)
    BY <1>1, OperationsAssumption, FS_Subset DEF TypeOK
  <2>2. Cardinality(r) <= MaxConcurrent
    <3>1. Cardinality(r) = Cardinality(running) - 1 /\ Cardinality(running) \in Nat
      BY <1>2, <2>1, FS_RemoveElement, FS_CardinalityType
    <3>2. QED
      BY <1>1, <3>1, BoundsAssumption
  <2>3. Ready(queue, r, st, w)
    <3>1. \A p \in queue : p \notin r /\ w[p] = "none"
                           /\ st[p] \in {"QUEUED"} \union Terminal
      BY <1>1 DEF IInv, Coherent, TypeOK
    <3>2. QED
      BY <1>1, <2>2, <3>1 DEF Ready, TypeOK
  <2>4. ProcessQueue(runtime, queue, r, st, w)
    BY <1>2 DEF Release
  <2>5. idle \in BOOLEAN
    BY <1>1 DEF TypeOK
  <2>6. /\ queue' \subseteq queue /\ running' \subseteq Operations
        /\ state' \in [Operations -> Lifecycle!States \union {"NONE"}]
        /\ work' \in [Operations -> Works]
        /\ idle' \in BOOLEAN
        /\ Cardinality(running') <= MaxConcurrent
        /\ runtime = "READY" /\ queue' # {} => Cardinality(running') = MaxConcurrent
        /\ \A p \in Operations : Processed(queue, r, st, w, p)
    BY <2>3, <2>4, <2>5, ProcessQueueFacts
  <2>7. NoIdleSlot'
    BY <2>6 DEF NoIdleSlot
  <2>8. o \notin running' /\ state'[o] = st[o] /\ work'[o] = w[o]
    BY <2>6 DEF Processed
  <2>9. QED
    BY <2>6, <2>7, <2>8
<1>3. CASE o \notin running
  <2>1. state' = st /\ work' = w /\ UNCHANGED <<queue, running, idle>>
    BY <1>3 DEF Release
  <2>2. \A p \in Operations : Processed(queue, r, st, w, p)
    BY <1>3, <2>1 DEF Processed
  <2>3. NoIdleSlot'
    BY <1>1, <2>1 DEF NoIdleSlot
  <2>4. QED
    BY <1>1, <1>3, <2>1, <2>2, <2>3 DEF TypeOK
<1>4. QED
  BY <1>2, <1>3

\* What an end of work may change beside the state, the queue and the slots.
Aside(o) ==
  /\ UNCHANGED <<runtime, evidence, parent, recoveries, histVars>>
  /\ request' \in [Operations -> Requests]
  /\ \A p \in Operations \ {o} : request'[p] = request[p]
  /\ ApprovalsStay

\* The other operations, after work on o gave its slot back.
LEMMA OthersAfterRelease ==
  ASSUME IInv, NEW o \in Operations, Aside(o), NEW st, NEW w,
         \A p \in Operations \ {o} : st[p] = state[p] /\ w[p] = work[p],
         \A p \in Operations \ {o} : Processed(queue, running \ {o}, st, w, p)
  PROVE  \A p \in Operations \ {o} : Coherent(p)' /\ LifeStep(p)
<1> SUFFICES ASSUME NEW p \in Operations \ {o}
             PROVE  Coherent(p)' /\ LifeStep(p)
  OBVIOUS
<1>1. /\ request'[p] = request[p] /\ parent'[p] = parent[p]
      /\ evidence'[p] = evidence[p]
      /\ ran \subseteq ran' /\ stranded \subseteq stranded' /\ ApprovalsStay
  BY DEF Aside, histVars
<1>2. p \in running \ {o} <=> p \in running
  OBVIOUS
<1>3. QED
  BY <1>1, <1>2, UntouchedIsCoherent

\* finishOperation of work in progress.
LEMMA FinishIsGood ==
  ASSUME IInv, NEW o \in Operations,
         work[o] \in {"dispatched", "asked", "handling"},
         NEW outcome \in Terminal, NEW w \in {"none", "adrift"},
         Finish(o, outcome, w), Aside(o),
         outcome = "CANCELLED" => state[o] = "CANCELLED",
         outcome \in {"SUCCEEDED", "PARTIALLY_SUCCEEDED"}
           => \/ state[o] \in Terminal \/ o \in Unhandled
              \/ (o \in ran /\ Approved(o))
  PROVE  Good
<1> DEFINE to == IF state[o] \in Terminal THEN state[o] ELSE Recorded(o, outcome)
           st == [state EXCEPT ![o] = to]
           wk == [work EXCEPT ![o] = w]
<1>1. TypeOK /\ Coherent(o)
  BY DEF IInv
<1>2. state[o] \in {"RUNNING", "PAUSED", "WAITING_FOR_APPROVAL"} \union Terminal
  BY <1>1 DEF Coherent
<1>3. /\ Recorded(o, outcome) \in Terminal
      /\ Recorded(o, outcome) \in {outcome, "FAILED"}
      /\ state[o] \notin Terminal =>
           Recorded(o, outcome) \in Transitions[state[o]]
  <2>1. "FAILED" \in Terminal
    BY TableFacts
  <2>2. state[o] \notin Terminal => "FAILED" \in Transitions[state[o]]
    BY <1>2, TableFacts DEF Flying
  <2>3. QED
    BY <2>1, <2>2 DEF Recorded
<1>4. /\ st \in [Operations -> Lifecycle!States \union {"NONE"}]
      /\ wk \in [Operations -> Works]
      /\ st[o] = to /\ to \in Terminal /\ wk[o] = w
      /\ \A p \in Operations \ {o} : st[p] = state[p] /\ wk[p] = work[p]
  BY <1>1, <1>3, TableFacts DEF TypeOK, Works
<1>5. Release(o, st, wk) /\ result' = [result EXCEPT ![o] = Recorded(o, outcome)]
      /\ timers' = timers \ {o}
  BY DEF Finish
<1>6. o \notin queue
  BY <1>1 DEF Coherent
<1>7. runtime' = runtime
  BY DEF Aside
<1> HIDE DEF to, st, wk
<1>8. /\ state' \in [Operations -> Lifecycle!States \union {"NONE"}]
      /\ work' \in [Operations -> Works]
      /\ queue' \subseteq queue /\ running' \subseteq Operations
      /\ idle' \in BOOLEAN
      /\ Cardinality(running') <= MaxConcurrent
      /\ NoIdleSlot'
      /\ o \notin running' /\ state'[o] = st[o] /\ work'[o] = wk[o]
      /\ \A p \in Operations \ {o} : Processed(queue, running \ {o}, st, wk, p)
  BY <1>4, <1>5, <1>6, <1>7, ReleaseFacts
<1>9. \A p \in Operations \ {o} : Coherent(p)' /\ LifeStep(p)
  BY <1>4, <1>8, OthersAfterRelease
<1>10. LifeStep(o)
  <2>1. CASE state[o] \in Terminal
    BY <1>4, <1>8, <2>1 DEF LifeStep, to
  <2>2. CASE state[o] \notin Terminal
    BY <1>2, <1>3, <1>4, <1>8, <2>2, TableFacts
    DEF LifeStep, Lifecycle!Moves, Transitions, Flying, to
  <2>3. QED
    BY <2>1, <2>2
<1>11. Coherent(o)'
  <2>1. state'[o] \in Terminal /\ work'[o] \in {"none", "adrift"}
        /\ o \notin queue' /\ o \notin running'
    BY <1>4, <1>6, <1>8
  <2>2. state'[o] \in {"SUCCEEDED", "PARTIALLY_SUCCEEDED"}
          => o \in Unhandled \/ (o \in ran' /\ Approved(o)')
    <3> SUFFICES ASSUME state'[o] \in {"SUCCEEDED", "PARTIALLY_SUCCEEDED"},
                        o \notin Unhandled
                 PROVE  o \in ran' /\ Approved(o)'
      OBVIOUS
    <3>1. o \in ran /\ Approved(o)
      BY <1>1, <1>3, <1>4, <1>8 DEF Coherent, to
    <3>2. QED
      BY <1>1, <3>1, ApprovedStays DEF Aside, histVars
  <2>3. QED
    BY <2>1, <2>2, TableFacts DEF Coherent, Flying
<1>12. TypeOK'
  <2>1. result' \in [Operations -> Terminal \union {"NONE"}]
    BY <1>1, <1>3, <1>5 DEF TypeOK
  <2>2. QED
    BY <1>1, <1>5, <1>8, <2>1 DEF TypeOK, Aside, histVars
<1>13. CancellationReachesChildren'
  <2>1. state'[o] = "CANCELLED" => state[o] = "CANCELLED"
    BY <1>3, <1>4, <1>8 DEF to
  <2>2. \A p \in Operations \ {o} : state'[p] = "CANCELLED" => state[p] = "CANCELLED"
    BY <1>4, <1>8 DEF Processed
  <2>3. \A p \in Operations : LifeStep(p)
    BY <1>9, <1>10
  <2>4. \A p \in Operations : state'[p] = "CANCELLED" => state[p] = "CANCELLED"
    BY <2>1, <2>2
  <2>5. parent' = parent /\ late' = late
    BY DEF Aside, histVars
  <2>6. QED
    BY <2>3, <2>4, <2>5, ChildrenStayReached
<1>14. QED
  BY <1>8, <1>9, <1>10, <1>11, <1>12, <1>13 DEF Good, IInv

\* Data that a handler returned, or that asking for an approval or finding no
\* handler returned.
LEMMA SucceedIsGood ==
  ASSUME IInv, NEW o \in Operations, NEW partial \in BOOLEAN,
         \/ work[o] \in {"asked", "handling"}
         \/ work[o] = "dispatched" /\ o \in Unhandled,
         state[o] # "WAITING_FOR_APPROVAL", Succeed(o, partial), Aside(o)
  PROVE  Good
<1>1. state[o] \in Terminal \/ o \in Unhandled \/ (o \in ran /\ Approved(o))
  BY DEF IInv, Coherent
<1>2. PICK outcome \in {"SUCCEEDED", "PARTIALLY_SUCCEEDED", "CANCELLED"} :
        /\ Finish(o, outcome, "none")
        /\ outcome = "CANCELLED" => state[o] = "CANCELLED"
  BY DEF Succeed
<1>3. outcome \in Terminal
  BY TableFacts
<1>4. QED
  BY <1>1, <1>2, <1>3, FinishIsGood

\* Work that ends without finishOperation: the request was made, or the start
\* was rejected.
LEMMA LetGoIsGood ==
  ASSUME IInv, NEW o \in Operations, work[o] \in {"asked", "refused"},
         state[o] \in {"WAITING_FOR_APPROVAL"} \union Terminal,
         Release(o, state, [work EXCEPT ![o] = "none"]),
         Aside(o), request' = request, result' = result, timers' \subseteq timers
  PROVE  Good
<1> DEFINE wk == [work EXCEPT ![o] = "none"]
<1>1. TypeOK /\ Coherent(o)
  BY DEF IInv
<1>2. /\ state \in [Operations -> Lifecycle!States \union {"NONE"}]
      /\ wk \in [Operations -> Works] /\ wk[o] = "none"
      /\ \A p \in Operations \ {o} : state[p] = state[p] /\ wk[p] = work[p]
  BY <1>1 DEF TypeOK, Works
<1>3. o \notin queue /\ runtime' = runtime
  BY <1>1 DEF Coherent, Aside
<1> HIDE DEF wk
<1>4. /\ state' \in [Operations -> Lifecycle!States \union {"NONE"}]
      /\ work' \in [Operations -> Works]
      /\ queue' \subseteq queue /\ running' \subseteq Operations
      /\ idle' \in BOOLEAN
      /\ Cardinality(running') <= MaxConcurrent
      /\ NoIdleSlot'
      /\ o \notin running' /\ state'[o] = state[o] /\ work'[o] = wk[o]
      /\ \A p \in Operations \ {o} : Processed(queue, running \ {o}, state, wk, p)
  BY <1>2, <1>3, ReleaseFacts DEF wk
<1>5. \A p \in Operations \ {o} : Coherent(p)' /\ LifeStep(p)
  BY <1>2, <1>4, OthersAfterRelease
<1>6. Coherent(o)' /\ LifeStep(o)
  <2>1. Approved(o) => Approved(o)'
    BY <1>1, ApprovedStays DEF Aside
  <2>2. QED
    BY <1>1, <1>2, <1>3, <1>4, <2>1, TableFacts
    DEF Coherent, LifeStep, Aside, histVars, Flying, Held
<1>7. TypeOK'
  BY <1>1, <1>4 DEF TypeOK, Aside, histVars
<1>8. CancellationReachesChildren'
  <2>1. \A p \in Operations : state'[p] = "CANCELLED" => state[p] = "CANCELLED"
    BY <1>4 DEF Processed
  <2>2. \A p \in Operations : LifeStep(p)
    BY <1>5, <1>6
  <2>3. parent' = parent /\ late' = late
    BY DEF Aside, histVars
  <2>4. QED
    BY <2>1, <2>2, <2>3, ChildrenStayReached
<1>9. QED
  BY <1>4, <1>5, <1>6, <1>7, <1>8 DEF Good, IInv

\* A step that leaves the queue and the slots alone.
LEMMA StillIsGood ==
  ASSUME IInv, TypeOK', UNCHANGED <<runtime, queue, running, idle, parent, late>>,
         \A o \in Operations : Coherent(o)' /\ LifeStep(o),
         \A o \in Operations : state'[o] = "CANCELLED" => state[o] = "CANCELLED"
  PROVE  Good
<1>1. CancellationReachesChildren'
  BY ChildrenStayReached
<1>2. NoIdleSlot'
  BY DEF IInv, NoIdleSlot
<1>3. QED
  BY <1>1, <1>2 DEF IInv, Good

\* The operations a step leaves alone, when it starts nothing from the queue.
LEMMA OthersStayCoherent ==
  ASSUME IInv, NEW o \in Operations,
         o \in queue' <=> o \in queue, o \in running' <=> o \in running,
         state'[o] = state[o], work'[o] = work[o],
         request'[o] = request[o], parent'[o] = parent[o],
         evidence'[o] = evidence[o],
         ran \subseteq ran', stranded \subseteq stranded', ApprovalsStay
  PROVE  Coherent(o)' /\ LifeStep(o)
<1>1. Processed(queue, running, state, work, o)
  BY DEF Processed
<1>2. QED
  BY <1>1, UntouchedIsCoherent

\* Each step of the work of an operation.
LEMMA WorkIsGood ==
  ASSUME IInv, NEW o \in Operations, Work(o)
  PROVE  Good
<1>1. TypeOK /\ Coherent(o)
  BY DEF IInv
<1>2. ASSUME UNCHANGED <<runtime, request, evidence, parent, recoveries, histVars>>
      PROVE  Aside(o)
  BY <1>1, <1>2 DEF Aside, ApprovalsStay, TypeOK
<1>3. {"SUCCEEDED", "PARTIALLY_SUCCEEDED", "FAILED", "TIMED_OUT"} \subseteq Terminal
  BY TableFacts
<1>4. CASE CommandRefused(o)
  BY <1>2, <1>3, <1>4, FinishIsGood DEF CommandRefused
<1>5. CASE CallHandler(o)
  <2>1. ApprovalsStay
    BY <1>5 DEF CallHandler, ApprovalsStay
  <2>2. \A p \in Operations \ {o} : Coherent(p)' /\ LifeStep(p)
    BY <1>1, <1>5, <2>1, OthersStayCoherent DEF CallHandler, TypeOK
  <2>3. Coherent(o)' /\ LifeStep(o)
    <3>1. Approved(o)'
      BY <1>1, <1>5, <2>1, ApprovedStays DEF CallHandler
    <3>2. QED
      BY <1>1, <1>5, <3>1, TableFacts
      DEF CallHandler, Coherent, LifeStep, TypeOK, Flying, Held
  <2>4. TypeOK'
    BY <1>1, <1>5 DEF CallHandler, TypeOK, Works
  <2>5. QED
    BY <1>5, <2>2, <2>3, <2>4, StillIsGood DEF CallHandler
<1>6. CASE RequestApproval(o)
  <2>1. Aside(o)
    <3>1. request[o] = "NONE"
      BY <1>1, <1>6 DEF RequestApproval, Coherent
    <3>2. QED
      BY <1>1, <1>6, <3>1
      DEF RequestApproval, Aside, ApprovalsStay, TypeOK, Requests
  <2>2. CASE state[o] = "RUNNING"
    <3>1. /\ state' = [state EXCEPT ![o] = "WAITING_FOR_APPROVAL"]
          /\ work' = [work EXCEPT ![o] = "asked"]
          /\ UNCHANGED <<result, queue, running, timers, idle>>
          /\ request' = [request EXCEPT ![o] = "PENDING"]
      BY <1>6, <2>2 DEF RequestApproval
    <3>2. \A p \in Operations \ {o} : Coherent(p)' /\ LifeStep(p)
      BY <1>1, <2>1, <3>1, OthersStayCoherent DEF Aside, TypeOK, histVars
    <3>3. Coherent(o)' /\ LifeStep(o)
      BY <1>1, <1>6, <2>2, <3>1, TableFacts, MoveFacts
      DEF RequestApproval, Coherent, LifeStep, TypeOK, Flying, Held
    <3>4. TypeOK'
      BY <1>1, <2>1, <3>1, TableFacts DEF Aside, TypeOK, Works, Flying, histVars
    <3>5. \A p \in Operations : state'[p] = "CANCELLED" => state[p] = "CANCELLED"
      BY <1>1, <3>1 DEF TypeOK
    <3>6. QED
      BY <2>1, <3>1, <3>2, <3>3, <3>4, <3>5, StillIsGood DEF Aside, histVars
  <2>3. CASE state[o] # "RUNNING"
    BY <1>3, <1>6, <2>1, <2>3, FinishIsGood DEF RequestApproval
  <2>4. QED
    BY <2>2, <2>3
<1>7. CASE RequestReturns(o)
  <2>1. Aside(o)
    BY <1>2, <1>7 DEF RequestReturns
  <2>2. CASE state[o] = "WAITING_FOR_APPROVAL"
    BY <1>7, <2>1, <2>2, LetGoIsGood DEF RequestReturns
  <2>3. CASE state[o] # "WAITING_FOR_APPROVAL"
    BY <1>7, <2>1, <2>3, SucceedIsGood DEF RequestReturns
  <2>4. QED
    BY <2>2, <2>3
<1>8. CASE HandlerReturns(o)
  <2>1. Aside(o)
    BY <1>2, <1>8 DEF HandlerReturns
  <2>2. state[o] # "WAITING_FOR_APPROVAL"
    BY <1>1, <1>8, TableFacts DEF HandlerReturns, Coherent
  <2>3. CASE Finish(o, "FAILED", "none")
    BY <1>3, <1>8, <2>1, <2>3, FinishIsGood DEF HandlerReturns
  <2>4. CASE \E partial \in BOOLEAN : Succeed(o, partial)
    BY <1>8, <2>1, <2>2, <2>4, SucceedIsGood DEF HandlerReturns
  <2>5. QED
    BY <1>8, <2>3, <2>4 DEF HandlerReturns
<1>9. CASE OperationTimesOut(o)
  BY <1>2, <1>3, <1>9, FinishIsGood DEF OperationTimesOut
<1>10. CASE AdriftEnds(o)
  <2>1. ApprovalsStay
    BY <1>10 DEF AdriftEnds, ApprovalsStay
  <2>2. \A p \in Operations \ {o} : Coherent(p)' /\ LifeStep(p)
    BY <1>1, <1>10, <2>1, OthersStayCoherent DEF AdriftEnds, TypeOK, histVars
  <2>3. Coherent(o)' /\ LifeStep(o)
    <3>1. Approved(o) => Approved(o)'
      BY <1>1, <1>10, <2>1, ApprovedStays DEF AdriftEnds
    <3>2. QED
      BY <1>1, <1>10, <3>1, TableFacts
      DEF AdriftEnds, Coherent, LifeStep, TypeOK, Flying, Held, histVars
  <2>4. TypeOK'
    BY <1>1, <1>10 DEF AdriftEnds, TypeOK, Works, histVars
  <2>5. QED
    BY <1>10, <2>2, <2>3, <2>4, StillIsGood DEF AdriftEnds, histVars
<1>11. CASE StartRejected(o)
  <2>1. Aside(o)
    BY <1>2, <1>11 DEF StartRejected
  <2>2. state[o] \in Terminal
    BY <1>1, <1>11 DEF StartRejected, Coherent
  <2>3. QED
    BY <1>11, <2>1, <2>2, LetGoIsGood DEF StartRejected
<1>12. CASE NothingToCall(o)
  <2>1. Aside(o)
    BY <1>2, <1>12 DEF NothingToCall
  <2>2. state[o] # "WAITING_FOR_APPROVAL"
    BY <1>1, <1>12, TableFacts DEF NothingToCall, Coherent
  <2>3. QED
    BY <1>12, <2>1, <2>2, SucceedIsGood DEF NothingToCall
<1>13. QED
  BY <1>4, <1>5, <1>6, <1>7, <1>8, <1>9, <1>10, <1>11, <1>12 DEF Work

-----------------------------------------------------------------------------
(* Creating operations *)

\* What an operation that does not exist yet is like.
LEMMA FreshFacts ==
  ASSUME IInv, NEW o \in Operations, Fresh(o)
  PROVE  /\ state[o] = "NONE" /\ work[o] = "none" /\ request[o] = "NONE"
         /\ parent[o] = 0 /\ o \notin queue /\ o \notin running
  BY DEF IInv, Coherent, Fresh

\* submitOperation, accepted or refused half-way.
LEMMA SubmitIsGood ==
  ASSUME IInv, NEW o \in Operations, NEW p \in Operations \union {0},
         NEW e \in Operations \union {0}, SubmitAs(o, p, e),
         timers' \subseteq Operations
  PROVE  Good
<1> DEFINE st == [state EXCEPT ![o] = "QUEUED"]
           q == queue \union {o}
<1>1. TypeOK /\ Coherent(o)
  BY DEF IInv
<1>2. /\ state[o] = "NONE" /\ work[o] = "none" /\ request[o] = "NONE"
      /\ parent[o] = 0 /\ o \notin queue /\ o \notin running
  BY FreshFacts DEF SubmitAs
<1>3. /\ UNCHANGED <<runtime, result, request, recoveries, ran>>
      /\ evidence' = [evidence EXCEPT ![o] = e]
      /\ ApprovalsStay
  BY DEF SubmitAs, ApprovalsStay
<1>4. /\ st \in [Operations -> Lifecycle!States \union {"NONE"}]
      /\ st[o] = "QUEUED"
      /\ \A x \in Operations \ {o} : st[x] = state[x]
  BY <1>1, TableFacts DEF TypeOK, Flying
<1> HIDE DEF st
<1>5. CASE p # 0 /\ Cardinality(Children(p)) >= MaxChildren
  <2>1. /\ state' = st /\ stranded' = stranded \union {o}
        /\ UNCHANGED <<queue, running, work, parent, late, idle>>
    BY <1>5 DEF SubmitAs, st
  <2>2. \A x \in Operations \ {o} : Coherent(x)' /\ LifeStep(x)
    BY <1>1, <1>3, <1>4, <2>1, OthersStayCoherent DEF TypeOK
  <2>3. Coherent(o)' /\ LifeStep(o)
    BY <1>2, <1>3, <1>4, <2>1, TableFacts
    DEF Coherent, LifeStep, Flying, Held
  <2>4. TypeOK'
    BY <1>1, <1>3, <1>4, <2>1 DEF TypeOK
  <2>5. \A x \in Operations : state'[x] = "CANCELLED" => state[x] = "CANCELLED"
    BY <1>4, <2>1
  <2>6. QED
    BY <1>3, <2>1, <2>2, <2>3, <2>4, <2>5, StillIsGood
<1>6. CASE ~(p # 0 /\ Cardinality(Children(p)) >= MaxChildren)
  <2>1. /\ parent' = [parent EXCEPT ![o] = p]
        /\ late' = IF p # 0 /\ state[p] \in Terminal THEN late \union {o} ELSE late
        /\ ProcessQueue(runtime, q, running, st, work)
        /\ stranded' = stranded
    BY <1>6 DEF SubmitAs, st
  <2>2. Ready(q, running, st, work)
    <3>1. \A x \in q : /\ x \notin running /\ work[x] = "none"
                       /\ st[x] \in {"QUEUED"} \union Terminal
      BY <1>1, <1>2, <1>4 DEF IInv, Coherent, TypeOK
    <3>2. QED
      BY <1>1, <1>4, <3>1 DEF Ready, TypeOK, IInv
  <2>3. idle \in BOOLEAN
    BY <1>1 DEF TypeOK
  <2>4. /\ queue' \subseteq q /\ running' \subseteq Operations
        /\ state' \in [Operations -> Lifecycle!States \union {"NONE"}]
        /\ work' \in [Operations -> Works]
        /\ idle' \in BOOLEAN
        /\ Cardinality(running') <= MaxConcurrent
        /\ runtime = "READY" /\ queue' # {} => Cardinality(running') = MaxConcurrent
        /\ \A x \in Operations : Processed(q, running, st, work, x)
    BY <2>1, <2>2, <2>3, ProcessQueueFacts
  <2>5. NoIdleSlot'
    BY <1>3, <2>4 DEF NoIdleSlot
  <2>6. \A x \in Operations \ {o} : Coherent(x)' /\ LifeStep(x)
    <3> SUFFICES ASSUME NEW x \in Operations \ {o}
                 PROVE  Coherent(x)' /\ LifeStep(x)
      OBVIOUS
    <3>1. Processed(queue, running, st, work, x)
      BY <2>4 DEF Processed
    <3>2. parent'[x] = parent[x] /\ evidence'[x] = evidence[x]
      BY <1>1, <1>3, <2>1 DEF TypeOK
    <3>3. QED
      BY <1>3, <1>4, <2>1, <3>1, <3>2, UntouchedIsCoherent
  <2>7. Coherent(o)' /\ LifeStep(o)
    <3>1. Processed(q, running, st, work, o) /\ request'[o] = "NONE"
      BY <1>2, <1>3, <2>4
    <3>2. \/ state'[o] = "QUEUED" /\ work'[o] = "none" /\ o \in queue'
             /\ o \notin running'
          \/ state'[o] = "RUNNING" /\ work'[o] = "dispatched" /\ o \notin queue'
             /\ o \in running'
      BY <1>2, <1>4, <3>1, TableFacts DEF Processed
    <3>3. QED
      BY <1>2, <3>1, <3>2, TableFacts DEF Coherent, LifeStep, Flying, Held
  <2>8. TypeOK'
    BY <1>1, <1>3, <2>1, <2>4 DEF TypeOK
  <2>9. CancellationReachesChildren'
    <3> SUFFICES ASSUME NEW x \in Operations \ late',
                        parent'[x] # 0, state'[parent'[x]] = "CANCELLED"
                 PROVE  state'[x] \notin InFlight
      BY DEF CancellationReachesChildren
    <3>1. parent'[x] \in Operations
      BY <2>8 DEF TypeOK
    <3>2. state[parent'[x]] = "CANCELLED"
      BY <1>4, <2>4, <3>1, TableFacts DEF Processed
    <3>3. x # o
      <4>1. x = o => p # 0 /\ state[p] = "CANCELLED"
        BY <1>1, <2>1, <3>2 DEF TypeOK
      <4>2. QED
        BY <2>1, <4>1, TableFacts
    <3>4. x \notin late /\ parent'[x] = parent[x]
      BY <1>1, <2>1, <3>3 DEF TypeOK
    <3>5. state[x] \notin InFlight /\ state[x] # "NONE"
      BY <3>2, <3>4 DEF IInv, CancellationReachesChildren, Coherent
    <3>6. QED
      BY <2>6, <3>3, <3>5 DEF LifeStep
  <2>10. QED
    BY <2>4, <2>5, <2>6, <2>7, <2>8, <2>9 DEF Good, IInv
<1>7. QED
  BY <1>5, <1>6

\* Each way of creating an operation.
LEMMA CreateIsGood ==
  ASSUME IInv, NEW o \in Operations, Create(o)
  PROVE  Good
<1>1. TypeOK /\ Coherent(o)
  BY DEF IInv
<1>2. CASE Submit(o)
  <2>1. PICK p \in Known \union {0}, e \in Presentable(o) : SubmitAs(o, p, e)
    BY <1>2 DEF Submit
  <2>2. p \in Operations \union {0} /\ e \in Operations \union {0}
    BY DEF Known, Presentable
  <2>3. timers' \subseteq Operations
    BY <1>1, <1>2 DEF Submit, TypeOK
  <2>4. QED
    BY <2>1, <2>2, <2>3, SubmitIsGood
<1>3. CASE Retry(o)
  <2>1. PICK last \in Operations :
          /\ SubmitAs(o, parent[last], evidence[last])
          /\ timers' = IF o \in stranded' THEN timers ELSE timers \union {o}
    BY <1>3 DEF Retry
  <2>2. parent[last] \in Operations \union {0} /\ evidence[last] \in Operations \union {0}
    BY <1>1 DEF TypeOK
  <2>3. timers' \subseteq Operations
    BY <1>1, <2>1 DEF TypeOK
  <2>4. QED
    BY <2>1, <2>2, <2>3, SubmitIsGood
<1>4. CASE ExecuteCommand(o)
  <2>1. PICK e \in Presentable(o) : evidence' = [evidence EXCEPT ![o] = e]
    BY <1>4 DEF ExecuteCommand
  <2>2. e \in Operations \union {0}
    BY DEF Presentable
  <2>3. ApprovalsStay
    BY <1>4 DEF ExecuteCommand, ApprovalsStay
  <2>4. /\ state[o] = "NONE" /\ request[o] = "NONE" /\ parent[o] = 0
        /\ o \notin queue /\ o \notin running
    BY <1>4, FreshFacts DEF ExecuteCommand
  <2>5. \A x \in Operations \ {o} : Coherent(x)' /\ LifeStep(x)
    BY <1>1, <1>4, <2>1, <2>3, OthersStayCoherent
    DEF ExecuteCommand, TypeOK, histVars
  <2>6. Coherent(o)' /\ LifeStep(o)
    BY <1>1, <1>4, <2>4, TableFacts
    DEF ExecuteCommand, TypeOK, Coherent, LifeStep, Flying, Held
  <2>7. TypeOK'
    BY <1>1, <1>4, <2>1, <2>2, TableFacts
    DEF ExecuteCommand, TypeOK, Works, Flying, histVars
  <2>8. \A x \in Operations : state'[x] = "CANCELLED" => state[x] = "CANCELLED"
    BY <1>1, <1>4 DEF ExecuteCommand, TypeOK
  <2>9. QED
    BY <1>4, <2>5, <2>6, <2>7, <2>8, StillIsGood DEF ExecuteCommand, histVars
<1>5. CASE LifecycleCallRefused(o)
  <2>1. ApprovalsStay
    BY <1>5 DEF LifecycleCallRefused, ApprovalsStay
  <2>2. /\ state[o] = "NONE" /\ work[o] = "none" /\ request[o] = "NONE"
        /\ parent[o] = 0 /\ o \notin queue /\ o \notin running
    BY <1>5, FreshFacts DEF LifecycleCallRefused
  <2>3. \A x \in Operations \ {o} : Coherent(x)' /\ LifeStep(x)
    BY <1>1, <1>5, <2>1, OthersStayCoherent DEF LifecycleCallRefused, TypeOK
  <2>4. Coherent(o)' /\ LifeStep(o)
    BY <1>1, <1>5, <2>2, TableFacts
    DEF LifecycleCallRefused, TypeOK, Coherent, LifeStep, Flying, Held
  <2>5. TypeOK'
    BY <1>1, <1>5, TableFacts DEF LifecycleCallRefused, TypeOK, Flying
  <2>6. \A x \in Operations : state'[x] = "CANCELLED" => state[x] = "CANCELLED"
    BY <1>1, <1>5 DEF LifecycleCallRefused, TypeOK
  <2>7. QED
    BY <1>5, <2>3, <2>4, <2>5, <2>6, StillIsGood DEF LifecycleCallRefused
<1>6. QED
  BY <1>2, <1>3, <1>4, <1>5 DEF Create

-----------------------------------------------------------------------------
(* Calls about operations that exist *)

\* A cancellation takes operations in flight: its roots, and every child in
\* flight of an operation it takes.
LEMMA CancelledFacts ==
  ASSUME NEW roots
  PROVE  /\ \A o \in Cancelled(roots) : o \in Operations /\ state[o] \in InFlight
         /\ \A o \in Operations :
              o \in roots /\ state[o] \in InFlight => o \in Cancelled(roots)
         /\ \A o \in Operations :
              state[o] \in InFlight /\ parent[o] \in Cancelled(roots)
                => o \in Cancelled(roots)
  BY DEF Cancelled

LEMMA CancelIsGood ==
  ASSUME IInv, NEW roots, CancelAll(roots), queue' \subseteq queue,
         \A o \in queue : state[o] \in InFlight =>
           (o \in queue' <=> o \notin Cancelled(roots)),
         runtime' \in {runtime, "STOPPED"},
         UNCHANGED <<result, running, work, request, evidence, parent,
                     recoveries, histVars, idle>>
  PROVE  Good
<1> DEFINE C == Cancelled(roots)
<1>1. TypeOK
  BY DEF IInv
<1>2. /\ state' = [o \in Operations |-> IF o \in C THEN "CANCELLED" ELSE state[o]]
      /\ timers' = timers \ C
  BY DEF CancelAll
<1>3. \A o \in C : o \in Operations /\ state[o] \in InFlight
  BY CancelledFacts
<1>4. ApprovalsStay
  BY DEF ApprovalsStay
<1> HIDE DEF C
<1>5. \A o \in Operations : Coherent(o)' /\ LifeStep(o)
  <2> SUFFICES ASSUME NEW o \in Operations
               PROVE  Coherent(o)' /\ LifeStep(o)
    OBVIOUS
  <2>1. Coherent(o) /\ (Approved(o) => Approved(o)')
    BY <1>1, <1>4, ApprovedStays DEF IInv
  <2>2. CASE o \in C
    <3>1. state[o] \in Flying /\ state'[o] = "CANCELLED"
      BY <1>2, <1>3, <2>2, TableFacts
    <3>2. o \notin queue'
      BY <1>3, <2>2 DEF C
    <3>3. QED
      BY <2>1, <3>1, <3>2, TableFacts, MoveFacts
      DEF Coherent, LifeStep, Flying, Held, histVars
  <2>3. CASE o \notin C
    <3>1. state'[o] = state[o]
      BY <1>2, <2>3
    <3>2. o \in queue /\ state[o] \in InFlight => o \in queue'
      BY <2>3 DEF C
    <3>3. QED
      BY <2>1, <3>1, <3>2, TableFacts
      DEF Coherent, LifeStep, Flying, Held, histVars
  <2>4. QED
    BY <2>2, <2>3
<1>6. TypeOK'
  BY <1>1, <1>2, TableFacts DEF TypeOK, RuntimeStates, histVars
<1>7. NoIdleSlot'
  BY DEF IInv, NoIdleSlot
<1>8. CancellationReachesChildren'
  <2> SUFFICES ASSUME NEW o \in Operations \ late,
                      parent[o] # 0, state'[parent[o]] = "CANCELLED"
               PROVE  state'[o] \notin InFlight
    BY DEF CancellationReachesChildren, histVars
  <2>1. parent[o] \in Operations /\ state[o] # "NONE"
    BY <1>1 DEF IInv, Coherent, TypeOK
  <2>2. CASE parent[o] \in C
    <3>1. state[o] \in InFlight => o \in C
      BY <2>2, CancelledFacts DEF C
    <3>2. QED
      BY <1>2, <3>1, TableFacts DEF Flying
  <2>3. CASE parent[o] \notin C
    <3>1. state[parent[o]] = "CANCELLED"
      BY <1>2, <2>1, <2>3
    <3>2. state[o] \notin InFlight
      BY <3>1 DEF IInv, CancellationReachesChildren
    <3>3. QED
      BY <1>5, <2>1, <3>2 DEF LifeStep
  <2>4. QED
    BY <2>2, <2>3
<1>9. QED
  BY <1>5, <1>6, <1>7, <1>8 DEF Good, IInv

\* Each call about an operation.
LEMMA CallIsGood ==
  ASSUME IInv, NEW o \in Operations, Call(o)
  PROVE  Good
<1>1. TypeOK /\ Coherent(o)
  BY DEF IInv
<1>2. CASE CancelOperation(o)
  <2>1. \A x \in queue : x \in queue' <=> x \notin Cancelled({o})
    BY <1>2 DEF CancelOperation
  <2>2. QED
    BY <1>2, <2>1, CancelIsGood DEF CancelOperation
<1>3. ASSUME UNCHANGED <<request, ran, stranded>>
      PROVE  ApprovalsStay /\ ran \subseteq ran' /\ stranded \subseteq stranded'
  BY <1>3 DEF ApprovalsStay
<1>4. CASE PauseOperation(o)
  <2>1. \A x \in Operations \ {o} : Coherent(x)' /\ LifeStep(x)
    BY <1>1, <1>3, <1>4, OthersStayCoherent DEF PauseOperation, TypeOK, histVars
  <2>2. Coherent(o)' /\ LifeStep(o)
    <3>1. Approved(o) => Approved(o)'
      BY <1>1, <1>3, <1>4, ApprovedStays DEF PauseOperation, histVars
    <3>2. QED
      BY <1>1, <1>4, <3>1, TableFacts, MoveFacts
      DEF PauseOperation, TypeOK, Coherent, LifeStep, Flying, Held, histVars
  <2>3. TypeOK'
    BY <1>1, <1>4, TableFacts DEF PauseOperation, TypeOK, Flying, histVars
  <2>4. \A x \in Operations : state'[x] = "CANCELLED" => state[x] = "CANCELLED"
    BY <1>1, <1>4 DEF PauseOperation, TypeOK
  <2>5. QED
    BY <1>4, <2>1, <2>2, <2>3, <2>4, StillIsGood DEF PauseOperation, histVars
<1>5. CASE ResumeOperation(o)
  <2>1. \A x \in Operations \ {o} : Coherent(x)' /\ LifeStep(x)
    BY <1>1, <1>3, <1>5, OthersStayCoherent DEF ResumeOperation, TypeOK, histVars
  <2>2. Coherent(o)' /\ LifeStep(o)
    <3>1. Approved(o) => Approved(o)'
      BY <1>1, <1>3, <1>5, ApprovedStays DEF ResumeOperation, histVars
    <3>2. QED
      BY <1>1, <1>5, <3>1, TableFacts, MoveFacts
      DEF ResumeOperation, TypeOK, Coherent, LifeStep, Flying, Held, histVars
  <2>3. TypeOK'
    BY <1>1, <1>5, TableFacts DEF ResumeOperation, TypeOK, Flying, histVars
  <2>4. \A x \in Operations : state'[x] = "CANCELLED" => state[x] = "CANCELLED"
    BY <1>1, <1>5 DEF ResumeOperation, TypeOK
  <2>5. QED
    BY <1>5, <2>1, <2>2, <2>3, <2>4, StillIsGood DEF ResumeOperation, histVars
<1>6. CASE WaitForOperation(o)
  <2>1. \A x \in Operations : Coherent(x)' /\ LifeStep(x)
    BY <1>1, <1>3, <1>6, OthersStayCoherent DEF WaitForOperation, TypeOK, histVars
  <2>2. TypeOK'
    BY <1>1, <1>6 DEF WaitForOperation, TypeOK, histVars
  <2>3. QED
    BY <1>6, <2>1, <2>2, StillIsGood DEF WaitForOperation, histVars
<1>7. CASE WaitTimesOut(o)
  <2>1. \A x \in Operations \ {o} : Coherent(x)' /\ LifeStep(x)
    BY <1>1, <1>3, <1>7, OthersStayCoherent DEF WaitTimesOut, TypeOK, histVars
  <2>2. Coherent(o)' /\ LifeStep(o)
    <3>1. Approved(o) => Approved(o)'
      BY <1>1, <1>3, <1>7, ApprovedStays DEF WaitTimesOut, histVars
    <3>2. CASE state'[o] = state[o]
      BY <1>1, <1>7, <3>1, <3>2
      DEF WaitTimesOut, Coherent, LifeStep, Held, histVars
    <3>3. CASE state'[o] # state[o]
      <4>1. /\ state[o] \in Flying /\ state'[o] = "TIMED_OUT"
            /\ "TIMED_OUT" \in Transitions[state[o]]
        BY <1>1, <1>7, <3>3, TableFacts DEF WaitTimesOut, TypeOK
      <4>2. Lifecycle!Moves(state[o], state'[o])
        BY <4>1 DEF Lifecycle!Moves, Transitions
      <4>3. QED
        BY <1>1, <1>7, <3>1, <4>1, <4>2, TableFacts
        DEF WaitTimesOut, Coherent, LifeStep, Flying, Held, histVars
    <3>4. QED
      BY <3>2, <3>3
  <2>3. TypeOK'
    BY <1>1, <1>7, TableFacts DEF WaitTimesOut, TypeOK, Flying, histVars
  <2>4. \A x \in Operations : state'[x] = "CANCELLED" => state[x] = "CANCELLED"
    BY <1>1, <1>7 DEF WaitTimesOut, TypeOK
  <2>5. QED
    BY <1>7, <2>1, <2>2, <2>3, <2>4, StillIsGood DEF WaitTimesOut, histVars
<1>8. CASE RespondToApproval(o)
  <2>1. ApprovalsStay
    BY <1>1, <1>8 DEF RespondToApproval, ApprovalsStay, TypeOK
  <2>2. \A x \in Operations \ {o} : Coherent(x)' /\ LifeStep(x)
    BY <1>1, <1>8, <2>1, OthersStayCoherent DEF RespondToApproval, TypeOK, histVars
  <2>3. Coherent(o)' /\ LifeStep(o)
    <3>1. Approved(o) => Approved(o)'
      BY <1>1, <1>8, <2>1, ApprovedStays DEF RespondToApproval
    <3>2. state[o] \in Terminal \union Flying /\ work[o] # "asked"
      BY <1>1, <1>8, TableFacts DEF RespondToApproval, TypeOK, Coherent, Quiet
    <3>3. CASE /\ request' = [request EXCEPT ![o] = "APPROVED"]
               /\ state' = IF state[o] = "WAITING_FOR_APPROVAL"
                           THEN [state EXCEPT ![o] = "RUNNING"] ELSE state
      BY <1>1, <1>8, <3>1, <3>2, <3>3, TableFacts, MoveFacts
      DEF RespondToApproval, TypeOK, Coherent, LifeStep, Flying, Held, histVars
    <3>4. CASE /\ request' = [request EXCEPT ![o] = "REJECTED"]
               /\ state' = IF state[o] \in Terminal THEN state
                           ELSE [state EXCEPT ![o] = "FAILED"]
      BY <1>1, <1>8, <3>1, <3>2, <3>4, TableFacts, MoveFacts
      DEF RespondToApproval, TypeOK, Coherent, LifeStep, Flying, Held, histVars
    <3>5. QED
      BY <1>8, <3>3, <3>4 DEF RespondToApproval
  <2>4. TypeOK'
    BY <1>1, <1>8, TableFacts
    DEF RespondToApproval, TypeOK, Requests, Flying, histVars
  <2>5. \A x \in Operations : state'[x] = "CANCELLED" => state[x] = "CANCELLED"
    BY <1>1, <1>8 DEF RespondToApproval, TypeOK
  <2>6. QED
    BY <1>8, <2>2, <2>3, <2>4, <2>5, StillIsGood DEF RespondToApproval, histVars
<1>9. QED
  BY <1>2, <1>4, <1>5, <1>6, <1>7, <1>8 DEF Call
-----------------------------------------------------------------------------
(* The life of the runtime *)

LEMMA LifeIsGood ==
  ASSUME IInv, Initialize \/ Suspend \/ Resume \/ Recover \/ Shutdown
  PROVE  Good
<1>1. TypeOK /\ \A o \in Operations : Coherent(o)
  BY DEF IInv
<1>2. ASSUME UNCHANGED <<queue, running, opVars, histVars>>
      PROVE  /\ \A o \in Operations : Coherent(o)' /\ LifeStep(o)
             /\ CancellationReachesChildren'
  <2>1. ApprovalsStay
    BY <1>2 DEF ApprovalsStay, opVars
  <2>2. \A o \in Operations : Coherent(o)' /\ LifeStep(o)
    BY <1>2, <2>1, OthersStayCoherent DEF opVars, histVars
  <2>3. CancellationReachesChildren'
    BY <1>2 DEF IInv, CancellationReachesChildren, opVars, histVars
  <2>4. QED
    BY <2>2, <2>3
<1>3. CASE Initialize
  <2>1. PICK to \in {"READY", "FAILED"} : Enter(to)
    BY <1>3 DEF Initialize
  <2>2. TypeOK'
    BY <1>1, <1>3, <2>1
    DEF Initialize, Enter, TypeOK, RuntimeStates, opVars, histVars
  <2>3. NoIdleSlot'
    BY <1>3, <2>1 DEF Initialize, Enter, NoIdleSlot
  <2>4. QED
    BY <1>2, <1>3, <2>2, <2>3 DEF Initialize, Good, IInv
<1>4. CASE Suspend
  <2>1. TypeOK'
    BY <1>1, <1>4 DEF Suspend, TypeOK, RuntimeStates, opVars, histVars
  <2>2. NoIdleSlot'
    BY <1>4 DEF Suspend, NoIdleSlot
  <2>3. QED
    BY <1>2, <1>4, <2>1, <2>2 DEF Suspend, Good, IInv
<1>5. CASE Resume
  <2>1. Ready(queue, running, state, work)
    BY <1>1 DEF Ready, IInv, TypeOK, Coherent
  <2>2. idle \in BOOLEAN
    BY <1>1 DEF TypeOK
  <2>3. /\ queue' \subseteq queue /\ running' \subseteq Operations
        /\ state' \in [Operations -> Lifecycle!States \union {"NONE"}]
        /\ work' \in [Operations -> Works]
        /\ idle' \in BOOLEAN
        /\ Cardinality(running') <= MaxConcurrent
        /\ queue' # {} => Cardinality(running') = MaxConcurrent
        /\ \A o \in Operations : Processed(queue, running, state, work, o)
    BY <1>5, <2>1, <2>2, ProcessQueueFacts DEF Resume
  <2>4. TypeOK'
    BY <1>1, <1>5, <2>3 DEF Resume, TypeOK, RuntimeStates, histVars
  <2>5. ApprovalsStay
    BY <1>5 DEF Resume, ApprovalsStay
  <2>6. \A o \in Operations : Coherent(o)' /\ LifeStep(o)
    BY <1>5, <2>3, <2>5, UntouchedIsCoherent DEF Resume, histVars
  <2>7. NoIdleSlot'
    BY <2>3 DEF NoIdleSlot
  <2>8. \A o \in Operations : state'[o] = "CANCELLED" => state[o] = "CANCELLED"
    BY <2>3, TableFacts DEF Processed
  <2>9. CancellationReachesChildren'
    BY <1>5, <2>4, <2>6, <2>8, ChildrenStayReached DEF Resume, histVars
  <2>10. QED
    BY <2>3, <2>4, <2>6, <2>7, <2>9 DEF Good, IInv
<1>6. CASE Recover
  <2>1. /\ recoveries' \in 0..(MaxRecoveries + 1)
        /\ UNCHANGED <<queue, running, result, work, evidence, parent, timers,
                       histVars>>
    BY <1>1, <1>6, BoundsAssumption DEF Recover, OneMore, TypeOK
  <2>2. CASE UNCHANGED <<state, request>> /\ \/ UNCHANGED <<runtime, idle>>
                                             \/ Enter("FAILED")
                                             \/ runtime' = "FAILED" /\ idle' = idle
    <3>1. UNCHANGED <<queue, running, opVars, histVars>>
      BY <2>1, <2>2 DEF opVars
    <3>2. TypeOK'
      BY <1>1, <2>1, <2>2 DEF Enter, TypeOK, RuntimeStates, histVars
    <3>3. NoIdleSlot'
      BY <2>1, <2>2 DEF Enter, NoIdleSlot, IInv
    <3>4. QED
      BY <1>2, <3>1, <3>2, <3>3 DEF Good, IInv
  <2>3. CASE Recovered /\ \E to \in {"READY", "FAILED"} : Enter(to)
    <3>1. PICK to \in {"READY", "FAILED"} : Enter(to)
      BY <2>3
    <3>2. /\ state' = [o \in Operations |->
                         IF state[o] \in InFlight THEN "FAILED" ELSE state[o]]
          /\ UNCHANGED <<queue, running, result, work, evidence, parent, timers,
                         histVars>>
      BY <2>1, <2>3 DEF Recovered
    <3>3. PICK expired \in SUBSET {o \in Operations : request[o] = "PENDING"} :
            request' = [o \in Operations |->
                          IF o \in expired THEN "EXPIRED" ELSE request[o]]
      BY <2>3 DEF Recovered
    <3>4. ApprovalsStay
      BY <3>3 DEF ApprovalsStay
    <3>5. TypeOK'
      BY <1>1, <2>1, <3>1, <3>2, <3>3, TableFacts
      DEF Enter, TypeOK, RuntimeStates, Requests, histVars
    <3>6. NoIdleSlot'
      BY <3>1, <3>2 DEF Enter, NoIdleSlot
    <3>7. \A o \in Operations : Coherent(o)' /\ LifeStep(o)
      <4> SUFFICES ASSUME NEW o \in Operations
                   PROVE  Coherent(o)' /\ LifeStep(o)
        OBVIOUS
      <4>1. Coherent(o) /\ (Approved(o) => Approved(o)')
        BY <1>1, <3>2, <3>4, ApprovedStays
      <4>2. request'[o] = request[o] \/ request[o] = "PENDING"
        BY <3>3
      <4>3. CASE state[o] \in InFlight
        BY <3>2, <4>1, <4>2, <4>3, TableFacts, MoveFacts
        DEF Coherent, LifeStep, Flying, Held, histVars
      <4>4. CASE state[o] \notin InFlight
        BY <3>2, <4>1, <4>2, <4>4, TableFacts
        DEF Coherent, LifeStep, Flying, Held, histVars
      <4>5. QED
        BY <4>3, <4>4
    <3>8. CancellationReachesChildren'
      <4>1. \A o \in Operations : state'[o] = "CANCELLED" => state[o] = "CANCELLED"
        BY <3>2
      <4>2. QED
        BY <3>2, <3>5, <3>7, <4>1, ChildrenStayReached DEF histVars
    <3>9. QED
      BY <3>2, <3>5, <3>6, <3>7, <3>8 DEF Good, IInv
  <2>4. QED
    BY <1>6, <2>2, <2>3 DEF Recover
<1>7. CASE Shutdown
  <2>1. \A o \in queue : state[o] \in InFlight =>
          (o \in queue' <=> o \notin Cancelled(queue))
    BY <1>1, <1>7, CancelledFacts DEF Shutdown, TypeOK
  <2>2. QED
    BY <1>7, <2>1, CancelIsGood DEF Shutdown
<1>8. QED
  BY <1>3, <1>4, <1>5, <1>6, <1>7

-----------------------------------------------------------------------------
(* The theorems *)

LEMMA InitIsGood == Init => IInv
<1> SUFFICES ASSUME Init
             PROVE  IInv
  OBVIOUS
<1>1. TypeOK
  <2>1. 0 \in 0..(MaxRecoveries + 1)
    BY BoundsAssumption
  <2>2. /\ state \in [Operations -> Lifecycle!States \union {"NONE"}]
        /\ result \in [Operations -> Terminal \union {"NONE"}]
        /\ work \in [Operations -> Works]
        /\ request \in [Operations -> Requests]
    BY DEF Init, Works, Requests
  <2>3. /\ evidence \in [Operations -> Operations \union {0}]
        /\ parent \in [Operations -> Operations \union {0}]
    BY DEF Init
  <2>4. QED
    BY <2>1, <2>2, <2>3 DEF Init, TypeOK, RuntimeStates
<1>2. \A o \in Operations : Coherent(o)
  BY TableFacts DEF Init, Coherent, Flying
<1>3. Cardinality(running) <= MaxConcurrent
  BY FS_EmptySet, BoundsAssumption DEF Init
<1>4. NoIdleSlot /\ CancellationReachesChildren
  BY DEF Init, NoIdleSlot, CancellationReachesChildren
<1>5. QED
  BY <1>1, <1>2, <1>3, <1>4 DEF IInv

LEMMA StepIsGood == IInv /\ [Next]_vars => Good
<1> SUFFICES ASSUME IInv, [Next]_vars
             PROVE  Good
  OBVIOUS
<1>1. CASE \E o \in Operations : Create(o) \/ Work(o) \/ Call(o)
  BY <1>1, CreateIsGood, WorkIsGood, CallIsGood
<1>2. CASE Initialize \/ Suspend \/ Resume \/ Recover \/ Shutdown
  BY <1>2, LifeIsGood
<1>3. CASE UNCHANGED vars
  <2>1. ApprovalsStay
    BY <1>3 DEF ApprovalsStay, vars, opVars
  <2>2. \A o \in Operations : Coherent(o)' /\ LifeStep(o)
    BY <1>3, <2>1, OthersStayCoherent DEF vars, opVars, histVars
  <2>3. TypeOK'
    BY <1>3 DEF IInv, TypeOK, vars, opVars, histVars
  <2>4. QED
    BY <1>3, <2>2, <2>3, StillIsGood DEF vars, opVars, histVars
<1>4. QED
  BY <1>1, <1>2, <1>3 DEF Next

\* The inductive invariant of the runtime's operations, and what every step of
\* an operation keeps.
THEOREM Invariance == Spec => []IInv /\ [][Good]_vars
<1>1. IInv /\ [Next]_vars => IInv'
  BY StepIsGood DEF Good
<1>2. QED
  BY <1>1, InitIsGood, StepIsGood, PTL DEF Spec

\* Every variable has its type in every reachable state: a result is always that
\* of an operation that ended, whatever the table refused.
THEOREM TypeCorrect == Spec => []TypeOK
<1>1. IInv => TypeOK
  BY DEF IInv
<1>2. QED
  BY <1>1, Invariance, PTL

\* An operation in flight is queued, worked on, or waits for an approval, unless
\* the call that created it threw half-way.
THEOREM OperationsAreNotForgotten == Spec => []NothingIsForgotten
<1>1. IInv => NothingIsForgotten
  BY DEF IInv, Coherent, NothingIsForgotten
<1>2. QED
  BY <1>1, Invariance, PTL

\* There are never more than maximumConcurrentOperations, and every slot is held
\* by work that gives it back.
THEOREM SlotsAreSafe == Spec => []SlotsAreHeldByWork
<1>1. IInv => SlotsAreHeldByWork
  BY DEF IInv, TypeOK, Coherent, SlotsAreHeldByWork
<1>2. QED
  BY <1>1, Invariance, PTL

\* Work waits in the queue of a runtime in service only while every slot is taken.
THEOREM SlotsAreUsed == Spec => []NoIdleSlot
<1>1. IInv => NoIdleSlot
  BY DEF IInv
<1>2. QED
  BY <1>1, Invariance, PTL

\* No operation that has a handler succeeds without it, nor a protected one
\* without an approved request or a policy that waives it.
THEOREM SuccessNeedsHandler == Spec => []SuccessIsEarned
<1>1. IInv => SuccessIsEarned
  BY DEF IInv, Coherent, SuccessIsEarned
<1>2. QED
  BY <1>1, Invariance, PTL

\* No child created before its parent ended is in flight under a cancelled parent.
THEOREM ChildrenAreCancelled == Spec => []CancellationReachesChildren
<1>1. IInv => CancellationReachesChildren
  BY DEF IInv
<1>2. QED
  BY <1>1, Invariance, PTL

\* The runtime implements the life cycle of an operation: every step takes each
\* operation along the table or leaves it where it is.
THEOREM Refinement == Spec => KeepsLifecycle
<1>1. Init => Lifecycle!Init
  BY DEF Init, Lifecycle!Init
<1>2. IInv /\ Good => [Lifecycle!Next]_state
  BY DEF Good, IInv, TypeOK, LifeStep, Lifecycle!Next, InFlight
<1>3. IInv /\ [Next]_vars => [Lifecycle!Next]_state
  BY <1>2, StepIsGood
<1>4. IInv /\ [Next]_vars => IInv'
  BY StepIsGood DEF Good
<1>5. QED
  BY <1>1, <1>3, <1>4, InitIsGood, PTL DEF Spec, KeepsLifecycle, Lifecycle!Spec
=============================================================================
