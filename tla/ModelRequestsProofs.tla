------------------------ MODULE ModelRequestsProofs ------------------------
(* Proofs about ModelRequests, for every set of models and requests, every *)
(* policy of a request and every bound on fallbacks and retries.           *)
EXTENDS ModelRequests, FiniteSetTheorems, WellFoundedInduction, TLAPS

-----------------------------------------------------------------------------
(* The fallback order *)

\* A set of models has a first one, which is one of them.
LEMMA LeastIsMember ==
  ASSUME NEW models \in SUBSET Models, models # {}
  PROVE  Least(models) \in models
<1>1. PICK m \in models : \A n \in models : ~(<<n, m>> \in OpToRel(<, Nat))
  BY ModelsAssumption, NatLessThanWellFounded, WFMin, Zenon
<1>2. \A n \in models : <<n, m>> \in Nat \X Nat
  BY ModelsAssumption
<1>3. \A n \in models : ~(n < m)
  BY <1>1, <1>2, Zenon DEF OpToRel
<1>4. \A n \in models : m <= n
  BY <1>3, ModelsAssumption
<1>5. QED
  BY <1>4, Zenon DEF Least

\* However many candidates a request has, it is sent to at most Most of them: the
\* number of candidates before each counts them along an interval.
LEMMA FallbackOrderFacts ==
  ASSUME GatewayTypeOK, NEW r \in Requests, NEW only
  PROVE  /\ FallbackOrder(r, only) \in SUBSET (Models \intersect Suits(r))
         /\ IsFiniteSet(FallbackOrder(r, only))
         /\ Cardinality(FallbackOrder(r, only)) <= Most(r)
<1> DEFINE found == Candidates(r, only)
           Ahead(m) == {n \in found : n < m}
           order == FallbackOrder(r, only)
           place == [m \in order |-> Cardinality(Ahead(m))]
<1>1. found \in SUBSET Models /\ found \subseteq Suits(r) /\ IsFiniteSet(found)
  <2>1. found \in SUBSET Models /\ found \subseteq Suits(r)
    BY DEF Candidates, GatewayTypeOK
  <2>2. QED
    BY <2>1, ModelsAssumption, FS_Subset
<1>2. order = {m \in found : Cardinality(Ahead(m)) < Most(r)}
  BY DEF FallbackOrder
<1> HIDE DEF found
<1>3. order \in SUBSET found /\ IsFiniteSet(order)
  BY <1>1, <1>2, FS_Subset
<1>4. \A m \in found : IsFiniteSet(Ahead(m)) /\ Cardinality(Ahead(m)) \in Nat
  <2> SUFFICES ASSUME NEW m \in found
               PROVE  IsFiniteSet(Ahead(m)) /\ Cardinality(Ahead(m)) \in Nat
    OBVIOUS
  <2>1. Ahead(m) \in SUBSET found
    OBVIOUS
  <2>2. QED
    BY <1>1, <2>1, FS_Subset, FS_CardinalityType
<1>5. \A m, n \in found : m < n => Cardinality(Ahead(m)) < Cardinality(Ahead(n))
  <2> SUFFICES ASSUME NEW m \in found, NEW n \in found, m < n
               PROVE  Cardinality(Ahead(m)) < Cardinality(Ahead(n))
    OBVIOUS
  <2>1. \A k \in found : k \in Nat
    BY <1>1, ModelsAssumption
  <2>2. Ahead(m) \in SUBSET Ahead(n) /\ m \in Ahead(n) /\ m \notin Ahead(m)
    BY <2>1
  <2>3. /\ Cardinality(Ahead(m)) <= Cardinality(Ahead(n))
        /\ Cardinality(Ahead(n)) = Cardinality(Ahead(m)) => Ahead(n) = Ahead(m)
    BY <1>4, <2>2, FS_Subset
  <2>4. Cardinality(Ahead(m)) # Cardinality(Ahead(n))
    BY <2>2, <2>3
  <2> HIDE DEF Ahead
  <2>5. QED
    BY <1>4, <2>3, <2>4
<1>6. Most(r) \in Nat
  BY ModelsAssumption DEF Most
<1> HIDE DEF order, Ahead
<1>7. place \in Injection(order, 0..(Most(r) - 1))
  <2>1. place \in [order -> 0..(Most(r) - 1)]
    BY <1>2, <1>3, <1>4, <1>6
  <2>2. \A m, n \in order : place[m] = place[n] => m = n
    <3> SUFFICES ASSUME NEW m \in order, NEW n \in order, m # n
                 PROVE  place[m] # place[n]
      OBVIOUS
    <3>1. m \in found /\ n \in found /\ (m < n \/ n < m)
      BY <1>1, <1>3, ModelsAssumption
    <3>2. QED
      BY <1>4, <1>5, <3>1
  <2>3. QED
    BY <2>1, <2>2 DEF Injection, IsInjective
<1>8. IsFiniteSet(0..(Most(r) - 1)) /\ Cardinality(0..(Most(r) - 1)) = Most(r)
  BY <1>6, FS_Interval
<1>9. Cardinality(order) <= Most(r)
  BY <1>7, <1>8, FS_Injection
<1>10. QED
  BY <1>1, <1>3, <1>9 DEF order

-----------------------------------------------------------------------------
(* The inductive invariant *)

RequestRecords ==
  [state : RequestStates, only : Models \union {NoModel}, model : Models \union {NoModel},
   todo : SUBSET Models, at : Places, retry : 0..MaximumRetries, sent : Nat,
   suits : SUBSET Models, used : 0..1]

\* The calls of adapters that are left to a request that waits for one: its
\* retries, and all calls of the models that may follow.
CallsLeft(q) == Cardinality(q.todo) * (MaximumRetries + 1) + (MaximumRetries - q.retry)

\* What is always so of a request of r: who may be asked, what was spent, and
\* that it has ended when its usage is recorded.
Coherent(r, q) ==
  /\ q \in RequestRecords
  /\ q.model # NoModel => q.model \in q.suits
  /\ q.todo \subseteq q.suits
  /\ q.used = 1 <=> q.state = "SUCCEEDED"
  /\ q.state = "SUCCEEDED" => q.at = "returned"
  /\ q.sent <= Most(r) * (MaximumRetries + 1)
  /\ q.at \in {"calling", "aborting"} =>
       q.sent + CallsLeft(q) <= Most(r) * (MaximumRetries + 1)

GatewayInv == GatewayTypeOK /\ \A r \in Requests : Coherent(r, request[r])

\* A request costs nothing before it is sent.
LEMMA NoRequestCoherent == \A r \in Requests : Coherent(r, NoRequest)
<1> SUFFICES ASSUME NEW r \in Requests
             PROVE  Coherent(r, NoRequest)
  OBVIOUS
<1>1. Most(r) \in Nat /\ MaximumRetries \in Nat
  BY ModelsAssumption DEF Most
<1>2. 0 <= Most(r) * (MaximumRetries + 1)
  BY <1>1
<1>3. NoRequest \in RequestRecords
  BY <1>1 DEF NoRequest, RequestRecords, RequestStates, Places
<1>4. QED
  BY <1>2, <1>3 DEF Coherent, NoRequest

\* Sending a request to its next model spends one call, and none of those that
\* were left to the model before it.
LEMMA SentCoherent ==
  ASSUME NEW r \in Requests, NEW q \in RequestRecords, q.todo # {},
         q.model # NoModel => q.model \in q.suits, q.todo \subseteq q.suits,
         q.used = 0, q.state # "SUCCEEDED",
         q.sent + Cardinality(q.todo) * (MaximumRetries + 1) <= Most(r) * (MaximumRetries + 1)
  PROVE  Coherent(r, Sent(q))
<1> DEFINE m == Least(q.todo)
           left == Cardinality(q.todo)
           K == MaximumRetries + 1
           B == Most(r) * K
<1>1. q.todo \in SUBSET Models /\ q.sent \in Nat
  BY DEF RequestRecords
<1>2. m \in q.todo /\ m \in Models
  BY <1>1, LeastIsMember
<1>3. /\ IsFiniteSet(q.todo) /\ left \in Nat
      /\ IsFiniteSet(q.todo \ {m}) /\ Cardinality(q.todo \ {m}) = left - 1
      /\ left - 1 \in Nat
  <2>1. IsFiniteSet(q.todo) /\ left \in Nat
    BY <1>1, ModelsAssumption, FS_Subset, FS_CardinalityType
  <2>2. IsFiniteSet(q.todo \ {m}) /\ Cardinality(q.todo \ {m}) = left - 1
    BY <1>2, <2>1, FS_RemoveElement
  <2>3. left - 1 \in Nat
    BY <2>2, FS_CardinalityType
  <2>4. QED
    BY <2>1, <2>2, <2>3
<1>4. K \in Nat /\ K - 1 = MaximumRetries /\ MaximumRetries \in Nat
  BY ModelsAssumption
<1>5. Most(r) \in Nat
  BY ModelsAssumption DEF Most
<1> HIDE DEF m, left
<1>6. left * K \in Nat /\ (left - 1) * K \in Nat /\ (left - 1) * K = left * K - K /\ B \in Nat
  BY <1>3, <1>4, <1>5
<1>7. CASE m \in registered
  <2> DEFINE t == [q EXCEPT !.model = m, !.todo = @ \ {m}, !.at = "calling", !.retry = 0,
                            !.sent = @ + 1]
  <2>1. Sent(q) = t
    BY <1>7 DEF Sent, m
  <2>2. t \in RequestRecords
    <3>1. m \in Models \union {NoModel} /\ q.todo \ {m} \in SUBSET Models
      BY <1>1, <1>2
    <3>2. q.sent + 1 \in Nat /\ 0 \in 0..MaximumRetries
      BY <1>1, <1>4
    <3>3. QED
      BY <3>1, <3>2 DEF RequestRecords, Places
  <2>3. /\ t.model = m /\ t.todo = q.todo \ {m} /\ t.used = 0 /\ t.state = q.state
        /\ t.sent = q.sent + 1 /\ t.retry = 0 /\ t.suits = q.suits
    BY DEF RequestRecords
  <2> HIDE DEF t
  <2>4. q.sent + left * K <= B
    BY DEF left
  <2> HIDE DEF K, B
  <2>5. t.sent + ((left - 1) * K + (MaximumRetries - t.retry)) <= B
    BY <1>1, <1>4, <1>6, <2>3, <2>4
  <2>6. t.sent + CallsLeft(t) <= B
    BY <1>3, <2>3, <2>5 DEF CallsLeft, K
  <2>7. t.sent <= B
    BY <1>1, <1>4, <1>6, <2>3, <2>5
  <2>8. QED
    BY <1>2, <2>1, <2>2, <2>3, <2>6, <2>7 DEF Coherent, B, K
<1>8. CASE m \notin registered
  <2>1. Sent(q) = [q EXCEPT !.at = "threw"]
    BY <1>8 DEF Sent, m
  <2>2. q.sent + left * K <= B
    BY DEF left
  <2> HIDE DEF K, B
  <2>3. q.sent <= B
    BY <1>1, <1>6, <2>2
  <2>4. QED
    BY <2>1, <2>3 DEF Coherent, RequestRecords, Places, B, K
<1>9. QED
  BY <1>7, <1>8

\* finishRequest with a state other than SUCCEEDED, of a request that was not used.
LEMMA FinishedCoherent ==
  ASSUME NEW r \in Requests, NEW q \in RequestRecords,
         NEW end \in EndStates \ {"SUCCEEDED"}, q.used = 0,
         q.model # NoModel => q.model \in q.suits,
         q.sent <= Most(r) * (MaximumRetries + 1)
  PROVE  Coherent(r, Finished(q, end))
<1>1. 0 \in 0..MaximumRetries
  BY ModelsAssumption
<1>2. Finished(q, end) \in RequestRecords
  BY <1>1 DEF Finished, RequestRecords, RequestStates, EndStates, Places
<1>3. QED
  BY <1>2 DEF Coherent, Finished, RequestRecords, EndStates

\* executeRequest up to its first await makes no more calls than it may.
LEMMA ExecutedCoherent ==
  ASSUME GatewayTypeOK, NEW r \in Requests, NEW only \in Models \union {NoModel}
  PROVE  Coherent(r, Executed(r, only))
<1> DEFINE order == FallbackOrder(r, only)
           q == [NoRequest EXCEPT !.state = "RUNNING", !.only = only, !.todo = order,
                             !.suits = Suits(r)]
<1>1. order \in SUBSET Models /\ order \subseteq Suits(r) /\ Cardinality(order) <= Most(r)
      /\ Cardinality(order) \in Nat
  BY FallbackOrderFacts, FS_CardinalityType
<1>2. Most(r) \in Nat /\ MaximumRetries \in Nat
  BY ModelsAssumption DEF Most
<1>3. Executed(r, only) = IF order = {} THEN Finished(q, "FAILED") ELSE Sent(q)
  BY DEF Executed
<1> HIDE DEF order
<1>4. q \in RequestRecords
  <2>1. NoRequest \in RequestRecords
    BY NoRequestCoherent DEF Coherent
  <2>2. Suits(r) \in SUBSET Models
    BY DEF Suits
  <2>3. QED
    BY <1>1, <2>1, <2>2 DEF RequestRecords, RequestStates
<1>5. /\ q.model = NoModel /\ q.todo = order /\ q.used = 0 /\ q.sent = 0 /\ q.state = "RUNNING"
      /\ q.suits = Suits(r)
  BY DEF NoRequest
<1> HIDE DEF q
<1>6. /\ Cardinality(order) * (MaximumRetries + 1) <= Most(r) * (MaximumRetries + 1)
      /\ Cardinality(order) * (MaximumRetries + 1) \in Nat
      /\ Most(r) * (MaximumRetries + 1) \in Nat
  BY <1>1, <1>2
<1>7. CASE order = {}
  <2>1. Coherent(r, Finished(q, "FAILED"))
    BY <1>4, <1>5, <1>6, FinishedCoherent DEF EndStates
  <2>2. QED
    BY <1>3, <1>7, <2>1
<1>8. CASE order # {}
  <2>1. Coherent(r, Sent(q))
    BY <1>1, <1>4, <1>5, <1>6, <1>8, SentCoherent
  <2>2. QED
    BY <1>3, <1>8, <2>1
<1>9. QED
  BY <1>7, <1>8

-----------------------------------------------------------------------------
(* Every step keeps the invariant *)

\* The models may change as they like under the requests.
LEMMA RequestsStay ==
  ASSUME GatewayInv, request' = request,
         registered' \subseteq Models, enabled' \subseteq Models, healthy' \subseteq Models,
         accepts' \in [Models -> SUBSET {Kind[r] : r \in Requests}],
         commands' \in 0..MaxCommands
  PROVE  GatewayInv'
  BY DEF GatewayInv, GatewayTypeOK

\* A step that changes one request to a coherent one.
LEMMA RequestChanges ==
  ASSUME GatewayInv, NEW r \in Requests, NEW q, Coherent(r, q),
         request' = [request EXCEPT ![r] = q],
         UNCHANGED <<registered, enabled, healthy, accepts>>, commands' \in 0..MaxCommands
  PROVE  GatewayInv'
<1>1. request \in [Requests -> RequestRecords] /\ q \in RequestRecords
  BY DEF GatewayInv, GatewayTypeOK, RequestRecords, Coherent
<1>2. request' \in [Requests -> RequestRecords]
  BY <1>1
<1>3. \A s \in Requests : request'[s] = IF s = r THEN q ELSE request[s]
  BY <1>1
<1>4. \A s \in Requests : Coherent(s, request'[s])
  BY <1>3 DEF GatewayInv
<1>5. GatewayTypeOK'
  BY <1>2 DEF GatewayInv, GatewayTypeOK, RequestRecords
<1>6. QED
  BY <1>4, <1>5 DEF GatewayInv, Coherent

\* A client's call counts as one.
LEMMA CommandCounts ==
  ASSUME GatewayInv, Command
  PROVE  commands' \in 0..MaxCommands
  BY ModelsAssumption DEF GatewayInv, GatewayTypeOK, Command

\* The adapter's answer ends the request and is its only usage.
LEMMA AnswerSafe ==
  ASSUME GatewayInv, NEW r \in Requests, Answer(r)
  PROVE  GatewayInv'
<1> DEFINE q == Answered(request[r])
<1>1. Coherent(r, request[r]) /\ request[r] \in RequestRecords
  BY DEF GatewayInv, Coherent
<1>2. 0 \in 0..MaximumRetries
  BY ModelsAssumption
<1>3. q \in RequestRecords
  <2>1. Finished(request[r], "SUCCEEDED") \in RequestRecords
    BY <1>1, <1>2 DEF Finished, RequestRecords, RequestStates, Places
  <2>2. QED
    BY <2>1 DEF Answered, RequestRecords
<1>4. Coherent(r, q)
  BY <1>1, <1>3 DEF Answered, Finished, Coherent, RequestRecords
<1>5. request' = [request EXCEPT ![r] = q] /\ UNCHANGED <<registered, enabled, healthy, accepts, commands>>
  BY DEF Answer
<1> HIDE DEF q
<1>6. QED
  BY <1>4, <1>5, RequestChanges DEF GatewayInv, GatewayTypeOK

\* After an error a request spends a retry, or the calls of its next model, or none.
LEMMA RefaultedCoherent ==
  ASSUME GatewayInv, NEW r \in Requests, Waiting(r),
         NEW category \in Categories, NEW retryable \in BOOLEAN
  PROVE  Coherent(r, Refaulted(request[r], category, retryable))
<1> DEFINE q == request[r]
           again == retryable /\ q.retry < MaximumRetries /\ category \notin NeverRetried
           B == Most(r) * (MaximumRetries + 1)
<1>1. /\ Coherent(r, q) /\ q \in RequestRecords
      /\ q.at \in {"calling", "aborting"} /\ q.state # "SUCCEEDED" /\ q.used = 0
      /\ q.sent + CallsLeft(q) <= B /\ q.sent <= B
      /\ (q.model # NoModel => q.model \in q.suits) /\ q.todo \subseteq q.suits
  <2>1. Coherent(r, q)
    BY DEF GatewayInv
  <2>2. q.at \in {"calling", "aborting"}
    BY DEF Waiting
  <2>3. q.used \in 0..1
    BY <2>1 DEF Coherent, RequestRecords
  <2> HIDE DEF q, B
  <2>4. QED
    BY <2>1, <2>2, <2>3 DEF Coherent, B
<1> SUFFICES Coherent(r, Refaulted(q, category, retryable))
  OBVIOUS
<1> HIDE DEF q
<1>2. /\ q.retry \in 0..MaximumRetries /\ q.sent \in Nat /\ MaximumRetries \in Nat
      /\ Cardinality(q.todo) * (MaximumRetries + 1) \in Nat /\ B \in Nat
  <2>1. q.todo \in SUBSET Models /\ q.retry \in 0..MaximumRetries /\ q.sent \in Nat
    BY <1>1 DEF RequestRecords
  <2>2. Cardinality(q.todo) \in Nat
    BY <2>1, ModelsAssumption, FS_Subset, FS_CardinalityType
  <2>3. QED
    BY <2>1, <2>2, ModelsAssumption DEF Most
<1>3. CASE again
  <2> DEFINE t == [q EXCEPT !.state = "RETRYING", !.at = "calling", !.retry = @ + 1, !.sent = @ + 1]
  <2>1. Refaulted(q, category, retryable) = t
    BY <1>3 DEF Refaulted
  <2>2. q.retry + 1 \in 0..MaximumRetries /\ q.sent + 1 \in Nat
    BY <1>2, <1>3
  <2>3. t \in RequestRecords
    BY <1>1, <2>2 DEF RequestRecords, RequestStates, Places
  <2>4. /\ t.model = q.model /\ t.todo = q.todo /\ t.used = q.used /\ t.state = "RETRYING"
        /\ t.sent = q.sent + 1 /\ t.retry = q.retry + 1 /\ t.suits = q.suits
    BY <1>1 DEF RequestRecords
  <2> HIDE DEF t, B
  <2>5. t.sent + CallsLeft(t) = q.sent + CallsLeft(q)
    BY <1>2, <2>4 DEF CallsLeft
  <2>6. t.sent <= B
    BY <1>1, <1>2, <2>2, <2>4, <2>5 DEF CallsLeft
  <2>7. QED
    BY <1>1, <2>1, <2>3, <2>4, <2>5, <2>6 DEF Coherent, B
<1>4. CASE ~again /\ q.todo # {}
  <2>1. Refaulted(q, category, retryable) = Sent(q)
    BY <1>4 DEF Refaulted
  <2>2. q.sent + Cardinality(q.todo) * (MaximumRetries + 1) <= B
    BY <1>1, <1>2 DEF CallsLeft
  <2>3. QED
    BY <1>1, <1>4, <2>1, <2>2, SentCoherent
<1>5. CASE ~again /\ q.todo = {}
  <2>1. Refaulted(q, category, retryable) = Finished(q, StateOf(category))
    BY <1>5 DEF Refaulted
  <2>2. StateOf(category) \in EndStates \ {"SUCCEEDED"}
    BY DEF StateOf, EndStates, Categories
  <2>3. QED
    BY <1>1, <2>1, <2>2, FinishedCoherent
<1>6. QED
  BY <1>3, <1>4, <1>5

LEMMA FaultSafe ==
  ASSUME GatewayInv, NEW r \in Requests,
         NEW category \in Categories, NEW retryable \in BOOLEAN, Fault(r, category, retryable)
  PROVE  GatewayInv'
<1>1. Waiting(r) /\ UNCHANGED <<registered, enabled, healthy, accepts, commands>>
      /\ request' = [request EXCEPT ![r] = Refaulted(request[r], category, retryable)]
  BY DEF Fault
<1>2. QED
  BY <1>1, RefaultedCoherent, RequestChanges DEF GatewayInv, GatewayTypeOK

\* Cancelling a request that has not ended spends nothing and earns nothing.
LEMMA CancelRequestSafe ==
  ASSUME GatewayInv, NEW r \in Requests, CancelRequest(r)
  PROVE  GatewayInv'
<1>1. commands' \in 0..MaxCommands /\ UNCHANGED <<registered, enabled, healthy, accepts>>
  BY CommandCounts DEF CancelRequest
<1>2. PICK aborts \in BOOLEAN : request' = Cancelled(r, aborts)
  BY DEF CancelRequest
<1>3. CASE request[r].state \in EndStates
  <2>1. request' = request
    BY <1>2, <1>3 DEF Cancelled
  <2>2. QED
    BY <1>1, <2>1, RequestsStay DEF GatewayInv, GatewayTypeOK
<1>4. CASE request[r].state \notin EndStates
  <2> DEFINE q == request[r]
             t == [q EXCEPT !.state = "CANCELLED",
                            !.at = IF @ = "calling" /\ aborts THEN "aborting" ELSE @]
  <2>1. Coherent(r, q) /\ q \in RequestRecords /\ request \in [Requests -> RequestRecords]
    BY DEF GatewayInv, Coherent, GatewayTypeOK, RequestRecords
  <2>2. request' = [request EXCEPT ![r] = t]
    BY <1>2, <1>4, <2>1 DEF Cancelled
  <2> HIDE DEF q
  <2>3. t \in RequestRecords
    BY <2>1 DEF RequestRecords, RequestStates, Places
  <2>4. /\ t.model = q.model /\ t.todo = q.todo /\ t.used = q.used /\ t.state = "CANCELLED"
        /\ t.sent = q.sent /\ t.retry = q.retry /\ t.suits = q.suits
        /\ t.at \in {"calling", "aborting"} => q.at \in {"calling", "aborting"}
    BY <2>1 DEF RequestRecords
  <2>5. q.used = 0
    BY <1>4, <2>1 DEF q, Coherent, RequestRecords, EndStates
  <2> HIDE DEF t
  <2>6. CallsLeft(t) = CallsLeft(q)
    BY <2>4 DEF CallsLeft
  <2>7. Coherent(r, t)
    BY <2>1, <2>3, <2>4, <2>5, <2>6 DEF Coherent
  <2>8. QED
    BY <1>1, <2>2, <2>7, RequestChanges
<1>5. QED
  BY <1>3, <1>4

LEMMA CompleteSafe ==
  ASSUME GatewayInv, NEW r \in Requests, Complete(r)
  PROVE  GatewayInv'
<1>1. Coherent(r, Executed(r, NoModel))
  BY ExecutedCoherent DEF GatewayInv
<1>2. QED
  BY <1>1, CommandCounts, RequestChanges DEF Complete

LEMMA SubmitSafe ==
  ASSUME GatewayInv, NEW r \in Requests, Submit(r)
  PROVE  GatewayInv'
<1> DEFINE q == request[r]
           t == [q EXCEPT !.state = "QUEUED"]
<1>1. Coherent(r, q) /\ q \in RequestRecords /\ request \in [Requests -> RequestRecords]
  BY DEF GatewayInv, Coherent, GatewayTypeOK, RequestRecords
<1>2. request' = [request EXCEPT ![r] = t] /\ q.state = "NONE"
  BY <1>1 DEF Submit
<1> HIDE DEF q
<1>3. t \in RequestRecords
  BY <1>1 DEF RequestRecords, RequestStates
<1>4. Coherent(r, t)
  BY <1>1, <1>2, <1>3 DEF Coherent, CallsLeft, RequestRecords
<1> HIDE DEF t
<1>5. QED
  BY <1>2, <1>4, CommandCounts, RequestChanges DEF Submit

LEMMA RetryRequestSafe ==
  ASSUME GatewayInv, NEW r \in Requests, NEW s \in Requests, RetryRequest(r, s)
  PROVE  GatewayInv'
<1> DEFINE only == IF request[r].model # NoModel THEN request[r].model ELSE request[r].only
<1>1. only \in Models \union {NoModel}
  BY DEF GatewayInv, GatewayTypeOK
<1>2. request' = [request EXCEPT ![s] = Executed(s, only)]
  BY DEF RetryRequest
<1> HIDE DEF only
<1>3. Coherent(s, Executed(s, only))
  BY <1>1, ExecutedCoherent DEF GatewayInv
<1>4. QED
  BY <1>2, <1>3, CommandCounts, RequestChanges DEF RetryRequest

LEMMA AdapterNextSafe ==
  ASSUME GatewayInv, AdapterNext
  PROVE  GatewayInv'
  BY AnswerSafe, FaultSafe DEF AdapterNext

LEMMA ProviderNextSafe ==
  ASSUME GatewayInv, ProviderNext
  PROVE  GatewayInv'
<1>1. PICK m \in Models : \/ EnableProvider(m)
                         \/ DisableProvider(m)
                         \/ HealthCheck(m)
                         \/ UpdateProvider(m)
                         \/ UnregisterProvider(m)
                         \/ RegisterProvider(m)
  BY DEF ProviderNext
<1>2. Command /\ request' = request
  BY <1>1 DEF EnableProvider, DisableProvider, HealthCheck, UpdateProvider, UnregisterProvider,
     RegisterProvider
<1>3. registered' \subseteq Models /\ enabled' \subseteq Models /\ healthy' \subseteq Models
  BY <1>1 DEF GatewayInv, GatewayTypeOK, EnableProvider, DisableProvider, HealthCheck,
     UpdateProvider, UnregisterProvider, RegisterProvider
<1>4. accepts' \in [Models -> SUBSET {Kind[r] : r \in Requests}]
  <2>1. accepts \in [Models -> SUBSET {Kind[r] : r \in Requests}]
    BY DEF GatewayInv, GatewayTypeOK
  <2>2. ASSUME NEW kinds \in Settings, accepts' = [accepts EXCEPT ![m] = kinds]
        PROVE  accepts' \in [Models -> SUBSET {Kind[r] : r \in Requests}]
    <3>1. kinds \in SUBSET {Kind[r] : r \in Requests}
      BY ModelsAssumption
    <3>2. QED
      BY <2>1, <2>2, <3>1
  <2>3. accepts' = accepts \/ \E kinds \in Settings : accepts' = [accepts EXCEPT ![m] = kinds]
    BY <1>1 DEF EnableProvider, DisableProvider, HealthCheck, UpdateProvider, UnregisterProvider,
       RegisterProvider
  <2>4. QED
    BY <2>1, <2>2, <2>3
<1>5. QED
  BY <1>2, <1>3, <1>4, CommandCounts, RequestsStay

LEMMA ClientNextSafe ==
  ASSUME GatewayInv, NEW own \in SUBSET Requests, ClientNext(own)
  PROVE  GatewayInv'
  BY CompleteSafe, SubmitSafe, RetryRequestSafe, CancelRequestSafe DEF ClientNext

-----------------------------------------------------------------------------
(* The theorems *)

LEMMA GatewayInitSafe == GatewayInit => GatewayInv
<1> SUFFICES ASSUME GatewayInit
             PROVE  GatewayInv
  OBVIOUS
<1>1. \A r \in Requests : Coherent(r, request[r])
  BY NoRequestCoherent DEF GatewayInit
<1>2. request \in [Requests -> RequestRecords]
  BY NoRequestCoherent DEF GatewayInit, Coherent
<1>3. GatewayTypeOK
  BY <1>2, ModelsAssumption DEF GatewayInit, GatewayTypeOK, RequestRecords
<1>4. QED
  BY <1>1, <1>3 DEF GatewayInv

LEMMA GatewayInvariant == GatewaySpec => []GatewayInv
<1>1. GatewayInv /\ [AdapterNext \/ ProviderNext \/ ClientNext(Requests)]_<<gatewayVars, commands>>
        => GatewayInv'
  <2>1. ASSUME GatewayInv, UNCHANGED <<gatewayVars, commands>>
        PROVE  GatewayInv'
    BY <2>1, RequestsStay DEF gatewayVars, GatewayInv, GatewayTypeOK
  <2>2. QED
    BY <2>1, AdapterNextSafe, ProviderNextSafe, ClientNextSafe
<1>2. QED
  BY <1>1, GatewayInitSafe, PTL DEF GatewaySpec

\* Requests, models and what a request remembers keep their types.
THEOREM GatewayTypeCorrect == GatewaySpec => []GatewayTypeOK
<1>1. GatewayInv => GatewayTypeOK
  BY DEF GatewayInv
<1>2. QED
  BY <1>1, GatewayInvariant, PTL

\* No request is sent to a model that refused it when it was routed, whatever
\* failed, was cancelled, retried or registered anew since, and whatever settings
\* the models were given.
THEOREM PolicyKept == GatewaySpec => []PolicyIsKept
<1>1. GatewayInv => PolicyIsKept
  BY DEF GatewayInv, Coherent, PolicyIsKept
<1>2. QED
  BY <1>1, GatewayInvariant, PTL

\* Usage is recorded for the requests that succeeded and for no other.
THEOREM UsageEarned == GatewaySpec => []UsageIsEarned
<1>1. GatewayInv => UsageIsEarned
  BY DEF GatewayInv, Coherent, UsageIsEarned
<1>2. QED
  BY <1>1, GatewayInvariant, PTL

\* No request costs more calls than its fallback order and its retries allow,
\* however often it is cancelled and whatever becomes of the models.
THEOREM CallsBounded == GatewaySpec => []CallsAreBounded
<1>1. GatewayInv => CallsAreBounded
  BY DEF GatewayInv, Coherent, CallsAreBounded
<1>2. QED
  BY <1>1, GatewayInvariant, PTL
=============================================================================
