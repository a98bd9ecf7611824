--------------------------- MODULE ModelRequests ---------------------------
(***************************************************************************)
(* The requests of src/src/model-provider-gateway.js: routing one over     *)
(* the models that suit it, calling the adapters of their providers one    *)
(* after the other, with retries, cancelling and retrying it, while        *)
(* providers are enabled, disabled, checked and unregistered.              *)
(*                                                                         *)
(* Each model is the only one of its provider.  A request that streams     *)
(* is not told from one that completes: RUNNING stands for STREAMING.      *)
(* An adapter is external; the two of src/providers end a call that the    *)
(* HTTP transport aborts with an error of category CANCELLATION.           *)
(***************************************************************************)
EXTENDS Naturals, FiniteSets

CONSTANTS
  Requests,         \* every request of a behaviour
  Models,           \* the models ever registered, numbers in the order of their
                    \* identifiers
  NoModel,          \* none of them
  Kind,             \* what each request is to be accepted for: its classification,
                    \* length and the capabilities it requires
  Accepts,          \* for each model the kinds it accepts at first
  Settings,         \* the kinds that settings a model may be given accept
  Single,           \* requests that are EXPLICIT or allow no fallback
  MaximumFallback,  \* bounds.maximumFallbackProviders
  MaximumRetries,   \* retryLimit: the least of three settings
  MaxCommands       \* bound of the model: calls by clients, without answers

ASSUME ModelsAssumption ==
  /\ Models \subseteq Nat /\ IsFiniteSet(Models) /\ NoModel \notin Models
  /\ Accepts \in [Models -> SUBSET {Kind[r] : r \in Requests}]
  /\ Settings \subseteq SUBSET {Kind[r] : r \in Requests} /\ Single \subseteq Requests
  /\ MaximumFallback \in Nat \ {0} /\ MaximumRetries \in Nat /\ MaxCommands \in Nat

VARIABLES
  registered,  \* the models in gateway.models (and providers, adapters)
  enabled,     \* provider.enabled
  healthy,     \* provider.state is none of the four that take no requests
  accepts,     \* for each model the kinds of request that its capabilities, its
               \* context window and the privacy policy of its provider accept
  request,     \* gateway.requests, with where executeRequest is
  commands     \* calls by clients so far

gatewayVars == <<registered, enabled, healthy, accepts, request>>

RequestStates ==
  {"NONE", "QUEUED", "RUNNING", "RETRYING", "SUCCEEDED", "FAILED", "CANCELLED", "TIMED_OUT"}

EndStates == {"SUCCEEDED", "FAILED", "CANCELLED", "TIMED_OUT"}

Categories == {"CONNECTION", "TIMEOUT", "AUTHENTICATION", "CANCELLATION"}

\* Errors that are not tried again with the same model, whatever they say.
NeverRetried == {"AUTHENTICATION", "CANCELLATION"}

\* only: the model the request asks for; model: the one it was sent to last;
\* todo: the models that may follow it; at: "calling" while an adapter is awaited,
\* "aborting" after it was told to cancel, "threw" when executeRequest did.
\* sent: history, calls of adapters; suits: history, the models that accepted it
\* when it was routed; used: records of its usage.
NoRequest ==
  [state |-> "NONE", only |-> NoModel, model |-> NoModel, todo |-> {}, at |-> "idle",
   retry |-> 0, sent |-> 0, suits |-> {}, used |-> 0]

Places == {"idle", "calling", "aborting", "returned", "threw"}

GatewayTypeOK ==
  /\ registered \subseteq Models /\ enabled \subseteq Models /\ healthy \subseteq Models
  /\ accepts \in [Models -> SUBSET {Kind[r] : r \in Requests}]
  /\ request \in [Requests ->
       [state : RequestStates, only : Models \union {NoModel},
        model : Models \union {NoModel}, todo : SUBSET Models, at : Places,
        retry : 0..MaximumRetries, sent : Nat, suits : SUBSET Models, used : 0..1]]
  /\ commands \in 0..MaxCommands

GatewayInit ==
  /\ registered = Models
  /\ enabled = Models
  /\ healthy = Models
  /\ accepts = Accepts
  /\ request = [r \in Requests |-> NoRequest]
  /\ commands = 0

Command == commands < MaxCommands /\ commands' = commands + 1

Waiting(r) == request[r].at \in {"calling", "aborting"}

-----------------------------------------------------------------------------
(* Routing and executing a request *)

Suits(r) == {m \in Models : Kind[r] \in accepts[m]}

\* Mutant of Candidates: rejected models are kept in the fallback order.
CandidatesRejected(r, only) ==
  {m \in registered \intersect enabled \intersect healthy : only \in {NoModel, m}}

\* candidateModels that are not rejected.
Candidates(r, only) ==
  {m \in registered \intersect enabled \intersect healthy : only \in {NoModel, m} /\ m \in Suits(r)}

\* The most models a request is sent to.
Most(r) == IF r \in Single THEN 1 ELSE MaximumFallback

\* The first of the candidates, in the order of listModels.
FallbackOrder(r, only) ==
  LET found == Candidates(r, only)
  IN {m \in found : Cardinality({n \in found : n < m}) < Most(r)}

Least(models) == CHOOSE m \in models : \A n \in models : m <= n

\* q is sent to the first of its remaining models; when the model is no longer
\* registered, reading its provider throws.
Sent(q) ==
  LET m == Least(q.todo)
  IN IF m \in registered
     THEN [q EXCEPT !.model = m, !.todo = @ \ {m}, !.at = "calling", !.retry = 0, !.sent = @ + 1]
     ELSE [q EXCEPT !.at = "threw"]

\* Mutant of Finished: a request that was cancelled stays so.
FinishedUnlessCancelled(q, state) ==
  [q EXCEPT !.state = IF @ = "CANCELLED" THEN @ ELSE state, !.at = "returned",
            !.todo = {}, !.retry = 0]

\* finishRequest: the state is set whatever it was.
Finished(q, state) ==
  [q EXCEPT !.state = state, !.at = "returned", !.todo = {}, !.retry = 0]

\* executeRequest up to the first call of an adapter.
Executed(r, only) ==
  LET order == FallbackOrder(r, only)
      q == [NoRequest EXCEPT !.state = "RUNNING", !.only = only, !.todo = order,
                             !.suits = Suits(r)]
  IN IF order = {} THEN Finished(q, "FAILED") ELSE Sent(q)

\* complete and stream, by any client.
Complete(r) ==
  /\ Command
  /\ request[r].state = "NONE"
  /\ request' = [request EXCEPT ![r] = Executed(r, NoModel)]
  /\ UNCHANGED <<registered, enabled, healthy, accepts>>

\* submit: a queued request waits for good, nothing takes it from the queue.
Submit(r) ==
  /\ Command
  /\ request[r].state = "NONE"
  /\ request' = [request EXCEPT ![r].state = "QUEUED"]
  /\ UNCHANGED <<registered, enabled, healthy, accepts>>

\* retryRequest: a new request, for the model and provider of the old one.
RetryRequest(r, s) ==
  /\ Command
  /\ request[r].state \in EndStates \ {"SUCCEEDED"}
  /\ request[s].state = "NONE" /\ Kind[s] = Kind[r]
  /\ LET only == IF request[r].model # NoModel THEN request[r].model ELSE request[r].only
     IN request' = [request EXCEPT ![s] = Executed(s, only)]
  /\ UNCHANGED <<registered, enabled, healthy, accepts>>

\* The adapter answers: its usage is recorded and the request finished.
Answered(q) == [Finished(q, "SUCCEEDED") EXCEPT !.used = 1]

Answer(r) ==
  /\ request[r].at = "calling"
  /\ request' = [request EXCEPT ![r] = Answered(@)]
  /\ UNCHANGED <<registered, enabled, healthy, accepts, commands>>

StateOf(category) ==
  CASE category = "CANCELLATION" -> "CANCELLED"
    [] category = "TIMEOUT" -> "TIMED_OUT"
    [] OTHER -> "FAILED"

\* Mutant of Refaulted: a retry starts the count of retries again.
RefaultedAgain(q, category, retryable) ==
  IF retryable /\ category \notin NeverRetried
  THEN [q EXCEPT !.state = "RETRYING", !.at = "calling", !.retry = 0, !.sent = @ + 1]
  ELSE IF q.todo # {} THEN Sent(q) ELSE Finished(q, StateOf(category))

\* Mutant of Refaulted: one retry more.
RefaultedOnceMore(q, category, retryable) ==
  IF retryable /\ q.retry <= MaximumRetries /\ category \notin NeverRetried
  THEN [q EXCEPT !.state = "RETRYING", !.at = "calling", !.retry = @ + 1, !.sent = @ + 1]
  ELSE IF q.todo # {} THEN Sent(q) ELSE Finished(q, StateOf(category))

\* What becomes of a request whose adapter failed: it is tried again with the same
\* model, sent to the next one, or ends.
Refaulted(q, category, retryable) ==
  IF retryable /\ q.retry < MaximumRetries /\ category \notin NeverRetried
  THEN [q EXCEPT !.state = "RETRYING", !.at = "calling", !.retry = @ + 1, !.sent = @ + 1]
  ELSE IF q.todo # {} THEN Sent(q) ELSE Finished(q, StateOf(category))

\* Mutant of Fault: the error of an aborted call is dropped.
FaultUnaborted(r, category, retryable) ==
  /\ request[r].at = "calling"
  /\ request' = [request EXCEPT ![r] = Refaulted(@, category, retryable)]
  /\ UNCHANGED <<registered, enabled, healthy, accepts, commands>>

\* The adapter fails: the request is tried again, sent to the next model, or ends.
Fault(r, category, retryable) ==
  /\ Waiting(r)
  /\ request[r].at = "aborting" => category = "CANCELLATION"
  /\ request' = [request EXCEPT ![r] = Refaulted(@, category, retryable)]
  /\ UNCHANGED <<registered, enabled, healthy, accepts, commands>>

\* cancelRequest: the adapter is told, and may have nothing to abort.
Cancelled(r, aborts) ==
  IF request[r].state \in EndStates THEN request
  ELSE [request EXCEPT ![r].state = "CANCELLED",
                       ![r].at = IF @ = "calling" /\ aborts THEN "aborting" ELSE @]

CancelRequest(r) ==
  /\ Command
  /\ request[r].state # "NONE"
  /\ \E aborts \in BOOLEAN :
       /\ aborts => request[r].model \in registered
       /\ request' = Cancelled(r, aborts)
  /\ UNCHANGED <<registered, enabled, healthy, accepts>>

-----------------------------------------------------------------------------
(* Providers *)

EnableProvider(m) ==
  /\ Command
  /\ m \in registered
  /\ enabled' = enabled \union {m}
  /\ healthy' = healthy \union {m}
  /\ UNCHANGED <<registered, accepts, request>>

DisableProvider(m) ==
  /\ Command
  /\ m \in registered
  /\ enabled' = enabled \ {m}
  /\ healthy' = healthy \ {m}
  /\ UNCHANGED <<registered, accepts, request>>

\* healthCheck, when the adapter answers or fails.
HealthCheck(m) ==
  /\ Command
  /\ m \in registered
  /\ healthy' \in {healthy \union {m}, healthy \ {m}}
  /\ UNCHANGED <<registered, enabled, accepts, request>>

\* updateProvider of its privacy policy, and discoverModels and registerModel of
\* a model that is there: whatever requests are in flight.
UpdateProvider(m) ==
  /\ Command
  /\ m \in registered
  /\ \E kinds \in Settings : accepts' = [accepts EXCEPT ![m] = kinds]
  /\ UNCHANGED <<registered, enabled, healthy, request>>

\* A provider goes with its models, and may come back.
UnregisterProvider(m) ==
  /\ Command
  /\ m \in registered
  /\ registered' = registered \ {m}
  /\ UNCHANGED <<enabled, healthy, accepts, request>>

\* registerProvider replaces a provider of the same name.
RegisterProvider(m) ==
  /\ Command
  /\ registered' = registered \union {m}
  /\ enabled' = enabled \union {m}
  /\ healthy' = healthy \union {m}
  /\ \E kinds \in Settings : accepts' = [accepts EXCEPT ![m] = kinds]
  /\ UNCHANGED request

-----------------------------------------------------------------------------
AdapterNext ==
  \E r \in Requests :
    \/ Answer(r)
    \/ \E category \in Categories, retryable \in BOOLEAN :
         Fault(r, category, retryable)

ProviderNext ==
  \E m \in Models :
    \/ EnableProvider(m)
    \/ DisableProvider(m)
    \/ HealthCheck(m)
    \/ UpdateProvider(m)
    \/ UnregisterProvider(m)
    \/ RegisterProvider(m)

\* Clients make requests of their own and may cancel or retry any.
ClientNext(own) ==
  \/ \E r \in own : Complete(r) \/ Submit(r) \/ (\E s \in Requests : RetryRequest(s, r))
  \/ \E r \in Requests : CancelRequest(r)

\* The gateway by itself: adapters answer or fail in the end, if only because
\* the transport times out.
GatewaySpec ==
  /\ GatewayInit
  /\ [][AdapterNext \/ ProviderNext \/ ClientNext(Requests)]_<<gatewayVars, commands>>
  /\ \A r \in Requests :
       WF_<<gatewayVars, commands>>(Answer(r) \/ \E category \in Categories, retryable \in BOOLEAN :
                                                  Fault(r, category, retryable))

-----------------------------------------------------------------------------
(* Properties *)

\* No adapter is ever asked for a request that its capabilities or its privacy
\* policy did not accept when the request was routed, however many models failed
\* before it; and one that no longer accepts it was given other settings since
\* then, for which a request in flight is not routed again.
PolicyIsKept ==
  \A r \in Requests : request[r].model # NoModel => request[r].model \in request[r].suits

\* Usage is recorded exactly once for a request that ended well, though a
\* request may be cancelled and answered at the same time, and never for
\* another.
UsageIsEarned ==
  \A r \in Requests : (request[r].used = 1) <=> (request[r].state = "SUCCEEDED")

\* A request costs at most one call for each model in its fallback order and
\* each retry.
CallsAreBounded ==
  \A r \in Requests :
    request[r].sent <= Most(r) * (MaximumRetries + 1)

\* Whoever makes a request gets an answer or an error in the end: retries,
\* fallbacks, cancelling and changes of providers do not keep it going.
RequestsReturn == \A r \in Requests : Waiting(r) ~> request[r].at \in {"returned", "threw"}
=============================================================================
