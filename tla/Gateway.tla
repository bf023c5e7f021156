------------------------------ MODULE Gateway ------------------------------
(***************************************************************************)
(* The LLM gateway of gateway/gateway.py: chat and embed (_run) and        *)
(* stream_chat, with admission, per-attempt outcomes, retry, fallback,     *)
(* cancellation, the usage rows, and the breakers all calls share.         *)
(*                                                                         *)
(* A gateway call is a coroutine.  It gives way to other calls only where  *)
(* the code awaits or yields: while a provider works (invoking), between   *)
(* the events of a stream (streaming), while a usage row is written        *)
(* (recording), during a backoff (sleeping), and after StreamCompleted was *)
(* handed to the consumer (completed).  What lies between two such points  *)
(* is one action.                                                          *)
(***************************************************************************)
EXTENDS CircuitBreaker, Sequences, FiniteSets, FiniteSetsExt

CONSTANTS
    GatewayCalls,  \* calls made of the gateway; each runs once
    Models,        \* model ids of the catalog
    Routes,        \* resolved routes: sequences of distinct models
    Egressing,     \* models whose provider has data_egress
    Disabled,      \* models whose provider is not configured
    MaxAttempts,   \* max_attempts of the providers
    Deadline,      \* request_deadline_s and stream_deadline_s
    Delays,        \* backoff delays
    Faults,        \* the errors providers may fail with
    LossyRecorder, \* whether writing a usage row may fail
    MaxTime        \* bound on the clock

\* The ProviderErrors: ProviderTimeout; Unavailable and RateLimited; AuthError;
\* ResponseError; ModelNotFound; BadRequest.
Retryable == {"timeout", "transient"}
Unhealthy == Retryable \cup {"auth", "malformed"}
Errors == Unhealthy \cup {"not_found", "bad_request"}

ASSUME GatewayAssumption ==
    /\ Routes \subseteq Seq(Models)
    /\ \A route \in Routes : \A i, j \in DOMAIN route : route[i] = route[j] => i = j
    /\ Egressing \subseteq Models /\ Disabled \subseteq Models
    /\ MaxAttempts \in Nat \ {0} /\ Deadline \in Nat \ {0}
    /\ Delays \subseteq Nat /\ MaxTime \in Nat
    /\ Faults \subseteq Errors /\ LossyRecorder \in BOOLEAN

VARIABLES
    breakers,  \* BreakerRegistry: one breaker per model id
    now,       \* the event loop's clock
    pc,        \* where a call is suspended
    ask,       \* what was asked: stream or not, egress, route, deadline
    at,        \* position in the route of the target being tried
    n,         \* number of the attempt on that target
    err,       \* why the attempt being recorded ended
    wake,      \* when the backoff is over
    attempts,  \* the AttemptRecords handed back to the caller
    usage,     \* llm_usage rows written for the call
    dropped,   \* records the recorder failed to write
    sent,      \* every attempt a provider was sent, in order
    heard,     \* the attempts whose output reached the client
    result     \* how the call ended

shared == <<breakers, now>>
books == <<usage, dropped>>
vars == <<shared, pc, ask, at, n, err, wake, attempts, books, sent, heard, result>>

-----------------------------------------------------------------------------
(* Values *)

Asks == [stream : BOOLEAN, egress : BOOLEAN, route : Routes, deadline : Nat]
Outcomes == {"success", "error", "timeout", "cancelled", "skipped"}
Attempt == [model : Models, n : Nat, outcome : Outcomes]
PCs == {"idle", "invoking", "streaming", "recording", "sleeping", "completed", "done"}
Results == {"none", "ok", "cancelled", "mid_stream", "bad_request", "deadline_exceeded",
            "provider_unavailable", "no_available_provider"}

Target(c) == ask[c].route[at[c]]
ThisAttempt(c, outcome) == [model |-> Target(c), n |-> n[c], outcome |-> outcome]

Init ==
    /\ breakers = [m \in Models |-> Closed]
    /\ now = 0
    /\ pc = [c \in GatewayCalls |-> "idle"]
    /\ ask = [c \in GatewayCalls |-> None]
    /\ at = [c \in GatewayCalls |-> 0]
    /\ n = [c \in GatewayCalls |-> 0]
    /\ err = [c \in GatewayCalls |-> "none"]
    /\ wake = [c \in GatewayCalls |-> 0]
    /\ attempts = [c \in GatewayCalls |-> << >>]
    /\ usage = [c \in GatewayCalls |-> << >>]
    /\ dropped = [c \in GatewayCalls |-> {}]
    /\ sent = [c \in GatewayCalls |-> << >>]
    /\ heard = [c \in GatewayCalls |-> {}]
    /\ result = [c \in GatewayCalls |-> "none"]

Tick ==
    /\ now < MaxTime
    /\ now' = now + 1
    /\ UNCHANGED <<breakers, pc, ask, at, n, err, wake, attempts, books, sent, heard, result>>

-----------------------------------------------------------------------------
(* Targets and attempts *)

\* Mutant: the egress rule is forgotten.
AdmitAnywhere(a, m) == m \notin Disabled /\ allow(breakers[m], now)

\* _egress_blocked, the provider lookup and the breaker, in the order of _admit.
_admit(a, m) ==
    /\ a.egress \/ m \notin Egressing
    /\ m \notin Disabled
    /\ allow(breakers[m], now)

End(c, how) ==
    /\ pc' = [pc EXCEPT ![c] = "done"]
    /\ result' = [result EXCEPT ![c] = how]

\* Attempt k on the target at position j: the deadline is looked at first.
Begin(c, a, j, k) ==
    /\ at' = [at EXCEPT ![c] = j]
    /\ n' = [n EXCEPT ![c] = k]
    /\ IF now >= a.deadline
       THEN /\ End(c, "deadline_exceeded")
            /\ UNCHANGED sent
       ELSE /\ pc' = [pc EXCEPT ![c] = "invoking"]
            /\ sent' = [sent EXCEPT ![c] = Append(@, <<a.route[j], k>>)]
            /\ UNCHANGED result

\* The rest of the loop over targets after position i: those _admit refuses are
\* listed as skipped; the first it admits gets attempt 1; with none left the
\* call fails.
Advance(c, a, i) ==
    LET open == {j \in DOMAIN a.route : j > i /\ _admit(a, a.route[j])}
        upto == IF open = {} THEN Len(a.route) ELSE Min(open) - 1
        skipped == [k \in 1 .. (upto - i) |->
                      [model |-> a.route[i + k], n |-> 0, outcome |-> "skipped"]]
        tried == attempts[c] \o skipped
    IN  /\ attempts' = [attempts EXCEPT ![c] = tried]
        /\ \/ /\ open # {}
              /\ LET m == a.route[Min(open)] IN
                 breakers' = [breakers EXCEPT ![m] = admitted(@, now)]
              /\ Begin(c, a, Min(open), 1)
           \/ /\ open = {}
              /\ End(c, IF \A k \in DOMAIN tried : tried[k].outcome = "skipped"
                        THEN "no_available_provider" ELSE "provider_unavailable")
              /\ UNCHANGED <<breakers, at, n, sent>>

\* (The bound on the clock leaves every call the time up to its deadline.)
Start(c) ==
    /\ pc[c] = "idle"
    /\ now + Deadline <= MaxTime
    /\ \E stream, egress \in BOOLEAN, route \in Routes :
         LET a == [stream |-> stream, egress |-> egress, route |-> route,
                   deadline |-> now + Deadline] IN
         /\ ask' = [ask EXCEPT ![c] = a]
         /\ Advance(c, a, 0)
    /\ UNCHANGED <<now, err, wake, books, heard>>

\* The first item of a stream: StreamStarted and the item go to the client.
FirstItem(c) ==
    /\ pc[c] = "invoking"
    /\ ask[c].stream
    /\ pc' = [pc EXCEPT ![c] = "streaming"]
    /\ heard' = [heard EXCEPT ![c] = @ \cup {<<Target(c), n[c]>>}]
    /\ UNCHANGED <<shared, ask, at, n, err, wake, attempts, books, sent, result>>

\* Mutant: the record is written but not listed for the caller.
OverUnlisted(c, outcome, why) ==
    /\ err' = [err EXCEPT ![c] = why]
    /\ pc' = [pc EXCEPT ![c] = "recording"]
    /\ UNCHANGED <<now, ask, at, n, wake, attempts, books, sent, heard, result>>

\* The attempt is over: its record joins the list and is sent to be written.
Over(c, outcome, why) ==
    /\ attempts' = [attempts EXCEPT ![c] = Append(@, ThisAttempt(c, outcome))]
    /\ err' = [err EXCEPT ![c] = why]
    /\ pc' = [pc EXCEPT ![c] = "recording"]
    /\ UNCHANGED <<now, ask, at, n, wake, books, sent, heard, result>>

Succeed(c) ==
    /\ pc[c] = "streaming" \/ (pc[c] = "invoking" /\ ~ask[c].stream)
    /\ Over(c, "success", "none")
    /\ breakers' = [breakers EXCEPT ![Target(c)] = record_success(@)]

\* A ProviderError, before the first token or after it; _update_breaker.
Fail(c) ==
    /\ pc[c] \in {"invoking", "streaming"}
    /\ \E e \in Faults :
         /\ Over(c, IF e = "timeout" THEN "timeout" ELSE "error", e)
         /\ breakers' = IF e \in Unhealthy
                        THEN [breakers EXCEPT ![Target(c)] = record_failure(@, now)]
                        ELSE breakers

\* Mutant: a cancelled attempt is not recorded.
CancelUnrecorded(c) ==
    /\ pc[c] \in {"invoking", "streaming", "completed"}
    /\ End(c, "cancelled")
    /\ UNCHANGED <<shared, ask, at, n, err, wake, attempts, books, sent, heard>>

\* CancelledError or GeneratorExit while a provider works, between two events,
\* or after StreamCompleted: a record is written, the list and the breaker are
\* left alone.
Cancel(c) ==
    /\ pc[c] \in {"invoking", "streaming", "completed"}
    /\ err' = [err EXCEPT ![c] = "cancelled"]
    /\ pc' = [pc EXCEPT ![c] = "recording"]
    /\ UNCHANGED <<shared, ask, at, n, wake, attempts, books, sent, heard, result>>

\* A cancellation during the backoff: this attempt is already recorded.
CancelSleep(c) ==
    /\ pc[c] = "sleeping"
    /\ End(c, "cancelled")
    /\ UNCHANGED <<shared, ask, at, n, err, wake, attempts, books, sent, heard>>

-----------------------------------------------------------------------------
(* After the usage row *)

\* _record: shielded from cancellation, and a failing recorder is swallowed.
_record(c) ==
    LET row == ThisAttempt(c, CASE err[c] = "none" -> "success"
                                [] err[c] \in {"timeout", "cancelled"} -> err[c]
                                [] OTHER -> "error")
    IN  /\ pc[c] = "recording"
        /\ \/ /\ usage' = [usage EXCEPT ![c] = Append(@, row)]
              /\ UNCHANGED dropped
           \/ /\ LossyRecorder
              /\ dropped' = [dropped EXCEPT ![c] = @ \cup {<<row.model, row.n>>}]
              /\ UNCHANGED usage
        /\ err' = [err EXCEPT ![c] = "none"]

\* The result is returned, or StreamCompleted is handed to the consumer.
RecordedSuccess(c) ==
    /\ _record(c)
    /\ err[c] = "none"
    /\ pc' = [pc EXCEPT ![c] = IF ask[c].stream THEN "completed" ELSE "done"]
    /\ result' = [result EXCEPT ![c] = "ok"]
    /\ UNCHANGED <<shared, ask, at, n, wake, attempts, sent, heard>>

\* A cancelled call, a stream that broke after its first token and a request
\* the provider rejected end here.
RecordedEnd(c) ==
    /\ _record(c)
    /\ \/ /\ err[c] = "cancelled"
          /\ End(c, IF result[c] = "ok" THEN "ok" ELSE "cancelled")
       \/ /\ err[c] \in Errors
          /\ heard[c] # {}
          /\ End(c, "mid_stream")
       \/ /\ err[c] = "bad_request"
          /\ heard[c] = {}
          /\ End(c, "bad_request")
    /\ UNCHANGED <<shared, ask, at, n, wake, attempts, sent, heard>>

\* Mutant: one attempt too many.
RetryOnceMore(c, delay) ==
    /\ err[c] \in Retryable
    /\ n[c] <= MaxAttempts
    /\ state(breakers[Target(c)], now) = "closed"
    /\ now + delay < ask[c].deadline

_should_retry(c, delay) ==
    /\ err[c] \in Retryable
    /\ n[c] < MaxAttempts
    /\ state(breakers[Target(c)], now) = "closed"
    /\ now + delay < ask[c].deadline

\* Mutant: a stream that broke after its first token falls back too.
MovesOnMidStream(c) == _record(c) /\ err[c] \in Errors \ {"bad_request"}

\* Mutant: a stream that broke after its first token is tried on the same model again.
RetriesMidStream(c) ==
    _record(c) /\ err[c] \in Errors \ {"bad_request"} /\ (heard[c] = {} \/ err[c] \in Retryable)

MovesOn(c) == _record(c) /\ err[c] \in Errors \ {"bad_request"} /\ heard[c] = {}

Retry(c) ==
    /\ MovesOn(c)
    /\ \E delay \in Delays :
         /\ _should_retry(c, delay)
         /\ wake' = [wake EXCEPT ![c] = now + delay]
    /\ pc' = [pc EXCEPT ![c] = "sleeping"]
    /\ UNCHANGED <<shared, ask, at, n, attempts, sent, heard, result>>

FallBack(c) ==
    /\ MovesOn(c)
    /\ \E delay \in Delays : ~_should_retry(c, delay)
    /\ Advance(c, ask[c], at[c])
    /\ UNCHANGED <<now, ask, wake, heard>>

\* Mutant: a call that slept past its deadline is left alone.
WakeInTime(c) ==
    /\ pc[c] = "sleeping"
    /\ now >= wake[c]
    /\ \/ /\ now < ask[c].deadline
          /\ Begin(c, ask[c], at[c], n[c] + 1)
          /\ wake' = [wake EXCEPT ![c] = 0]
          /\ UNCHANGED <<shared, ask, err, attempts, books, heard>>
       \/ /\ now >= ask[c].deadline
          /\ UNCHANGED vars

\* The backoff is over; the breaker is not asked again.
Wake(c) ==
    /\ pc[c] = "sleeping"
    /\ now >= wake[c]
    /\ Begin(c, ask[c], at[c], n[c] + 1)
    /\ wake' = [wake EXCEPT ![c] = 0]
    /\ UNCHANGED <<shared, ask, err, attempts, books, heard>>

\* The consumer asks for the event after StreamCompleted.
Drain(c) ==
    /\ pc[c] = "completed"
    /\ pc' = [pc EXCEPT ![c] = "done"]
    /\ UNCHANGED <<shared, ask, at, n, err, wake, attempts, books, sent, heard, result>>

Step(c) ==
    \/ FirstItem(c) \/ Succeed(c) \/ Fail(c)
    \/ RecordedSuccess(c) \/ RecordedEnd(c) \/ Retry(c) \/ FallBack(c)
    \/ Wake(c) \/ Drain(c)

Idle ==
    /\ \A c \in GatewayCalls : pc[c] \in {"idle", "done"}
    /\ UNCHANGED vars

Next ==
    \/ Tick
    \/ \E c \in GatewayCalls : Start(c) \/ Step(c) \/ Cancel(c) \/ CancelSleep(c)
    \/ Idle

Spec == Init /\ [][Next]_vars

\* Every await of a call comes back: asyncio.timeout bounds the provider, the
\* idle timeout and the deadline bound the stream, the recorder answers or
\* fails, the clock reaches the end of a backoff.
FairSpec == Spec /\ WF_vars(Tick) /\ \A c \in GatewayCalls : WF_vars(Step(c))

-----------------------------------------------------------------------------
(* What the gateway promises *)

\* Breakers, attempts, usage rows and suspended calls keep their types.
TypeOK ==
    /\ breakers \in [Models -> Breaker]
    /\ now \in Nat
    /\ pc \in [GatewayCalls -> PCs]
    /\ ask \in [GatewayCalls -> Asks \cup {None}]
    /\ at \in [GatewayCalls -> Nat]
    /\ n \in [GatewayCalls -> 0 .. MaxAttempts]
    /\ err \in [GatewayCalls -> Errors \cup {"none", "cancelled"}]
    /\ wake \in [GatewayCalls -> Nat]
    /\ attempts \in [GatewayCalls -> Seq(Attempt)]
    /\ usage \in [GatewayCalls -> Seq(Attempt)]
    /\ dropped \in [GatewayCalls -> SUBSET (Models \X Nat)]
    /\ sent \in [GatewayCalls -> Seq(Models \X Nat)]
    /\ heard \in [GatewayCalls -> SUBSET (Models \X Nat)]
    /\ result \in [GatewayCalls -> Results]

\* Whatever calls overlap on a breaker, it is open exactly when at least
\* failure_threshold failures came without a success in between, it never
\* remembers a probe while closed, and it was never opened in the future.
BreakerConsistent ==
    \A m \in Models :
      LET b == breakers[m] IN
      /\ b.opened # None <=> b.failures >= Threshold
      /\ b.probe => b.opened # None
      /\ b.opened # None => b.opened <= now

\* A call follows its route: targets in order, attempts on one target numbered
\* from 1 without gaps up to max_attempts, and never, retries and fallbacks
\* included, a target whose provider is disabled or may not see its data.
FollowsRoute ==
    \A c \in GatewayCalls : \A i \in DOMAIN sent[c] :
      LET m == sent[c][i][1]
          k == sent[c][i][2]
          pos(x) == CHOOSE j \in DOMAIN ask[c].route : ask[c].route[j] = x
      IN  /\ m \notin Disabled
          /\ m \in Egressing => ask[c].egress
          /\ k <= MaxAttempts
          /\ IF k = 1
             THEN i > 1 => pos(sent[c][i - 1][1]) < pos(m)
             ELSE i > 1 /\ sent[c][i - 1] = <<m, k - 1>>

\* "Switching providers would splice two different answers together": a client
\* hears one attempt at most, and once it has, no other attempt is made, neither on
\* another model nor on the same one again.
NoSplice ==
    \A c \in GatewayCalls : heard[c] # {} =>
      /\ sent[c] # << >>
      /\ heard[c] = {sent[c][Len(sent[c])]}

Tried(c, m, k) == \E i \in DOMAIN sent[c] : sent[c][i] = <<m, k>>
Booked(c, m, k) ==
    \/ <<m, k>> \in dropped[c]
    \/ \E i \in DOMAIN usage[c] : usage[c][i].model = m /\ usage[c][i].n = k

\* When a call is over, every attempt a provider was sent has been given to the
\* recorder, cancelled ones too, and nothing else has; an attempt has a second
\* row only when the consumer of its complete answer was cancelled.
EveryAttemptAccounted ==
    \A c \in GatewayCalls : pc[c] = "done" =>
      /\ \A m \in Models, k \in 1 .. MaxAttempts : Tried(c, m, k) <=> Booked(c, m, k)
      /\ \A i, j \in DOMAIN usage[c] :
           i < j /\ usage[c][i].model = usage[c][j].model /\ usage[c][i].n = usage[c][j].n
             => usage[c][i].outcome = "success" /\ usage[c][j].outcome = "cancelled"

\* How a call ends agrees with what happened: only a call that reached nobody
\* reports no_available_provider, a call reports success exactly when its last
\* attempt succeeded, and a failure without a break in the stream means the
\* client has heard nothing.
HonestResult ==
    \A c \in GatewayCalls : pc[c] = "done" =>
      LET tried == attempts[c]
          good == {i \in DOMAIN tried : tried[i].outcome = "success"}
      IN  /\ result[c] = "no_available_provider" => sent[c] = << >> /\ good = {}
          /\ result[c] \in {"provider_unavailable", "bad_request"} => sent[c] # << >>
          /\ result[c] = "ok" <=> good = {Len(tried)}
          /\ result[c] # "ok" <=> good = {}
          /\ heard[c] # {} => result[c] \in {"ok", "mid_stream", "cancelled"}

\* Every call of the gateway ends.
CallsEnd == \A c \in GatewayCalls : pc[c] = "invoking" ~> pc[c] = "done"

\* A breaker past its cooldown that still turns calls away while nobody uses it
\* was left so by a probe that reported neither success nor failure: cancelled, past
\* its deadline, or refused with an error that says nothing of the provider's
\* health.  A probe that succeeded or timed out never leaves the mark behind, and
\* no report that comes late puts it back.
OnlySilentProbesBlock ==
    (\A c \in GatewayCalls : pc[c] \in {"idle", "done"}) =>
      \A m \in Models : state(breakers[m], now) = "half_open" /\ ~allow(breakers[m], now) =>
        \E c \in GatewayCalls :
          \/ /\ result[c] \in {"cancelled", "deadline_exceeded"}
             /\ Target(c) = m
          \/ \E i \in DOMAIN attempts[c] :
               attempts[c][i].model = m /\ attempts[c][i].outcome = "error"

\* However calls overlap on a breaker: its fields agree, and it refuses for good
\* only after a silent probe.
BreakersAreSound ==
    /\ TypeOK
    /\ BreakerConsistent
    /\ OnlySilentProbesBlock
=============================================================================
