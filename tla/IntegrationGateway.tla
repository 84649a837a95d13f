------------------------- MODULE IntegrationGateway -------------------------
(***************************************************************************)
(* The circuit breakers and the rate limiter of IntegrationGatewayService  *)
(* (Module_10_Orchestration_Hub/code/services/                             *)
(* integration-gateway.service.ts).  Every call an adapter makes goes      *)
(* through executeModuleAction; executeMultiModuleAction and               *)
(* broadcastEvent are loops of such calls.                                 *)
(*                                                                         *)
(* Only differences of times matter to the code, so a time is kept as its  *)
(* age: Date.now() minus the time, counted up to the age at which nothing  *)
(* depends on it any more.  Tick is the passing of one unit of time.  The  *)
(* order of a tenant's requests does not matter either: each has a slot.   *)
(***************************************************************************)
EXTENDS Integers, FiniteSets

CONSTANTS Calls,             \* calls that may be in flight at once (a bound)
          Modules, Tenants,
          FailureThreshold,  \* FAILURE_THRESHOLD
          HalfOpenAttempts,  \* HALF_OPEN_ATTEMPTS
          Timeout,           \* TIMEOUT_MS: of a call, and of the open state
          Window,            \* RATE_LIMIT_WINDOW_MS
          MaxRequests,       \* RATE_LIMIT_MAX_REQUESTS
          TimerLag           \* how late setTimeout may fire

ASSUME GatewayAssumption ==
    /\ FailureThreshold \in Nat \ {0} /\ HalfOpenAttempts \in Nat \ {0}
    /\ Timeout \in Nat \ {0} /\ Window \in Nat \ {0} /\ MaxRequests \in Nat \ {0}
    /\ TimerLag \in Nat

VARIABLES
    breaker,    \* module -> CircuitBreakerState
    call,       \* call -> whether it is in flight, on which module, since when
    requests,   \* tenant -> slot -> age of a request of its RateLimitState
    accepted,   \* ghost: tenant -> slot -> age of an accepted request, while below Window
    openFor     \* ghost: module -> time since its breaker opened

vars == <<breaker, call, requests, accepted, openFor>>

Never == -1                        \* lastFailureTime is null
NoRequest == -1                    \* the slot is free
Slots == 1 .. 2 * MaxRequests      \* twice what the limit allows: it could be exceeded
SaturateAt(n, max) == IF n > max THEN max ELSE n
Expired == Timeout + 1             \* every age above TIMEOUT_MS
LongAgo == 2 * Timeout + TimerLag + 1

Closed == [state |-> "closed", failures |-> 0, sinceFailure |-> Never, successCount |-> 0]
Free == [running |-> FALSE, module |-> Never, age |-> 0, admitted |-> "closed"]
States == {"closed", "open", "half-open"}

BreakerTypeOK ==
    /\ breaker \in [Modules -> [state : States, failures : 0 .. FailureThreshold,
                                sinceFailure : {Never} \union (0 .. Expired),
                                successCount : 0 .. HalfOpenAttempts]]
    /\ call \in [Calls -> [running : BOOLEAN, module : Modules \union {Never},
                           age : 0 .. Timeout + TimerLag, admitted : States]]
    /\ \A c \in Calls : call[c].running => call[c].module \in Modules
    /\ openFor \in [Modules -> 0 .. LongAgo]

LimiterTypeOK ==
    /\ requests \in [Tenants -> [Slots -> {NoRequest} \union (0 .. Window)]]
    /\ accepted \in [Tenants -> [Slots -> {NoRequest} \union (0 .. Window - 1)]]

TypeOK == BreakerTypeOK /\ LimiterTypeOK

Init ==
    /\ breaker = [m \in Modules |-> Closed]
    /\ call = [c \in Calls |-> Free]
    /\ requests = [t \in Tenants |-> [n \in Slots |-> NoRequest]]
    /\ accepted = [t \in Tenants |-> [n \in Slots |-> NoRequest]]
    /\ openFor = [m \in Modules |-> 0]

-----------------------------------------------------------------------------
(* MUTANT of Looked: >= for >. *)
LookedEarly(b) ==
    IF b.state = "open" /\ b.sinceFailure >= Timeout
      THEN [b EXCEPT !.state = "half-open", !.successCount = 0]
      ELSE b

(* getCircuitBreakerState: the breaker as a caller finds it. *)
Looked(b) ==
    IF b.state = "open" /\ b.sinceFailure > Timeout
      THEN [b EXCEPT !.state = "half-open", !.successCount = 0]
      ELSE b

(* MUTANT of AfterSuccess: no Math.max(0, ...). *)
AfterSuccessBelowZero(b) ==
    IF b.state = "closed" THEN [b EXCEPT !.failures = @ - 1] ELSE b

(* recordSuccess *)
AfterSuccess(b) ==
    CASE b.state = "half-open" ->
           LET probed == [b EXCEPT !.successCount = @ + 1]
           IN IF probed.successCount >= HalfOpenAttempts
                THEN [probed EXCEPT !.state = "closed", !.failures = 0, !.sinceFailure = Never]
                ELSE probed
      [] b.state = "closed" -> [b EXCEPT !.failures = IF @ > 0 THEN @ - 1 ELSE 0]
      [] b.state = "open" -> b

(* MUTANT of AfterFailure: > for >=. *)
AfterFailureLate(b) ==
    [b EXCEPT !.failures = SaturateAt(@ + 1, FailureThreshold),
              !.sinceFailure = 0,
              !.state = IF b.state = "half-open" \/ b.failures + 1 > FailureThreshold
                          THEN "open" ELSE @]

(* recordFailure.  failures is only compared with the threshold, and only   *)
(* decreased in state closed, where it is below it: counting stops there.   *)
AfterFailure(b) ==
    [b EXCEPT !.failures = SaturateAt(@ + 1, FailureThreshold),
              !.sinceFailure = 0,
              !.state = IF b.state = "half-open" \/ b.failures + 1 >= FailureThreshold
                          THEN "open" ELSE @]

(* MUTANT of InWindow: a window one unit too short. *)
InShortWindow(reqs) == {n \in Slots : reqs[n] # NoRequest /\ reqs[n] < Window - 1}

(* checkRateLimit's filter of the requests: those in the window. *)
InWindow(reqs) == {n \in Slots : reqs[n] # NoRequest /\ reqs[n] < Window}

(* The filtered list. *)
Pruned(reqs) == [n \in Slots |-> IF n \in InWindow(reqs) THEN reqs[n] ELSE NoRequest]

WithinLimit(t) == Cardinality(InWindow(requests[t])) < MaxRequests

(* Slots that a new request may not take. *)
Taken(t) == InWindow(requests[t]) \union {n \in Slots : accepted[t][n] # NoRequest}

-----------------------------------------------------------------------------
(* MUTANT of RateLimited: a refused attempt starts the window anew. *)
RateLimitedRenewing(t) ==
    /\ ~WithinLimit(t)
    /\ requests' = [requests EXCEPT ![t] = [n \in Slots |-> IF n \in InWindow(@) THEN 0 ELSE NoRequest]]
    /\ UNCHANGED <<breaker, call, accepted, openFor>>

(* checkRateLimit throws; the pruned list has been stored. *)
RateLimited(t) ==
    /\ ~WithinLimit(t)
    /\ requests' = [requests EXCEPT ![t] = Pruned(@)]
    /\ UNCHANGED <<breaker, call, accepted, openFor>>

AcceptRequest(t) ==
    /\ WithinLimit(t)
    /\ \E n \in Slots \ Taken(t) :
          /\ \A k \in Slots \ Taken(t) : n <= k
          /\ requests' = [requests EXCEPT ![t] = [Pruned(@) EXCEPT ![n] = 0]]
          /\ accepted' = [accepted EXCEPT ![t][n] = 0]

(* The module has no adapter: the request counts against the limit, and the *)
(* error is thrown before the breaker is looked at.                         *)
NoAdapter(t) ==
    /\ AcceptRequest(t)
    /\ UNCHANGED <<breaker, call, openFor>>

(* MUTANT of ShortCircuited: the refusal is thrown inside the try. *)
ShortCircuitedInTry(m, t) ==
    /\ AcceptRequest(t)
    /\ Looked(breaker[m]).state = "open"
    /\ breaker' = [breaker EXCEPT ![m] = AfterFailure(@)]
    /\ UNCHANGED <<call, openFor>>

(* The request counts against the tenant's limit although it is refused. *)
ShortCircuited(m, t) ==
    /\ AcceptRequest(t)
    /\ Looked(breaker[m]).state = "open"
    /\ UNCHANGED <<breaker, call, openFor>>

Start(c, m, t) ==
    /\ ~call[c].running
    /\ AcceptRequest(t)
    /\ LET b == Looked(breaker[m])
       IN /\ b.state # "open"
          /\ breaker' = [breaker EXCEPT ![m] = b]
          /\ call' = [call EXCEPT ![c] = [running |-> TRUE, module |-> m,
                                          age |-> 0, admitted |-> b.state]]
    /\ UNCHANGED <<openFor>>

(* The adapter's promise wins the race and resolves. *)
Succeed(c) ==
    /\ call[c].running
    /\ breaker' = [breaker EXCEPT ![call[c].module] = AfterSuccess(@)]
    /\ call' = [call EXCEPT ![c] = Free]
    /\ UNCHANGED <<requests, accepted, openFor>>

RecordFailureOf(c) ==
    /\ LET m == call[c].module
           b == AfterFailure(breaker[m])
       IN /\ breaker' = [breaker EXCEPT ![m] = b]
          /\ openFor' = [openFor EXCEPT ![m] =
                            IF b.state = "open" /\ breaker[m].state # "open" THEN 0 ELSE @]
    /\ call' = [call EXCEPT ![c] = Free]
    /\ UNCHANGED <<requests, accepted>>

(* The adapter's promise wins the race and rejects. *)
Fail(c) == call[c].running /\ RecordFailureOf(c)

(* MUTANT of TimeOut: the timer is due after the last instant a call may last. *)
TimeOutTooLate(c) == call[c].running /\ call[c].age > Timeout + TimerLag /\ RecordFailureOf(c)

(* The timeout promise wins the race. *)
TimeOut(c) == call[c].running /\ call[c].age >= Timeout /\ RecordFailureOf(c)

ResetCircuitBreaker(m) ==
    /\ breaker' = [breaker EXCEPT ![m] = Closed]
    /\ UNCHANGED <<call, requests, accepted, openFor>>

(* One unit of time.  A timer fires at most TimerLag after it is due. *)
Tick ==
    /\ \A c \in Calls : call[c].running => call[c].age < Timeout + TimerLag
    /\ call' = [c \in Calls |-> IF call[c].running THEN [call[c] EXCEPT !.age = @ + 1]
                                                   ELSE call[c]]
    /\ breaker' = [m \in Modules |->
                     IF breaker[m].sinceFailure = Never THEN breaker[m]
                     ELSE [breaker[m] EXCEPT !.sinceFailure = SaturateAt(@ + 1, Expired)]]
    /\ requests' = [t \in Tenants |-> [n \in Slots |->
                      IF requests[t][n] = NoRequest THEN NoRequest
                      ELSE SaturateAt(requests[t][n] + 1, Window)]]
    /\ accepted' = [t \in Tenants |-> [n \in Slots |->
                      IF accepted[t][n] = NoRequest \/ accepted[t][n] + 1 = Window
                        THEN NoRequest ELSE accepted[t][n] + 1]]
    /\ openFor' = [m \in Modules |-> SaturateAt(openFor[m] + 1, LongAgo)]

-----------------------------------------------------------------------------
(* executeMultiModuleAction and broadcastEvent start calls that overlap and *)
(* leave each one's failure to itself: here any calls may overlap.          *)
Next ==
    \/ \E t \in Tenants : RateLimited(t) \/ NoAdapter(t)
    \/ \E m \in Modules, t \in Tenants : ShortCircuited(m, t)
    \/ \E c \in Calls, m \in Modules, t \in Tenants : Start(c, m, t)
    \/ \E c \in Calls : Succeed(c) \/ Fail(c) \/ TimeOut(c)
    \/ \E m \in Modules : ResetCircuitBreaker(m)
    \/ Tick

Spec == Init /\ [][Next]_vars

(* Time passes and a timer that is due fires. *)
FairSpec == Spec /\ WF_vars(Tick) /\ \A c \in Calls : WF_vars(TimeOut(c))

-----------------------------------------------------------------------------
InFlight(m) == {c \in Calls : call[c].running /\ call[c].module = m}

(* A closed breaker has counted fewer than FAILURE_THRESHOLD failures, a    *)
(* half-open one fewer than HALF_OPEN_ATTEMPTS successes, and an open one   *)
(* knows when the last failure was: without it getCircuitBreakerState would *)
(* leave it open for ever.                                                  *)
BreakerConsistent ==
    \A m \in Modules :
        /\ breaker[m].state = "closed" => breaker[m].failures < FailureThreshold
        /\ breaker[m].state = "half-open" => breaker[m].successCount < HalfOpenAttempts
        /\ breaker[m].state = "open" => breaker[m].sinceFailure # Never

(* While a breaker is half-open every call in flight on its module was      *)
(* admitted half-open, unless its timer is overdue: the successes that      *)
(* close it are successes of probes, and of calls that outlived the failure *)
(* which opened it only while setTimeout lags.  It holds because TIMEOUT_MS *)
(* bounds both a call and the open state.                                   *)
OnlyProbesInHalfOpen ==
    \A m \in Modules : breaker[m].state = "half-open" =>
        \A c \in InFlight(m) : call[c].admitted = "half-open" \/ call[c].age > Timeout

(* Calls that fail late while the breaker is open move lastFailureTime, but *)
(* only the calls in flight when it opened can: twice TIMEOUT_MS after it   *)
(* opened, and the lag of one timer, the next caller is let through.        *)
QuarantineBounded ==
    \A m \in Modules : breaker[m].state = "open" /\ openFor[m] > 2 * Timeout + TimerLag
                          => breaker[m].sinceFailure > Timeout

(* In any window of RATE_LIMIT_WINDOW_MS a tenant has at most               *)
(* RATE_LIMIT_MAX_REQUESTS accepted requests.                               *)
RateWindow ==
    \A t \in Tenants : Cardinality({n \in Slots : accepted[t][n] # NoRequest}) <= MaxRequests

(* A rate-limited tenant is served again: the requests that fill its window *)
(* leave it, and refused attempts do not keep it full.                      *)
LimitLifts == \A t \in Tenants : ~WithinLimit(t) ~> WithinLimit(t)

(* Every call settles, by its result or by the timeout. *)
CallSettles == \A c \in Calls : call[c].running ~> ~call[c].running
=============================================================================
