-------------------------- MODULE WebhookDelivery --------------------------
(* WebhookManagementService (Module_02): an in-memory registry of webhooks and a
   queue of deliveries with retries. processDeliveryQueue is started by an
   interval and by every trigger, and awaits one HTTP call after another; at
   each await triggers, updates, deletions, the timers and the daily cleanup run.
   Deliveries are numbered in the order in which they are queued, which push
   and filter preserve. Time counts in units of the retry delay.           *)
EXTENDS Naturals, FiniteSets

CONSTANTS
    Webhooks,       \* webhook ids, drawn at random and never drawn twice
    MaxDeliveries,  \* bound on the number of deliveries ever queued
    Runs,           \* executions of processDeliveryQueue that could be under way at once
    RetryCounts,    \* values of retryPolicy.maxRetries
    RetryDelay,     \* retryPolicy.retryDelay
    Multiplier,     \* retryPolicy.backoffMultiplier
    MaxRetryDelay,  \* retryPolicy.maxRetryDelay
    Never           \* the nextRetryAt of a delivery that has none

Deliveries == 1..MaxDeliveries
None == 0  \* no delivery

ASSUME WebhookAssumption ==
    /\ MaxDeliveries \in Nat
    /\ RetryCounts \subseteq Nat
    /\ RetryDelay \in Nat /\ Multiplier \in Nat /\ MaxRetryDelay \in Nat
    /\ Never \notin Nat
    /\ IsFiniteSet(Webhooks)

VARIABLES
    hook,        \* webhook -> "none", "active", "inactive" or "deleted"
    maxRetries,  \* webhook -> retryPolicy.maxRetries of the registered object
    logs,        \* webhook -> its deliveryLogs
    queue,       \* deliveryQueue
    created,     \* number of deliveries created
    target,      \* delivery -> its webhookId
    status,      \* delivery -> its status, "none" before it is created
    attempt,     \* delivery -> its attempt
    retryIn,     \* delivery -> time until nextRetryAt, or Never
    old,         \* deliveries created more than 30 days ago
    processing,  \* processingQueue
    todo,        \* run -> what is left of its pendingDeliveries
    running,     \* runs under way
    calling,     \* run -> delivery whose HTTP call it awaits, or None
    limit        \* run -> maxRetries of the webhook object it holds, 0 between calls

registry == <<hook, maxRetries>>
delivery == <<target, status, attempt, retryIn>>
pass == <<todo, running, calling, limit>>
vars == <<registry, logs, queue, created, delivery, old, processing, pass>>

Registered == {w \in Webhooks : hook[w] \in {"active", "inactive"}}
Unsettled(d) == status[d] \in {"pending", "retrying"}
Settled(d) == status[d] \in {"success", "failed"}

-----------------------------------------------------------------------------
(* The registry. An update replaces the object in the Map and keeps its logs. *)

CreateWebhook(w) ==
    \E active \in {"active", "inactive"}, n \in RetryCounts :
        /\ hook[w] = "none"
        /\ hook' = [hook EXCEPT ![w] = active]
        /\ maxRetries' = [maxRetries EXCEPT ![w] = n]
        /\ logs' = [logs EXCEPT ![w] = {}]
        /\ UNCHANGED <<queue, created, delivery, old, processing, pass>>

(* An update with a new address awaits its validation, which parses it and no
   longer tests the connection: the promise is settled when it is awaited, so
   that no timer, answer or request runs in between.                        *)
UpdateWebhook(w) ==
    \E active \in {"active", "inactive"}, n \in RetryCounts :
        /\ w \in Registered
        /\ hook' = [hook EXCEPT ![w] = active]
        /\ maxRetries' = [maxRetries EXCEPT ![w] = n]
        /\ UNCHANGED <<logs, queue, created, delivery, old, processing, pass>>

DeleteWebhook(w) ==
    /\ w \in Registered
    /\ hook' = [hook EXCEPT ![w] = "deleted"]
    /\ maxRetries' = [maxRetries EXCEPT ![w] = 0]
    /\ logs' = [logs EXCEPT ![w] = {}]
    /\ UNCHANGED << queue, created, delivery, old, processing, pass>>

-----------------------------------------------------------------------------
(* processDeliveryQueue *)

(* MUTANT of Due: failed deliveries are taken up again. *)
DueOrFailed(d) == status[d] \in {"pending", "failed"} \/ (status[d] = "retrying" /\ retryIn[d] = 0)

(* MUTANT of Due: retries are not taken up. *)
DueIfPending(d) == status[d] = "pending"

(* What a pass takes up: the filter of lines 191-194. *)
Due(d) == status[d] = "pending" \/ (status[d] = "retrying" /\ retryIn[d] = 0)

(* MUTANT of StartPass: the flag is not set. *)
StartPassUnflagged(r, ds) ==
    /\ processing' = FALSE
    /\ running' = running \cup {r}
    /\ todo' = [todo EXCEPT ![r] = ds]
    /\ UNCHANGED <<calling, limit>>

StartPass(r, ds) ==
    /\ processing' = TRUE
    /\ running' = running \cup {r}
    /\ todo' = [todo EXCEPT ![r] = ds]
    /\ UNCHANGED <<calling, limit>>

(* triggerWebhook: a delivery for each webhook of f, the active webhooks that
   match the event, then a pass over the queue unless one is under way.  The
   matching is awaited, but it too does no I/O and so lets nobody in.         *)
Trigger ==
    \E n \in 1..(MaxDeliveries - created) : \E f \in [created + 1 .. created + n -> Webhooks] :
        LET new == created + 1 .. created + n IN
        /\ \A d \in new : hook[f[d]] = "active"
        /\ \A d, e \in new : d # e => f[d] # f[e]
        /\ created' = created + n
        /\ target' = [d \in Deliveries |-> IF d \in new THEN f[d] ELSE target[d]]
        /\ status' = [d \in Deliveries |-> IF d \in new THEN "pending" ELSE status[d]]
        /\ queue' = queue \cup new
        /\ logs' = [w \in Webhooks |-> logs[w] \cup {d \in new : f[d] = w}]
        /\ IF processing THEN UNCHANGED <<processing, pass>>
           ELSE \E r \in Runs \ running : StartPass(r, {d \in queue : Due(d)} \cup new)
        /\ UNCHANGED <<registry, attempt, retryIn, old>>

(* The interval. *)
IntervalFires ==
    /\ ~processing
    /\ queue # {}
    /\ \E r \in Runs \ running : StartPass(r, {d \in queue : Due(d)})
    /\ UNCHANGED <<registry, logs, queue, created, delivery, old>>

(* MUTANT of InTurn: the latest delivery first. *)
LatestFirst(r, d) == d \in todo[r] /\ \A e \in todo[r] : e <= d

(* The loop goes through the deliveries in the order of the queue. *)
InTurn(r, d) == d \in todo[r] /\ \A e \in todo[r] : d <= e

(* processWebhookDelivery up to its await; the webhook object is held across it. *)
NextDelivery(r) ==
    /\ r \in running
    /\ calling[r] = None
    /\ \E d \in Deliveries :
          /\ InTurn(r, d)
          /\ todo' = [todo EXCEPT ![r] = @ \ {d}]
          /\ IF target[d] \in Registered
             THEN /\ status' = [status EXCEPT ![d] = "retrying"]
                  /\ attempt' = [attempt EXCEPT ![d] = @ + 1]
                  /\ calling' = [calling EXCEPT ![r] = d]
                  /\ limit' = [limit EXCEPT ![r] = maxRetries[target[d]]]
             ELSE /\ status' = [status EXCEPT ![d] = "failed"]
                  /\ UNCHANGED <<attempt, calling, limit>>
    /\ UNCHANGED <<registry, logs, queue, created, target, retryIn, old,
                   processing, running>>

(* The delay after attempt i + 1, before it is capped. *)
Backoff[i \in Nat] == IF i = 0 THEN RetryDelay ELSE Multiplier * Backoff[i - 1]

(* MUTANT of Delay: not capped. *)
DelayUncapped(k) == Backoff[k - 1]

(* calculateRetryDelay *)
Delay(k) == IF Backoff[k - 1] < MaxRetryDelay THEN Backoff[k - 1] ELSE MaxRetryDelay

(* The receiver answers with success. *)
CallSucceeds(r) ==
    LET d == calling[r] IN
    /\ d # None
    /\ status' = [status EXCEPT ![d] = "success"]
    /\ calling' = [calling EXCEPT ![r] = None]
    /\ limit' = [limit EXCEPT ![r] = 0]
    /\ UNCHANGED <<registry, logs, queue, created, target, attempt, retryIn, old,
                   processing, todo, running>>

(* MUTANT of MayRetry: one attempt too many. *)
MayRetryOnceMore(r) == attempt[calling[r]] <= limit[r]

MayRetry(r) == attempt[calling[r]] < limit[r]

(* An error status, or no answer within 30 seconds: the receiver may have taken the
   event all the same. *)
CallFails(r) ==
    LET d == calling[r] IN
    /\ d # None
    /\ IF MayRetry(r)
       THEN /\ status' = [status EXCEPT ![d] = "retrying"]
            /\ retryIn' = [retryIn EXCEPT ![d] = Delay(attempt[d])]
       ELSE /\ status' = [status EXCEPT ![d] = "failed"]
            /\ UNCHANGED retryIn
    /\ calling' = [calling EXCEPT ![r] = None]
    /\ limit' = [limit EXCEPT ![r] = 0]
    /\ UNCHANGED <<registry, logs, queue, created, target, attempt, old,
                   processing, todo, running>>

(* MUTANT of Kept: by age alone. *)
KeptByAge(d) == d \notin old

(* What cleanupOldDeliveryLogs keeps. *)
Kept(d) == d \notin old \/ Unsettled(d)

Cleanup ==
    /\ logs' = [w \in Webhooks |-> {d \in logs[w] : Kept(d)}]
    /\ queue' = {d \in queue : Kept(d)}

(* The end of a pass: the cleanup and the finally clause. *)
EndPass(r) ==
    /\ r \in running
    /\ calling[r] = None
    /\ todo[r] = {}
    /\ Cleanup
    /\ processing' = FALSE
    /\ running' = running \ {r}
    /\ UNCHANGED <<registry, created, delivery, old, todo, calling, limit>>

(* The daily cleanup. *)
CronCleanup ==
    /\ Cleanup
    /\ UNCHANGED <<registry, created, delivery, old, processing, pass>>

-----------------------------------------------------------------------------
(* Time *)

Tick ==
    /\ \E d \in Deliveries : retryIn[d] \notin {0, Never}
    /\ retryIn' = [d \in Deliveries |->
                     IF retryIn[d] \in {0, Never} THEN retryIn[d] ELSE retryIn[d] - 1]
    /\ UNCHANGED <<registry, logs, queue, created, target, status, attempt, old,
                   processing, pass>>

Age ==
    \E d \in 1..created :
        /\ old' = old \cup {d}
        /\ UNCHANGED <<registry, logs, queue, created, delivery, processing, pass>>

Init ==
    /\ hook = [w \in Webhooks |-> "none"]
    /\ maxRetries = [w \in Webhooks |-> 0]
    /\ logs = [w \in Webhooks |-> {}]
    /\ queue = {}
    /\ created = 0
    /\ target \in [Deliveries -> Webhooks]
    /\ \A d, e \in Deliveries : target[d] = target[e]
    /\ status = [d \in Deliveries |-> "none"]
    /\ attempt = [d \in Deliveries |-> 0]
    /\ retryIn = [d \in Deliveries |-> Never]
    /\ old = {}
    /\ processing = FALSE
    /\ todo = [r \in Runs |-> {}]
    /\ running = {}
    /\ calling = [r \in Runs |-> None]
    /\ limit = [r \in Runs |-> 0]

Next ==
    \/ \E w \in Webhooks : CreateWebhook(w) \/ UpdateWebhook(w) \/ DeleteWebhook(w)
    \/ Trigger
    \/ IntervalFires
    \/ \E r \in Runs : NextDelivery(r) \/ CallSucceeds(r) \/ CallFails(r) \/ EndPass(r)
    \/ CronCleanup
    \/ Tick
    \/ Age

(* The interval fires, calls end within their timeout and time passes. Nobody has
   to answer well, and nobody has to use the registry. *)
Fairness ==
    /\ WF_vars(IntervalFires)
    /\ WF_vars(Tick)
    /\ \A r \in Runs :
          /\ WF_vars(NextDelivery(r))
          /\ WF_vars(CallSucceeds(r) \/ CallFails(r))
          /\ WF_vars(EndPass(r))

Spec == Init /\ [][Next]_vars

FairSpec == Spec /\ Fairness

-----------------------------------------------------------------------------
(* Properties *)

(* The variables keep their types; no retry waits longer than the policy's largest
   delay. *)
TypeOK ==
    /\ hook \in [Webhooks -> {"none", "active", "inactive", "deleted"}]
    /\ maxRetries \in [Webhooks -> RetryCounts \cup {0}]
    /\ logs \in [Webhooks -> SUBSET (1..created)]
    /\ queue \subseteq 1..created
    /\ created \in 0..MaxDeliveries
    /\ target \in [Deliveries -> Webhooks]
    /\ status \in [Deliveries -> {"none", "pending", "retrying", "success", "failed"}]
    /\ \A d \in Deliveries : status[d] = "none" <=> d > created
    /\ attempt \in [Deliveries -> Nat]
    /\ retryIn \in [Deliveries -> 0..MaxRetryDelay \cup {Never}]
    /\ old \subseteq 1..created
    /\ processing \in BOOLEAN
    /\ todo \in [Runs -> SUBSET (1..created)]
    /\ running \subseteq Runs
    /\ calling \in [Runs -> Deliveries \cup {None}]
    /\ limit \in [Runs -> RetryCounts \cup {0}]

(* At most one HTTP call is under way, and it is for a delivery that is not settled
   and that no other execution has on its list: the flag keeps the interval, the
   triggers and a running pass apart, however long a call takes. *)
OneCall ==
    \A r \in Runs : calling[r] # None =>
        /\ status[calling[r]] = "retrying"
        /\ \A s \in Runs \ {r} : calling[s] = None
        /\ \A s \in Runs : calling[r] \notin todo[s]

(* A delivery is attempted no more often than the largest policy allows, and at
   least once counts as allowed, although a policy may change between attempts. *)
AttemptsBounded ==
    \A d \in Deliveries : attempt[d] <= 1 \/ \E n \in RetryCounts : attempt[d] <= n

(* No cleanup, by cron or at the end of a pass, drops a delivery that still has to be
   made; and the log of a registered webhook has every delivery to it that is queued,
   across updates of the webhook. *)
NothingForgotten ==
    \A d \in 1..created :
        /\ Unsettled(d) => d \in queue
        /\ d \in queue /\ target[d] \in Registered => d \in logs[target[d]]

(* First attempts are made in the order of the events: none overtakes an earlier one. *)
FirstAttemptsInOrder ==
    \A d, e \in 1..created : d < e /\ attempt[e] > 0 => attempt[d] > 0 \/ Settled(d)

(* What is settled stays settled and is not attempted again. *)
SettledIsFinal ==
    [][\A d \in Deliveries : Settled(d) =>
          status'[d] = status[d] /\ attempt'[d] = attempt[d]]_vars

(* Every delivery ends as delivered or as failed, whatever the receivers do and
   whatever happens to their webhooks. *)
DeliverySettles == \A d \in Deliveries : Unsettled(d) ~> Settled(d)
=============================================================================
