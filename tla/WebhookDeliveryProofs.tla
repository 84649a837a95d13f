----------------------- MODULE WebhookDeliveryProofs -----------------------
(* Proofs about WebhookDelivery, for every number of webhooks, deliveries and
   executions and every retry policy. No safety property depends on the delays, so
   the types of the timers come last, with the induction that Backoff needs.  *)
EXTENDS WebhookDelivery, FiniteSetTheorems, TLAPS

(* TypeOK without retryIn and old. *)
Typed ==
    /\ hook \in [Webhooks -> {"none", "active", "inactive", "deleted"}]
    /\ maxRetries \in [Webhooks -> RetryCounts \cup {0}]
    /\ logs \in [Webhooks -> SUBSET (1..created)]
    /\ queue \subseteq 1..created
    /\ created \in 0..MaxDeliveries
    /\ target \in [Deliveries -> Webhooks]
    /\ status \in [Deliveries -> {"none", "pending", "retrying", "success", "failed"}]
    /\ \A d \in Deliveries : status[d] = "none" <=> d > created
    /\ attempt \in [Deliveries -> Nat]
    /\ processing \in BOOLEAN
    /\ todo \in [Runs -> SUBSET (1..created)]
    /\ running \subseteq Runs
    /\ calling \in [Runs -> Deliveries \cup {None}]
    /\ limit \in [Runs -> RetryCounts \cup {0}]

(* The flag admits one execution at a time. *)
OneRun ==
    /\ processing <=> running # {}
    /\ \A r, s \in running : r = s
    /\ \A r \in Runs \ running : todo[r] = {} /\ calling[r] = None

(* What a pass still has to do is not settled; its call is no longer on its list. *)
ListsUnsettled ==
    \A r \in Runs :
        /\ \A d \in todo[r] : Unsettled(d)
        /\ calling[r] # None => status[calling[r]] = "retrying" /\ calling[r] \notin todo[r]

(* A delivery between two attempts has been granted the next one. *)
Granted ==
    \A d \in Deliveries :
        /\ status[d] \in {"none", "pending"} => attempt[d] = 0
        /\ status[d] = "retrying" => attempt[d] > 0
        /\ status[d] = "retrying" /\ (\A r \in Runs : calling[r] # d) =>
              \E n \in RetryCounts : attempt[d] < n

(* Who has a delivery was registered once. *)
TargetsKnown == \A d \in 1..created : hook[target[d]] # "none"

(* A pass has all pending deliveries before those on its list. *)
PendingListed ==
    \A r \in running : \A e \in todo[r] : \A d \in 1..created :
        d < e /\ status[d] = "pending" => d \in todo[r]

IInv ==
    /\ Typed
    /\ OneRun
    /\ ListsUnsettled
    /\ Granted
    /\ TargetsKnown
    /\ PendingListed
    /\ AttemptsBounded
    /\ NothingForgotten
    /\ FirstAttemptsInOrder

-----------------------------------------------------------------------------
(* One lemma per action *)

(* The initial state. *)
LEMMA InitInv == Init => IInv
<1> SUFFICES ASSUME Init PROVE IInv
  OBVIOUS
<1>1. MaxDeliveries \in Nat /\ created = 0 /\ 1..created = {}
  BY WebhookAssumption DEF Init
<1>2. Typed
  <2>1. \A d \in Deliveries : d > created
    BY <1>1 DEF Deliveries
  <2>2. /\ status \in [Deliveries -> {"none", "pending", "retrying", "success", "failed"}]
        /\ \A d \in Deliveries : status[d] = "none" <=> d > created
    BY <2>1 DEF Init
  <2>3. attempt \in [Deliveries -> Nat] /\ target \in [Deliveries -> Webhooks]
    BY DEF Init
  <2>4. /\ calling \in [Runs -> Deliveries \cup {None}]
        /\ limit \in [Runs -> RetryCounts \cup {0}]
        /\ todo \in [Runs -> SUBSET (1..created)]
    BY DEF Init
  <2>5. /\ hook \in [Webhooks -> {"none", "active", "inactive", "deleted"}]
        /\ maxRetries \in [Webhooks -> RetryCounts \cup {0}]
        /\ logs \in [Webhooks -> SUBSET (1..created)]
    BY DEF Init
  <2>6. queue \subseteq 1..created /\ running \subseteq Runs /\ processing \in BOOLEAN
    BY DEF Init
  <2>7. created \in 0..MaxDeliveries
    BY <1>1
  <2> QED
    BY <2>2, <2>3, <2>4, <2>5, <2>6, <2>7 DEF Typed
<1>3. OneRun /\ ListsUnsettled /\ Granted /\ PendingListed
  BY DEF Init, OneRun, ListsUnsettled, Granted, PendingListed
<1>4. TargetsKnown /\ NothingForgotten /\ FirstAttemptsInOrder
  BY <1>1 DEF TargetsKnown, NothingForgotten, FirstAttemptsInOrder
<1>5. AttemptsBounded
  BY DEF Init, AttemptsBounded
<1> QED
  BY <1>2, <1>3, <1>4, <1>5 DEF IInv

(* A webhook is registered: nothing was ever sent to it. *)
LEMMA CreateInv ==
    ASSUME IInv, NEW w \in Webhooks, CreateWebhook(w)
    PROVE  IInv'
<1>1. PICK state \in {"active", "inactive"}, n \in RetryCounts :
        /\ hook[w] = "none"
        /\ hook' = [hook EXCEPT ![w] = state]
        /\ maxRetries' = [maxRetries EXCEPT ![w] = n]
        /\ logs' = [logs EXCEPT ![w] = {}]
        /\ UNCHANGED <<queue, created, delivery, old, processing, pass>>
  BY DEF CreateWebhook
<1> USE DEF delivery, pass
<1>2. Typed'
  BY <1>1 DEF IInv, Typed
<1>3. \A d \in 1..created : target[d] # w /\ target[d] \in Webhooks
  <2>1. 1..created \subseteq Deliveries
    BY WebhookAssumption DEF IInv, Typed, Deliveries
  <2> QED
    BY <1>1, <2>1 DEF IInv, TargetsKnown, Typed
<1>4. TargetsKnown'
  BY <1>1, <1>3 DEF IInv, TargetsKnown, Typed
<1>5. NothingForgotten'
  <2> SUFFICES ASSUME NEW d \in 1..created
               PROVE  /\ Unsettled(d)' => d \in queue'
                      /\ d \in queue' /\ target'[d] \in Registered' => d \in logs'[target'[d]]
    BY <1>1 DEF NothingForgotten
  <2>1. /\ target'[d] = target[d] /\ target[d] # w /\ target[d] \in Webhooks
        /\ hook'[target[d]] = hook[target[d]] /\ logs'[target[d]] = logs[target[d]]
    BY <1>1, <1>3 DEF IInv, Typed
  <2> QED
    BY <1>1, <2>1 DEF IInv, NothingForgotten, Registered, Unsettled
<1>6. (OneRun /\ ListsUnsettled /\ Granted /\ PendingListed /\ AttemptsBounded
         /\ FirstAttemptsInOrder)'
  BY <1>1 DEF IInv, OneRun, ListsUnsettled, Granted, PendingListed, AttemptsBounded,
     FirstAttemptsInOrder, Unsettled, Settled
<1> QED
  BY <1>2, <1>4, <1>5, <1>6 DEF IInv

(* An update keeps the logs. *)
LEMMA UpdateInv ==
    ASSUME IInv, NEW w \in Webhooks, UpdateWebhook(w)
    PROVE  IInv'
<1>1. PICK state \in {"active", "inactive"}, n \in RetryCounts :
        /\ hook[w] \in {"active", "inactive"}
        /\ hook' = [hook EXCEPT ![w] = state]
        /\ maxRetries' = [maxRetries EXCEPT ![w] = n]
        /\ UNCHANGED <<logs, queue, created, delivery, old, processing, pass>>
  BY DEF UpdateWebhook, Registered
<1> USE DEF delivery, pass
<1>2. Typed'
  BY <1>1 DEF IInv, Typed
<1>3. TargetsKnown'
  BY <1>1 DEF IInv, TargetsKnown, Typed
<1>4. NothingForgotten'
  BY <1>1 DEF IInv, NothingForgotten, Typed, Registered, Unsettled
<1>5. (OneRun /\ ListsUnsettled /\ Granted /\ PendingListed /\ AttemptsBounded
         /\ FirstAttemptsInOrder)'
  BY <1>1 DEF IInv, OneRun, ListsUnsettled, Granted, PendingListed, AttemptsBounded,
     FirstAttemptsInOrder, Unsettled, Settled
<1> QED
  BY <1>2, <1>3, <1>4, <1>5 DEF IInv

(* A deleted webhook stays known. *)
LEMMA DeleteInv ==
    ASSUME IInv, NEW w \in Webhooks, DeleteWebhook(w)
    PROVE  IInv'
<1>1. /\ hook' = [hook EXCEPT ![w] = "deleted"]
      /\ maxRetries' = [maxRetries EXCEPT ![w] = 0]
      /\ logs' = [logs EXCEPT ![w] = {}]
      /\ UNCHANGED <<queue, created, target, status, attempt, retryIn, old, processing,
                     todo, running, calling, limit>>
  BY DEF DeleteWebhook, delivery, pass
<1>2. Typed'
  BY <1>1 DEF IInv, Typed
<1>3. TargetsKnown'
  BY <1>1 DEF IInv, TargetsKnown, Typed
<1>4. NothingForgotten'
  BY <1>1 DEF IInv, NothingForgotten, Typed, Registered, Unsettled
<1>5. (OneRun /\ ListsUnsettled /\ Granted /\ PendingListed /\ AttemptsBounded
         /\ FirstAttemptsInOrder)'
  BY <1>1 DEF IInv, OneRun, ListsUnsettled, Granted, PendingListed, AttemptsBounded,
     FirstAttemptsInOrder, Unsettled, Settled
<1> QED
  BY <1>2, <1>3, <1>4, <1>5 DEF IInv

(* New deliveries come last; they are pending and unattempted. *)
LEMMA TriggerInv ==
    ASSUME IInv, Trigger
    PROVE  IInv'
<1>1. PICK n \in 1..(MaxDeliveries - created) :
        \E f \in [created + 1 .. created + n -> Webhooks] :
        LET new == created + 1 .. created + n IN
        /\ \A d \in new : hook[f[d]] = "active"
        /\ \A d, e \in new : d # e => f[d] # f[e]
        /\ created' = created + n
        /\ target' = [d \in Deliveries |-> IF d \in new THEN f[d] ELSE target[d]]
        /\ status' = [d \in Deliveries |-> IF d \in new THEN "pending" ELSE status[d]]
        /\ queue' = queue \cup new
        /\ logs' = [w \in Webhooks |-> logs[w] \cup {d \in new : f[d] = w}]
        /\ IF processing THEN UNCHANGED <<processing, pass>>
           ELSE \E r \in Runs \ running : StartPass(r, {d \in queue : Due(d)} \cup new)
        /\ UNCHANGED <<registry, attempt, retryIn, old>>
  BY DEF Trigger
<1> DEFINE new == created + 1 .. created + n
<1>2. PICK f \in [new -> Webhooks] :
        /\ \A d \in new : hook[f[d]] = "active"
        /\ created' = created + n
        /\ target' = [d \in Deliveries |-> IF d \in new THEN f[d] ELSE target[d]]
        /\ status' = [d \in Deliveries |-> IF d \in new THEN "pending" ELSE status[d]]
        /\ queue' = queue \cup new
        /\ logs' = [w \in Webhooks |-> logs[w] \cup {d \in new : f[d] = w}]
        /\ IF processing THEN UNCHANGED <<processing, todo, running, calling, limit>>
           ELSE \E r \in Runs \ running : StartPass(r, {d \in queue : Due(d)} \cup new)
        /\ UNCHANGED <<hook, maxRetries, attempt>>
  BY <1>1 DEF registry, pass
<1>3. /\ created \in Nat /\ MaxDeliveries \in Nat /\ n \in Nat /\ n > 0
      /\ created + n <= MaxDeliveries
  BY <1>1, WebhookAssumption DEF IInv, Typed
<1>4. /\ 1..created' = 1..created \cup new
      /\ new \subseteq Deliveries /\ new \cap 1..created = {}
      /\ \A d \in new : \A e \in 1..created : e < d /\ ~(d < e)
      /\ 1..created \subseteq Deliveries
      /\ created' \in 0..MaxDeliveries
  BY <1>2, <1>3 DEF Deliveries
<1>5. \A d \in Deliveries : d > created' <=> d > created /\ d \notin new
  BY <1>2, <1>3 DEF Deliveries
<1> HIDE DEF new
<1>6. \A d \in new : /\ status'[d] = "pending" /\ target'[d] = f[d] /\ f[d] \in Webhooks
                     /\ attempt'[d] = 0
  <2>1. \A d \in new : d > created
    BY <1>3 DEF new
  <2>2. \A d \in new : status[d] = "none"
    BY <1>4, <2>1 DEF IInv, Typed
  <2> QED
    BY <1>2, <1>4, <2>2 DEF IInv, Granted
<1>7. \A d \in Deliveries \ new : status'[d] = status[d] /\ target'[d] = target[d]
  BY <1>2
<1>8. /\ running' \subseteq Runs /\ processing' = TRUE
      /\ \A r, s \in running' : r = s
      /\ running' # {}
      /\ calling' = calling /\ limit' = limit
      /\ DOMAIN todo' = Runs
      /\ \A r \in running' : \/ ~processing /\ todo'[r] = {d \in queue : Due(d)} \cup new
                             \/ processing /\ r \in running /\ todo'[r] = todo[r]
      /\ \A r \in Runs \ running' : r \notin running /\ todo'[r] = todo[r]
      /\ todo' \in [Runs -> SUBSET (1..created')]
  <2>1. CASE processing
    BY <1>2, <1>4, <2>1 DEF IInv, Typed, OneRun
  <2>2. CASE ~processing
    <3>1. PICK r \in Runs \ running : StartPass(r, {d \in queue : Due(d)} \cup new)
      BY <1>2, <2>2
    <3>2. running = {}
      BY <2>2 DEF IInv, OneRun
    <3>3. /\ processing' = TRUE /\ running' = {r} /\ calling' = calling /\ limit' = limit
          /\ todo' = [todo EXCEPT ![r] = {d \in queue : Due(d)} \cup new]
      BY <3>1, <3>2 DEF StartPass
    <3>4. {d \in queue : Due(d)} \cup new \subseteq 1..created'
      BY <1>4 DEF IInv, Typed
    <3>5. todo' \in [Runs -> SUBSET (1..created')]
      <4>1. \A s \in Runs : todo[s] \subseteq 1..created'
        BY <1>4 DEF IInv, Typed
      <4> QED
        BY <3>1, <3>3, <3>4, <4>1 DEF IInv, Typed
    <3>6. /\ todo'[r] = {d \in queue : Due(d)} \cup new
          /\ \A s \in Runs \ {r} : todo'[s] = todo[s]
      BY <3>3 DEF IInv, Typed
    <3> QED
      BY <2>2, <3>1, <3>2, <3>3, <3>5, <3>6
  <2> QED
    BY <2>1, <2>2 DEF IInv, Typed
<1>9. Typed'
  <2>1. /\ target' \in [Deliveries -> Webhooks]
        /\ status' \in [Deliveries -> {"none", "pending", "retrying", "success", "failed"}]
    BY <1>2, <1>6 DEF IInv, Typed
  <2>2. logs' \in [Webhooks -> SUBSET (1..created')] /\ queue' \subseteq 1..created'
    BY <1>2, <1>4 DEF IInv, Typed
  <2>3. \A d \in Deliveries : status'[d] = "none" <=> d > created'
    BY <1>5, <1>6, <1>7 DEF IInv, Typed
  <2> QED
    BY <1>2, <1>4, <1>8, <2>1, <2>2, <2>3 DEF IInv, Typed
<1>10. OneRun'
  BY <1>8 DEF IInv, OneRun
<1>11. \A d \in 1..created : d \notin new /\ d \in Deliveries
  BY <1>4
<1>12. ListsUnsettled'
  <2> SUFFICES ASSUME NEW r \in Runs
               PROVE  /\ \A d \in todo'[r] : Unsettled(d)'
                      /\ calling'[r] # None =>
                            status'[calling'[r]] = "retrying" /\ calling'[r] \notin todo'[r]
    BY DEF ListsUnsettled
  <2>1. \A d \in 1..created : Unsettled(d) => Unsettled(d)'
    BY <1>7, <1>11 DEF Unsettled
  <2>2. \A d \in todo'[r] : Unsettled(d)'
    <3>1. todo[r] \subseteq 1..created /\ queue \subseteq 1..created
      BY DEF IInv, Typed
    <3>2. \A d \in queue : Due(d) => Unsettled(d)
      BY DEF Due, Unsettled
    <3>3. \A d \in new : Unsettled(d)'
      BY <1>6 DEF Unsettled
    <3>4. \A d \in todo[r] : Unsettled(d)
      BY DEF IInv, ListsUnsettled
    <3> QED
      BY <1>8, <2>1, <3>1, <3>2, <3>3, <3>4
  <2>3. ASSUME calling'[r] # None
        PROVE  status'[calling'[r]] = "retrying" /\ calling'[r] \notin todo'[r]
    <3>1. calling[r] # None /\ status[calling[r]] = "retrying" /\ calling[r] \notin todo[r]
      BY <1>8, <2>3 DEF IInv, ListsUnsettled
    <3>2. calling[r] \notin new /\ calling[r] \in Deliveries
      BY <1>3, <3>1 DEF new, IInv, Typed
    <3>3. r \in running /\ processing
      BY <3>1 DEF IInv, OneRun
    <3> QED
      BY <1>7, <1>8, <3>1, <3>2, <3>3
  <2> QED
    BY <2>2, <2>3
<1>13. Granted'
  <2> SUFFICES ASSUME NEW d \in Deliveries
               PROVE  /\ status'[d] \in {"none", "pending"} => attempt'[d] = 0
                      /\ status'[d] = "retrying" => attempt'[d] > 0
                      /\ status'[d] = "retrying" /\ (\A r \in Runs : calling'[r] # d) =>
                            \E k \in RetryCounts : attempt'[d] < k
    BY DEF Granted
  <2>1. CASE d \in new
    BY <1>6, <2>1
  <2>2. CASE d \notin new
    BY <1>2, <1>7, <1>8, <2>2 DEF IInv, Granted
  <2> QED
    BY <2>1, <2>2
<1>14. TargetsKnown'
  <2> SUFFICES ASSUME NEW d \in 1..created' PROVE hook'[target'[d]] # "none"
    BY DEF TargetsKnown
  <2>1. CASE d \in new
    BY <1>2, <1>6, <2>1
  <2>2. CASE d \in 1..created
    BY <1>2, <1>7, <1>11, <2>2 DEF IInv, TargetsKnown
  <2> QED
    BY <1>4, <2>1, <2>2
<1>15. PendingListed'
  <2> SUFFICES ASSUME NEW r \in running', NEW e \in todo'[r], NEW d \in 1..created',
                      d < e, status'[d] = "pending"
               PROVE  d \in todo'[r]
    BY DEF PendingListed
  <2>1. CASE ~processing
    <3>1. CASE d \in new
      BY <1>8, <2>1, <3>1
    <3>2. CASE d \in 1..created
      <4>1. status[d] = "pending"
        BY <1>7, <1>11, <3>2
      <4>2. d \in queue /\ Due(d)
        BY <3>2, <4>1 DEF IInv, NothingForgotten, Unsettled, Due
      <4> QED
        BY <1>8, <2>1, <4>2
    <3> QED
      BY <1>4, <3>1, <3>2
  <2>2. CASE processing
    <3>1. r \in running /\ todo'[r] = todo[r] /\ e \in 1..created
      BY <1>8, <2>2 DEF IInv, Typed
    <3>2. d \in 1..created
      BY <1>4, <3>1
    <3>3. status[d] = "pending"
      BY <1>7, <1>11, <3>2
    <3> QED
      BY <3>1, <3>2, <3>3 DEF IInv, PendingListed
  <2> QED
    BY <2>1, <2>2
<1>16. AttemptsBounded'
  BY <1>2 DEF IInv, AttemptsBounded
<1>17. NothingForgotten'
  <2> SUFFICES ASSUME NEW d \in 1..created'
               PROVE  /\ Unsettled(d)' => d \in queue'
                      /\ d \in queue' /\ target'[d] \in Registered' => d \in logs'[target'[d]]
    BY DEF NothingForgotten
  <2>1. CASE d \in new
    BY <1>2, <1>6, <2>1
  <2>2. CASE d \in 1..created
    <3>1. target'[d] = target[d] /\ status'[d] = status[d] /\ target[d] \in Webhooks /\ d \notin new
      BY <1>7, <1>11, <2>2 DEF IInv, Typed
    <3>2. logs[target[d]] \subseteq logs'[target[d]]
      BY <1>2, <3>1
    <3> QED
      BY <1>2, <2>2, <3>1, <3>2 DEF IInv, NothingForgotten, Unsettled, Registered
  <2> QED
    BY <1>4, <2>1, <2>2
<1>18. FirstAttemptsInOrder'
  <2> SUFFICES ASSUME NEW d \in 1..created', NEW e \in 1..created', d < e, attempt'[e] > 0
               PROVE  attempt'[d] > 0 \/ Settled(d)'
    BY DEF FirstAttemptsInOrder
  <2>1. e \in 1..created
    BY <1>4, <1>6
  <2>2. d \in 1..created
    BY <1>4, <2>1
  <2> QED
    BY <1>2, <1>7, <1>11, <2>1, <2>2 DEF IInv, FirstAttemptsInOrder, Settled
<1> QED
  BY <1>9, <1>10, <1>12, <1>13, <1>14, <1>15, <1>16, <1>17, <1>18 DEF IInv

(* A pass that the interval starts has every pending delivery on its list. *)
LEMMA IntervalInv ==
    ASSUME IInv, IntervalFires
    PROVE  IInv'
<1>1. PICK r \in Runs \ running : StartPass(r, {d \in queue : Due(d)})
  BY DEF IntervalFires
<1> DEFINE due == {d \in queue : Due(d)}
<1>2. /\ ~processing
      /\ processing' = TRUE /\ running' = running \cup {r}
      /\ todo' = [todo EXCEPT ![r] = due]
      /\ UNCHANGED <<hook, maxRetries, logs, queue, created, target, status, attempt,
                     calling, limit>>
  BY <1>1 DEF IntervalFires, StartPass, registry, delivery
<1>3. running = {} /\ running' = {r}
  BY <1>2 DEF IInv, OneRun
<1>4. due \subseteq 1..created /\ \A d \in due : Unsettled(d)
  BY DEF IInv, Typed, Due, Unsettled
<1>5. todo'[r] = due /\ \A s \in Runs \ {r} : todo'[s] = todo[s] /\ todo[s] = {}
  BY <1>2, <1>3 DEF IInv, Typed, OneRun
<1>6. \A d \in 1..created : status[d] = "pending" => d \in due
  BY DEF IInv, NothingForgotten, Unsettled, Due
<1> HIDE DEF due
<1>7. Typed'
  BY <1>1, <1>2, <1>4 DEF IInv, Typed
<1>8. OneRun'
  BY <1>2, <1>3, <1>5 DEF IInv, OneRun
<1>9. ListsUnsettled'
  <2>1. \A s \in Runs : calling[s] = None
    BY <1>3 DEF IInv, OneRun
  <2> QED
    BY <1>2, <1>4, <1>5, <2>1 DEF ListsUnsettled, Unsettled
<1>10. PendingListed'
  BY <1>2, <1>3, <1>5, <1>6 DEF PendingListed
<1>11. (Granted /\ TargetsKnown /\ AttemptsBounded /\ NothingForgotten /\ FirstAttemptsInOrder)'
  BY <1>2 DEF IInv, Granted, TargetsKnown, AttemptsBounded, NothingForgotten,
     FirstAttemptsInOrder, Unsettled, Settled, Registered
<1> QED
  BY <1>7, <1>8, <1>9, <1>10, <1>11 DEF IInv

(* The first attempt of a delivery is made only when no earlier one is pending, for
   that one would be on the list and have a lower number. *)
LEMMA NextInv ==
    ASSUME IInv, NEW r \in Runs, NextDelivery(r)
    PROVE  IInv'
<1>1. PICK d \in Deliveries :
        /\ r \in running /\ calling[r] = None
        /\ InTurn(r, d)
        /\ todo' = [todo EXCEPT ![r] = @ \ {d}]
        /\ IF target[d] \in Registered
           THEN /\ status' = [status EXCEPT ![d] = "retrying"]
                /\ attempt' = [attempt EXCEPT ![d] = @ + 1]
                /\ calling' = [calling EXCEPT ![r] = d]
                /\ limit' = [limit EXCEPT ![r] = maxRetries[target[d]]]
           ELSE /\ status' = [status EXCEPT ![d] = "failed"]
                /\ UNCHANGED <<attempt, calling, limit>>
        /\ UNCHANGED <<hook, maxRetries, logs, queue, created, target, processing, running>>
  BY DEF NextDelivery, registry
<1>2. /\ d \in todo[r] /\ d \in 1..created /\ Unsettled(d)
      /\ \A e \in todo[r] : d <= e
  BY <1>1 DEF InTurn, IInv, Typed, ListsUnsettled
<1>3. \A s \in Runs \ {r} : /\ s \notin running /\ todo[s] = {} /\ calling[s] = None
                             /\ todo'[s] = {} /\ calling'[s] = None
  BY <1>1 DEF IInv, OneRun, Typed
<1>4. todo'[r] = todo[r] \ {d}
  BY <1>1 DEF IInv, Typed
<1>5. \A e \in Deliveries \ {d} : status'[e] = status[e] /\ attempt'[e] = attempt[e]
  BY <1>1 DEF IInv, Typed
<1>6. \/ /\ status'[d] = "retrying" /\ attempt'[d] = attempt[d] + 1
         /\ calling'[r] = d
      \/ /\ status'[d] = "failed" /\ attempt'[d] = attempt[d] /\ calling'[r] = None
  BY <1>1 DEF IInv, Typed
<1>7. 1..created \subseteq Deliveries
  BY WebhookAssumption DEF IInv, Typed, Deliveries
<1>8. Typed'
  <2>1. /\ status' \in [Deliveries -> {"none", "pending", "retrying", "success", "failed"}]
        /\ attempt' \in [Deliveries -> Nat]
        /\ calling' \in [Runs -> Deliveries \cup {None}]
    BY <1>1 DEF IInv, Typed
  <2>2. limit' \in [Runs -> RetryCounts \cup {0}]
    <3>1. target[d] \in Webhooks /\ maxRetries[target[d]] \in RetryCounts \cup {0}
      BY <1>1 DEF IInv, Typed
    <3> QED
      BY <1>1, <3>1 DEF IInv, Typed
  <2>3. \A e \in Deliveries : status'[e] = "none" <=> e > created
    BY <1>2, <1>5, <1>6 DEF IInv, Typed, Unsettled
  <2>4. todo' \in [Runs -> SUBSET (1..created)]
    BY <1>1 DEF IInv, Typed
  <2> QED
    BY <1>1, <2>1, <2>2, <2>3, <2>4 DEF IInv, Typed
<1>9. OneRun'
  BY <1>1, <1>3 DEF IInv, OneRun
<1>10. ListsUnsettled'
  <2> SUFFICES ASSUME NEW s \in Runs
               PROVE  /\ \A e \in todo'[s] : Unsettled(e)'
                      /\ calling'[s] # None =>
                            status'[calling'[s]] = "retrying" /\ calling'[s] \notin todo'[s]
    BY DEF ListsUnsettled
  <2>1. CASE s # r
    BY <1>3, <2>1
  <2>2. CASE s = r
    <3>1. \A e \in todo[r] \ {d} : Unsettled(e) /\ e \in Deliveries
      BY <1>7 DEF IInv, ListsUnsettled, Typed
    <3> QED
      BY <1>4, <1>5, <1>6, <2>2, <3>1 DEF Unsettled
  <2> QED
    BY <2>1, <2>2
<1>11. attempt[d] \in Nat
  BY <1>1 DEF IInv, Typed
<1>12. Granted'
  <2> SUFFICES ASSUME NEW e \in Deliveries
               PROVE  /\ status'[e] \in {"none", "pending"} => attempt'[e] = 0
                      /\ status'[e] = "retrying" => attempt'[e] > 0
                      /\ status'[e] = "retrying" /\ (\A s \in Runs : calling'[s] # e) =>
                            \E k \in RetryCounts : attempt'[e] < k
    BY DEF Granted
  <2>1. CASE e = d
    BY <1>6, <1>11, <2>1
  <2>2. CASE e # d
    <3>1. \A s \in Runs : calling[s] = None
      BY <1>1, <1>3
    <3>2. e # None
      BY DEF Deliveries, None
    <3> QED
      BY <1>5, <2>2, <3>1, <3>2 DEF IInv, Granted
  <2> QED
    BY <2>1, <2>2
<1>13. TargetsKnown'
  BY <1>1 DEF IInv, TargetsKnown
<1>14. PendingListed'
  <2> SUFFICES ASSUME NEW s \in running', NEW e \in todo'[s], NEW c \in 1..created,
                      c < e, status'[c] = "pending"
               PROVE  c \in todo'[s]
    BY <1>1 DEF PendingListed
  <2>1. s = r /\ c # d /\ e \in todo[r]
    BY <1>1, <1>3, <1>4, <1>6 DEF IInv, OneRun
  <2>2. status[c] = "pending"
    BY <1>5, <1>7, <2>1
  <2> QED
    BY <1>1, <1>4, <2>1, <2>2 DEF IInv, PendingListed
<1>15. AttemptsBounded'
  <2> SUFFICES ASSUME NEW e \in Deliveries
               PROVE  attempt'[e] <= 1 \/ \E k \in RetryCounts : attempt'[e] <= k
    BY DEF AttemptsBounded
  <2>1. CASE e # d
    BY <1>5, <2>1 DEF IInv, AttemptsBounded
  <2>2. CASE e = d /\ status[d] = "pending"
    BY <1>1, <1>6, <2>2 DEF IInv, Granted
  <2>3. CASE e = d /\ status[d] = "retrying"
    <3>1. \A s \in Runs : calling[s] # d
      BY <1>1, <1>3 DEF Deliveries, None
    <3>2. PICK k \in RetryCounts : attempt[d] < k
      BY <1>1, <2>3, <3>1 DEF IInv, Granted
    <3> QED
      BY <1>6, <1>11, <2>3, <3>2, WebhookAssumption
  <2> QED
    BY <1>2, <2>1, <2>2, <2>3 DEF Unsettled
<1>16. NothingForgotten'
  <2> SUFFICES ASSUME NEW e \in 1..created
               PROVE  /\ Unsettled(e)' => e \in queue'
                      /\ e \in queue' /\ target'[e] \in Registered' => e \in logs'[target'[e]]
    BY <1>1 DEF NothingForgotten
  <2>1. Unsettled(e)' => Unsettled(e)
    BY <1>2, <1>5, <1>7 DEF Unsettled
  <2> QED
    BY <1>1, <2>1 DEF IInv, NothingForgotten, Registered
<1>17. FirstAttemptsInOrder'
  <2> SUFFICES ASSUME NEW c \in 1..created, NEW e \in 1..created, c < e, attempt'[e] > 0
               PROVE  attempt'[c] > 0 \/ Settled(c)'
    BY <1>1 DEF FirstAttemptsInOrder
  <2>1. CASE c = d
    BY <1>6, <1>11, <2>1 DEF Settled
  <2>2. CASE c # d /\ attempt[e] > 0
    <3>1. attempt[c] > 0 \/ Settled(c)
      BY <2>2 DEF IInv, FirstAttemptsInOrder
    <3> QED
      BY <1>5, <1>7, <2>2, <3>1 DEF Settled
  <2>3. CASE c # d /\ ~(attempt[e] > 0)
    <3>1. e = d
      BY <1>5, <1>7, <2>3
    <3>2. status[c] # "pending"
      <4>1. SUFFICES ASSUME status[c] = "pending" PROVE FALSE
        OBVIOUS
      <4>2. c \in todo[r]
        BY <1>1, <1>2, <3>1, <4>1 DEF IInv, PendingListed
      <4> QED
        BY <1>2, <3>1, <4>2
    <3>3. status[c] # "none" /\ c \in Deliveries
      BY <1>7 DEF IInv, Typed
    <3>4. status[c] = "retrying" \/ Settled(c)
      BY <3>2, <3>3 DEF IInv, Typed, Settled
    <3>5. status[c] = "retrying" => attempt[c] > 0
      BY <3>3 DEF IInv, Granted
    <3> QED
      BY <1>5, <2>3, <3>3, <3>4, <3>5 DEF Settled
  <2> QED
    BY <2>1, <2>2, <2>3
<1> QED
  BY <1>8, <1>9, <1>10, <1>12, <1>13, <1>14, <1>15, <1>16, <1>17 DEF IInv

(* What the two ends of a call have in common: the delivery is settled, or may be
   attempted again. *)
LEMMA CallEnds ==
    ASSUME IInv, NEW r \in Runs, calling[r] # None,
           NEW st \in {"success", "failed", "retrying"},
           st = "retrying" => attempt[calling[r]] < limit[r],
           status' = [status EXCEPT ![calling[r]] = st],
           calling' = [calling EXCEPT ![r] = None],
           limit' = [limit EXCEPT ![r] = 0],
           UNCHANGED <<hook, maxRetries, logs, queue, created, target, attempt, processing,
                       todo, running>>
    PROVE  IInv'
<1> DEFINE d == calling[r]
<1>1. d \in Deliveries /\ status[d] = "retrying" /\ d \notin todo[r] /\ attempt[d] > 0
  BY DEF IInv, Typed, ListsUnsettled, Granted
<1>2. r \in running
  BY DEF IInv, OneRun
<1>3. \A s \in Runs \ {r} : todo[s] = {} /\ calling[s] = None /\ calling'[s] = None
  BY <1>2 DEF IInv, OneRun, Typed
<1>4. status'[d] = st /\ \A e \in Deliveries \ {d} : status'[e] = status[e]
  BY <1>1 DEF IInv, Typed
<1>5. 1..created \subseteq Deliveries
  BY WebhookAssumption DEF IInv, Typed, Deliveries
<1>6. calling'[r] = None
  BY DEF IInv, Typed
<1>7. Typed'
  <2>1. \A e \in Deliveries : status'[e] = "none" <=> e > created
    BY <1>1, <1>4 DEF IInv, Typed
  <2>2. /\ status' \in [Deliveries -> {"none", "pending", "retrying", "success", "failed"}]
        /\ calling' \in [Runs -> Deliveries \cup {None}]
        /\ limit' \in [Runs -> RetryCounts \cup {0}]
    BY DEF IInv, Typed
  <2> QED
    BY <2>1, <2>2 DEF IInv, Typed
<1>8. OneRun'
  BY <1>2, <1>3 DEF IInv, OneRun
<1>9. ListsUnsettled'
  <2> SUFFICES ASSUME NEW s \in Runs
               PROVE  /\ \A e \in todo'[s] : Unsettled(e)'
                      /\ calling'[s] # None =>
                            status'[calling'[s]] = "retrying" /\ calling'[s] \notin todo'[s]
    BY DEF ListsUnsettled
  <2>1. CASE s # r
    BY <1>3, <2>1
  <2>2. CASE s = r
    <3>1. \A e \in todo[r] : e # d /\ e \in Deliveries /\ Unsettled(e)
      BY <1>1, <1>5 DEF IInv, Typed, ListsUnsettled
    <3> QED
      BY <1>4, <1>6, <2>2, <3>1 DEF Unsettled
  <2> QED
    BY <2>1, <2>2
<1>10. Granted'
  <2> SUFFICES ASSUME NEW e \in Deliveries
               PROVE  /\ status'[e] \in {"none", "pending"} => attempt'[e] = 0
                      /\ status'[e] = "retrying" => attempt'[e] > 0
                      /\ status'[e] = "retrying" /\ (\A s \in Runs : calling'[s] # e) =>
                            \E k \in RetryCounts : attempt'[e] < k
    BY DEF Granted
  <2>1. CASE e = d
    <3>1. st = "retrying" => limit[r] \in RetryCounts
      <4>1. limit[r] \in RetryCounts \cup {0} /\ attempt[d] \in Nat
        BY <1>1 DEF IInv, Typed
      <4> QED
        BY <4>1
    <3> QED
      BY <1>1, <1>4, <2>1, <3>1
  <2>2. CASE e # d
    <3>1. (\A s \in Runs : calling'[s] # e) => \A s \in Runs : calling[s] # e
      BY <1>3, <2>2 DEF Deliveries, None
    <3> QED
      BY <1>4, <2>2, <3>1 DEF IInv, Granted
  <2> QED
    BY <2>1, <2>2
<1>11. TargetsKnown' /\ AttemptsBounded'
  BY DEF IInv, TargetsKnown, AttemptsBounded
<1>12. PendingListed'
  BY <1>1, <1>4, <1>5 DEF IInv, PendingListed
<1>13. NothingForgotten'
  <2>1. \A e \in 1..created : Unsettled(e)' => Unsettled(e)
    BY <1>1, <1>4, <1>5 DEF Unsettled
  <2> QED
    BY <2>1 DEF IInv, NothingForgotten, Registered
<1>14. FirstAttemptsInOrder'
  <2>1. \A e \in 1..created : Settled(e) => Settled(e)'
    BY <1>1, <1>4, <1>5 DEF Settled
  <2> QED
    BY <2>1 DEF IInv, FirstAttemptsInOrder
<1> QED
  BY <1>7, <1>8, <1>9, <1>10, <1>11, <1>12, <1>13, <1>14 DEF IInv

(* Both ways in which a call ends. *)
LEMMA CallInv ==
    ASSUME IInv, NEW r \in Runs, CallSucceeds(r) \/ CallFails(r)
    PROVE  IInv'
<1>1. CASE CallSucceeds(r)
  BY <1>1, CallEnds DEF CallSucceeds, registry
<1>2. CASE CallFails(r) /\ MayRetry(r)
  BY <1>2, CallEnds DEF CallFails, MayRetry, registry
<1>3. CASE CallFails(r) /\ ~MayRetry(r)
  BY <1>3, CallEnds DEF CallFails, registry
<1> QED
  BY <1>1, <1>2, <1>3

(* A cleanup keeps what is not settled, in the queue and in the logs alike. *)
LEMMA CleanupKeeps ==
    ASSUME Typed, NothingForgotten, Cleanup, UNCHANGED <<hook, created, target, status>>
    PROVE  /\ NothingForgotten'
           /\ logs' \in [Webhooks -> SUBSET (1..created')]
           /\ queue' \subseteq 1..created'
<1>1. \A d \in 1..created : target[d] \in Webhooks
  BY WebhookAssumption DEF Typed, Deliveries
<1> QED
  BY <1>1 DEF Typed, NothingForgotten, Cleanup, Kept, Unsettled, Registered

(* The end of a pass. *)
LEMMA EndInv ==
    ASSUME IInv, NEW r \in Runs, EndPass(r)
    PROVE  IInv'
<1>1. /\ r \in running /\ calling[r] = None /\ todo[r] = {}
      /\ Cleanup
      /\ processing' = FALSE
      /\ running' = running \ {r}
      /\ UNCHANGED <<hook, maxRetries, created, target, status, attempt, todo, calling, limit>>
  BY DEF EndPass, registry, delivery
<1>2. running' = {} /\ \A s \in Runs : todo[s] = {} /\ calling[s] = None
  BY <1>1 DEF IInv, OneRun, Typed
<1>3. NothingForgotten' /\ Typed'
  BY <1>1, CleanupKeeps DEF IInv, Typed
<1>4. OneRun' /\ PendingListed'
  BY <1>1, <1>2 DEF OneRun, PendingListed
<1>5. (ListsUnsettled /\ Granted /\ TargetsKnown /\ AttemptsBounded /\ FirstAttemptsInOrder)'
  BY <1>1 DEF IInv, ListsUnsettled, Granted, TargetsKnown, AttemptsBounded,
     FirstAttemptsInOrder, Unsettled, Settled
<1> QED
  BY <1>3, <1>4, <1>5 DEF IInv

(* The daily cleanup. *)
LEMMA CronInv ==
    ASSUME IInv, CronCleanup
    PROVE  IInv'
<1>1. /\ Cleanup
      /\ UNCHANGED <<hook, maxRetries, created, target, status, attempt, processing,
                     todo, running, calling, limit>>
  BY DEF CronCleanup, registry, delivery, pass
<1>2. NothingForgotten' /\ Typed'
  BY <1>1, CleanupKeeps DEF IInv, Typed
<1>3. (OneRun /\ ListsUnsettled /\ Granted /\ TargetsKnown /\ PendingListed
         /\ AttemptsBounded /\ FirstAttemptsInOrder)'
  BY <1>1 DEF IInv, OneRun, ListsUnsettled, Granted, TargetsKnown, PendingListed,
     AttemptsBounded, FirstAttemptsInOrder, Unsettled, Settled
<1> QED
  BY <1>2, <1>3 DEF IInv

(* What the invariant speaks of. *)
spoken == <<hook, maxRetries, logs, queue, created, target, status, attempt, processing,
            todo, running, calling, limit>>

(* The passing of time does not matter to it. *)
LEMMA TimeInv ==
    ASSUME IInv, UNCHANGED spoken
    PROVE  IInv'
BY DEF spoken, IInv, Typed, OneRun, ListsUnsettled, Granted, TargetsKnown, PendingListed,
   AttemptsBounded, NothingForgotten, FirstAttemptsInOrder, Unsettled, Settled, Registered

-----------------------------------------------------------------------------
(* The theorems *)

(* Every step preserves the invariant. *)
LEMMA StepInv == IInv /\ [Next]_vars => IInv'
<1> SUFFICES ASSUME IInv, [Next]_vars PROVE IInv'
  OBVIOUS
<1>1. ASSUME NEW w \in Webhooks, CreateWebhook(w) \/ UpdateWebhook(w) \/ DeleteWebhook(w)
      PROVE  IInv'
  BY <1>1, CreateInv, UpdateInv, DeleteInv
<1>2. CASE Trigger
  BY <1>2, TriggerInv
<1>3. CASE IntervalFires
  BY <1>3, IntervalInv
<1>4. ASSUME NEW r \in Runs, NextDelivery(r) PROVE IInv'
  BY <1>4, NextInv
<1>5. ASSUME NEW r \in Runs, CallSucceeds(r) \/ CallFails(r) PROVE IInv'
  BY <1>5, CallInv
<1>6. ASSUME NEW r \in Runs, EndPass(r) PROVE IInv'
  BY <1>6, EndInv
<1>7. CASE CronCleanup
  BY <1>7, CronInv
<1>8. CASE Tick
  BY <1>8, TimeInv DEF Tick, spoken, registry, pass
<1>9. CASE Age
  BY <1>9, TimeInv DEF Age, spoken, registry, delivery, pass
<1>10. CASE UNCHANGED vars
  BY <1>10, TimeInv DEF vars, spoken, registry, delivery, pass
<1> QED
  BY <1>1, <1>2, <1>3, <1>4, <1>5, <1>6, <1>7, <1>8, <1>9, <1>10 DEF Next

(* The invariant always holds. *)
LEMMA SpecInv == Spec => []IInv
BY InitInv, StepInv, PTL DEF Spec

(* OneCall: the flag alone keeps passes apart, so that no delivery is ever sent by
   two of them. *)
THEOREM OneCallAtATime == Spec => []OneCall
<1>1. IInv => OneCall
  <2> SUFFICES ASSUME IInv, NEW r \in Runs, calling[r] # None
               PROVE  /\ status[calling[r]] = "retrying"
                      /\ \A s \in Runs \ {r} : calling[s] = None
                      /\ \A s \in Runs : calling[r] \notin todo[s]
    BY DEF OneCall
  <2>1. r \in running
    BY DEF IInv, OneRun
  <2>2. \A s \in Runs \ {r} : calling[s] = None /\ todo[s] = {}
    BY <2>1 DEF IInv, OneRun
  <2> QED
    BY <2>2 DEF IInv, ListsUnsettled
<1> QED
  BY <1>1, SpecInv, PTL

(* AttemptsBounded: the number of attempts respects some policy, whatever updates
   fall between them. *)
THEOREM AttemptsAlwaysBounded == Spec => []AttemptsBounded
BY SpecInv, PTL DEF IInv

(* NothingForgotten: cleanups and updates lose no delivery that is still to be made. *)
THEOREM NoDeliveryForgotten == Spec => []NothingForgotten
BY SpecInv, PTL DEF IInv

(* FirstAttemptsInOrder: the events reach their receivers in order, as far as first
   attempts go. *)
THEOREM EventsInOrder == Spec => []FirstAttemptsInOrder
BY SpecInv, PTL DEF IInv

(* SettledIsFinal: no pass touches a settled delivery. *)
THEOREM SettledForGood == Spec => SettledIsFinal
<1>1. ASSUME IInv, [Next]_vars, NEW d \in Deliveries, Settled(d)
      PROVE  status'[d] = status[d] /\ attempt'[d] = attempt[d]
  <2>1. status[d] # "none" /\ ~Unsettled(d)
    BY <1>1 DEF Settled, Unsettled
  <2>2. ~(d > created)
    BY <1>1, <2>1 DEF IInv, Typed
  <2>3. CASE Trigger
    <3>1. PICK n \in 1..(MaxDeliveries - created) :
            /\ \E f : status' = [e \in Deliveries |->
                               IF e \in created + 1 .. created + n THEN "pending" ELSE status[e]]
            /\ attempt' = attempt
      BY <2>3 DEF Trigger
    <3>2. d \notin created + 1 .. created + n
      BY <1>1, <2>2, WebhookAssumption DEF IInv, Typed, Deliveries
    <3> QED
      BY <3>1, <3>2
  <2>4. ASSUME NEW r \in Runs, NextDelivery(r)
        PROVE  status'[d] = status[d] /\ attempt'[d] = attempt[d]
    <3>1. PICK e \in Deliveries :
            /\ e \in todo[r]
            /\ \/ /\ status' = [status EXCEPT ![e] = "retrying"]
                  /\ attempt' = [attempt EXCEPT ![e] = @ + 1]
               \/ /\ status' = [status EXCEPT ![e] = "failed"]
                  /\ attempt' = attempt
      BY <2>4 DEF NextDelivery, InTurn
    <3>2. e # d
      BY <1>1, <2>1, <3>1 DEF IInv, ListsUnsettled
    <3> QED
      BY <1>1, <3>1, <3>2 DEF IInv, Typed
  <2>5. ASSUME NEW r \in Runs, CallSucceeds(r) \/ CallFails(r)
        PROVE  status'[d] = status[d] /\ attempt'[d] = attempt[d]
    <3>1. /\ calling[r] # None /\ attempt' = attempt
          /\ \E st : status' = [status EXCEPT ![calling[r]] = st]
      BY <2>5 DEF CallSucceeds, CallFails
    <3>2. calling[r] # d
      BY <1>1, <2>1, <3>1 DEF IInv, ListsUnsettled, Unsettled
    <3> QED
      BY <1>1, <3>1, <3>2 DEF IInv, Typed
  <2>6. CASE UNCHANGED <<status, attempt>>
    BY <2>6
  <2> QED
    BY <1>1, <2>3, <2>4, <2>5, <2>6 DEF Next, vars, delivery, CreateWebhook, UpdateWebhook,
       DeleteWebhook, IntervalFires, EndPass, CronCleanup, Tick, Age
<1>2. IInv /\ [Next]_vars =>
        [\A d \in Deliveries : Settled(d) =>
            status'[d] = status[d] /\ attempt'[d] = attempt[d]]_vars
  BY <1>1
<1> QED
  BY <1>2, SpecInv, PTL DEF Spec, SettledIsFinal

-----------------------------------------------------------------------------
(* The timers *)

(* A set of naturals that holds 0, and with each number the next one, holds them all. *)
LEMMA SetInduction ==
    ASSUME NEW A \in SUBSET Nat, 0 \in A, \A n \in A : n + 1 \in A
    PROVE  A = Nat
<1> SUFFICES ASSUME Nat \ A # {} PROVE FALSE
  OBVIOUS
<1>1. PICK R : IsWellFoundedOn(R, Nat) /\ \A m, n \in Nat : m < n => <<m, n>> \in R
  <2>1. \A m, n \in Nat : m < n => <<m, n>> \in OpToRel(<, Nat)
    BY Zenon DEF OpToRel
  <2> QED
    BY <2>1, NatLessThanWellFounded, Zenon
<1>2. PICK x \in Nat \ A : \A y \in Nat \ A : ~ (<<y, x>> \in R)
  BY <1>1, WFMin, Zenon
<1>3. x # 0 /\ x - 1 \in Nat /\ x - 1 < x
  OBVIOUS
<1>4. x - 1 \in A
  BY <1>1, <1>2, <1>3
<1> QED
  BY <1>4

(* The equation of Backoff, with g for Backoff itself. *)
BackoffAt(g, i) == IF i = 0 THEN RetryDelay ELSE Multiplier * g[i - 1]

(* A function with that equation exists: up to every n there is one, and the values of
   those that go far enough agree. *)
LEMMA BackoffDef == \A i \in Nat : Backoff[i] \in Nat /\ Backoff[i] = BackoffAt(Backoff, i)
<1> DEFINE Upto(g, n) == \A i \in 0..n : g[i] = BackoffAt(g, i)
           Exist == {n \in Nat : \E g \in [Nat -> Nat] : Upto(g, n)}
<1>1. RetryDelay \in Nat /\ Multiplier \in Nat
  BY WebhookAssumption
<1>2. \A m, n \in Nat : m * n \in Nat
  OBVIOUS
<1>3. Exist = Nat
  <2>1. 0 \in Exist
    <3> DEFINE g == [i \in Nat |-> RetryDelay]
    <3>1. g \in [Nat -> Nat] /\ Upto(g, 0)
      BY <1>1 DEF BackoffAt
    <3> QED
      BY <3>1
  <2>2. ASSUME NEW n \in Exist PROVE n + 1 \in Exist
    <3>1. PICK g \in [Nat -> Nat] : Upto(g, n)
      OBVIOUS
    <3> DEFINE h == [i \in Nat |-> BackoffAt(g, i)]
    <3>2. h \in [Nat -> Nat]
      BY <1>1, <1>2 DEF BackoffAt
    <3>3. ASSUME NEW i \in 0..(n + 1) PROVE h[i] = BackoffAt(h, i)
      <4>1. i # 0 => h[i - 1] = g[i - 1]
        BY <3>1
      <4> QED
        BY <4>1 DEF BackoffAt
    <3>4. n + 1 \in Nat /\ Upto(h, n + 1)
      BY <3>3
    <3> HIDE DEF h, Upto
    <3> QED
      BY <3>2, <3>4
  <2> QED
    BY <2>1, <2>2, SetInduction
<1>4. ASSUME NEW g \in [Nat -> Nat], NEW h \in [Nat -> Nat], NEW n \in Nat, Upto(g, n), Upto(h, n)
      PROVE  \A i \in 0..n : g[i] = h[i]
  <2> DEFINE Same == {i \in Nat : i <= n => g[i] = h[i]}
  <2>1. 0 \in Same
    BY <1>4 DEF BackoffAt
  <2>2. ASSUME NEW i \in Same PROVE i + 1 \in Same
    <3>1. i + 1 <= n => g[i + 1] = Multiplier * g[i] /\ h[i + 1] = Multiplier * h[i]
      BY <1>4 DEF BackoffAt
    <3> QED
      BY <3>1
  <2>3. Same = Nat
    <3> HIDE DEF Same
    <3> QED
      BY <2>1, <2>2, SetInduction DEF Same
  <2> QED
    BY <2>3
<1> DEFINE G(n) == CHOOSE g \in [Nat -> Nat] : Upto(g, n)
           b == [n \in Nat |-> G(n)[n]]
<1>5. \A n \in Nat : G(n) \in [Nat -> Nat] /\ Upto(G(n), n)
  <2> HIDE DEF Upto
  <2> QED
    BY <1>3
<1>6. b \in [Nat -> Nat]
  <2> HIDE DEF G
  <2> QED
    BY <1>5
<1>7. b = [i \in Nat |-> BackoffAt(b, i)]
  <2> SUFFICES ASSUME NEW i \in Nat PROVE G(i)[i] = BackoffAt(b, i)
    OBVIOUS
  <2>1. G(i)[i] = BackoffAt(G(i), i)
    <3>1. Upto(G(i), i)
      BY <1>5
    <3> HIDE DEF G
    <3>2. i \in 0..i
      OBVIOUS
    <3> QED
      BY <3>1, <3>2
  <2>2. i # 0 => G(i)[i - 1] = b[i - 1]
    <3> SUFFICES ASSUME i # 0 PROVE G(i)[i - 1] = G(i - 1)[i - 1]
      OBVIOUS
    <3>1. i - 1 \in Nat /\ Upto(G(i), i - 1)
      <4> HIDE DEF G
      <4> QED
        BY <1>5
    <3>2. G(i) \in [Nat -> Nat] /\ G(i - 1) \in [Nat -> Nat] /\ Upto(G(i - 1), i - 1)
      BY <1>5, <3>1
    <3> HIDE DEF G, Upto
    <3>3. \A k \in 0..(i - 1) : G(i)[k] = G(i - 1)[k]
      BY <1>4, <3>1, <3>2
    <3> QED
      BY <3>1, <3>3
  <2> HIDE DEF G, b
  <2> QED
    BY <2>1, <2>2 DEF BackoffAt
<1> HIDE DEF b
<1>8. Backoff = [i \in Nat |-> BackoffAt(Backoff, i)]
  <2> SUFFICES \E g : g = [i \in Nat |-> BackoffAt(g, i)]
    BY DEF Backoff, BackoffAt
  <2> QED
    BY <1>7
<1>9. ASSUME NEW i \in Nat PROVE Backoff[i] = BackoffAt(Backoff, i)
  <2> DEFINE c == Backoff
  <2>1. c = [j \in Nat |-> BackoffAt(c, j)]
    BY <1>8
  <2> HIDE DEF c
  <2>2. c[i] = BackoffAt(c, i)
    BY <2>1
  <2> QED
    BY <2>2 DEF c
<1>10. \A i \in Nat : Backoff[i] \in Nat
  <2> DEFINE A == {i \in Nat : Backoff[i] \in Nat}
  <2>1. 0 \in A
    BY <1>1, <1>9 DEF BackoffAt
  <2>2. ASSUME NEW i \in A PROVE i + 1 \in A
    <3>1. Backoff[i + 1] = Multiplier * Backoff[i]
      BY <1>9 DEF BackoffAt
    <3> QED
      BY <1>1, <1>2, <3>1
  <2>3. A = Nat
    <3> HIDE DEF A
    <3> QED
      BY <2>1, <2>2, SetInduction DEF A
  <2> QED
    BY <2>3
<1> QED
  BY <1>9, <1>10

(* The delay before a retry is a natural number and at most the largest one. *)
LEMMA DelayBounded ==
    ASSUME NEW k \in Nat \ {0}
    PROVE  Delay(k) \in 0..MaxRetryDelay
<1>1. Backoff[k - 1] \in Nat
  BY BackoffDef
<1> QED
  BY <1>1, WebhookAssumption DEF Delay

(* The part of TypeOK that IInv leaves out. *)
Timed ==
    /\ retryIn \in [Deliveries -> 0..MaxRetryDelay \cup {Never}]
    /\ old \subseteq 1..created

(* A delay is set by a call that fails, for a delivery that has been attempted, and
   runs down; deliveries grow old only once created. *)
LEMMA StepTimed == IInv /\ Timed /\ [Next]_vars => Timed'
<1> SUFFICES ASSUME IInv, Timed, [Next]_vars PROVE Timed'
  OBVIOUS
<1>1. CASE Tick
  <2>1. ASSUME NEW d \in Deliveries
        PROVE  (IF retryIn[d] \in {0, Never} THEN retryIn[d] ELSE retryIn[d] - 1)
                  \in 0..MaxRetryDelay \cup {Never}
    BY WebhookAssumption DEF Timed
  <2> QED
    BY <1>1, <2>1 DEF Timed, Tick
<1>2. CASE Age
  BY <1>2 DEF Timed, Age, delivery
<1>3. CASE Trigger
  <2>1. /\ \E n \in 1..(MaxDeliveries - created) : created' = created + n
        /\ UNCHANGED <<retryIn, old>>
    BY <1>3 DEF Trigger
  <2>2. created \in Nat /\ MaxDeliveries \in Nat
    BY WebhookAssumption DEF IInv, Typed
  <2>3. 1..created \subseteq 1..created'
    BY <2>1, <2>2
  <2> QED
    BY <2>1, <2>3 DEF Timed
<1>4. ASSUME NEW r \in Runs, CallFails(r) PROVE Timed'
  <2> DEFINE d == calling[r]
  <2>1. /\ d # None /\ UNCHANGED <<old, created>>
        /\ retryIn' = [retryIn EXCEPT ![d] = Delay(attempt[d])] \/ retryIn' = retryIn
    BY <1>4 DEF CallFails
  <2>2. d \in Deliveries /\ attempt[d] \in Nat \ {0}
    BY <2>1 DEF IInv, Typed, ListsUnsettled, Granted
  <2>3. Delay(attempt[d]) \in 0..MaxRetryDelay
    BY <2>2, DelayBounded
  <2> HIDE DEF d
  <2> QED
    BY <2>1, <2>3 DEF Timed
<1>5. CASE UNCHANGED <<retryIn, old, created>>
  BY <1>5 DEF Timed
<1> QED
  BY <1>1, <1>2, <1>3, <1>4, <1>5 DEF Next, vars, registry, delivery, pass, CreateWebhook,
     UpdateWebhook, DeleteWebhook, IntervalFires, NextDelivery, CallSucceeds, EndPass, CronCleanup

(* TypeOK: in particular no retry waits longer than the policy's largest delay, however
   the delays grow. *)
THEOREM DeliveryTypeCorrect == Spec => []TypeOK
<1>1. Init => Timed
  BY DEF Init, Timed
<1>2. IInv /\ Timed /\ [Next]_vars => Timed'
  BY StepTimed
<1>3. IInv /\ Timed => TypeOK
  BY DEF IInv, Typed, Timed, TypeOK
<1> QED
  BY <1>1, <1>2, <1>3, SpecInv, PTL DEF Spec

(* A delivery between two attempts has a time for the next one. *)
NextAttemptSet ==
    \A d \in Deliveries :
        status[d] = "retrying" /\ (\A r \in Runs : calling[r] # d) =>
            retryIn[d] \in 0..MaxRetryDelay

(* Whoever ends a call without success or final failure sets that time. *)
LEMMA StepNextAttempt == IInv /\ Timed /\ NextAttemptSet /\ [Next]_vars => NextAttemptSet'
<1> SUFFICES ASSUME IInv, Timed, NextAttemptSet, [Next]_vars,
                    NEW d \in Deliveries, status'[d] = "retrying",
                    \A r \in Runs : calling'[r] # d
             PROVE  retryIn'[d] \in 0..MaxRetryDelay
  BY DEF NextAttemptSet
<1> DEFINE Goal == retryIn'[d] \in 0..MaxRetryDelay
<1>1. ASSUME status[d] = "retrying", \A r \in Runs : calling[r] # d, retryIn'[d] = retryIn[d]
      PROVE  Goal
  BY <1>1 DEF NextAttemptSet
<1> HIDE DEF Goal
<1>2. ASSUME Tick PROVE Goal
  <2>1. /\ status' = status /\ calling' = calling
        /\ retryIn'[d] = IF retryIn[d] \in {0, Never} THEN retryIn[d] ELSE retryIn[d] - 1
    BY <1>2 DEF Tick, pass
  <2>2. retryIn[d] \in 0..MaxRetryDelay
    BY <2>1 DEF NextAttemptSet
  <2> QED
    BY <2>1, <2>2, WebhookAssumption DEF Goal
<1>3. ASSUME Trigger PROVE Goal
  <2>1. /\ UNCHANGED <<calling, retryIn>>
        /\ status'[d] \in {"pending", status[d]}
    BY <1>3 DEF Trigger, StartPass, pass
  <2> QED
    BY <1>1, <2>1
<1>4. ASSUME NEW r \in Runs, NextDelivery(r) PROVE Goal
  <2>1. PICK e \in Deliveries :
          /\ calling[r] = None /\ retryIn' = retryIn
          /\ \/ /\ status' = [status EXCEPT ![e] = "retrying"]
                /\ calling' = [calling EXCEPT ![r] = e]
             \/ /\ status' = [status EXCEPT ![e] = "failed"]
                /\ calling' = calling
    BY <1>4 DEF NextDelivery
  <2>2. e # d /\ status[d] = "retrying"
    BY <2>1 DEF IInv, Typed
  <2>3. \A s \in Runs : calling[s] # d
    <3>1. \A s \in Runs \ {r} : calling'[s] = calling[s]
      BY <2>1 DEF IInv, Typed
    <3> QED
      BY <2>1, <3>1 DEF Deliveries, None
  <2> QED
    BY <1>1, <2>1, <2>2, <2>3
<1>5. ASSUME NEW r \in Runs, CallSucceeds(r) \/ CallFails(r) PROVE Goal
  <2> DEFINE e == calling[r]
  <2>1. /\ e # None
        /\ calling' = [calling EXCEPT ![r] = None]
        /\ \/ /\ status' = [status EXCEPT ![e] = "retrying"]
              /\ retryIn' = [retryIn EXCEPT ![e] = Delay(attempt[e])]
           \/ /\ \E st \in {"success", "failed"} : status' = [status EXCEPT ![e] = st]
              /\ retryIn' = retryIn
    BY <1>5 DEF CallSucceeds, CallFails
  <2>2. e \in Deliveries /\ attempt[e] \in Nat \ {0}
    BY <2>1 DEF IInv, Typed, ListsUnsettled, Granted
  <2>3. Delay(attempt[e]) \in 0..MaxRetryDelay
    BY <2>2, DelayBounded
  <2>4. CASE e = d
    BY <2>1, <2>2, <2>3, <2>4 DEF Goal, IInv, Typed, Timed
  <2>5. CASE e # d
    <3>1. status[d] = "retrying" /\ retryIn'[d] = retryIn[d]
      BY <2>1, <2>5 DEF IInv, Typed, Timed
    <3>2. \A s \in Runs : calling[s] # d
      BY <2>1, <2>5 DEF IInv, Typed
    <3> QED
      BY <1>1, <3>1, <3>2
  <2> QED
    BY <2>4, <2>5
<1>6. ASSUME UNCHANGED <<status, retryIn, calling>> PROVE Goal
  BY <1>1, <1>6
<1>7. Goal
  BY <1>2, <1>3, <1>4, <1>5, <1>6 DEF Next, vars, registry, delivery, pass, CreateWebhook,
     UpdateWebhook, DeleteWebhook, IntervalFires, StartPass, EndPass, CronCleanup, Age
<1> QED
  BY <1>7 DEF Goal

(* A delivery that is not settled is in the queue, and it is being made, is due, or
   will be when its delay has run down: no step leaves it where nobody would
   take it up, whatever becomes of its webhook. *)
NoneStranded ==
    \A d \in 1..created : Unsettled(d) =>
        /\ d \in queue
        /\ (\E r \in Runs : calling[r] = d) \/ Due(d) \/ retryIn[d] \in 1..MaxRetryDelay

(* NoneStranded: what DeliverySettles rests on besides fairness. *)
THEOREM NoDeliveryStranded == Spec => []NoneStranded
<1>1. Init => Timed /\ NextAttemptSet
  BY DEF Init, Timed, NextAttemptSet
<1>2. IInv /\ Timed /\ NextAttemptSet /\ [Next]_vars => Timed' /\ NextAttemptSet'
  BY StepTimed, StepNextAttempt
<1>3. IInv /\ NextAttemptSet => NoneStranded
  <2> SUFFICES ASSUME IInv, NextAttemptSet, NEW d \in 1..created, Unsettled(d)
               PROVE  /\ d \in queue
                      /\ \/ (\E r \in Runs : calling[r] = d) \/ Due(d)
                         \/ retryIn[d] \in 1..MaxRetryDelay
    BY DEF NoneStranded
  <2>1. d \in Deliveries
    BY WebhookAssumption DEF IInv, Typed, Deliveries
  <2>2. d \in queue
    BY DEF IInv, NothingForgotten
  <2>3. CASE status[d] = "pending"
    BY <2>2, <2>3 DEF Due
  <2>4. CASE status[d] = "retrying" /\ \A r \in Runs : calling[r] # d
    <3>1. retryIn[d] \in 0..MaxRetryDelay
      BY <2>1, <2>4 DEF NextAttemptSet
    <3> QED
      BY <2>2, <2>4, <3>1, WebhookAssumption DEF Due
  <2> QED
    BY <2>2, <2>3, <2>4 DEF Unsettled
<1> QED
  BY <1>1, <1>2, <1>3, SpecInv, PTL DEF Spec
=============================================================================
