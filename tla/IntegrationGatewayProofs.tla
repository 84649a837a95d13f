---------------------- MODULE IntegrationGatewayProofs ----------------------
(***************************************************************************)
(* The circuit breakers and the rate limiter for every number of modules,  *)
(* calls in flight and tenants, and every threshold, limit, window and     *)
(* timeout.                                                                *)
(***************************************************************************)
EXTENDS IntegrationGateway, FiniteSetTheorems, TLAPS

USE GatewayAssumption

Breakers == [state : States, failures : 0 .. FailureThreshold,
             sinceFailure : {Never} \union (0 .. Expired),
             successCount : 0 .. HalfOpenAttempts]

(* BreakerConsistent of one breaker. *)
Sound(b) ==
    /\ b \in Breakers
    /\ b.state = "closed" => b.failures < FailureThreshold
    /\ b.state = "half-open" => b.successCount < HalfOpenAttempts
    /\ b.state = "open" => b.sinceFailure # Never

(* getCircuitBreakerState leaves a sound breaker sound. *)
LEMMA LookedSound == ASSUME NEW b, Sound(b) PROVE Sound(Looked(b))
<1>1. CASE b.state = "open" /\ b.sinceFailure > Timeout
  <2> DEFINE l == [b EXCEPT !.state = "half-open", !.successCount = 0]
  <2>0. 0 \in 0 .. HalfOpenAttempts /\ "half-open" \in States /\ b \in Breakers
    BY DEF Sound, States
  <2>1. l \in Breakers /\ l.state = "half-open" /\ l.successCount = 0
    BY <2>0 DEF Breakers
  <2>2. Looked(b) = l
    BY <1>1 DEF Looked
  <2> QED
    BY <2>1, <2>2 DEF Sound
<1>2. CASE ~(b.state = "open" /\ b.sinceFailure > Timeout)
  BY <1>2 DEF Looked
<1> QED
  BY <1>1, <1>2

(* recordSuccess leaves a sound breaker sound. *)
LEMMA SuccessSound == ASSUME NEW b, Sound(b) PROVE Sound(AfterSuccess(b))
<1>1. b \in Breakers
  BY DEF Sound
<1>2. CASE b.state = "half-open"
  <2> DEFINE probed == [b EXCEPT !.successCount = @ + 1]
             s == [probed EXCEPT !.state = "closed", !.failures = 0, !.sinceFailure = Never]
  <2>1. probed \in Breakers /\ probed.state = "half-open"
    BY <1>1, <1>2 DEF Sound, Breakers
  <2> HIDE DEF probed
  <2>0. 0 \in 0 .. FailureThreshold /\ "closed" \in States
    BY DEF States
  <2>2. s \in Breakers /\ s.state = "closed" /\ s.failures = 0
    BY <2>0, <2>1 DEF Breakers
  <2>3. AfterSuccess(b) = IF probed.successCount >= HalfOpenAttempts THEN s ELSE probed
    BY <1>2 DEF AfterSuccess, probed
  <2>4. Sound(s)
    BY <2>2 DEF Sound
  <2>5. ASSUME ~(probed.successCount >= HalfOpenAttempts) PROVE Sound(probed)
    BY <2>1, <2>5 DEF Sound, Breakers
  <2> QED
    BY <2>3, <2>4, <2>5
<1>3. CASE b.state = "closed"
  <2> DEFINE f == IF b.failures > 0 THEN b.failures - 1 ELSE 0
             s == [b EXCEPT !.failures = f]
  <2>1. f \in 0 .. FailureThreshold /\ f < FailureThreshold
    BY <1>1, <1>3 DEF Sound, Breakers
  <2>2. AfterSuccess(b) = s
    BY <1>3 DEF AfterSuccess
  <2> HIDE DEF f
  <2>3. s \in Breakers /\ s.state = "closed" /\ s.failures = f
    BY <1>1, <1>3, <2>1 DEF Breakers
  <2> HIDE DEF s
  <2> QED
    BY <2>1, <2>2, <2>3 DEF Sound
<1>4. CASE b.state = "open"
  <2>1. AfterSuccess(b) = b
    BY <1>4 DEF AfterSuccess
  <2> QED
    BY <2>1
<1> QED
  BY <1>1, <1>2, <1>3, <1>4 DEF Breakers, States

(* recordFailure leaves a sound breaker sound, its last failure just now. *)
LEMMA FailureSound ==
    ASSUME NEW b, Sound(b)
    PROVE  Sound(AfterFailure(b)) /\ AfterFailure(b).sinceFailure = 0
<1> DEFINE f == SaturateAt(b.failures + 1, FailureThreshold)
           trip == b.state = "half-open" \/ b.failures + 1 >= FailureThreshold
           st == IF trip THEN "open" ELSE b.state
           s == [b EXCEPT !.failures = f, !.sinceFailure = 0, !.state = st]
<1>1. b \in Breakers
  BY DEF Sound
<1>2. f \in 0 .. FailureThreshold
  BY <1>1 DEF Breakers, SaturateAt
<1>3. st \in States /\ st # "half-open" /\ (st = "closed" => f < FailureThreshold)
  BY <1>1 DEF Breakers, States, SaturateAt
<1>4. 0 \in 0 .. Expired
  BY DEF Expired
<1>5. AfterFailure(b) = s
  BY DEF AfterFailure
<1> HIDE DEF f, st
<1>6. s \in Breakers /\ s.state = st /\ s.failures = f /\ s.sinceFailure = 0
  BY <1>1, <1>2, <1>3, <1>4 DEF Breakers
<1> HIDE DEF s
<1> QED
  BY <1>3, <1>5, <1>6 DEF Sound, Never

(* The breaker a module starts with, or is reset to, is sound. *)
LEMMA ClosedSound == Sound(Closed)
  BY DEF Sound, Breakers, Closed, States, Never

(* What the calls in flight know of the breaker of their module: none of    *)
(* them is younger than the last failure or the opening of an open breaker, *)
(* and all of them are probes of a half-open one, or overdue.               *)
CallsAgree(m) ==
    /\ breaker[m].state = "open" =>
          \A c \in InFlight(m) :
             call[c].age >= breaker[m].sinceFailure /\ call[c].age >= openFor[m]
    /\ breaker[m].state = "half-open" =>
          \A c \in InFlight(m) : call[c].admitted = "half-open" \/ call[c].age > Timeout

(* A failure can only have moved lastFailureTime while a call was still in  *)
(* flight, so at most one timeout and a lag after the breaker opened.       *)
LastFailureBounded(m) ==
    breaker[m].state = "open" =>
        openFor[m] <= breaker[m].sinceFailure + Timeout + TimerLag \/ breaker[m].sinceFailure > Timeout

IInv ==
    /\ BreakerTypeOK
    /\ \A m \in Modules : Sound(breaker[m])
    /\ \A m \in Modules : CallsAgree(m) /\ LastFailureBounded(m)

(* The invariant holds at the start. *)
LEMMA InitGateway == Init => IInv
<1> SUFFICES ASSUME Init PROVE IInv
  OBVIOUS
<1>1. BreakerTypeOK
  BY ClosedSound DEF Init, BreakerTypeOK, Sound, Breakers, Free, States, LongAgo
<1>2. \A m \in Modules : Sound(breaker[m]) /\ breaker[m].state = "closed"
  BY ClosedSound DEF Init, Closed
<1> QED
  BY <1>1, <1>2 DEF IInv, CallsAgree, LastFailureBounded

(* An admission.  The breaker of an open module turns half-open only when   *)
(* its last failure is older than any call in flight can be.                *)
LEMMA StartKeeps ==
    ASSUME IInv, NEW c \in Calls, NEW m \in Modules, NEW t \in Tenants, Start(c, m, t)
    PROVE  IInv'
<1> DEFINE b == Looked(breaker[m])
           new == [running |-> TRUE, module |-> m, age |-> 0, admitted |-> b.state]
<1>1. /\ b.state # "open"
      /\ breaker' = [breaker EXCEPT ![m] = b]
      /\ call' = [call EXCEPT ![c] = new]
      /\ openFor' = openFor
  BY DEF Start
<1>2. Sound(b) /\ Sound(breaker[m])
  BY LookedSound DEF IInv
<1>3. new \in [running : BOOLEAN, module : Modules \union {Never},
               age : 0 .. Timeout + TimerLag, admitted : States]
  BY <1>2 DEF Sound, Breakers
<1>4. \/ b = breaker[m]
      \/ /\ breaker[m].state = "open" /\ breaker[m].sinceFailure > Timeout
         /\ b.state = "half-open"
  BY <1>2 DEF Looked, Sound, Breakers
<1> HIDE DEF b
<1>5. BreakerTypeOK'
  BY <1>1, <1>2, <1>3 DEF IInv, BreakerTypeOK, Sound, Breakers
<1>6. \A n \in Modules : Sound(breaker'[n])
  BY <1>1, <1>2 DEF IInv, BreakerTypeOK
<1>7. ASSUME NEW n \in Modules PROVE CallsAgree(n)' /\ LastFailureBounded(n)'
  <2>1. CASE n # m
    <3>1. breaker'[n] = breaker[n] /\ openFor'[n] = openFor[n]
      BY <1>1, <2>1 DEF IInv, BreakerTypeOK
    <3>2. \A d \in InFlight(n)' : d \in InFlight(n) /\ call'[d] = call[d]
      BY <1>1, <2>1 DEF IInv, BreakerTypeOK, InFlight
    <3> QED
      BY <3>1, <3>2 DEF IInv, CallsAgree, LastFailureBounded
  <2>2. CASE n = m
    <3>1. breaker'[m] = b
      BY <1>1 DEF IInv, BreakerTypeOK
    <3>2. ASSUME b.state = "half-open", NEW d \in InFlight(m)'
          PROVE  call'[d].admitted = "half-open" \/ call'[d].age > Timeout
      <4>1. CASE d = c
        BY <1>1, <3>2, <4>1 DEF IInv, BreakerTypeOK, InFlight
      <4>2. CASE d # c
        <5>1. d \in InFlight(m) /\ call'[d] = call[d]
          BY <1>1, <4>2 DEF IInv, BreakerTypeOK, InFlight
        <5>2. /\ call[d].age \in Nat
              /\ breaker[m].sinceFailure \in {Never} \union (0 .. Expired)
          BY <5>1 DEF IInv, BreakerTypeOK, InFlight
        <5>3. breaker[m].state = "open" /\ breaker[m].sinceFailure > Timeout
                => call[d].age > Timeout
          BY <1>2, <5>1, <5>2 DEF IInv, CallsAgree, Expired, Never
        <5> QED
          BY <1>4, <3>2, <5>1, <5>3 DEF IInv, CallsAgree
      <4> QED
        BY <4>1, <4>2
    <3> QED
      BY <1>1, <2>2, <3>1, <3>2 DEF CallsAgree, LastFailureBounded
  <2> QED
    BY <2>1, <2>2
<1> QED
  BY <1>5, <1>6, <1>7 DEF IInv

(* A call that leaves does not change the others. *)
LEMMA OthersStay ==
    ASSUME IInv, NEW c \in Calls, call' = [call EXCEPT ![c] = Free]
    PROVE  /\ call' \in [Calls -> [running : BOOLEAN, module : Modules \union {Never},
                                   age : 0 .. Timeout + TimerLag, admitted : States]]
           /\ \A d \in Calls : call'[d].running =>
                 d # c /\ call'[d] = call[d] /\ call[d].running
<1>1. Free \in [running : BOOLEAN, module : Modules \union {Never},
               age : 0 .. Timeout + TimerLag, admitted : States] /\ Free.running = FALSE
  BY DEF Free, States
<1> QED
  BY <1>1 DEF IInv, BreakerTypeOK

(* A success: if it closes the breaker, no call in flight is left to        *)
(* contradict it.                                                           *)
LEMMA SucceedKeeps ==
    ASSUME IInv, NEW c \in Calls, Succeed(c)
    PROVE  IInv'
<1> DEFINE m == call[c].module
           b == AfterSuccess(breaker[m])
<1>1. /\ call[c].running /\ m \in Modules
      /\ breaker' = [breaker EXCEPT ![m] = b]
      /\ call' = [call EXCEPT ![c] = Free]
      /\ openFor' = openFor
  BY DEF Succeed, IInv, BreakerTypeOK
<1>2. Sound(b)
  BY <1>1, SuccessSound DEF IInv
<1>3. /\ b.state = "open" => b = breaker[m]
      /\ b.state = "half-open" => breaker[m].state = "half-open"
  BY <1>1 DEF AfterSuccess, IInv, Sound, Breakers, States
<1> HIDE DEF b
<1>4. \A n \in Modules : breaker'[n] = IF n = m THEN b ELSE breaker[n]
  BY <1>1 DEF IInv, BreakerTypeOK
<1>5. BreakerTypeOK'
  BY <1>1, <1>2, OthersStay DEF IInv, BreakerTypeOK, Sound, Breakers
<1>6. \A n \in Modules : Sound(breaker'[n])
  BY <1>2, <1>4 DEF IInv
<1>7. ASSUME NEW n \in Modules PROVE CallsAgree(n)' /\ LastFailureBounded(n)'
  <2>1. \A d \in InFlight(n)' : d \in InFlight(n) /\ call'[d] = call[d]
    BY <1>1, OthersStay DEF InFlight
  <2>2. /\ breaker'[n].state = "open" => breaker'[n] = breaker[n]
        /\ breaker'[n].state = "half-open" => breaker[n].state = "half-open"
    BY <1>3, <1>4
  <2> QED
    BY <1>1, <2>1, <2>2 DEF IInv, CallsAgree, LastFailureBounded
<1> QED
  BY <1>5, <1>6, <1>7 DEF IInv

(* A failure, also one that arrives while the breaker is open already. *)
LEMMA FailureKeeps ==
    ASSUME IInv, NEW c \in Calls, call[c].running, RecordFailureOf(c)
    PROVE  IInv'
<1> DEFINE m == call[c].module
           b == AfterFailure(breaker[m])
           reopened == b.state = "open" /\ breaker[m].state # "open"
<1>1. /\ m \in Modules
      /\ breaker' = [breaker EXCEPT ![m] = b]
      /\ call' = [call EXCEPT ![c] = Free]
      /\ openFor' = [openFor EXCEPT ![m] = IF reopened THEN 0 ELSE @]
  BY DEF RecordFailureOf, IInv, BreakerTypeOK
<1>2. Sound(b) /\ b.sinceFailure = 0
  BY <1>1, FailureSound DEF IInv
<1>3. b.state # "half-open"
  BY <1>1 DEF AfterFailure, IInv, Sound, Breakers
<1> HIDE DEF b
<1>4. \A n \in Modules : /\ breaker'[n] = IF n = m THEN b ELSE breaker[n]
                        /\ openFor'[n] = IF n = m /\ reopened THEN 0 ELSE openFor[n]
  BY <1>1 DEF IInv, BreakerTypeOK
<1>5. BreakerTypeOK'
  <2>1. breaker' \in [Modules -> Breakers]
    BY <1>1, <1>2 DEF IInv, BreakerTypeOK, Sound, Breakers
  <2>2. openFor' \in [Modules -> 0 .. LongAgo]
    BY <1>1 DEF IInv, BreakerTypeOK, LongAgo
  <2> QED
    BY <1>1, <2>1, <2>2, OthersStay DEF IInv, BreakerTypeOK, Breakers
<1>6. \A n \in Modules : Sound(breaker'[n])
  BY <1>2, <1>4 DEF IInv
<1>7. ASSUME NEW n \in Modules PROVE CallsAgree(n)' /\ LastFailureBounded(n)'
  <2>1. \A d \in InFlight(n)' : d \in InFlight(n) /\ call'[d] = call[d]
    BY <1>1, OthersStay DEF InFlight
  <2>2. CASE n # m
    BY <1>4, <2>1, <2>2 DEF IInv, CallsAgree, LastFailureBounded
  <2>3. CASE n = m
    <3>1. /\ c \in InFlight(m)
          /\ call[c].age <= Timeout + TimerLag /\ call[c].age \in Nat
      BY DEF InFlight, IInv, BreakerTypeOK
    <3>2. ASSUME b.state = "open" PROVE openFor'[n] <= Timeout + TimerLag
      <4>1. CASE reopened
        BY <1>1, <1>4, <2>3, <4>1
      <4>2. CASE ~reopened
        BY <1>1, <1>4, <2>3, <3>1, <3>2, <4>2 DEF IInv, CallsAgree, BreakerTypeOK, LongAgo
      <4> QED
        BY <4>1, <4>2
    <3>3. ASSUME b.state = "open", NEW d \in InFlight(n)'
          PROVE  call'[d].age >= 0 /\ call'[d].age >= openFor'[n]
      <4>1. d \in InFlight(n) /\ call'[d] = call[d] /\ call[d].age \in Nat
        BY <2>1, <3>3 DEF InFlight, IInv, BreakerTypeOK
      <4>2. CASE reopened
        BY <1>1, <1>4, <2>3, <4>1, <4>2
      <4>3. CASE ~reopened
        BY <1>1, <1>4, <2>3, <3>3, <4>1, <4>3 DEF IInv, CallsAgree
      <4> QED
        BY <4>2, <4>3
    <3>4. breaker'[n] = b
      BY <1>4, <2>3
    <3>5. CallsAgree(n)'
      BY <1>2, <1>3, <3>3, <3>4 DEF CallsAgree
    <3>6. LastFailureBounded(n)'
      BY <1>2, <3>2, <3>4 DEF LastFailureBounded
    <3> QED
      BY <3>5, <3>6
  <2> QED
    BY <2>2, <2>3
<1> QED
  BY <1>5, <1>6, <1>7 DEF IInv

(* The manual reset, also with calls in flight. *)
LEMMA ResetKeeps ==
    ASSUME IInv, NEW m \in Modules, ResetCircuitBreaker(m)
    PROVE  IInv'
<1>1. breaker' = [breaker EXCEPT ![m] = Closed] /\ call' = call /\ openFor' = openFor
  BY DEF ResetCircuitBreaker
<1>2. \A n \in Modules : breaker'[n] = IF n = m THEN Closed ELSE breaker[n]
  BY <1>1 DEF IInv, BreakerTypeOK
<1>3. BreakerTypeOK'
  BY <1>1, ClosedSound DEF IInv, BreakerTypeOK, Sound, Breakers
<1>4. \A n \in Modules : Sound(breaker'[n])
  BY <1>2, ClosedSound DEF IInv
<1>5. ASSUME NEW n \in Modules PROVE CallsAgree(n)' /\ LastFailureBounded(n)'
  BY <1>1, <1>2 DEF IInv, CallsAgree, LastFailureBounded, InFlight, Closed
<1> QED
  BY <1>3, <1>4, <1>5 DEF IInv

(* The passing of time: calls in flight and the breaker grow older          *)
(* together.                                                                *)
LEMMA TickKeeps ==
    ASSUME IInv, Tick
    PROVE  IInv'
<1>1. \A c \in Calls :
        /\ call[c].running => call[c].age < Timeout + TimerLag
        /\ call'[c] = IF call[c].running THEN [call[c] EXCEPT !.age = @ + 1] ELSE call[c]
  BY DEF Tick
<1>2. \A m \in Modules :
        /\ breaker'[m] = IF breaker[m].sinceFailure = Never THEN breaker[m]
                         ELSE [breaker[m] EXCEPT !.sinceFailure = SaturateAt(@ + 1, Expired)]
        /\ openFor'[m] = SaturateAt(openFor[m] + 1, LongAgo)
  BY DEF Tick
<1>3. ASSUME NEW c \in Calls
      PROVE  /\ call'[c] \in [running : BOOLEAN, module : Modules \union {Never},
                              age : 0 .. Timeout + TimerLag, admitted : States]
             /\ call'[c].running = call[c].running
             /\ call'[c].module = call[c].module /\ call'[c].admitted = call[c].admitted
             /\ call[c].running => call'[c].age = call[c].age + 1
  <2>1. call[c] \in [running : BOOLEAN, module : Modules \union {Never},
                    age : 0 .. Timeout + TimerLag, admitted : States]
    BY DEF IInv, BreakerTypeOK
  <2>2. CASE call[c].running
    <3> DEFINE a == call[c].age + 1
    <3>1. a \in 0 .. Timeout + TimerLag
      <4>1. call[c].age < Timeout + TimerLag
        BY <1>1, <2>2
      <4>2. call[c].age \in 0 .. Timeout + TimerLag
        BY <2>1
      <4> QED
        BY <4>1, <4>2
    <3>2. call'[c] = [call[c] EXCEPT !.age = a]
      BY <1>1, <2>2
    <3> HIDE DEF a
    <3>3. /\ [call[c] EXCEPT !.age = a].age = a
          /\ [call[c] EXCEPT !.age = a].running = call[c].running
          /\ [call[c] EXCEPT !.age = a].module = call[c].module
          /\ [call[c] EXCEPT !.age = a].admitted = call[c].admitted
          /\ [call[c] EXCEPT !.age = a] \in [running : BOOLEAN, module : Modules \union {Never},
                    age : 0 .. Timeout + TimerLag, admitted : States]
      BY <2>1, <3>1
    <3> QED
      BY <3>2, <3>3 DEF a
  <2>3. CASE ~call[c].running
    BY <1>1, <2>1, <2>3
  <2> QED
    BY <2>2, <2>3
<1>4. ASSUME NEW m \in Modules
      PROVE  /\ Sound(breaker'[m]) /\ breaker'[m].state = breaker[m].state
             /\ breaker[m].sinceFailure # Never =>
                   breaker'[m].sinceFailure = IF breaker[m].sinceFailure + 1 > Expired
                                                THEN Expired ELSE breaker[m].sinceFailure + 1
             /\ openFor'[m] = IF openFor[m] + 1 > LongAgo THEN LongAgo ELSE openFor[m] + 1
             /\ openFor'[m] \in 0 .. LongAgo
  <2> DEFINE a == SaturateAt(breaker[m].sinceFailure + 1, Expired)
             s == [breaker[m] EXCEPT !.sinceFailure = a]
  <2>1. Sound(breaker[m]) /\ breaker[m] \in Breakers
    BY DEF IInv, Sound
  <2>2. openFor'[m] = IF openFor[m] + 1 > LongAgo THEN LongAgo ELSE openFor[m] + 1
    BY <1>2 DEF SaturateAt
  <2>3. openFor'[m] \in 0 .. LongAgo
    BY <2>2 DEF IInv, BreakerTypeOK, LongAgo
  <2>4. CASE breaker[m].sinceFailure = Never
    BY <1>2, <2>1, <2>2, <2>3, <2>4
  <2>5. CASE breaker[m].sinceFailure # Never
    <3>1. a \in 0 .. Expired /\ a # Never
          /\ a = IF breaker[m].sinceFailure + 1 > Expired THEN Expired
                 ELSE breaker[m].sinceFailure + 1
      BY <2>1, <2>5 DEF Breakers, SaturateAt, Expired, Never
    <3>2. breaker'[m] = s
      BY <1>2, <2>5
    <3> HIDE DEF a
    <3>3. /\ s \in Breakers /\ s.state = breaker[m].state /\ s.failures = breaker[m].failures
          /\ s.successCount = breaker[m].successCount /\ s.sinceFailure = a
      BY <2>1, <3>1 DEF Breakers
    <3> HIDE DEF s
    <3>4. Sound(s)
      BY <2>1, <3>1, <3>3 DEF Sound
    <3> QED
      BY <2>2, <2>3, <3>1, <3>2, <3>3, <3>4
  <2> QED
    BY <2>4, <2>5
<1>5. BreakerTypeOK'
  <2>1. call' \in [Calls -> [running : BOOLEAN, module : Modules \union {Never},
                            age : 0 .. Timeout + TimerLag, admitted : States]]
    <3>1. DOMAIN call' = Calls /\ call' = [c \in Calls |-> call'[c]]
      BY DEF Tick
    <3> QED
      BY <1>3, <3>1
  <2>2. breaker' \in [Modules -> Breakers]
    <3>1. breaker' = [m \in Modules |-> breaker'[m]]
      BY DEF Tick
    <3> QED
      BY <1>4, <3>1 DEF Sound
  <2>3. openFor' \in [Modules -> 0 .. LongAgo]
    <3>1. openFor' = [m \in Modules |-> openFor'[m]]
      BY DEF Tick
    <3> QED
      BY <1>4, <3>1
  <2>4. \A c \in Calls : call'[c].running => call'[c].module \in Modules
    BY <1>3 DEF IInv, BreakerTypeOK
  <2> QED
    BY <2>1, <2>2, <2>3, <2>4 DEF BreakerTypeOK, Breakers
<1>6. ASSUME NEW m \in Modules PROVE CallsAgree(m)' /\ LastFailureBounded(m)'
  <2>1. InFlight(m)' = InFlight(m)
    BY <1>3 DEF InFlight
  <2>2. /\ openFor[m] \in Nat
        /\ breaker[m].state = "open" => breaker[m].sinceFailure \in 0 .. Expired
    BY DEF IInv, BreakerTypeOK, Sound, Breakers, LongAgo
  <2>3. CallsAgree(m)'
    <3>1. ASSUME NEW c \in InFlight(m), breaker[m].state = "open"
          PROVE  call'[c].age >= breaker'[m].sinceFailure /\ call'[c].age >= openFor'[m]
      <4>1. call[c].age >= breaker[m].sinceFailure /\ call[c].age >= openFor[m]
        BY <3>1 DEF IInv, CallsAgree
      <4>2. call'[c].age = call[c].age + 1 /\ call[c].age \in Nat
        BY <1>3 DEF InFlight, IInv, BreakerTypeOK
      <4>3. breaker'[m].sinceFailure <= breaker[m].sinceFailure + 1
            /\ breaker'[m].sinceFailure \in Nat
        BY <1>4, <2>2, <3>1 DEF Never, Expired
      <4>4. openFor'[m] <= openFor[m] + 1 /\ openFor'[m] \in Nat
        BY <1>4, <2>2 DEF LongAgo
      <4> QED
        BY <2>2, <3>1, <4>1, <4>2, <4>3, <4>4
    <3>2. ASSUME NEW c \in InFlight(m), breaker[m].state = "half-open"
          PROVE  call'[c].admitted = "half-open" \/ call'[c].age > Timeout
      <4>1. call[c].admitted = "half-open" \/ call[c].age > Timeout
        BY <3>2 DEF IInv, CallsAgree
      <4>2. /\ call'[c].age = call[c].age + 1 /\ call[c].age \in Nat
            /\ call'[c].admitted = call[c].admitted
        BY <1>3 DEF InFlight, IInv, BreakerTypeOK
      <4> QED
        BY <4>1, <4>2
    <3>3. breaker'[m].state = breaker[m].state
      BY <1>4
    <3> QED
      BY <2>1, <3>1, <3>2, <3>3 DEF CallsAgree
  <2>4. LastFailureBounded(m)'
    <3>1. ASSUME breaker[m].state = "open"
          PROVE  \/ openFor'[m] <= breaker'[m].sinceFailure + Timeout + TimerLag
                 \/ breaker'[m].sinceFailure > Timeout
      BY <1>4, <2>2, <3>1 DEF IInv, LastFailureBounded, Expired, LongAgo, Never
    <3> QED
      BY <1>4, <3>1 DEF LastFailureBounded
  <2> QED
    BY <2>3, <2>4
<1> QED
  BY <1>4, <1>5, <1>6 DEF IInv

(* Every step of the gateway keeps the invariant. *)
LEMMA NextGateway == IInv /\ [Next]_vars => IInv'
<1> SUFFICES ASSUME IInv, [Next]_vars PROVE IInv'
  OBVIOUS
<1>1. ASSUME breaker' = breaker, call' = call, openFor' = openFor PROVE IInv'
  BY <1>1 DEF IInv, BreakerTypeOK, CallsAgree, LastFailureBounded, InFlight
<1>2. ASSUME NEW t \in Tenants, RateLimited(t) \/ NoAdapter(t) PROVE IInv'
  BY <1>1, <1>2 DEF RateLimited, NoAdapter
<1>3. ASSUME NEW m \in Modules, NEW t \in Tenants, ShortCircuited(m, t) PROVE IInv'
  BY <1>1, <1>3 DEF ShortCircuited
<1>4. ASSUME NEW c \in Calls, Fail(c) \/ TimeOut(c) PROVE IInv'
  BY <1>4, FailureKeeps DEF Fail, TimeOut
<1>5. ASSUME UNCHANGED vars PROVE IInv'
  BY <1>1, <1>5 DEF vars
<1> QED
  BY <1>2, <1>3, <1>4, <1>5, StartKeeps, SucceedKeeps, ResetKeeps, TickKeeps DEF Next

(* The inductive invariant holds always. *)
LEMMA AlwaysGateway == Spec => []IInv
  BY InitGateway, NextGateway, PTL DEF Spec

(* The breaker's counters fit its state for every number of calls, modules  *)
(* and tenants.                                                             *)
THEOREM BreakerAlwaysConsistent == Spec => []BreakerConsistent
<1>1. IInv => BreakerConsistent
  BY DEF IInv, Sound, BreakerConsistent
<1> QED
  BY <1>1, AlwaysGateway, PTL

(* A half-open breaker is closed by probes only, and by overdue calls: none *)
(* admitted before it opened is within its time, as call and open state     *)
(* both have the timeout TIMEOUT_MS.                                        *)
THEOREM OnlyProbesClose == Spec => []OnlyProbesInHalfOpen
<1>1. IInv => OnlyProbesInHalfOpen
  BY DEF IInv, CallsAgree, OnlyProbesInHalfOpen
<1> QED
  BY <1>1, AlwaysGateway, PTL

(* Late failures prolong the open state by at most one TIMEOUT_MS and the   *)
(* lag of a timer.                                                          *)
THEOREM QuarantineAlwaysBounded == Spec => []QuarantineBounded
<1>1. IInv => QuarantineBounded
  BY DEF IInv, BreakerTypeOK, Sound, Breakers, Expired, Never, LongAgo,
         LastFailureBounded, QuarantineBounded
<1> QED
  BY <1>1, AlwaysGateway, PTL

-----------------------------------------------------------------------------
(* The rate limiter. *)

Accepted(t) == {n \in Slots : accepted[t][n] # NoRequest}

(* The limiter knows exactly the accepted requests of the window, and they  *)
(* are within the limit.                                                    *)
LimiterInv ==
    /\ LimiterTypeOK
    /\ \A t \in Tenants :
          /\ Accepted(t) = InWindow(requests[t])
          /\ \A n \in Accepted(t) : accepted[t][n] = requests[t][n]
          /\ Cardinality(Accepted(t)) <= MaxRequests

(* Any part of the slots can be counted. *)
LEMMA SlotsFinite == ASSUME NEW S \in SUBSET Slots PROVE IsFiniteSet(S) /\ Cardinality(S) \in Nat
<1>1. IsFiniteSet(Slots)
  BY FS_Interval DEF Slots
<1> QED
  BY <1>1, FS_Subset, FS_CardinalityType

(* The invariant holds at the start. *)
LEMMA InitLimiter == Init => LimiterInv
<1> SUFFICES ASSUME Init PROVE LimiterInv
  OBVIOUS
<1>1. LimiterTypeOK
  BY DEF Init, LimiterTypeOK
<1>2. \A t \in Tenants : Accepted(t) = {} /\ InWindow(requests[t]) = {}
  BY DEF Init, Accepted, InWindow
<1> QED
  BY <1>1, <1>2, FS_EmptySet DEF LimiterInv

(* Pruning keeps what is in the window. *)
LEMMA PrunedKeeps ==
    ASSUME LimiterTypeOK, NEW t \in Tenants
    PROVE  /\ Pruned(requests[t]) \in [Slots -> {NoRequest} \union (0 .. Window)]
           /\ \A n \in InWindow(requests[t]) : Pruned(requests[t])[n] = requests[t][n]
           /\ InWindow(Pruned(requests[t])) = InWindow(requests[t])
<1>1. /\ requests[t] \in [Slots -> {NoRequest} \union (0 .. Window)]
      /\ InWindow(requests[t]) \subseteq Slots
  BY DEF LimiterTypeOK, InWindow
<1>2. \A n \in Slots : Pruned(requests[t])[n] =
                          IF n \in InWindow(requests[t]) THEN requests[t][n] ELSE NoRequest
  BY DEF Pruned
<1>3. Pruned(requests[t]) \in [Slots -> {NoRequest} \union (0 .. Window)]
  BY <1>1 DEF Pruned
<1>4. InWindow(Pruned(requests[t])) = InWindow(requests[t])
  BY <1>2 DEF InWindow
<1> QED
  BY <1>1, <1>2, <1>3, <1>4

(* A refusal stores the pruned list. *)
LEMMA RefusalKeepsLimiter ==
    ASSUME LimiterInv, NEW t \in Tenants, RateLimited(t)
    PROVE  LimiterInv'
<1>1. /\ requests' = [requests EXCEPT ![t] = Pruned(requests[t])] /\ accepted' = accepted
      /\ LimiterTypeOK
  BY DEF RateLimited, LimiterInv
<1>2. \A u \in Tenants : requests'[u] = IF u = t THEN Pruned(requests[t]) ELSE requests[u]
  BY <1>1 DEF LimiterTypeOK
<1>3. LimiterTypeOK'
  BY <1>1, PrunedKeeps DEF LimiterTypeOK
<1>4. ASSUME NEW u \in Tenants
      PROVE  /\ InWindow(requests'[u]) = InWindow(requests[u])
             /\ \A n \in InWindow(requests[u]) : requests'[u][n] = requests[u][n]
             /\ Accepted(u)' = Accepted(u)
  BY <1>1, <1>2, PrunedKeeps DEF Accepted
<1> QED
  BY <1>1, <1>3, <1>4 DEF LimiterInv

(* One more request fits under the limit that has just been checked. *)
LEMMA AcceptKeepsLimiter ==
    ASSUME LimiterInv, NEW t \in Tenants, AcceptRequest(t)
    PROVE  LimiterInv'
<1> DEFINE pruned == Pruned(requests[t])
<1>1. PICK n \in Slots \ Taken(t) :
         /\ requests' = [requests EXCEPT ![t] = [pruned EXCEPT ![n] = 0]]
         /\ accepted' = [accepted EXCEPT ![t][n] = 0]
  BY DEF AcceptRequest
<1>2. /\ LimiterTypeOK /\ WithinLimit(t)
      /\ pruned \in [Slots -> {NoRequest} \union (0 .. Window)]
      /\ \A k \in InWindow(requests[t]) : pruned[k] = requests[t][k]
      /\ InWindow(pruned) = InWindow(requests[t])
      /\ n \in Slots /\ n \notin InWindow(requests[t])
  BY PrunedKeeps DEF AcceptRequest, LimiterInv, Taken
<1> HIDE DEF pruned
<1>3. \A u \in Tenants :
         /\ requests'[u] = IF u = t THEN [pruned EXCEPT ![n] = 0] ELSE requests[u]
         /\ accepted'[u] = IF u = t THEN [accepted[t] EXCEPT ![n] = 0] ELSE accepted[u]
  BY <1>1, <1>2 DEF LimiterTypeOK
<1>4. LimiterTypeOK'
  <2>1. 0 \in 0 .. Window /\ 0 \in 0 .. Window - 1
    OBVIOUS
  <2>2. requests' \in [Tenants -> [Slots -> {NoRequest} \union (0 .. Window)]]
    BY <1>1, <1>2, <2>1 DEF LimiterTypeOK
  <2>3. accepted' \in [Tenants -> [Slots -> {NoRequest} \union (0 .. Window - 1)]]
    BY <1>1, <1>2, <2>1 DEF LimiterTypeOK
  <2> QED
    BY <2>2, <2>3 DEF LimiterTypeOK
<1>5. ASSUME NEW u \in Tenants
      PROVE  /\ Accepted(u)' = InWindow(requests'[u])
             /\ \A k \in Accepted(u)' : accepted'[u][k] = requests'[u][k]
             /\ Cardinality(Accepted(u)') <= MaxRequests
  <2>1. CASE u # t
    BY <1>3, <2>1 DEF LimiterInv, Accepted
  <2>2. CASE u = t
    <3>1. \A k \in Slots : /\ accepted'[t][k] = IF k = n THEN 0 ELSE accepted[t][k]
                           /\ requests'[t][k] = IF k = n THEN 0 ELSE pruned[k]
      BY <1>2, <1>3 DEF LimiterTypeOK
    <3>2. InWindow(requests'[t]) = InWindow(requests[t]) \union {n}
      BY <1>2, <3>1 DEF InWindow, NoRequest
    <3>3. Accepted(t)' = Accepted(t) \union {n}
      BY <1>2, <3>1 DEF Accepted, NoRequest
    <3>4. Accepted(t) = InWindow(requests[t])
      BY DEF LimiterInv
    <3>5. ASSUME NEW k \in Accepted(t)' PROVE accepted'[t][k] = requests'[t][k]
      <4>1. CASE k = n
        BY <1>2, <3>1, <4>1
      <4>2. CASE k # n
        BY <1>2, <3>1, <3>3, <3>4, <4>2 DEF LimiterInv, Accepted
      <4> QED
        BY <4>1, <4>2
    <3>6. Cardinality(Accepted(t)') <= MaxRequests
      <4>1. IsFiniteSet(Accepted(t)) /\ Cardinality(Accepted(t)) \in Nat
        BY SlotsFinite DEF Accepted
      <4>2. Cardinality(Accepted(t)) < MaxRequests
        BY <1>2, <3>4 DEF WithinLimit
      <4>3. Cardinality(Accepted(t) \union {n}) <= Cardinality(Accepted(t)) + 1
        BY <4>1, FS_AddElement
      <4>4. Cardinality(Accepted(t) \union {n}) \in Nat
        BY <4>1, FS_AddElement, FS_CardinalityType
      <4> QED
        BY <3>3, <4>1, <4>2, <4>3, <4>4
    <3> QED
      BY <2>2, <3>2, <3>3, <3>4, <3>5, <3>6
  <2> QED
    BY <2>1, <2>2
<1> QED
  BY <1>4, <1>5 DEF LimiterInv

(* Time passes for the limiter and for its requests alike. *)
LEMMA TickKeepsLimiter ==
    ASSUME LimiterInv, Tick
    PROVE  LimiterInv'
<1>1. \A t \in Tenants : \A n \in Slots :
        /\ requests'[t][n] = IF requests[t][n] = NoRequest THEN NoRequest
                             ELSE SaturateAt(requests[t][n] + 1, Window)
        /\ accepted'[t][n] = IF accepted[t][n] = NoRequest \/ accepted[t][n] + 1 = Window
                             THEN NoRequest ELSE accepted[t][n] + 1
  BY DEF Tick
<1>2. \A t \in Tenants : \A n \in Slots :
        /\ requests[t][n] \in {NoRequest} \union (0 .. Window)
        /\ accepted[t][n] \in {NoRequest} \union (0 .. Window - 1)
        /\ requests'[t][n] \in {NoRequest} \union (0 .. Window)
        /\ accepted'[t][n] \in {NoRequest} \union (0 .. Window - 1)
  <2> SUFFICES ASSUME NEW t \in Tenants, NEW n \in Slots
               PROVE  /\ requests[t][n] \in {NoRequest} \union (0 .. Window)
                      /\ accepted[t][n] \in {NoRequest} \union (0 .. Window - 1)
                      /\ requests'[t][n] \in {NoRequest} \union (0 .. Window)
                      /\ accepted'[t][n] \in {NoRequest} \union (0 .. Window - 1)
    OBVIOUS
  <2>1. /\ requests[t][n] \in {NoRequest} \union (0 .. Window)
        /\ accepted[t][n] \in {NoRequest} \union (0 .. Window - 1)
    BY DEF LimiterInv, LimiterTypeOK
  <2>2. requests'[t][n] \in {NoRequest} \union (0 .. Window)
    BY <1>1, <2>1 DEF SaturateAt
  <2>3. accepted'[t][n] \in {NoRequest} \union (0 .. Window - 1)
    BY <1>1, <2>1
  <2> QED
    BY <2>1, <2>2, <2>3
<1>3. LimiterTypeOK'
  <2>1. /\ requests' = [t \in Tenants |-> [n \in Slots |-> requests'[t][n]]]
        /\ accepted' = [t \in Tenants |-> [n \in Slots |-> accepted'[t][n]]]
    BY DEF Tick
  <2> QED
    BY <1>2, <2>1 DEF LimiterTypeOK
<1>4. ASSUME NEW t \in Tenants
      PROVE  /\ Accepted(t)' = InWindow(requests'[t])
             /\ \A n \in Accepted(t)' : accepted'[t][n] = requests'[t][n]
             /\ Cardinality(Accepted(t)') <= MaxRequests
  <2>1. ASSUME NEW n \in Slots
        PROVE  /\ n \in Accepted(t)' <=> n \in InWindow(requests'[t])
               /\ n \in Accepted(t)' => n \in Accepted(t) /\ accepted'[t][n] = requests'[t][n]
    <3>1. /\ n \in Accepted(t) <=> n \in InWindow(requests[t])
          /\ n \in Accepted(t) => accepted[t][n] = requests[t][n]
      BY DEF LimiterInv
    <3> QED
      BY <1>1, <1>2, <3>1 DEF Accepted, InWindow, NoRequest, SaturateAt
  <2>2. Accepted(t)' = InWindow(requests'[t])
    BY <2>1 DEF Accepted, InWindow
  <2>3. Accepted(t)' \in SUBSET Accepted(t)
    BY <2>1 DEF Accepted
  <2>4. Cardinality(Accepted(t)') <= Cardinality(Accepted(t))
    BY <2>3, SlotsFinite, FS_Subset DEF Accepted
  <2>5. Cardinality(Accepted(t)') \in Nat /\ Cardinality(Accepted(t)) \in Nat
    BY SlotsFinite DEF Accepted
  <2> QED
    BY <2>1, <2>2, <2>4, <2>5 DEF LimiterInv, Accepted
<1> QED
  BY <1>3, <1>4 DEF LimiterInv

(* Every step keeps the limiter's invariant. *)
LEMMA NextLimiter == LimiterInv /\ [Next]_vars => LimiterInv'
<1> SUFFICES ASSUME LimiterInv, [Next]_vars PROVE LimiterInv'
  OBVIOUS
<1>1. ASSUME requests' = requests, accepted' = accepted PROVE LimiterInv'
  BY <1>1 DEF LimiterInv, LimiterTypeOK, Accepted
<1>2. ASSUME NEW t \in Tenants,
             NoAdapter(t) \/ \E m \in Modules : ShortCircuited(m, t)
      PROVE  LimiterInv'
  BY <1>2, AcceptKeepsLimiter DEF ShortCircuited, NoAdapter
<1>3. ASSUME NEW c \in Calls, NEW m \in Modules, NEW t \in Tenants, Start(c, m, t)
      PROVE  LimiterInv'
  BY <1>3, AcceptKeepsLimiter DEF Start
<1>4. ASSUME NEW c \in Calls, Succeed(c) \/ Fail(c) \/ TimeOut(c) PROVE LimiterInv'
  BY <1>1, <1>4 DEF Succeed, Fail, TimeOut, RecordFailureOf
<1>5. ASSUME NEW m \in Modules, ResetCircuitBreaker(m) PROVE LimiterInv'
  BY <1>1, <1>5 DEF ResetCircuitBreaker
<1>6. CASE UNCHANGED vars
  BY <1>1, <1>6 DEF vars
<1> QED
  BY <1>2, <1>3, <1>4, <1>5, <1>6, RefusalKeepsLimiter, TickKeepsLimiter DEF Next

(* The limiter's invariant holds always, whenever timers fire. *)
LEMMA AlwaysLimiter == Spec => []LimiterInv
  BY InitLimiter, NextLimiter, PTL DEF Spec

(* The gateway's state keeps its types: no counter, age or list leaves its  *)
(* range.                                                                   *)
THEOREM GatewayTypeCorrect == Spec => []TypeOK
<1>1. IInv /\ LimiterInv => TypeOK
  BY DEF IInv, LimiterInv, TypeOK
<1> QED
  BY <1>1, AlwaysGateway, AlwaysLimiter, PTL

(* A sliding window never holds more accepted requests of a tenant than the *)
(* limit, for any window and limit, however late timers fire.               *)
THEOREM RateWindowHolds == Spec => []RateWindow
<1>1. LimiterInv => RateWindow
  BY DEF LimiterInv, Accepted, RateWindow
<1> QED
  BY <1>1, AlwaysLimiter, PTL
=============================================================================
