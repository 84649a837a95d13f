------------------------- MODULE ModuleAccessProofs -------------------------
(* Proofs about ModuleAccess, for every number of processes, keys and calls, every
   CACHE_TTL and every bound on the duration of a query.                      *)
EXTENDS ModuleAccess, TLAPS

(* A read that will not answer with the row as it is was made before the row changed. *)
ReadsRecent ==
    \A c \in Calls :
        IsReading(c) /\ call[c].value # row[call[c].key] =>
            changed[call[c].key] <= call[c].age

(* Every entry has a timer that will delete it. *)
EntriesTimed ==
    \A p \in Processes, k \in Keys :
        cache[p][k] # NotCached => \E t \in 0..TTL : timers[p][k][t] > 0

(* The timer of an outdated entry fires within the window. *)
OutdatedTimed ==
    \A p \in Processes, k \in Keys :
        cache[p][k] \notin {NotCached, row[k]} =>
            \E t \in 0..TTL : timers[p][k][t] > 0 /\ changed[k] + t <= Window

IInv ==
    /\ TypeOK
    /\ ReadsRecent
    /\ EntriesTimed
    /\ OutdatedTimed

-----------------------------------------------------------------------------
(* The types *)

(* In the initial state nothing is cached and no query is under way. *)
LEMMA InitInv == Init => IInv
<1> SUFFICES ASSUME Init PROVE IInv
  OBVIOUS
<1>1. TypeOK
  BY AccessAssumption DEF Init, TypeOK, Queries, NoTimers, Window
<1>2. /\ \A c \in Calls : ~IsReading(c)
      /\ \A p \in Processes, k \in Keys : cache[p][k] = NotCached
  BY DEF Init, IsReading
<1> QED
  BY <1>1, <1>2 DEF IInv, ReadsRecent, EntriesTimed, OutdatedTimed

(* A query under way has a process, a key and, when it reads, a value and an age. *)
LEMMA CallTypes ==
    ASSUME TypeOK, NEW c \in Calls, call[c] # Idle
    PROVE  /\ call[c].process \in Processes /\ call[c].key \in Keys
           /\ IsReading(c) => /\ call[c].value \in Rows \cup {NoRow}
                              /\ call[c].age \in 0..QueryTime
BY DEF TypeOK, Queries, IsReading

(* A change keeps the types. *)
LEMMA WriteTypes ==
    ASSUME TypeOK, NEW p \in Processes, NEW k \in Keys, NEW value \in Rows \cup {NoRow},
           Write(p, k, value)
    PROVE  TypeOK'
<1>1. /\ row' \in [Keys -> Rows \cup {NoRow}]
      /\ changed' \in [Keys -> 0..Window + 1]
  BY AccessAssumption DEF TypeOK, Write, Window
<1>2. call' \in [Calls -> Queries \cup {Idle}]
  BY DEF TypeOK, Write, Queries
<1> QED
  BY <1>1, <1>2 DEF TypeOK, Write

(* Every change writes a row of the table, or leaves the key without one. *)
LEMMA ChangesWrite ==
    ASSUME TypeOK, NEW p \in Processes, NEW k \in Keys,
           GrantAccess(p, k) \/ RevokeAccess(p, k) \/ SetFeatureFlag(p, k)
    PROVE  \E value \in Rows \cup {NoRow} : Write(p, k, value)
<1>1. CASE GrantAccess(p, k)
  BY <1>1 DEF GrantAccess, Rows
<1>2. CASE RevokeAccess(p, k)
  <2>1. (IF row[k] = NoRow THEN NoRow ELSE [row[k] EXCEPT !.on = FALSE])
          \in Rows \cup {NoRow}
    BY DEF TypeOK, Rows
  <2> QED
    BY <1>2, <2>1 DEF RevokeAccess
<1>3. CASE SetFeatureFlag(p, k)
  BY <1>3 DEF SetFeatureFlag
<1> QED
  BY <1>1, <1>2, <1>3

(* Time keeps the types. *)
LEMMA TickTypes == ASSUME TypeOK, Tick PROVE TypeOK'
<1>1. timers' \in [Processes -> [Keys -> [0..TTL -> Nat]]]
  BY AccessAssumption DEF TypeOK, Tick
<1>2. call' \in [Calls -> Queries \cup {Idle}]
  <2> SUFFICES ASSUME NEW c \in Calls PROVE call'[c] \in Queries \cup {Idle}
    BY DEF Tick
  <2>1. CASE IsReading(c)
    <3>1. /\ call[c] \in [at : {"reading"}, process : Processes, key : Keys,
                          value : Rows \cup {NoRow}, age : 0..QueryTime]
          /\ call[c].age < QueryTime
          /\ call'[c] = [call[c] EXCEPT !.age = @ + 1]
      BY <2>1 DEF TypeOK, Queries, IsReading, Tick
    <3> QED
      BY <3>1, AccessAssumption DEF Queries
  <2>2. CASE ~IsReading(c)
    BY <2>2 DEF Tick, TypeOK
  <2> QED
    BY <2>1, <2>2
<1>3. changed' \in [Keys -> 0..Window + 1]
  BY AccessAssumption DEF TypeOK, Tick, Older, Window
<1> QED
  BY <1>1, <1>2, <1>3 DEF TypeOK, Tick

(* Every step keeps the types. *)
LEMMA NextTypes == ASSUME TypeOK, [Next]_vars PROVE TypeOK'
<1>1. ASSUME NEW p \in Processes, NEW k \in Keys, Query(p, k) PROVE TypeOK'
  <2>1. PICK c \in Calls :
          call' = [call EXCEPT ![c] = [at |-> "reading", process |-> p, key |-> k,
                                       value |-> row[k], age |-> 0]]
    BY <1>1 DEF Query
  <2>2. [at |-> "reading", process |-> p, key |-> k, value |-> row[k], age |-> 0] \in Queries
    BY AccessAssumption DEF TypeOK, Queries
  <2>3. call' \in [Calls -> Queries \cup {Idle}]
    BY <2>1, <2>2 DEF TypeOK
  <2> QED
    BY <1>1, <2>3 DEF TypeOK, Query
<1>2. ASSUME NEW p \in Processes, NEW k \in Keys,
             GrantAccess(p, k) \/ RevokeAccess(p, k) \/ SetFeatureFlag(p, k)
      PROVE  TypeOK'
  BY <1>2, ChangesWrite, WriteTypes
<1>3. ASSUME NEW p \in Processes, NEW k \in Keys, TimerFires(p, k) PROVE TypeOK'
  <2>1. [timers[p][k] EXCEPT ![0] = @ - 1] \in [0..TTL -> Nat]
    <3>1. timers[p][k] \in [0..TTL -> Nat] /\ 0 \in 0..TTL /\ timers[p][k][0] - 1 \in Nat
      BY <1>3, AccessAssumption DEF TypeOK, TimerFires
    <3> QED
      BY <3>1
  <2>2. timers' \in [Processes -> [Keys -> [0..TTL -> Nat]]]
    BY <1>3, <2>1 DEF TypeOK, TimerFires
  <2>3. cache' \in [Processes -> [Keys -> Rows \cup {NotCached}]]
    BY <1>3 DEF TypeOK, TimerFires
  <2> QED
    BY <1>3, <2>2, <2>3 DEF TypeOK, TimerFires
<1>4. ASSUME NEW c \in Calls, Answered(c) PROVE TypeOK'
  <2>1. /\ call[c].process \in Processes /\ call[c].key \in Keys
        /\ call[c].value \in Rows \cup {NoRow}
    BY <1>4, CallTypes DEF Answered, IsReading
  <2>2. CASE Cacheable(call[c].value)
    <3>1. PICK p \in Processes, k \in Keys, value \in Rows :
            /\ cache' = [cache EXCEPT ![p][k] = value]
            /\ timers' = [timers EXCEPT ![p][k][TTL] = @ + 1]
      BY <1>4, <2>1, <2>2 DEF Answered, Cacheable, Store
    <3>2. cache' \in [Processes -> [Keys -> Rows \cup {NotCached}]]
      BY <3>1 DEF TypeOK
    <3>3. timers' \in [Processes -> [Keys -> [0..TTL -> Nat]]]
      <4>1. timers[p][k] \in [0..TTL -> Nat] /\ TTL \in 0..TTL
        BY AccessAssumption DEF TypeOK
      <4>2. [timers[p][k] EXCEPT ![TTL] = @ + 1] \in [0..TTL -> Nat]
        BY <4>1
      <4> QED
        BY <3>1, <4>2 DEF TypeOK
    <3>4. UNCHANGED <<kind, row, changed>> /\ call' = [call EXCEPT ![c] = Idle]
      BY <1>4 DEF Answered
    <3> QED
      BY <3>2, <3>3, <3>4 DEF TypeOK
  <2>3. CASE ~Cacheable(call[c].value)
    BY <1>4, <2>3 DEF Answered, TypeOK
  <2> QED
    BY <2>2, <2>3
<1>5. ASSUME NEW c \in Calls, QueryRejected(c) PROVE TypeOK'
  BY <1>5 DEF QueryRejected, TypeOK
<1>6. ASSUME NEW c \in Calls, Invalidate(c) PROVE TypeOK'
  BY <1>6 DEF Invalidate, TypeOK
<1>7. ASSUME NEW p \in Processes, ClearCache(p) PROVE TypeOK'
  BY <1>7 DEF ClearCache, TypeOK
<1>8. ASSUME NEW p \in Processes, Restart(p) PROVE TypeOK'
  <2>1. NoTimers \in [0..TTL -> Nat]
    BY DEF NoTimers
  <2>2. call' \in [Calls -> Queries \cup {Idle}]
    BY <1>8 DEF Restart, TypeOK
  <2> QED
    BY <1>8, <2>1, <2>2 DEF Restart, TypeOK
<1>9. CASE UNCHANGED vars
  BY <1>9 DEF TypeOK, vars
<1> QED
  BY <1>1, <1>2, <1>3, <1>4, <1>5, <1>6, <1>7, <1>8, <1>9, TickTypes DEF Next

-----------------------------------------------------------------------------
(* The reads under way *)

(* A change makes its key the one changed last: older reads of another row are of age 0
   or more. *)
LEMMA WriteReads ==
    ASSUME TypeOK, ReadsRecent, NEW p \in Processes, NEW k \in Keys,
           NEW value \in Rows \cup {NoRow}, Write(p, k, value)
    PROVE  ReadsRecent'
<1> SUFFICES ASSUME NEW c \in Calls, IsReading(c)', (call[c].value # row[call[c].key])'
             PROVE  (changed[call[c].key] <= call[c].age)'
  BY DEF ReadsRecent
<1>1. call'[c] = call[c] /\ IsReading(c)
  BY DEF Write, TypeOK, IsReading
<1>2. call[c].key \in Keys /\ call[c].age \in Nat
  BY <1>1, CallTypes DEF IsReading
<1>3. /\ row' = [row EXCEPT ![k] = value]
      /\ changed' = [changed EXCEPT ![k] = IF value = row[k] THEN @ ELSE 0]
      /\ row \in [Keys -> Rows \cup {NoRow}] /\ changed \in [Keys -> 0..Window + 1]
  BY DEF Write, TypeOK
<1>4. CASE call[c].key = k /\ value # row[k]
  <2>1. changed'[call[c].key] = 0
    BY <1>3, <1>4
  <2> QED
    BY <1>1, <1>2, <2>1
<1>6. CASE ~(call[c].key = k /\ value # row[k])
  <2>1. row'[call[c].key] = row[call[c].key] /\ changed'[call[c].key] = changed[call[c].key]
    BY <1>2, <1>3, <1>6
  <2> QED
    BY <1>1, <2>1 DEF ReadsRecent
<1> QED
  BY <1>4, <1>6

(* Every step keeps a read's age at least that of the change it missed. *)
LEMMA NextReads == ASSUME IInv, [Next]_vars PROVE ReadsRecent'
<1> USE DEF IInv
<1>1. ASSUME NEW p \in Processes, NEW k \in Keys, Query(p, k) PROVE ReadsRecent'
  <2>1. PICK c \in Calls :
          call' = [call EXCEPT ![c] = [at |-> "reading", process |-> p, key |-> k,
                                       value |-> row[k], age |-> 0]]
    BY <1>1 DEF Query
  <2>2. row' = row /\ changed' = changed
    BY <1>1 DEF Query
  <2> QED
    BY <2>1, <2>2 DEF ReadsRecent, IsReading, TypeOK
<1>2. ASSUME NEW p \in Processes, NEW k \in Keys,
             GrantAccess(p, k) \/ RevokeAccess(p, k) \/ SetFeatureFlag(p, k)
      PROVE  ReadsRecent'
  BY <1>2, ChangesWrite, WriteReads
<1>3. CASE Tick
  <2> SUFFICES ASSUME NEW c \in Calls, IsReading(c)', (call[c].value # row[call[c].key])'
               PROVE  (changed[call[c].key] <= call[c].age)'
    BY DEF ReadsRecent
  <2>1. IsReading(c)
    BY <1>3 DEF Tick, IsReading
  <2>2. /\ call[c].key \in Keys /\ call[c].age \in 0..QueryTime /\ call[c].age < QueryTime
        /\ call[c] \in [at : {"reading"}, process : Processes, key : Keys,
                        value : Rows \cup {NoRow}, age : 0..QueryTime]
    BY <1>3, <2>1 DEF Tick, TypeOK, Queries, IsReading
  <2>3. /\ call'[c].key = call[c].key /\ call'[c].value = call[c].value
        /\ call'[c].age = call[c].age + 1
    BY <1>3, <2>1, <2>2 DEF Tick
  <2>4. changed[call[c].key] <= call[c].age
    BY <1>3, <2>1, <2>3 DEF Tick, ReadsRecent
  <2> QED
    BY <1>3, <2>2, <2>3, <2>4, AccessAssumption DEF Tick, Older, TypeOK, Window
<1>4. ASSUME NEW c \in Calls, Answered(c) \/ QueryRejected(c) \/ Invalidate(c)
      PROVE  ReadsRecent'
  BY <1>4 DEF Answered, QueryRejected, Invalidate, ReadsRecent, IsReading, TypeOK
<1>5. ASSUME NEW p \in Processes, ClearCache(p) \/ Restart(p) PROVE ReadsRecent'
  BY <1>5 DEF ClearCache, Restart, ReadsRecent, IsReading
<1>6. CASE UNCHANGED <<row, call, changed>>
  BY <1>6 DEF ReadsRecent, IsReading
<1> QED
  BY <1>1, <1>2, <1>3, <1>4, <1>5, <1>6 DEF Next, vars, TimerFires

-----------------------------------------------------------------------------
(* The entries *)

(* The answer of a query that is stored starts a timer, any other changes no entry. *)
LEMMA AnswerStores ==
    ASSUME TypeOK, NEW c \in Calls, Answered(c), NEW p \in Processes, NEW k \in Keys
    PROVE  \/ /\ Cacheable(call[c].value) /\ p = call[c].process /\ k = call[c].key
              /\ TTL \in 0..TTL /\ timers'[p][k][TTL] > 0
              /\ cache'[p][k] = call[c].value
           \/ cache'[p][k] = cache[p][k] /\ timers'[p][k] = timers[p][k]
<1>1. call[c].process \in Processes /\ call[c].key \in Keys
  BY CallTypes DEF Answered, IsReading
<1>2. CASE Cacheable(call[c].value)
  <2>1. /\ cache' = [cache EXCEPT ![call[c].process][call[c].key] = call[c].value]
        /\ timers' = [timers EXCEPT ![call[c].process][call[c].key][TTL] = @ + 1]
    BY <1>2 DEF Answered, Store
  <2>2. CASE p = call[c].process /\ k = call[c].key
    <3>1. TTL \in 0..TTL /\ timers[p][k] \in [0..TTL -> Nat]
      BY AccessAssumption DEF TypeOK
    <3>2. timers'[p][k] = [timers[p][k] EXCEPT ![TTL] = @ + 1]
      BY <2>1, <2>2 DEF TypeOK
    <3>3. timers'[p][k][TTL] > 0
      BY <3>1, <3>2
    <3>4. cache'[p][k] = call[c].value
      BY <2>1, <2>2 DEF TypeOK
    <3> QED
      BY <1>2, <2>2, <3>1, <3>3, <3>4
  <2>3. CASE ~(p = call[c].process /\ k = call[c].key)
    BY <1>1, <2>1, <2>3 DEF TypeOK
  <2> QED
    BY <2>2, <2>3
<1>3. CASE ~Cacheable(call[c].value)
  BY <1>3 DEF Answered
<1> QED
  BY <1>2, <1>3

(* Every step leaves each entry with a timer. *)
LEMMA NextEntries == ASSUME IInv, [Next]_vars PROVE EntriesTimed'
<1> SUFFICES ASSUME NEW p \in Processes, NEW k \in Keys, cache'[p][k] # NotCached
             PROVE  \E t \in 0..TTL : timers'[p][k][t] > 0
  BY DEF EntriesTimed
<1> USE DEF IInv
<1>1. CASE UNCHANGED <<cache, timers>>
  BY <1>1 DEF EntriesTimed
<1>2. ASSUME NEW q \in Processes, NEW l \in Keys, TimerFires(q, l)
      PROVE  \E t \in 0..TTL : timers'[p][k][t] > 0
  <2>1. cache'[p][k] = cache[p][k] /\ timers'[p][k] = timers[p][k]
    BY <1>2 DEF TimerFires, TypeOK
  <2> QED
    BY <2>1 DEF EntriesTimed
<1>3. ASSUME NEW c \in Calls, Answered(c) PROVE \E t \in 0..TTL : timers'[p][k][t] > 0
  BY <1>3, AnswerStores DEF EntriesTimed
<1>4. ASSUME NEW c \in Calls, Invalidate(c) PROVE \E t \in 0..TTL : timers'[p][k][t] > 0
  <2>1. cache'[p][k] = cache[p][k] /\ timers'[p][k] = timers[p][k]
    BY <1>4, CallTypes DEF Invalidate, TypeOK
  <2> QED
    BY <2>1 DEF EntriesTimed
<1>5. ASSUME NEW q \in Processes, ClearCache(q) \/ Restart(q)
      PROVE  \E t \in 0..TTL : timers'[p][k][t] > 0
  <2>1. p # q
    BY <1>5 DEF ClearCache, Restart, TypeOK
  <2>2. cache'[p] = cache[p] /\ timers'[p] = timers[p]
    BY <1>5, <2>1 DEF ClearCache, Restart, TypeOK
  <2> QED
    BY <2>2 DEF EntriesTimed
<1>6. CASE Tick
  <2>1. PICK t \in 0..TTL : timers[p][k][t] > 0
    BY <1>6 DEF Tick, EntriesTimed
  <2>2. t # 0
    BY <1>6, <2>1 DEF Tick
  <2>3. t - 1 \in 0..TTL /\ t - 1 < TTL /\ (t - 1) + 1 = t
    BY <2>2, AccessAssumption
  <2>4. timers'[p][k][t - 1] = timers[p][k][t]
    BY <1>6, <2>3 DEF Tick
  <2> QED
    BY <2>1, <2>3, <2>4
<1>7. ASSUME NEW q \in Processes, NEW l \in Keys,
             Query(q, l) \/ GrantAccess(q, l) \/ RevokeAccess(q, l) \/ SetFeatureFlag(q, l)
      PROVE  UNCHANGED <<cache, timers>>
  BY <1>7 DEF Query, GrantAccess, RevokeAccess, SetFeatureFlag, Write
<1>8. ASSUME NEW c \in Calls, QueryRejected(c) PROVE UNCHANGED <<cache, timers>>
  BY <1>8 DEF QueryRejected
<1>9. CASE UNCHANGED vars
  BY <1>1, <1>9 DEF vars
<1> QED
  BY <1>1, <1>2, <1>3, <1>4, <1>5, <1>6, <1>7, <1>8, <1>9 DEF Next

(* Every step leaves each outdated entry with a timer that fires within the window. *)
LEMMA NextOutdated == ASSUME IInv, [Next]_vars PROVE OutdatedTimed'
<1> SUFFICES ASSUME NEW p \in Processes, NEW k \in Keys,
                    cache'[p][k] \notin {NotCached, row'[k]}
             PROVE  \E t \in 0..TTL : timers'[p][k][t] > 0 /\ changed'[k] + t <= Window
  BY DEF OutdatedTimed
<1> DEFINE Goal == \E t \in 0..TTL : timers'[p][k][t] > 0 /\ changed'[k] + t <= Window
<1> HIDE DEF Goal
<1> USE DEF IInv
<1>1. ASSUME cache'[p][k] = cache[p][k], timers'[p][k] = timers[p][k],
             row'[k] = row[k], changed'[k] = changed[k]
      PROVE  Goal
  BY <1>1 DEF OutdatedTimed, Goal
<1>2. ASSUME NEW q \in Processes, NEW l \in Keys, NEW value \in Rows \cup {NoRow},
             Write(q, l, value)
      PROVE  Goal
  <2>1. CASE l = k /\ value # row[k]
    <3>1. PICK t \in 0..TTL : timers[p][k][t] > 0
      BY <1>2 DEF Write, EntriesTimed
    <3>2. changed'[k] = 0 /\ timers' = timers
      BY <1>2, <2>1 DEF Write, TypeOK
    <3> QED
      BY <3>1, <3>2, AccessAssumption DEF Window, Goal
  <2>2. CASE ~(l = k /\ value # row[k])
    <3>1. row'[k] = row[k] /\ changed'[k] = changed[k]
      <4>1. /\ row' = [row EXCEPT ![l] = value]
            /\ changed' = [changed EXCEPT ![l] = IF value = row[l] THEN @ ELSE 0]
            /\ row \in [Keys -> Rows \cup {NoRow}] /\ changed \in [Keys -> 0..Window + 1]
        BY <1>2 DEF Write, TypeOK
      <4> HIDE DEF IInv
      <4> QED
        BY <2>2, <4>1
    <3>2. cache' = cache /\ timers' = timers
      BY <1>2 DEF Write
    <3> QED
      BY <1>1, <3>1, <3>2
  <2> QED
    BY <2>1, <2>2
<1>3. ASSUME NEW q \in Processes, NEW l \in Keys,
             GrantAccess(q, l) \/ RevokeAccess(q, l) \/ SetFeatureFlag(q, l)
      PROVE  Goal
  <2> QED
    BY <1>2, <1>3, ChangesWrite
<1>4. ASSUME NEW q \in Processes, NEW l \in Keys, TimerFires(q, l) PROVE Goal
  <2>1. /\ cache'[p][k] = cache[p][k] /\ timers'[p][k] = timers[p][k]
        /\ row' = row /\ changed' = changed
    BY <1>4 DEF TimerFires, TypeOK
  <2> QED
    BY <1>1, <2>1
<1>5. ASSUME NEW c \in Calls, Answered(c) PROVE Goal
  <2>1. /\ call[c].age \in 0..QueryTime
        /\ row' = row /\ changed' = changed
    BY <1>5, CallTypes DEF Answered, IsReading
  <2>2. CASE /\ Cacheable(call[c].value) /\ p = call[c].process /\ k = call[c].key
             /\ TTL \in 0..TTL /\ timers'[p][k][TTL] > 0
             /\ cache'[p][k] = call[c].value
    <3>1. call[c].value # row[k]
      BY <2>1, <2>2
    <3>2. changed[k] <= call[c].age
      BY <1>5, <2>2, <3>1 DEF Answered, ReadsRecent
    <3>3. changed'[k] + TTL <= Window
      BY <2>1, <3>2, AccessAssumption DEF TypeOK, Window
    <3> QED
      BY <2>2, <3>3 DEF Goal
  <2>3. CASE cache'[p][k] = cache[p][k] /\ timers'[p][k] = timers[p][k]
    BY <1>1, <2>1, <2>3
  <2> QED
    BY <1>5, <2>2, <2>3, AnswerStores
<1>6. ASSUME NEW c \in Calls, Invalidate(c) PROVE Goal
  <2>1. /\ cache'[p][k] = cache[p][k] /\ timers' = timers
        /\ row' = row /\ changed' = changed
    BY <1>6, CallTypes DEF Invalidate, TypeOK
  <2> QED
    BY <1>1, <2>1
<1>7. ASSUME NEW q \in Processes, ClearCache(q) \/ Restart(q) PROVE Goal
  <2>1. p # q /\ row' = row /\ changed' = changed
    BY <1>7 DEF ClearCache, Restart, TypeOK
  <2>2. cache'[p] = cache[p] /\ timers'[p] = timers[p]
    BY <1>7, <2>1 DEF ClearCache, Restart, TypeOK
  <2> QED
    BY <1>1, <2>1, <2>2
<1>8. ASSUME Tick PROVE Goal
  <2>1. PICK t \in 0..TTL : timers[p][k][t] > 0 /\ changed[k] + t <= Window
    BY <1>8 DEF Tick, OutdatedTimed
  <2>2. t # 0
    BY <1>8, <2>1 DEF Tick
  <2>3. t - 1 \in 0..TTL /\ t - 1 < TTL /\ (t - 1) + 1 = t
    BY <2>2, AccessAssumption
  <2>4. timers'[p][k][t - 1] = timers[p][k][t]
    BY <1>8, <2>3 DEF Tick
  <2>5. changed'[k] = Older(changed[k]) /\ changed[k] \in Nat
    BY <1>8 DEF Tick, TypeOK
  <2>6. changed'[k] = changed[k] + 1
    BY <2>1, <2>2, <2>5, AccessAssumption DEF Older, Window
  <2>7. changed'[k] + (t - 1) <= Window
    BY <2>1, <2>5, <2>6, AccessAssumption DEF Window
  <2> QED
    BY <2>1, <2>3, <2>4, <2>7 DEF Goal
<1>9. ASSUME UNCHANGED <<cache, timers, row, changed>> PROVE Goal
  <2>1. /\ cache'[p][k] = cache[p][k] /\ timers'[p][k] = timers[p][k]
        /\ row'[k] = row[k] /\ changed'[k] = changed[k]
    BY <1>9
  <2> QED
    BY <1>1, <2>1
<1>10. Goal
  BY <1>3, <1>4, <1>5, <1>6, <1>7, <1>8, <1>9
  DEF Next, vars, Query, QueryRejected
<1> QED
  BY <1>10 DEF Goal

-----------------------------------------------------------------------------
(* The theorems *)

(* The strengthened invariant holds. *)
LEMMA SpecInv == Spec => []IInv
<1>1. ASSUME IInv, [Next]_vars PROVE IInv'
  BY <1>1, NextTypes, NextReads, NextEntries, NextOutdated DEF IInv
<1> QED
  BY InitInv, <1>1, PTL DEF Spec

(* TypeOK: the Maps hold rows, never the absence of one. *)
THEOREM AccessTypeCorrect == Spec => []TypeOK
BY SpecInv, PTL DEF IInv

(* StaleBounded: an outdated entry is gone CACHE_TTL and the time of one query after
   the change, for any number of processes and calls. *)
THEOREM StaleAlwaysBounded == Spec => []StaleBounded
<1>1. ASSUME IInv PROVE StaleBounded
  <2> SUFFICES ASSUME NEW p \in Processes, NEW k \in Keys,
                      cache[p][k] \notin {NotCached, row[k]}
               PROVE  changed[k] <= Window
    BY DEF StaleBounded
  <2>1. PICK t \in 0..TTL : changed[k] + t <= Window
    BY <1>1 DEF IInv, OutdatedTimed
  <2>2. changed[k] \in Nat
    BY <1>1 DEF IInv, TypeOK
  <2> QED
    BY <2>1, <2>2, AccessAssumption DEF Window
<1> QED
  BY <1>1, SpecInv, PTL
=============================================================================
