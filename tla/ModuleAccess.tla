---------------------------- MODULE ModuleAccess ----------------------------
(* ModuleAccessService (Module_12): module grants and feature flags are rows of a
   shared database; every process answers checks from a Map of its own, whose
   entries a setTimeout deletes after CACHE_TTL and whose own changes delete at
   once. A check that hits the Map changes nothing, so only misses are steps.
   At each await of a query other calls, other processes and the timers run.  *)
EXTENDS Naturals, FiniteSets

CONSTANTS
    Processes,   \* server processes, each with its own Maps
    Keys,        \* tenant:module pairs and flag keys
    Contents,    \* what a row says besides whether it is on
    NoRow,       \* the key has no row
    NotCached,   \* the Map has no entry
    TTL,         \* CACHE_TTL
    QueryTime,   \* longest time the answer to a read is under way
    MaxTimers,   \* bound on the timers and reads of one key in one process
    Calls,       \* service calls that could be under way at once
    Idle         \* no call

Rows == [content : Contents, on : BOOLEAN]

ASSUME AccessAssumption ==
    /\ TTL \in Nat \ {0} /\ QueryTime \in Nat /\ MaxTimers \in Nat
    /\ NoRow \notin Rows /\ NotCached \notin Rows \cup {NoRow}

VARIABLES
    kind,     \* key -> "access", a key of cache, or "flag", a key of flagCache
    row,      \* key -> its row in the database
    cache,    \* process -> key -> the entry of the Map
    timers,   \* process -> key -> remaining time -> timers pending with it
    call,     \* call -> the query it awaits, or Idle
    changed   \* key -> time since its row changed, up to Window + 1

vars == <<kind, row, cache, timers, call, changed>>

Window == TTL + QueryTime

(* One unit of time older, up to Window + 1. *)
Older(n) == IF n > Window THEN n ELSE n + 1

-----------------------------------------------------------------------------
(* Checks: getModuleAccess and getFeatureFlag *)

IsReading(c) == call[c] # Idle /\ call[c].at = "reading"

Reading(p, k) ==
    {c \in Calls : IsReading(c) /\ call[c].process = p /\ call[c].key = k}

(* The Map has no entry: the database answers with the row as it is now. *)
Query(p, k) ==
    \E c \in Calls :
        /\ cache[p][k] = NotCached
        /\ call[c] = Idle
        /\ timers[p][k][TTL] + Cardinality(Reading(p, k)) < MaxTimers
        /\ call' = [call EXCEPT ![c] = [at |-> "reading", process |-> p, key |-> k,
                                        value |-> row[k], age |-> 0]]
        /\ UNCHANGED <<kind, row, cache, timers, changed>>

(* MUTANT of Store: the entry gets no timer. *)
StoreUntimed(p, k, value) ==
    /\ cache' = [cache EXCEPT ![p][k] = value]
    /\ UNCHANGED timers

(* cache.set and setTimeout. An earlier timer of k goes on. *)
Store(p, k, value) ==
    /\ cache' = [cache EXCEPT ![p][k] = value]
    /\ timers' = [timers EXCEPT ![p][k][TTL] = @ + 1]

(* MUTANT of Cacheable: that there is no row is cached too. *)
CacheableEmpty(value) == TRUE

(* A missing row is not cached. *)
Cacheable(value) == value # NoRow

(* The answer arrives, however many changes were made since the row was read. *)
Answered(c) ==
    /\ IsReading(c)
    /\ IF Cacheable(call[c].value)
       THEN Store(call[c].process, call[c].key, call[c].value)
       ELSE UNCHANGED <<cache, timers>>
    /\ call' = [call EXCEPT ![c] = Idle]
    /\ UNCHANGED <<kind, row, changed>>

(* The query is rejected: a read caches nothing, a change made deletes nothing. *)
QueryRejected(c) ==
    /\ call[c] # Idle
    /\ call' = [call EXCEPT ![c] = Idle]
    /\ UNCHANGED <<kind, row, cache, timers, changed>>

-----------------------------------------------------------------------------
(* Changes: the row is written, and the Map of the process that asked for it is told
   when the answer arrives. A change rejected before it is written does nothing. *)

Write(p, k, value) ==
    \E c \in Calls :
        /\ call[c] = Idle
        /\ row' = [row EXCEPT ![k] = value]
        /\ changed' = [changed EXCEPT ![k] = IF value = row[k] THEN @ ELSE 0]
        /\ call' = [call EXCEPT ![c] = [at |-> "written", process |-> p, key |-> k]]
        /\ UNCHANGED <<kind, cache, timers>>

(* grantAccess: an upsert. *)
GrantAccess(p, k) ==
    /\ kind[k] = "access"
    /\ \E content \in Contents : Write(p, k, [content |-> content, on |-> TRUE])

(* revokeAccess: an UPDATE, which may find no row. *)
RevokeAccess(p, k) ==
    /\ kind[k] = "access"
    /\ Write(p, k, IF row[k] = NoRow THEN NoRow ELSE [row[k] EXCEPT !.on = FALSE])

(* setFeatureFlag: an upsert. *)
SetFeatureFlag(p, k) ==
    /\ kind[k] = "flag"
    /\ \E value \in Rows : Write(p, k, value)

(* cache.delete after the answer. *)
Invalidate(c) ==
    /\ call[c] # Idle
    /\ call[c].at = "written"
    /\ cache' = [cache EXCEPT ![call[c].process][call[c].key] = NotCached]
    /\ call' = [call EXCEPT ![c] = Idle]
    /\ UNCHANGED <<kind, row, timers, changed>>

-----------------------------------------------------------------------------
(* Timers, clearing, restarts and time *)

NoTimers == [t \in 0..TTL |-> 0]

(* MUTANT of TimerFires: the entry stays. *)
TimerFiresIdly(p, k) ==
    /\ timers[p][k][0] > 0
    /\ timers' = [timers EXCEPT ![p][k][0] = @ - 1]
    /\ UNCHANGED <<kind, row, cache, call, changed>>

(* A timer deletes the entry of its key, whichever read stored it. *)
TimerFires(p, k) ==
    /\ timers[p][k][0] > 0
    /\ timers' = [timers EXCEPT ![p][k][0] = @ - 1]
    /\ cache' = [cache EXCEPT ![p][k] = NotCached]
    /\ UNCHANGED <<kind, row, call, changed>>

ClearCache(p) ==
    /\ cache' = [cache EXCEPT ![p] = [k \in Keys |-> NotCached]]
    /\ UNCHANGED <<kind, row, timers, call, changed>>

(* The process stops and starts again: its Maps, timers and calls are gone. *)
Restart(p) ==
    /\ cache' = [cache EXCEPT ![p] = [k \in Keys |-> NotCached]]
    /\ timers' = [timers EXCEPT ![p] = [k \in Keys |-> NoTimers]]
    /\ call' = [c \in Calls |->
                  IF call[c] # Idle /\ call[c].process = p THEN Idle ELSE call[c]]
    /\ UNCHANGED <<kind, row, changed>>

(* Timers fire on time, and answers to reads arrive within QueryTime. *)
Tick ==
    /\ \A p \in Processes, k \in Keys : timers[p][k][0] = 0
    /\ \A c \in Calls : IsReading(c) => call[c].age < QueryTime
    /\ timers' = [p \in Processes |-> [k \in Keys |->
                    [t \in 0..TTL |-> IF t < TTL THEN timers[p][k][t + 1] ELSE 0]]]
    /\ call' = [c \in Calls |-> IF IsReading(c) THEN [call[c] EXCEPT !.age = @ + 1]
                                ELSE call[c]]
    /\ changed' = [k \in Keys |-> Older(changed[k])]
    /\ UNCHANGED <<kind, row, cache>>

Init ==
    /\ kind \in [Keys -> {"access", "flag"}]
    /\ row = [k \in Keys |-> NoRow]
    /\ cache = [p \in Processes |-> [k \in Keys |-> NotCached]]
    /\ timers = [p \in Processes |-> [k \in Keys |-> NoTimers]]
    /\ call = [c \in Calls |-> Idle]
    /\ changed = [k \in Keys |-> Window + 1]

Next ==
    \/ \E p \in Processes, k \in Keys :
          \/ Query(p, k)
          \/ GrantAccess(p, k) \/ RevokeAccess(p, k) \/ SetFeatureFlag(p, k)
          \/ TimerFires(p, k)
    \/ \E c \in Calls : Answered(c) \/ QueryRejected(c) \/ Invalidate(c)
    \/ \E p \in Processes : ClearCache(p) \/ Restart(p)
    \/ Tick

(* Time passes, timers fire and queries end, with or without an answer. Nobody has to
   check, to change anything or to clear a cache, and a change need not delete
   anything.                                                                *)
Fairness ==
    /\ WF_vars(Tick)
    /\ \A p \in Processes, k \in Keys : WF_vars(TimerFires(p, k))
    /\ \A c \in Calls : WF_vars(Answered(c) \/ QueryRejected(c))

Spec == Init /\ [][Next]_vars

FairSpec == Spec /\ Fairness

-----------------------------------------------------------------------------
(* Properties *)

Queries ==
    [at : {"reading"}, process : Processes, key : Keys, value : Rows \cup {NoRow},
     age : 0..QueryTime]
    \cup [at : {"written"}, process : Processes, key : Keys]

(* The variables keep their types: in particular a Map holds rows, never the absence
   of one, so that a first grant takes effect at once in every process. *)
TypeOK ==
    /\ kind \in [Keys -> {"access", "flag"}]
    /\ row \in [Keys -> Rows \cup {NoRow}]
    /\ cache \in [Processes -> [Keys -> Rows \cup {NotCached}]]
    /\ timers \in [Processes -> [Keys -> [0..TTL -> Nat]]]
    /\ call \in [Calls -> Queries \cup {Idle}]
    /\ changed \in [Keys -> 0..Window + 1]

(* A process answers from an outdated entry for no longer than CACHE_TTL and the time
   of one query after the row was changed: whichever process changed it, whether or
   not it lived to delete its own entry, and although a read that was under way may
   store the old row after that deletion. *)
StaleBounded ==
    \A p \in Processes, k \in Keys :
        cache[p][k] \notin {NotCached, row[k]} => changed[k] <= Window

(* When a row stays as it is, all processes come to answer from it and go on doing
   so, without anybody clearing a cache. *)
Converges ==
    \A k \in Keys : \A value \in Rows \cup {NoRow} :
        <>[](row[k] = value) =>
            <>[](\A p \in Processes : cache[p][k] \in {NotCached, value})
=============================================================================
