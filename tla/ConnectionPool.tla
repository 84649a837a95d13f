--------------------------- MODULE ConnectionPool ---------------------------
(***************************************************************************)
(* The accounting integration hub's ConnectionPoolService                  *)
(* (Module_11_Common/src/accounting-integration-hub/shared/                *)
(* connection-pool.service.ts).  Node runs the service on one thread, so   *)
(* an action is the code between two awaits: establishConnection and       *)
(* connection.close are the points at which other callers run.             *)
(*                                                                         *)
(* A client is one caller of acquire; it then calls release or remove, as  *)
(* in the class comment's example.  The periodic cleanup, the periodic     *)
(* health check and onModuleDestroy run beside the clients.                *)
(***************************************************************************)
EXTENDS Naturals, Sequences, FiniteSets

CONSTANTS Clients,      \* callers of acquire / release / remove
          Keys,         \* `${tenant_id}:${system}` of a configuration
          Conns,        \* connection ids (random in the code; bound: how many)
          MaxPoolSize,
          MinPoolSize,
          None          \* no connection, no key

ASSUME PoolAssumption ==
    /\ IsFiniteSet(Clients) /\ IsFiniteSet(Conns)
    /\ MaxPoolSize \in Nat \ {0} /\ MinPoolSize \in Nat
    /\ None \notin Conns \union Keys

VARIABLES
    pool,        \* ids in the Map `pool`
    conn,        \* id -> key, health flag, and whether lastUsedAt is older than maxIdleTime
    waitQueue,   \* clients queued by waitForAvailableConnection, each with its timer
    pc,          \* client -> where its call is
    want,        \* client -> key of the configuration it asked for
    held,        \* client -> the connection acquire gave it
    todo,        \* ids the running cleanup pass has still to look at
    cleaning,    \* the id whose close() the cleanup pass awaits
    clearing,    \* onModuleDestroy: not called, closing connections, done
    toClose      \* ids whose close() clearAll awaits

vars == <<pool, conn, waitQueue, pc, want, held, todo, cleaning, clearing, toClose>>
background == <<todo, cleaning, clearing, toClose>>

Gone == [key |-> None, healthy |-> FALSE, idle |-> FALSE]
(* MUTANT of Opened: lastUsedAt is not set. *)
OpenedUnstamped(k) == [key |-> k, healthy |-> TRUE, idle |-> None]
Opened(k) == [key |-> k, healthy |-> TRUE, idle |-> FALSE]

TypeOK ==
    /\ pool \subseteq Conns
    /\ conn \in [Conns -> [key : Keys \union {None}, healthy : BOOLEAN, idle : BOOLEAN]]
    /\ waitQueue \in Seq(Clients)
    /\ pc \in [Clients -> {"idle", "waiting", "creating", "using", "removing"}]
    /\ want \in [Clients -> Keys \union {None}]
    /\ held \in [Clients -> Conns \union {None}]
    /\ todo \subseteq Conns
    /\ cleaning \in Conns \union {None}
    /\ clearing \in {"no", "closing", "done"}
    /\ toClose \subseteq Conns

Init ==
    /\ pool = {}
    /\ conn = [c \in Conns |-> Gone]
    /\ waitQueue = <<>>
    /\ pc = [p \in Clients |-> "idle"]
    /\ want = [p \in Clients |-> None]
    /\ held = [p \in Clients |-> None]
    /\ todo = {} /\ cleaning = None
    /\ clearing = "no" /\ toClose = {}

(* MUTANT of AtCapacity: off by one. *)
OverCapacity(ids) == Cardinality(ids) > MaxPoolSize
AtCapacity(ids) == Cardinality(ids) >= MaxPoolSize
Creating == {p \in Clients : pc[p] = "creating"}
Closing == (toClose \union {cleaning} \union {held[p] : p \in {q \in Clients : pc[q] = "removing"}}) \ {None}
(* MUTANT of HealthyFor: any healthy connection will do. *)
HealthyForAnyone(k) == {c \in pool : conn[c].healthy}
HealthyFor(k) == {c \in pool : conn[c].key = k /\ conn[c].healthy}
Unreferenced == Conns \ (pool \union todo \union Closing \union {held[p] : p \in Clients})

(* The queue without p's entry: findIndex and, if there is one, splice. *)
Spliced(p) ==
    IF \E i \in 1 .. Len(waitQueue) : waitQueue[i] = p
      THEN LET i == CHOOSE i \in 1 .. Len(waitQueue) : waitQueue[i] = p
           IN SubSeq(waitQueue, 1, i - 1) \o SubSeq(waitQueue, i + 1, Len(waitQueue))
      ELSE waitQueue

(* processWaitQueue on the pool `ids`, in a step that has already moved the *)
(* clients to `at`: the head of the queue starts creating its connection.   *)
ServeQueue(ids, at) ==
    IF waitQueue # <<>> /\ ~AtCapacity(ids)
      THEN /\ waitQueue' = Tail(waitQueue)
           /\ pc' = [at EXCEPT ![Head(waitQueue)] = "creating"]
      ELSE /\ waitQueue' = waitQueue
           /\ pc' = at

(* What remove does once close() has settled. *)
Delete(c, at) ==
    /\ pool' = pool \ {c}
    /\ conn' = [conn EXCEPT ![c] = Gone]
    /\ ServeQueue(pool \ {c}, at)

-----------------------------------------------------------------------------
(* Clients *)

AcquireExisting(p) ==
    /\ pc[p] = "idle"
    /\ \E k \in Keys : \E c \in HealthyFor(k) :
          /\ conn' = [conn EXCEPT ![c].idle = FALSE]
          /\ want' = [want EXCEPT ![p] = k]
          /\ held' = [held EXCEPT ![p] = c]
    /\ pc' = [pc EXCEPT ![p] = "using"]
    /\ UNCHANGED <<pool, waitQueue, background>>

AcquireQueued(p) ==
    /\ pc[p] = "idle"
    /\ AtCapacity(pool)
    /\ \E k \in Keys : HealthyFor(k) = {} /\ want' = [want EXCEPT ![p] = k]
    /\ waitQueue' = Append(waitQueue, p)
    /\ pc' = [pc EXCEPT ![p] = "waiting"]
    /\ UNCHANGED <<pool, conn, held, background>>

AcquireNew(p) ==
    /\ pc[p] = "idle"
    /\ ~AtCapacity(pool)
    /\ \E k \in Keys : HealthyFor(k) = {} /\ want' = [want EXCEPT ![p] = k]
    /\ pc' = [pc EXCEPT ![p] = "creating"]
    /\ UNCHANGED <<pool, conn, waitQueue, held, background>>

(* establishConnection resolves and the instance enters the Map. *)
Established(p) ==
    /\ pc[p] = "creating"
    /\ \E c \in Unreferenced :
          /\ pool' = pool \union {c}
          /\ conn' = [conn EXCEPT ![c] = Opened(want[p])]
          /\ held' = [held EXCEPT ![p] = c]
    /\ pc' = [pc EXCEPT ![p] = "using"]
    /\ UNCHANGED <<waitQueue, want, background>>

(* establishConnection throws: the caller, or the queued promise, is rejected. *)
EstablishFailed(p) ==
    /\ pc[p] = "creating"
    /\ pc' = [pc EXCEPT ![p] = "idle"]
    /\ want' = [want EXCEPT ![p] = None]
    /\ UNCHANGED <<pool, conn, waitQueue, held, background>>

(* MUTANT of WaitTimeout: the entry stays in the queue. *)
WaitTimeoutNoSplice(p) ==
    /\ pc[p] = "waiting"
    /\ pc' = [pc EXCEPT ![p] = "idle"]
    /\ want' = [want EXCEPT ![p] = None]
    /\ UNCHANGED <<pool, conn, waitQueue, held, background>>

(* MUTANT of WaitTimeout: the entry is removed, the promise never rejected. *)
WaitTimeoutNoReject(p) ==
    /\ pc[p] = "waiting"
    /\ waitQueue' = Spliced(p)
    /\ UNCHANGED <<pool, conn, pc, want, held, background>>

(* The timer armed by waitForAvailableConnection fires. *)
WaitTimeout(p) ==
    /\ pc[p] = "waiting"
    /\ waitQueue' = Spliced(p)
    /\ pc' = [pc EXCEPT ![p] = "idle"]
    /\ want' = [want EXCEPT ![p] = None]
    /\ UNCHANGED <<pool, conn, held, background>>

Release(p) ==
    /\ pc[p] = "using"
    /\ LET c == held[p]
           done == [pc EXCEPT ![p] = "idle"]
       IN IF c \in pool
            THEN /\ conn' = [conn EXCEPT ![c].idle = FALSE]
                 /\ ServeQueue(pool, done)
            ELSE /\ pc' = done
                 /\ UNCHANGED <<conn, waitQueue>>
    /\ held' = [held EXCEPT ![p] = None]
    /\ want' = [want EXCEPT ![p] = None]
    /\ UNCHANGED <<pool, background>>

(* A client discards its connection with remove; an unknown id returns at once. *)
RemoveStart(p) ==
    /\ pc[p] = "using"
    /\ IF held[p] \in pool
         THEN pc' = [pc EXCEPT ![p] = "removing"] /\ UNCHANGED <<held, want>>
         ELSE /\ pc' = [pc EXCEPT ![p] = "idle"]
              /\ held' = [held EXCEPT ![p] = None]
              /\ want' = [want EXCEPT ![p] = None]
    /\ UNCHANGED <<pool, conn, waitQueue, background>>

RemoveDone(p) ==
    /\ pc[p] = "removing"
    /\ Delete(held[p], [pc EXCEPT ![p] = "idle"])
    /\ held' = [held EXCEPT ![p] = None]
    /\ want' = [want EXCEPT ![p] = None]
    /\ UNCHANGED background

-----------------------------------------------------------------------------
(* Timers and shutdown *)

(* Time passes without a use of c: it is now older than maxIdleTime. *)
GrowIdle(c) ==
    /\ c \in pool
    /\ conn' = [conn EXCEPT ![c].idle = TRUE]
    /\ UNCHANGED <<pool, waitQueue, pc, want, held, background>>

(* connection.connected is the external client's and may be either.  A run  *)
(* of the interval begun before onModuleDestroy goes on over the            *)
(* connections there were.                                                  *)
HealthCheck(c) ==
    /\ c \in pool
    /\ clearing = "no" \/ c \in toClose
    /\ \E h \in BOOLEAN : conn' = [conn EXCEPT ![c].healthy = h]
    /\ UNCHANGED <<pool, waitQueue, pc, want, held, background>>

CleanupStart ==
    /\ clearing = "no" /\ todo = {} /\ cleaning = None
    /\ todo' = pool
    /\ UNCHANGED <<pool, conn, waitQueue, pc, want, held, cleaning, clearing, toClose>>

(* One iteration of the cleanup loop up to the await in remove.  The code   *)
(* tests idle and unhealthy one after the other; a second remove of the     *)
(* same id finds nothing.                                                   *)
CleanupVisit(c) ==
    /\ cleaning = None /\ c \in todo
    /\ todo' = todo \ {c}
    /\ cleaning' = IF /\ c \in pool
                      /\ \/ conn[c].idle /\ Cardinality(pool) > MinPoolSize
                         \/ ~conn[c].healthy
                   THEN c ELSE None
    /\ UNCHANGED <<pool, conn, waitQueue, pc, want, held, clearing, toClose>>

CleanupClosed ==
    /\ cleaning # None
    /\ Delete(cleaning, pc)
    /\ cleaning' = None
    /\ UNCHANGED <<want, held, todo, clearing, toClose>>

(* onModuleDestroy: no further timer tick, then clearAll. *)
ClearStart ==
    /\ clearing = "no"
    /\ clearing' = "closing"
    /\ toClose' = pool
    /\ UNCHANGED <<pool, conn, waitQueue, pc, want, held, todo, cleaning>>

ClearClosed(c) ==
    /\ c \in toClose
    /\ toClose' = toClose \ {c}
    /\ Delete(c, pc)
    /\ UNCHANGED <<want, held, todo, cleaning, clearing>>

ClearDone ==
    /\ clearing = "closing" /\ toClose = {}
    /\ clearing' = "done"
    /\ waitQueue' = <<>>
    /\ pc' = [p \in Clients |-> IF pc[p] = "waiting" THEN "idle" ELSE pc[p]]
    /\ want' = [p \in Clients |-> IF pc[p] = "waiting" THEN None ELSE want[p]]
    /\ UNCHANGED <<pool, conn, held, todo, cleaning, toClose>>

-----------------------------------------------------------------------------
Client(p) ==
    \/ AcquireExisting(p) \/ AcquireQueued(p) \/ AcquireNew(p)
    \/ Established(p) \/ EstablishFailed(p) \/ WaitTimeout(p)
    \/ Release(p) \/ RemoveStart(p) \/ RemoveDone(p)

Next ==
    \/ \E p \in Clients : Client(p)
    \/ \E c \in Conns : GrowIdle(c) \/ HealthCheck(c) \/ CleanupVisit(c) \/ ClearClosed(c)
    \/ CleanupStart \/ CleanupClosed \/ ClearStart \/ ClearDone

Spec == Init /\ [][Next]_vars

(* Timers fire and the external establishConnection settles, one way or the *)
(* other.  Nothing obliges a client to release what it holds.               *)
Fairness == \A p \in Clients : /\ WF_vars(WaitTimeout(p))
                               /\ WF_vars(Established(p) \/ EstablishFailed(p))

FairSpec == Spec /\ Fairness

-----------------------------------------------------------------------------
(* Every client that awaits a queued promise is in waitQueue exactly once,  *)
(* and nobody else is: processWaitQueue, the timeout splice, clearAll and   *)
(* acquire never lose a waiter or settle one twice.                         *)
WaitersAreQueued ==
    /\ {waitQueue[i] : i \in 1 .. Len(waitQueue)} = {p \in Clients : pc[p] = "waiting"}
    /\ \A i, j \in 1 .. Len(waitQueue) : waitQueue[i] = waitQueue[j] => i = j

(* The size test of acquire and processWaitQueue runs before the await of   *)
(* establishConnection.  What it still guarantees: the pool and the         *)
(* connections being created exceed maxPoolSize by less than the number of  *)
(* concurrent callers.                                                      *)
OvershootBounded ==
    Cardinality(pool) + Cardinality(Creating) < MaxPoolSize + Cardinality(Clients)

(* Whatever is reused, queued, served or removed meanwhile, the connection   *)
(* a client uses is one opened for the tenant and system it asked for.      *)
TenantIsolation ==
    \A p \in Clients :
        pc[p] = "using" /\ held[p] \in pool => conn[held[p]].key = want[p]

(* Every acquire settles: a client queued or creating is eventually given a *)
(* connection or an error, whatever the other clients do with theirs.       *)
AcquireSettles ==
    \A p \in Clients : pc[p] \in {"waiting", "creating"} ~> pc[p] \in {"using", "idle"}

-----------------------------------------------------------------------------
(* The class comment's "Limit concurrent connections": never more than      *)
(* maxPoolSize connections in the pool.                                     *)
LimitConcurrentConnections == Cardinality(pool) <= MaxPoolSize
=============================================================================
