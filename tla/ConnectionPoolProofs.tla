------------------------ MODULE ConnectionPoolProofs ------------------------
(***************************************************************************)
(* The safety properties of the connection pool for every number of        *)
(* clients, connections and tenants and every maxPoolSize.  Together they  *)
(* are inductive: the queue's agreement with the waiting clients needs the *)
(* types, and tenant isolation needs that an id still held by a client is  *)
(* never given to a new connection.                                        *)
(***************************************************************************)
EXTENDS ConnectionPool, FiniteSetTheorems, SequenceTheorems, TLAPS

USE PoolAssumption

Waiting == {p \in Clients : pc[p] = "waiting"}
Queued(q) == {q[i] : i \in 1 .. Len(q)}

(* The queue lists the clients of S, each once. *)
Lists(q, S) ==
    /\ q \in Seq(Clients)
    /\ Queued(q) = S
    /\ \A i, j \in 1 .. Len(q) : q[i] = q[j] => i = j

(* The empty queue lists nobody. *)
LEMMA ListsNobody == Lists(<<>>, {})
  BY DEF Lists, Queued

(* Queuing a client that is not queued yet lists it too. *)
LEMMA ListsAppend ==
    ASSUME NEW q, NEW S, NEW p \in Clients, Lists(q, S), p \notin S
    PROVE  Lists(Append(q, p), S \union {p})
<1> DEFINE r == Append(q, p)
<1>1. /\ r \in Seq(Clients) /\ Len(r) = Len(q) + 1 /\ r[Len(q) + 1] = p
      /\ \A i \in 1 .. Len(q) : r[i] = q[i]
  BY DEF Lists
<1>2. Len(q) \in Nat
  BY DEF Lists
<1> HIDE DEF r
<1>3. Queued(r) = S \union {p}
  BY <1>1, <1>2 DEF Lists, Queued
<1>4. \A i \in 1 .. Len(q) : r[i] # p
  BY <1>1 DEF Lists, Queued
<1>5. \A i, j \in 1 .. Len(r) : r[i] = r[j] => i = j
  BY <1>1, <1>2, <1>4 DEF Lists
<1> QED
  BY <1>1, <1>3, <1>5 DEF Lists, r

(* Serving the head of the queue takes exactly that client off the list. *)
LEMMA ListsTail ==
    ASSUME NEW q, NEW S, Lists(q, S), q # <<>>
    PROVE  Lists(Tail(q), S \ {Head(q)}) /\ Head(q) \in S /\ Head(q) \in Clients
<1> DEFINE r == Tail(q)
<1>1. /\ r \in Seq(Clients) /\ Len(r) = Len(q) - 1 /\ Head(q) = q[1]
      /\ \A i \in 1 .. Len(r) : r[i] = q[i + 1]
  BY DEF Lists
<1>2. Len(q) \in Nat \ {0} /\ Len(r) \in Nat
  BY <1>1 DEF Lists
<1>3. Head(q) \in S /\ Head(q) \in Clients
  BY <1>1, <1>2 DEF Lists, Queued
<1> HIDE DEF r
<1>4. \A i \in 1 .. Len(q) : i = 1 \/ (i - 1 \in 1 .. Len(r) /\ q[i] = r[i - 1])
  BY <1>1, <1>2
<1>5. \A i \in 1 .. Len(r) : i + 1 \in 1 .. Len(q) /\ i + 1 # 1 /\ 1 \in 1 .. Len(q)
  BY <1>1, <1>2
<1>6. Queued(r) = S \ {Head(q)}
  <2>1. ASSUME NEW x \in Queued(r) PROVE x \in S \ {Head(q)}
    BY <1>1, <1>5 DEF Lists, Queued
  <2>2. ASSUME NEW x \in S \ {Head(q)} PROVE x \in Queued(r)
    BY <1>1, <1>4 DEF Lists, Queued
  <2> QED
    BY <2>1, <2>2
<1>7. \A i, j \in 1 .. Len(r) : r[i] = r[j] => i = j
  BY <1>1, <1>2, <1>5 DEF Lists
<1> QED
  BY <1>1, <1>3, <1>6, <1>7 DEF Lists, r

(* The splice of a waiter whose timer fires takes exactly that client off   *)
(* the list.                                                                *)
LEMMA ListsSpliced ==
    ASSUME NEW S, NEW p \in Clients, Lists(waitQueue, S)
    PROVE  Lists(Spliced(p), S \ {p})
<1>1. CASE ~ \E i \in 1 .. Len(waitQueue) : waitQueue[i] = p
  BY <1>1 DEF Spliced, Lists, Queued
<1>2. CASE \E i \in 1 .. Len(waitQueue) : waitQueue[i] = p
  <2> DEFINE k == CHOOSE i \in 1 .. Len(waitQueue) : waitQueue[i] = p
             n == Len(waitQueue)
             r == SubSeq(waitQueue, 1, k - 1) \o SubSeq(waitQueue, k + 1, n)
  <2>1. k \in 1 .. n /\ waitQueue[k] = p /\ n \in Nat
    BY <1>2 DEF Lists
  <2>2. Spliced(p) = r
    BY <1>2 DEF Spliced
  <2> HIDE DEF k
  <2>3. /\ r \in Seq(Clients) /\ Len(r) = n - 1
        /\ \A i \in 1 .. n - 1 : r[i] = IF i < k THEN waitQueue[i] ELSE waitQueue[i + 1]
    <3> DEFINE a == SubSeq(waitQueue, 1, k - 1)
               b == SubSeq(waitQueue, k + 1, n)
    <3>1. waitQueue \in Seq(Clients)
      BY DEF Lists
    <3>2. a \in Seq(Clients) /\ Len(a) = k - 1 /\ \A i \in 1 .. k - 1 : a[i] = waitQueue[i]
      BY <2>1, <3>1
    <3>3. b \in Seq(Clients) /\ Len(b) = n - k /\ \A i \in 1 .. n - k : b[i] = waitQueue[k + i]
      BY <2>1, <3>1
    <3> HIDE DEF a, b
    <3>4. /\ a \o b \in Seq(Clients) /\ Len(a \o b) = Len(a) + Len(b)
          /\ \A i \in 1 .. Len(a) + Len(b) :
                (a \o b)[i] = IF i <= Len(a) THEN a[i] ELSE b[i - Len(a)]
      <4>1. a \in Seq(Clients) /\ b \in Seq(Clients)
        BY <3>2, <3>3
      <4> QED
        BY <4>1, ConcatProperties, Zenon
    <3>5. Len(a) + Len(b) = n - 1
      BY <2>1, <3>2, <3>3
    <3>6. ASSUME NEW i \in 1 .. n - 1
          PROVE  (a \o b)[i] = IF i < k THEN waitQueue[i] ELSE waitQueue[i + 1]
      <4>1. CASE i < k
        BY <2>1, <3>2, <3>4, <3>5, <4>1
      <4>2. CASE ~(i < k)
        <5> DEFINE j == i - (k - 1)
        <5>1. j \in 1 .. n - k /\ k + j = i + 1
          BY <2>1, <4>2
        <5>2. b[j] = waitQueue[k + j]
          BY <3>3, <5>1
        <5>3. (a \o b)[i] = b[j]
          BY <2>1, <3>2, <3>4, <3>5, <4>2
        <5> HIDE DEF j
        <5> QED
          BY <4>2, <5>1, <5>2, <5>3
      <4> QED
        BY <4>1, <4>2
    <3>7. r = a \o b
      BY DEF a, b
    <3> HIDE DEF r
    <3> QED
      BY <3>4, <3>5, <3>6, <3>7
  <2> HIDE DEF r
  <2>4. \A i \in 1 .. n : i # k => waitQueue[i] # p
    BY <2>1 DEF Lists
  <2>5. Queued(r) = S \ {p}
    <3>1. ASSUME NEW x \in Queued(r) PROVE x \in S \ {p}
      <4>1. PICK i \in 1 .. n - 1 : x = r[i]
        BY <2>1, <2>3 DEF Queued
      <4>2. PICK j \in 1 .. n : j # k /\ x = waitQueue[j]
        BY <2>1, <2>3, <4>1
      <4> QED
        BY <2>4, <4>2 DEF Lists, Queued
    <3>2. ASSUME NEW x \in S \ {p} PROVE x \in Queued(r)
      <4>1. PICK j \in 1 .. n : j # k /\ x = waitQueue[j]
        BY <2>1 DEF Lists, Queued
      <4>2. CASE j < k
        <5>1. j \in 1 .. n - 1 /\ r[j] = x
          BY <2>1, <2>3, <4>1, <4>2
        <5> QED
          BY <2>3, <5>1 DEF Queued
      <4>3. CASE j > k
        <5>1. j - 1 \in 1 .. n - 1 /\ r[j - 1] = x
          BY <2>1, <2>3, <4>1, <4>3
        <5> QED
          BY <2>3, <5>1 DEF Queued
      <4> QED
        BY <2>1, <4>1, <4>2, <4>3
    <3> QED
      BY <3>1, <3>2
  <2>6. \A i, j \in 1 .. n - 1 : r[i] = r[j] => i = j
    BY <2>1, <2>3 DEF Lists
  <2> QED
    BY <2>1, <2>2, <2>3, <2>5, <2>6 DEF Lists
<1> QED
  BY <1>1, <1>2

-----------------------------------------------------------------------------
(* The inductive invariant, with the queue's part in the form of Lists. *)
HoldersHold == \A p \in Clients : pc[p] \in {"using", "removing"} => held[p] \in Conns

IInv == TypeOK /\ Lists(waitQueue, Waiting) /\ TenantIsolation /\ HoldersHold

Instances == [key : Keys \union {None}, healthy : BOOLEAN, idle : BOOLEAN]

(* A queue that lists the waiting clients is what WaitersAreQueued states. *)
LEMMA IInvImplies == IInv => WaitersAreQueued
  BY DEF IInv, Lists, Queued, Waiting, WaitersAreQueued

(* The steps that set a flag of a connection leave its key alone. *)
LEMMA FlagsKeepKeys ==
    ASSUME TypeOK, NEW c \in Conns, NEW b \in BOOLEAN
    PROVE  /\ [conn EXCEPT ![c].idle = b] \in [Conns -> Instances]
           /\ [conn EXCEPT ![c].healthy = b] \in [Conns -> Instances]
           /\ \A x \in Conns : /\ [conn EXCEPT ![c].idle = b][x].key = conn[x].key
                               /\ [conn EXCEPT ![c].healthy = b][x].key = conn[x].key
<1>1. conn \in [Conns -> Instances]
  BY DEF TypeOK, Instances
<1>2. [conn[c] EXCEPT !.idle = b] \in Instances /\ [conn[c] EXCEPT !.healthy = b] \in Instances
  BY <1>1 DEF Instances
<1>3. \A x \in Conns : /\ [conn EXCEPT ![c].idle = b][x].key = conn[x].key
                      /\ [conn EXCEPT ![c].healthy = b][x].key = conn[x].key
  BY <1>1 DEF Instances
<1> QED
  BY <1>1, <1>2, <1>3

Places == {"idle", "waiting", "creating", "using", "removing"}

(* processWaitQueue keeps queue and waiting clients in step, and makes      *)
(* nobody a user.                                                           *)
LEMMA ServeQueueKeeps ==
    ASSUME Lists(waitQueue, Waiting), NEW ids, NEW steps \in [Clients -> Places],
           {p \in Clients : steps[p] = "waiting"} = Waiting,
           ServeQueue(ids, steps)
    PROVE  /\ waitQueue' \in Seq(Clients) /\ pc' \in [Clients -> Places]
           /\ Lists(waitQueue', Waiting')
           /\ \A p \in Clients : pc'[p] \in {"using", "removing"} => pc'[p] = steps[p]
<1>1. CASE waitQueue # <<>> /\ ~AtCapacity(ids)
  <2>1. waitQueue' = Tail(waitQueue) /\ pc' = [steps EXCEPT ![Head(waitQueue)] = "creating"]
    BY <1>1 DEF ServeQueue
  <2>2. /\ Lists(Tail(waitQueue), Waiting \ {Head(waitQueue)})
        /\ Head(waitQueue) \in Clients
    BY <1>1, ListsTail
  <2>3. pc' \in [Clients -> Places]
    BY <2>1, <2>2 DEF Places
  <2>4. Waiting' = Waiting \ {Head(waitQueue)}
    BY <2>1, <2>2 DEF Waiting
  <2> QED
    BY <2>1, <2>2, <2>3, <2>4 DEF Lists
<1>2. CASE ~(waitQueue # <<>> /\ ~AtCapacity(ids))
  <2>1. waitQueue' = waitQueue /\ pc' = steps
    BY <1>2 DEF ServeQueue
  <2>2. Waiting' = Waiting
    BY <2>1 DEF Waiting
  <2> QED
    BY <2>1, <2>2 DEF Lists
<1> QED
  BY <1>1, <1>2

(* The end of remove: a connection leaves the pool and the queue is served. *)
LEMMA DeleteKeeps ==
    ASSUME IInv, NEW c \in Conns, NEW steps \in [Clients -> Places],
           \A p \in Clients : steps[p] = pc[p] \/ (pc[p] # "waiting" /\ steps[p] = "idle"),
           Delete(c, steps),
           \A p \in Clients : steps[p] \in {"using", "removing"} =>
               held'[p] = held[p] /\ want'[p] = want[p]
    PROVE  /\ pool' \subseteq Conns
           /\ conn' \in [Conns -> Instances]
           /\ waitQueue' \in Seq(Clients) /\ pc' \in [Clients -> Places]
           /\ Lists(waitQueue', Waiting')
           /\ TenantIsolation' /\ HoldersHold'
<1>1. pool' = pool \ {c} /\ conn' = [conn EXCEPT ![c] = Gone] /\ ServeQueue(pool \ {c}, steps)
  BY DEF Delete
<1>2. {p \in Clients : steps[p] = "waiting"} = Waiting
  BY DEF Waiting
<1>3. /\ waitQueue' \in Seq(Clients) /\ pc' \in [Clients -> Places]
      /\ Lists(waitQueue', Waiting')
      /\ \A p \in Clients : pc'[p] \in {"using", "removing"} => pc'[p] = steps[p]
  BY <1>1, <1>2, ServeQueueKeeps DEF IInv
<1>4. /\ pool' \subseteq Conns
      /\ conn' \in [Conns -> Instances]
  BY <1>1 DEF IInv, TypeOK, Gone, Instances
<1>5. ASSUME NEW p \in Clients, pc'[p] = "using", held'[p] \in pool'
      PROVE  conn'[held'[p]].key = want'[p]
  <2>1. steps[p] = "using" /\ pc[p] = "using"
    BY <1>3, <1>5
  <2>2. held'[p] = held[p] /\ want'[p] = want[p]
    BY <2>1
  <2>3. held[p] \in pool /\ held[p] # c /\ conn'[held[p]] = conn[held[p]]
    BY <1>1, <1>5, <2>2 DEF IInv, TypeOK
  <2> QED
    BY <2>1, <2>2, <2>3 DEF IInv, TenantIsolation
<1>6. ASSUME NEW p \in Clients, pc'[p] \in {"using", "removing"}
      PROVE  held'[p] \in Conns
  <2>1. steps[p] \in {"using", "removing"} /\ pc[p] = steps[p]
    BY <1>3, <1>6
  <2> QED
    BY <2>1 DEF IInv, HoldersHold
<1> QED
  BY <1>3, <1>4, <1>5, <1>6 DEF TenantIsolation, HoldersHold

-----------------------------------------------------------------------------
(* The invariant holds of the empty pool. *)
LEMMA InitKeeps == Init => IInv
<1> SUFFICES ASSUME Init PROVE IInv
  OBVIOUS
<1>1. TypeOK
  BY DEF Init, TypeOK, Gone
<1>2. Waiting = {} /\ waitQueue = <<>>
  BY DEF Init, Waiting
<1>3. TenantIsolation
  BY DEF Init, TenantIsolation
<1>4. HoldersHold
  BY DEF Init, HoldersHold
<1> QED
  BY <1>1, <1>2, <1>3, <1>4, ListsNobody DEF IInv

(* The steps of a client. *)
LEMMA ClientKeeps ==
    ASSUME IInv, NEW p \in Clients, Client(p)
    PROVE  IInv'
<1> USE DEF IInv, background
<1>1. CASE AcquireExisting(p)
  <2>1. PICK k \in Keys : \E c \in HealthyFor(k) :
          /\ conn' = [conn EXCEPT ![c].idle = FALSE]
          /\ want' = [want EXCEPT ![p] = k]
          /\ held' = [held EXCEPT ![p] = c]
    BY <1>1 DEF AcquireExisting
  <2>2. PICK c \in HealthyFor(k) :
          /\ conn' = [conn EXCEPT ![c].idle = FALSE]
          /\ want' = [want EXCEPT ![p] = k]
          /\ held' = [held EXCEPT ![p] = c]
    BY <2>1
  <2>3. c \in pool /\ c \in Conns /\ conn[c].key = k
    BY DEF HealthyFor, TypeOK
  <2>4. /\ pc[p] = "idle" /\ pc' = [pc EXCEPT ![p] = "using"]
        /\ UNCHANGED <<pool, waitQueue, background>>
    BY <1>1 DEF AcquireExisting
  <2>5. conn' \in [Conns -> Instances] /\ \A x \in Conns : conn'[x].key = conn[x].key
    BY <2>2, <2>3, FlagsKeepKeys
  <2>6. TypeOK'
    BY <2>2, <2>3, <2>4, <2>5 DEF TypeOK, Instances
  <2>7. Waiting' = Waiting
    BY <2>4 DEF Waiting, TypeOK
  <2>8. TenantIsolation' /\ HoldersHold'
    BY <2>2, <2>3, <2>4, <2>5 DEF TenantIsolation, HoldersHold, TypeOK
  <2> QED
    BY <2>4, <2>6, <2>7, <2>8 DEF Lists
<1>2. CASE AcquireQueued(p)
  <2>1. PICK k \in Keys : want' = [want EXCEPT ![p] = k]
    BY <1>2 DEF AcquireQueued
  <2>2. /\ pc[p] = "idle" /\ pc' = [pc EXCEPT ![p] = "waiting"]
        /\ waitQueue' = Append(waitQueue, p)
        /\ UNCHANGED <<pool, conn, held, background>>
    BY <1>2 DEF AcquireQueued
  <2>3. Waiting' = Waiting \union {p} /\ p \notin Waiting
    BY <2>2 DEF Waiting, TypeOK
  <2>4. Lists(waitQueue', Waiting')
    BY <2>2, <2>3, ListsAppend
  <2>5. TypeOK'
    BY <2>1, <2>2 DEF TypeOK
  <2>6. TenantIsolation' /\ HoldersHold'
    BY <2>1, <2>2 DEF TenantIsolation, HoldersHold, TypeOK
  <2> QED
    BY <2>4, <2>5, <2>6
<1>3. CASE AcquireNew(p)
  <2>1. PICK k \in Keys : want' = [want EXCEPT ![p] = k]
    BY <1>3 DEF AcquireNew
  <2>2. /\ pc[p] = "idle" /\ pc' = [pc EXCEPT ![p] = "creating"]
        /\ UNCHANGED <<pool, conn, waitQueue, held, background>>
    BY <1>3 DEF AcquireNew
  <2>3. Waiting' = Waiting
    BY <2>2 DEF Waiting, TypeOK
  <2>4. TypeOK'
    BY <2>1, <2>2 DEF TypeOK
  <2>5. TenantIsolation' /\ HoldersHold'
    BY <2>1, <2>2 DEF TenantIsolation, HoldersHold, TypeOK
  <2> QED
    BY <2>2, <2>3, <2>4, <2>5 DEF Lists
<1>4. CASE Established(p)
  <2>1. PICK c \in Unreferenced :
          /\ pool' = pool \union {c}
          /\ conn' = [conn EXCEPT ![c] = Opened(want[p])]
          /\ held' = [held EXCEPT ![p] = c]
    BY <1>4 DEF Established
  <2>2. /\ pc[p] = "creating" /\ pc' = [pc EXCEPT ![p] = "using"]
        /\ UNCHANGED <<waitQueue, want, background>>
    BY <1>4 DEF Established
  <2>3. c \in Conns /\ c \notin pool /\ \A q \in Clients : held[q] # c
    BY DEF Unreferenced
  <2>4. TypeOK'
    BY <2>1, <2>2, <2>3 DEF TypeOK, Opened
  <2>5. Waiting' = Waiting
    BY <2>2 DEF Waiting, TypeOK
  <2>6. conn'[c].key = want[p]
    BY <2>1, <2>3 DEF TypeOK, Opened
  <2>7. TenantIsolation' /\ HoldersHold'
    BY <2>1, <2>2, <2>3, <2>6 DEF TenantIsolation, HoldersHold, TypeOK
  <2> QED
    BY <2>2, <2>4, <2>5, <2>7 DEF Lists
<1>5. CASE EstablishFailed(p)
  <2>1. Waiting' = Waiting
    BY <1>5 DEF EstablishFailed, Waiting, TypeOK
  <2>2. TypeOK'
    BY <1>5 DEF EstablishFailed, TypeOK
  <2>3. TenantIsolation' /\ HoldersHold'
    BY <1>5 DEF EstablishFailed, TenantIsolation, HoldersHold, TypeOK
  <2> QED
    BY <1>5, <2>1, <2>2, <2>3 DEF EstablishFailed, Lists
<1>6. CASE WaitTimeout(p)
  <2>1. Waiting' = Waiting \ {p}
    BY <1>6 DEF WaitTimeout, Waiting, TypeOK
  <2>2. Lists(waitQueue', Waiting')
    BY <1>6, <2>1, ListsSpliced DEF WaitTimeout
  <2>3. waitQueue' \in Seq(Clients)
    BY <2>2 DEF Lists
  <2>4. TypeOK'
    BY <1>6, <2>3 DEF WaitTimeout, TypeOK
  <2>5. TenantIsolation' /\ HoldersHold'
    BY <1>6 DEF WaitTimeout, TenantIsolation, HoldersHold, TypeOK
  <2> QED
    BY <2>2, <2>4, <2>5
<1>7. CASE Release(p)
  <2> DEFINE done == [pc EXCEPT ![p] = "idle"]
  <2>1. /\ pc[p] = "using"
        /\ held' = [held EXCEPT ![p] = None] /\ want' = [want EXCEPT ![p] = None]
        /\ UNCHANGED <<pool, background>>
    BY <1>7 DEF Release
  <2>2. /\ done \in [Clients -> Places]
        /\ {q \in Clients : done[q] = "waiting"} = Waiting
    BY <2>1 DEF TypeOK, Places, Waiting
  <2>3. /\ conn' \in [Conns -> Instances]
        /\ \A x \in pool : conn'[x].key = conn[x].key
    <3>1. CASE held[p] \in pool
      <4>1. conn' = [conn EXCEPT ![held[p]].idle = FALSE] /\ held[p] \in Conns
        BY <1>7, <3>1 DEF Release, TypeOK
      <4> QED
        BY <4>1, FlagsKeepKeys DEF TypeOK
    <3>2. CASE held[p] \notin pool
      <4>1. conn' = conn
        BY <1>7, <3>2 DEF Release
      <4> QED
        BY <4>1 DEF TypeOK, Instances
    <3> QED
      BY <3>1, <3>2
  <2>4. /\ waitQueue' \in Seq(Clients) /\ pc' \in [Clients -> Places]
        /\ Lists(waitQueue', Waiting')
        /\ \A q \in Clients : pc'[q] \in {"using", "removing"} => pc'[q] = done[q]
    <3>1. CASE held[p] \in pool
      <4>1. ServeQueue(pool, done)
        BY <1>7, <3>1 DEF Release
      <4> HIDE DEF done
      <4> QED
        BY <2>2, <4>1, ServeQueueKeeps
    <3>2. CASE held[p] \notin pool
      <4>1. pc' = done /\ waitQueue' = waitQueue
        BY <1>7, <3>2 DEF Release
      <4>2. Waiting' = Waiting
        BY <2>2, <4>1 DEF Waiting
      <4> QED
        BY <2>2, <4>1, <4>2 DEF Lists
    <3> QED
      BY <3>1, <3>2
  <2>5. TypeOK'
    BY <2>1, <2>3, <2>4 DEF TypeOK, Places, Instances
  <2>6. ASSUME NEW q \in Clients, pc'[q] = "using", held'[q] \in pool'
        PROVE  conn'[held'[q]].key = want'[q]
    <3>1. done[q] = "using"
      BY <2>4, <2>6
    <3>2. q # p /\ pc[q] = "using"
      BY <3>1 DEF TypeOK
    <3> QED
      BY <2>1, <2>3, <2>6, <3>2 DEF TenantIsolation, TypeOK
  <2>7. ASSUME NEW q \in Clients, pc'[q] \in {"using", "removing"}
        PROVE  held'[q] \in Conns
    <3>1. done[q] \in {"using", "removing"}
      BY <2>4, <2>7
    <3>2. q # p /\ pc[q] \in {"using", "removing"}
      BY <3>1 DEF TypeOK
    <3> QED
      BY <2>1, <3>2 DEF HoldersHold, TypeOK
  <2> QED
    BY <2>4, <2>5, <2>6, <2>7 DEF TenantIsolation, HoldersHold
<1>8. CASE RemoveStart(p)
  <2>1. Waiting' = Waiting
    BY <1>8 DEF RemoveStart, Waiting, TypeOK
  <2>2. TypeOK'
    BY <1>8 DEF RemoveStart, TypeOK
  <2>3. TenantIsolation' /\ HoldersHold'
    BY <1>8 DEF RemoveStart, TenantIsolation, HoldersHold, TypeOK
  <2> QED
    BY <1>8, <2>1, <2>2, <2>3 DEF RemoveStart, Lists
<1>9. CASE RemoveDone(p)
  <2> DEFINE done == [pc EXCEPT ![p] = "idle"]
  <2>1. /\ pc[p] = "removing" /\ Delete(held[p], done)
        /\ held' = [held EXCEPT ![p] = None] /\ want' = [want EXCEPT ![p] = None]
        /\ UNCHANGED background
    BY <1>9 DEF RemoveDone
  <2>2. /\ done \in [Clients -> Places]
        /\ \A q \in Clients : done[q] = pc[q] \/ (pc[q] # "waiting" /\ done[q] = "idle")
        /\ \A q \in Clients : done[q] \in {"using", "removing"} => held'[q] = held[q] /\ want'[q] = want[q]
    BY <2>1 DEF TypeOK, Places
  <2> HIDE DEF done
  <2>3. held[p] \in Conns
    BY <2>1 DEF HoldersHold
  <2>4. /\ pool' \subseteq Conns
        /\ conn' \in [Conns -> Instances]
        /\ waitQueue' \in Seq(Clients) /\ pc' \in [Clients -> Places]
        /\ Lists(waitQueue', Waiting')
        /\ TenantIsolation' /\ HoldersHold'
    BY <2>1, <2>2, <2>3, DeleteKeeps
  <2>5. TypeOK'
    BY <2>1, <2>4 DEF TypeOK, Places, Instances
  <2> QED
    BY <2>4, <2>5
<1> QED
  BY <1>1, <1>2, <1>3, <1>4, <1>5, <1>6, <1>7, <1>8, <1>9 DEF Client

(* The timers and onModuleDestroy. *)
Background(c) == GrowIdle(c) \/ HealthCheck(c) \/ CleanupVisit(c) \/ ClearClosed(c)

(* The steps that the timers and clearAll take on one connection. *)
LEMMA ConnStepKeeps ==
    ASSUME IInv, NEW c \in Conns, Background(c)
    PROVE  IInv'
<1> USE DEF IInv, background
<1>1. CASE GrowIdle(c)
  <2>1. /\ conn' = [conn EXCEPT ![c].idle = TRUE]
        /\ UNCHANGED <<pool, waitQueue, pc, want, held, background>>
    BY <1>1 DEF GrowIdle
  <2>2. conn' \in [Conns -> Instances] /\ \A x \in Conns : conn'[x].key = conn[x].key
    BY <2>1, FlagsKeepKeys
  <2>3. TypeOK'
    BY <2>1, <2>2 DEF TypeOK, Instances
  <2> QED
    BY <2>1, <2>2, <2>3 DEF Lists, Waiting, TenantIsolation, HoldersHold, TypeOK
<1>2. CASE HealthCheck(c)
  <2>1. PICK h \in BOOLEAN : conn' = [conn EXCEPT ![c].healthy = h]
    BY <1>2 DEF HealthCheck
  <2>2. UNCHANGED <<pool, waitQueue, pc, want, held, background>>
    BY <1>2 DEF HealthCheck
  <2>3. conn' \in [Conns -> Instances] /\ \A x \in Conns : conn'[x].key = conn[x].key
    <3>1. /\ [conn EXCEPT ![c].healthy = h] \in [Conns -> Instances]
          /\ \A x \in Conns : [conn EXCEPT ![c].healthy = h][x].key = conn[x].key
      BY FlagsKeepKeys, Zenon
    <3> QED
      BY <2>1, <3>1, Zenon
  <2>4. TypeOK'
    BY <2>2, <2>3 DEF TypeOK, Instances
  <2> QED
    BY <2>2, <2>3, <2>4 DEF Lists, Waiting, TenantIsolation, HoldersHold, TypeOK
<1>3. CASE CleanupVisit(c)
  <2>1. /\ todo' = todo \ {c} /\ cleaning' \in {c, None}
        /\ UNCHANGED <<pool, conn, waitQueue, pc, want, held, clearing, toClose>>
    BY <1>3 DEF CleanupVisit
  <2>2. TypeOK'
    BY <2>1 DEF TypeOK
  <2> QED
    BY <2>1, <2>2 DEF Lists, Waiting, TenantIsolation, HoldersHold
<1>4. CASE ClearClosed(c)
  <2>1. /\ toClose' = toClose \ {c} /\ Delete(c, pc)
        /\ UNCHANGED <<want, held, todo, cleaning, clearing>>
    BY <1>4 DEF ClearClosed
  <2>2. pc \in [Clients -> Places]
    BY DEF TypeOK, Places
  <2>3. /\ pool' \subseteq Conns
        /\ conn' \in [Conns -> Instances]
        /\ waitQueue' \in Seq(Clients) /\ pc' \in [Clients -> Places]
        /\ Lists(waitQueue', Waiting')
        /\ TenantIsolation' /\ HoldersHold'
    BY <2>1, <2>2, DeleteKeeps
  <2>4. TypeOK'
    BY <2>1, <2>3 DEF TypeOK, Places, Instances
  <2> QED
    BY <2>3, <2>4
<1> QED
  BY <1>1, <1>2, <1>3, <1>4 DEF Background

(* The other steps of the cleanup pass and of onModuleDestroy. *)
LEMMA ShutdownKeeps ==
    ASSUME IInv, CleanupStart \/ CleanupClosed \/ ClearStart \/ ClearDone
    PROVE  IInv'
<1> USE DEF IInv
<1>1. CASE CleanupStart
  <2>1. TypeOK'
    BY <1>1 DEF CleanupStart, TypeOK
  <2> QED
    BY <1>1, <2>1 DEF CleanupStart, Lists, Waiting, TenantIsolation, HoldersHold
<1>2. CASE CleanupClosed
  <2>1. /\ cleaning \in Conns /\ cleaning' = None /\ Delete(cleaning, pc)
        /\ UNCHANGED <<want, held, todo, clearing, toClose>>
    BY <1>2 DEF CleanupClosed, TypeOK
  <2>2. pc \in [Clients -> Places]
    BY DEF TypeOK, Places
  <2>3. /\ pool' \subseteq Conns
        /\ conn' \in [Conns -> Instances]
        /\ waitQueue' \in Seq(Clients) /\ pc' \in [Clients -> Places]
        /\ Lists(waitQueue', Waiting')
        /\ TenantIsolation' /\ HoldersHold'
    BY <2>1, <2>2, DeleteKeeps
  <2>4. TypeOK'
    BY <2>1, <2>3 DEF TypeOK, Places, Instances
  <2> QED
    BY <2>3, <2>4
<1>3. CASE ClearStart
  <2>1. TypeOK'
    BY <1>3 DEF ClearStart, TypeOK
  <2> QED
    BY <1>3, <2>1 DEF ClearStart, Lists, Waiting, TenantIsolation, HoldersHold
<1>4. CASE ClearDone
  <2>1. /\ waitQueue' = <<>>
        /\ pc' = [p \in Clients |-> IF pc[p] = "waiting" THEN "idle" ELSE pc[p]]
        /\ want' = [p \in Clients |-> IF pc[p] = "waiting" THEN None ELSE want[p]]
        /\ clearing' = "done"
        /\ UNCHANGED <<pool, conn, held, todo, cleaning, toClose>>
    BY <1>4 DEF ClearDone
  <2>2. Lists(waitQueue', Waiting')
    <3>1. Waiting' = {}
      BY <2>1 DEF Waiting
    <3> QED
      BY <2>1, <3>1, ListsNobody
  <2>3. TypeOK'
    BY <2>1 DEF TypeOK
  <2>4. TenantIsolation' /\ HoldersHold'
    BY <2>1 DEF TenantIsolation, HoldersHold, TypeOK
  <2> QED
    BY <2>2, <2>3, <2>4
<1> QED
  BY <1>1, <1>2, <1>3, <1>4

(* Every step of the pool keeps the invariant. *)
LEMMA NextKeeps == IInv /\ [Next]_vars => IInv'
<1> SUFFICES ASSUME IInv, [Next]_vars PROVE IInv'
  OBVIOUS
<1>1. CASE UNCHANGED vars
  BY <1>1 DEF vars, IInv, TypeOK, Lists, Waiting, TenantIsolation, HoldersHold
<1> QED
  BY <1>1, ClientKeeps, ConnStepKeeps, ShutdownKeeps DEF Next, Background

(* The inductive invariant holds always. *)
LEMMA AlwaysKept == Spec => []IInv
  BY InitKeeps, NextKeeps, PTL DEF Spec

(* Type correctness of the pool. *)
THEOREM PoolTypeCorrect == Spec => []TypeOK
<1>1. IInv => TypeOK
  BY DEF IInv
<1> QED
  BY <1>1, AlwaysKept, PTL

(* The queue and the clients that wait agree, whatever acquire, release,    *)
(* remove, the waiter timers, the cleanup pass and clearAll do at once.     *)
THEOREM QueueMatchesWaiters == Spec => []WaitersAreQueued
  BY IInvImplies, AlwaysKept, PTL

(* No client ever uses a connection opened for another tenant or system. *)
THEOREM TenantsIsolated == Spec => []TenantIsolation
<1>1. IInv => TenantIsolation
  BY DEF IInv
<1> QED
  BY <1>1, AlwaysKept, PTL

-----------------------------------------------------------------------------
(* The overshoot: whoever starts a connection has seen the pool below its   *)
(* limit, and from then on the sum of pool and connections being created    *)
(* only falls.                                                              *)
LEMMA Counted ==
    ASSUME NEW ids \in SUBSET Conns, NEW who \in SUBSET Clients
    PROVE  /\ IsFiniteSet(ids) /\ IsFiniteSet(who)
           /\ Cardinality(ids) \in Nat /\ Cardinality(who) \in Nat
           /\ Cardinality(Clients) \in Nat /\ Cardinality(who) <= Cardinality(Clients)
<1>1. IsFiniteSet(ids) /\ IsFiniteSet(who) /\ Cardinality(who) <= Cardinality(Clients)
  BY FS_Subset
<1> QED
  BY <1>1, FS_CardinalityType

(* A creation that starts on a pool below its limit. *)
LEMMA StartBelowLimit ==
    ASSUME TypeOK', NEW ids \in SUBSET Conns, ~AtCapacity(ids), pool' = ids
    PROVE  OvershootBounded'
<1>1. Creating' \in SUBSET Clients
  BY DEF Creating
<1>2. Cardinality(ids) < MaxPoolSize
  BY Counted, <1>1 DEF AtCapacity
<1> QED
  BY <1>1, <1>2, Counted DEF OvershootBounded

(* A step that adds neither to the pool nor to the creations. *)
LEMMA NothingAdded ==
    ASSUME TypeOK, OvershootBounded, pool' \subseteq pool, Creating' \subseteq Creating
    PROVE  OvershootBounded'
<1>1. pool \in SUBSET Conns /\ Creating \in SUBSET Clients
  BY DEF TypeOK, Creating
<1>2. Cardinality(pool') <= Cardinality(pool) /\ Cardinality(Creating') <= Cardinality(Creating)
  BY <1>1, Counted, FS_Subset
<1>3. /\ Cardinality(pool') \in Nat /\ Cardinality(Creating') \in Nat
      /\ Cardinality(pool) \in Nat /\ Cardinality(Creating) \in Nat
      /\ Cardinality(Clients) \in Nat
  BY <1>1, Counted
<1> QED
  BY <1>2, <1>3 DEF OvershootBounded

(* processWaitQueue after a step that took nothing into the pool. *)
LEMMA ServeQueueBounded ==
    ASSUME TypeOK, TypeOK', OvershootBounded, pool' \subseteq pool,
           NEW steps \in [Clients -> Places],
           \A p \in Clients : steps[p] = "creating" => pc[p] = "creating",
           ServeQueue(pool', steps)
    PROVE  OvershootBounded'
<1>1. CASE waitQueue # <<>> /\ ~AtCapacity(pool')
  BY <1>1, StartBelowLimit DEF TypeOK
<1>2. CASE ~(waitQueue # <<>> /\ ~AtCapacity(pool'))
  <2>1. pc' = steps
    BY <1>2 DEF ServeQueue
  <2>2. Creating' \subseteq Creating
    BY <2>1 DEF Creating
  <2> QED
    BY <2>2, NothingAdded
<1> QED
  BY <1>1, <1>2

(* Every step of the pool keeps the overshoot bounded. *)
LEMMA NextBounded == IInv /\ OvershootBounded /\ [Next]_vars => OvershootBounded'
<1> SUFFICES ASSUME IInv, OvershootBounded, [Next]_vars PROVE OvershootBounded'
  OBVIOUS
<1>0. TypeOK /\ TypeOK' /\ pc \in [Clients -> Places]
  BY NextKeeps DEF IInv, TypeOK, Places
<1>1. ASSUME NEW p \in Clients, AcquireNew(p) PROVE OvershootBounded'
  BY <1>0, <1>1, StartBelowLimit DEF AcquireNew, TypeOK
<1>2. ASSUME NEW p \in Clients, Established(p) PROVE OvershootBounded'
  <2>1. PICK c \in Unreferenced : pool' = pool \union {c}
    BY <1>2 DEF Established
  <2>2. pc[p] = "creating" /\ pc' = [pc EXCEPT ![p] = "using"] /\ c \notin pool
    BY <1>2 DEF Established, Unreferenced
  <2>3. p \in Creating /\ Creating' = Creating \ {p}
    BY <1>0, <2>2 DEF Creating
  <2>4. pool \in SUBSET Conns /\ Creating \in SUBSET Clients
    BY <1>0 DEF TypeOK, Creating
  <2>5. /\ Cardinality(pool') = Cardinality(pool) + 1
        /\ Cardinality(Creating') = Cardinality(Creating) - 1
    BY <2>1, <2>2, <2>3, <2>4, Counted, FS_AddElement, FS_RemoveElement
  <2>6. Cardinality(pool) \in Nat /\ Cardinality(Creating) \in Nat /\ Cardinality(Clients) \in Nat
    BY <2>4, Counted
  <2> QED
    BY <2>5, <2>6 DEF OvershootBounded
<1>3. ASSUME NEW p \in Clients,
             \/ AcquireExisting(p) \/ AcquireQueued(p) \/ EstablishFailed(p)
             \/ WaitTimeout(p) \/ RemoveStart(p)
      PROVE  OvershootBounded'
  <2>1. pool' = pool
    BY <1>3 DEF AcquireExisting, AcquireQueued, EstablishFailed, WaitTimeout, RemoveStart
  <2>2. Creating' \subseteq Creating
    BY <1>0, <1>3 DEF AcquireExisting, AcquireQueued, EstablishFailed, WaitTimeout, RemoveStart,
                      Creating
  <2> QED
    BY <1>0, <2>1, <2>2, NothingAdded
<1>4. ASSUME NEW p \in Clients, Release(p) PROVE OvershootBounded'
  <2> DEFINE done == [pc EXCEPT ![p] = "idle"]
  <2>1. pool' = pool
    BY <1>4 DEF Release
  <2>2. /\ done \in [Clients -> Places]
        /\ \A q \in Clients : done[q] = "creating" => pc[q] = "creating"
    BY <1>0 DEF Places
  <2>3. CASE held[p] \in pool
    <3>1. ServeQueue(pool', done)
      BY <1>4, <2>1, <2>3 DEF Release
    <3> HIDE DEF done
    <3> QED
      BY <1>0, <2>1, <2>2, <3>1, ServeQueueBounded
  <2>4. CASE held[p] \notin pool
    <3>1. pc' = done
      BY <1>4, <2>4 DEF Release
    <3>2. Creating' \subseteq Creating
      BY <2>2, <3>1 DEF Creating
    <3> QED
      BY <1>0, <2>1, <3>2, NothingAdded
  <2> QED
    BY <2>3, <2>4
<1>5. ASSUME NEW c, NEW steps \in [Clients -> Places], Delete(c, steps),
             \A p \in Clients : steps[p] = "creating" => pc[p] = "creating"
      PROVE  OvershootBounded'
  <2>1. pool' \subseteq pool /\ ServeQueue(pool', steps)
    BY <1>5 DEF Delete
  <2> QED
    BY <1>0, <1>5, <2>1, ServeQueueBounded
<1>6. ASSUME NEW p \in Clients, RemoveDone(p) PROVE OvershootBounded'
  <2> DEFINE done == [pc EXCEPT ![p] = "idle"]
  <2>1. /\ done \in [Clients -> Places]
        /\ \A q \in Clients : done[q] = "creating" => pc[q] = "creating"
    BY <1>0 DEF Places
  <2>2. Delete(held[p], done)
    BY <1>6 DEF RemoveDone
  <2> HIDE DEF done
  <2> QED
    BY <1>5, <2>1, <2>2
<1>7. ASSUME NEW c \in Conns, GrowIdle(c) \/ HealthCheck(c) \/ CleanupVisit(c)
      PROVE  OvershootBounded'
  <2>1. pool' = pool /\ Creating' = Creating
    BY <1>7 DEF GrowIdle, HealthCheck, CleanupVisit, Creating
  <2> QED
    BY <1>0, <2>1, NothingAdded
<1>8. ASSUME NEW c \in Conns, ClearClosed(c) PROVE OvershootBounded'
  BY <1>0, <1>5, <1>8 DEF ClearClosed
<1>9. CASE CleanupClosed
  BY <1>0, <1>5, <1>9 DEF CleanupClosed
<1>10. CASE CleanupStart \/ ClearStart \/ ClearDone
  <2>1. pool' = pool /\ Creating' \subseteq Creating
    BY <1>10 DEF CleanupStart, ClearStart, ClearDone, Creating
  <2> QED
    BY <1>0, <2>1, NothingAdded
<1>11. CASE UNCHANGED vars
  <2>1. pool' = pool /\ Creating' = Creating
    BY <1>11 DEF vars, Creating
  <2> QED
    BY <1>0, <2>1, NothingAdded
<1> QED
  BY <1>1, <1>2, <1>3, <1>4, <1>6, <1>7, <1>8, <1>9, <1>10, <1>11 DEF Next, Client

(* The pool and the connections on their way into it exceed maxPoolSize by  *)
(* less than the number of concurrent callers.                              *)
THEOREM OvershootAlwaysBounded == Spec => []OvershootBounded
<1>1. Init => OvershootBounded
  <2> SUFFICES ASSUME Init PROVE OvershootBounded
    OBVIOUS
  <2>1. pool = {} /\ Creating = {}
    BY DEF Init, Creating
  <2>2. Cardinality(pool) = 0 /\ Cardinality(Creating) = 0
    BY <2>1, FS_EmptySet
  <2>3. Cardinality(Clients) \in Nat
    BY FS_CardinalityType
  <2> QED
    BY <2>2, <2>3 DEF OvershootBounded
<1> QED
  BY <1>1, AlwaysKept, NextBounded, PTL DEF Spec
=============================================================================
