-------------------------- MODULE MCConnectionPool --------------------------
(* A pool of one with two callers of two tenants: the smallest pool that is *)
(* full, queues, overshoots and serves its queue.  A removed connection may *)
(* still be held, hence the third id.                                       *)
EXTENDS ConnectionPool
=============================================================================
