------------------------------- MODULE Escrow -------------------------------
(***************************************************************************)
(* EscrowService (Module_13_Cross_Border_Trade/src/services/               *)
(* escrow.service.ts) on one row of escrow_transactions.  Every operation  *)
(* is findOne, a check of the status, an update of the caller's copy and   *)
(* save, without a version column.  TypeORM's save is two statements: it   *)
(* reads the row again, and later UPDATEs the columns in which the copy    *)
(* differed from what it read.  Other requests run between findOne and     *)
(* that second read, and between the second read and the UPDATE.           *)
(***************************************************************************)
EXTENDS Naturals, FiniteSets

CONSTANTS Requests,         \* requests on this escrow that may overlap
          MaxOverlaps,      \* bound on overlaps
          HashColumn,       \* length of column blockchain_hash
          SimulatedHash,    \* length of the hash simulateBlockchainTransaction returns
          SuppliedHashes    \* lengths of the hashes callers pass

ASSUME EscrowAssumption ==
    /\ MaxOverlaps \in Nat /\ HashColumn \in Nat /\ SimulatedHash \in Nat
    /\ SuppliedHashes \subseteq Nat
    /\ IsFiniteSet(Requests)

VARIABLES
    row,       \* the columns of the escrow the checks and the reports read
    req,       \* request -> its operation, its copy of the row, the columns to UPDATE
    payouts,   \* ghost: operations that let funds out and were answered with success
    overlaps,  \* ghost: requests that read the row while another had yet to save its copy
    crossed    \* ghost: a save has begun between the read and the UPDATE of another

vars == <<row, req, payouts, overlaps, crossed>>

Ledger == INSTANCE EscrowLedger WITH status <- row.status

Rows == [status : Ledger!Statuses, fundedAt : BOOLEAN, releasedAt : BOOLEAN,
         disputedAt : BOOLEAN]
Stamps == {"fundedAt", "releasedAt", "disputedAt"}
Columns == {"status"} \union Stamps
NoRow == [status |-> "none", fundedAt |-> FALSE, releasedAt |-> FALSE, disputedAt |-> FALSE]
Idle == [op |-> "none", copy |-> NoRow, hash |-> 0, paysOut |-> FALSE,
         saving |-> FALSE, writes |-> {}]

RequestStates == [op : Ledger!Ops \union {"none"}, copy : Rows, hash : Nat, paysOut : BOOLEAN,
                  saving : BOOLEAN, writes : SUBSET Columns]

TypeOK ==
    /\ row \in Rows
    /\ req \in [Requests -> RequestStates]
    /\ payouts \in Nat /\ overlaps \in Nat /\ crossed \in BOOLEAN

Init ==
    /\ row = NoRow
    /\ req = [r \in Requests |-> Idle]
    /\ payouts = 0 /\ overlaps = 0 /\ crossed = FALSE

(* The columns in which two versions of the row differ. *)
Differing(e, f) == {c \in Columns : e[c] # f[c]}

InFlight == {r \in Requests : req[r].op # "none"}

(* The copy of the row as the operation leaves it. *)
Updated(op, e) ==
    [status |-> Ledger!Target(op), fundedAt |-> e.fundedAt \/ op = "fund",
     releasedAt |-> e.releasedAt \/ op \in {"release", "resolve"},
     disputedAt |-> e.disputedAt \/ op = "dispute"]

(* blockchainHash of the copy: passed by the caller of fund and release or  *)
(* else simulated; always simulated by resolve and cancel; dispute keeps    *)
(* the one in the row, which fits.                                          *)
Hashes(op) ==
    CASE op \in {"fund", "release"} -> SuppliedHashes \union {SimulatedHash}
      [] op \in {"resolve", "cancel"} -> {SimulatedHash}
      [] op = "dispute" -> {0}

-----------------------------------------------------------------------------
(* MUTANT of CreateEscrow: the status the tests use. *)
CreateAsCreated ==
    /\ row.status = "none"
    /\ row' = [row EXCEPT !.status = "created"]
    /\ UNCHANGED <<req, payouts, overlaps, crossed>>

(* MUTANT of CreateEscrow: an existing escrow is overwritten. *)
CreateAgain ==
    /\ row' = [row EXCEPT !.status = "pending"]
    /\ UNCHANGED <<req, payouts, overlaps, crossed>>

CreateEscrow ==
    /\ row.status = "none"
    /\ row' = [row EXCEPT !.status = "pending"]
    /\ UNCHANGED <<req, payouts, overlaps, crossed>>

(* Another request reads the row; it overlaps those that have yet to save. *)
Arrive(r) ==
    /\ req[r].op = "none"
    /\ \/ InFlight = {} /\ UNCHANGED overlaps
       \/ InFlight # {} /\ overlaps < MaxOverlaps /\ overlaps' = overlaps + 1

(* The assignments to the copy of the row, which wait to be saved. *)
TakeCopy(r, op) ==
    \E h \in Hashes(op) :
        req' = [req EXCEPT ![r] = [op |-> op, copy |-> Updated(op, row), hash |-> h,
                                   paysOut |-> Ledger!PaysOut(op, row.status),
                                   saving |-> FALSE, writes |-> {}]]

(* MUTANT of Load: the status is not checked. *)
LoadUnchecked(r, op) ==
    /\ Arrive(r)
    /\ row.status # "none"
    /\ TakeCopy(r, op)
    /\ UNCHANGED <<row, payouts, crossed>>

(* MUTANT of Load: a dispute that was resolved can be resolved again. *)
LoadResolveAgain(r, op) ==
    /\ Arrive(r)
    /\ Ledger!Allowed(op, row.status) \/ (op = "resolve" /\ row.status = "released")
    /\ TakeCopy(r, op)
    /\ UNCHANGED <<row, payouts, crossed>>

(* findOne, the status check, and the assignments.  A request whose check   *)
(* fails is answered with an error and changes nothing.                     *)
Load(r, op) ==
    /\ Arrive(r)
    /\ Ledger!Allowed(op, row.status)
    /\ TakeCopy(r, op)
    /\ UNCHANGED <<row, payouts, crossed>>

(* The first statement of save, outside any transaction, has read the row   *)
(* again and determined the columns cs that the UPDATE will name.           *)
BeginSave(r, cs) ==
    /\ req[r].op # "none" /\ ~req[r].saving
    /\ req' = [req EXCEPT ![r].saving = TRUE, ![r].writes = cs]
    /\ crossed' = (crossed \/ \E q \in Requests : req[q].saving)
    /\ UNCHANGED <<row, payouts, overlaps>>

(* MUTANT of Reload: the UPDATE names the columns the operation assigned. *)
ReloadAssigned(r) ==
    BeginSave(r, CASE req[r].op = "fund" -> {"status", "fundedAt"}
                   [] req[r].op \in {"release", "resolve"} -> {"status", "releasedAt"}
                   [] req[r].op = "dispute" -> {"status", "disputedAt"}
                   [] OTHER -> {"status"})

(* The columns in which the copy differs from the row as it is now; a date  *)
(* that both have may differ or not.                                        *)
Reload(r) ==
    \E again \in SUBSET {c \in Stamps : req[r].copy[c] /\ row[c]} :
        BeginSave(r, Differing(req[r].copy, row) \union again)

(* The row after an UPDATE of the columns cs from a copy of it. *)
Overwritten(e, cs) ==
    LET Value(c) == IF c \in cs THEN e[c] ELSE row[c]
    IN  [status |-> Value("status"), fundedAt |-> Value("fundedAt"),
         releasedAt |-> Value("releasedAt"), disputedAt |-> Value("disputedAt")]

(* The UPDATE.  The operation is answered with success whatever it wrote. *)
Save(r) ==
    /\ req[r].saving
    /\ req[r].hash <= HashColumn
    /\ row' = Overwritten(req[r].copy, req[r].writes)
    /\ payouts' = IF req[r].paysOut THEN payouts + 1 ELSE payouts
    /\ req' = [req EXCEPT ![r] = Idle]
    /\ UNCHANGED <<overlaps, crossed>>

(* The database refuses a value too long for the column, or is unreachable: *)
(* save throws, at either statement, and the row stays as it is.            *)
SaveFails(r) ==
    /\ req[r].op # "none"
    /\ req' = [req EXCEPT ![r] = Idle]
    /\ UNCHANGED <<row, payouts, overlaps, crossed>>

Next ==
    \/ CreateEscrow
    \/ \E r \in Requests :
          \/ Reload(r) \/ Save(r) \/ SaveFails(r)
          \/ \E op \in Ledger!Ops : Load(r, op)

Spec == Init /\ [][Next]_vars

-----------------------------------------------------------------------------
(* The row is one some operation could have left: its status agrees with    *)
(* its timestamps, so that the reports that read releasedAt and the checks  *)
(* that read status see the same escrow.  Saving a copy that has become     *)
(* stale, in whatever order, does not break this, because save also undoes  *)
(* what others wrote since the copy was taken; only a save that begins      *)
(* between the two statements of another may leave a mixture of two copies. *)
CoherentUnlessCrossed ==
    ~crossed =>
        /\ row.status \in {"funded", "released", "disputed"} => row.fundedAt
        /\ row.status = "released" <=> row.releasedAt
        /\ row.status = "disputed" => row.disputedAt
        /\ row.status = "cancelled" => ~row.disputedAt

(* Even stale or crossing saves never make a funded escrow look unfunded, to be       *)
(* funded a second time from the start.                                     *)
NeverPendingAgain ==
    [][row.status \notin {"none", "pending"} => row'.status \notin {"none", "pending"}]_vars

(* Every payout after the first is the doing of an overlap of its own: with *)
(* n overlaps the funds leave escrow at most n + 1 times, and at most n     *)
(* times while the row still lets an operation pay.                         *)
PayoutsWithinOverlaps ==
    /\ payouts + (IF row.status \in {"released", "cancelled"} THEN 0 ELSE 1) <= 1 + overlaps
    /\ row.status = "released" => payouts > 0

(* While no requests overlap, the service implements the ledger. *)
ImplementsLedger == Ledger!LedgerSpec

(* "Escrow must be FUNDED to release": the funds of an escrow leave it at   *)
(* most once, however many requests overlap.                                *)
FundsLeaveOnce == payouts <= 1
=============================================================================
