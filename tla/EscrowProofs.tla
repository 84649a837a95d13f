---------------------------- MODULE EscrowProofs ----------------------------
(***************************************************************************)
(* What holds of the escrow however many requests overlap (type, coherence *)
(* of the row until two saves cross, no way back to pending, the bound on  *)
(* payouts), and what holds when they do not (the service implements the   *)
(* ledger and pays once).                                                  *)
(***************************************************************************)
EXTENDS Escrow, FiniteSetTheorems, TLAPS

USE EscrowAssumption

(* The row, or a copy of it, is one that the operations produce in order:   *)
(* what CoherentUnlessCrossed says, and no trace of a later stage in an     *)
(* earlier one.                                                             *)
Coherent(e) ==
    /\ e.status \in {"funded", "released", "disputed"} => e.fundedAt
    /\ e.status = "released" <=> e.releasedAt
    /\ e.status = "disputed" => e.disputedAt
    /\ e.status \in {"none", "pending", "funded", "cancelled"} => ~e.disputedAt

(* An operation's copy is as coherent as the row it was read from. *)
LEMMA UpdatedCoherent ==
    ASSUME NEW e \in Rows, NEW op \in Ledger!Ops,
           Coherent(e), Ledger!Allowed(op, e.status)
    PROVE  /\ Updated(op, e) \in Rows
           /\ Coherent(Updated(op, e))
           /\ Updated(op, e).status \notin {"none", "pending"}
  BY DEF Coherent, Updated, Rows, Ledger!Ops, Ledger!Allowed, Ledger!Target, Ledger!Statuses

(* An UPDATE of columns among which are all that differ leaves the copy. *)
LEMMA OverwrittenWhole ==
    ASSUME NEW e \in Rows, NEW cs \in SUBSET Columns, row \in Rows,
           Differing(e, row) \subseteq cs
    PROVE  Overwritten(e, cs) = e
  BY DEF Differing, Rows, Columns, Stamps, Overwritten

(* Any UPDATE leaves a row whose status is the copy's or the row's. *)
LEMMA OverwrittenRow ==
    ASSUME NEW e \in Rows, NEW cs \in SUBSET Columns, row \in Rows
    PROVE  /\ Overwritten(e, cs) \in Rows
           /\ Overwritten(e, cs).status = IF "status" \in cs THEN e.status ELSE row.status
  BY DEF Rows, Columns, Stamps, Overwritten

(* What is in flight has read a row that exists and goes forward from it. *)
CopiesForward ==
    /\ row.status = "none" => InFlight = {}
    /\ \A r \in Requests : req[r].saving => r \in InFlight
    /\ \A r \in InFlight : req[r].copy.status \notin {"none", "pending"}

(* Until two saves cross, what is in flight is as good as what is stored,   *)
(* and the one save begun names every column in which its copy differs.     *)
OneSave ==
    /\ Coherent(row)
    /\ \A r \in InFlight : Coherent(req[r].copy)
    /\ \A r, q \in Requests : req[r].saving /\ req[q].saving => r = q
    /\ \A r \in Requests : req[r].saving => Differing(req[r].copy, row) \subseteq req[r].writes

(* The inductive invariant. *)
IInv == TypeOK /\ CopiesForward /\ (~crossed => OneSave)

(* An idle request is typed. *)
LEMMA IdleTyped == Idle \in RequestStates /\ NoRow \in Rows
  BY DEF Idle, RequestStates, NoRow, Rows, Ledger!Statuses

(* The invariant holds before createEscrow. *)
LEMMA InitCoherent == Init => IInv
<1> SUFFICES ASSUME Init PROVE IInv
  OBVIOUS
<1>1. row = NoRow /\ payouts = 0 /\ overlaps = 0 /\ ~crossed /\ crossed \in BOOLEAN
  BY DEF Init
<1>2. \A r \in Requests : req[r] = Idle
  BY DEF Init
<1>3. TypeOK
  BY IdleTyped DEF Init, TypeOK
<1>4. InFlight = {} /\ \A r \in Requests : ~req[r].saving
  BY <1>2 DEF InFlight, Idle
<1>5. Coherent(row)
  BY <1>1 DEF NoRow, Coherent
<1> QED
  BY <1>3, <1>4, <1>5 DEF IInv, CopiesForward, OneSave

(* A request leaves, its save done or failed. *)
LEMMA GoneFromFlight ==
    ASSUME TypeOK, NEW r \in Requests, req' = [req EXCEPT ![r] = Idle]
    PROVE  /\ req' \in [Requests -> RequestStates]
           /\ ~req'[r].saving
           /\ \A q \in Requests \ {r} : req'[q] = req[q]
           /\ InFlight' = InFlight \ {r} /\ InFlight \subseteq Requests
<1>2. req'[r] = Idle /\ \A q \in Requests \ {r} : req'[q] = req[q]
  BY DEF TypeOK
<1>3. InFlight' = InFlight \ {r} /\ InFlight \subseteq Requests
  BY <1>2 DEF InFlight, Idle
<1> QED
  BY IdleTyped, <1>2, <1>3 DEF TypeOK, Idle

(* createEscrow finds nothing in flight. *)
LEMMA CreateCoherent == IInv /\ CreateEscrow => IInv'
<1> SUFFICES ASSUME IInv, CreateEscrow PROVE IInv'
  OBVIOUS
<1>1. row' \in Rows /\ row'.status = "pending" /\ UNCHANGED <<req, payouts, overlaps, crossed>>
  BY DEF CreateEscrow, IInv, TypeOK, Rows, Ledger!Statuses
<1>2. InFlight = {} /\ InFlight' = {}
  BY DEF CreateEscrow, IInv, CopiesForward, InFlight
<1>3. Coherent(row) => Coherent(row')
  BY DEF CreateEscrow, IInv, TypeOK, Coherent, Rows
<1>4. \A r \in Requests : ~req'[r].saving
  BY <1>1, <1>2 DEF IInv, CopiesForward
<1> QED
  BY <1>1, <1>2, <1>3, <1>4 DEF IInv, TypeOK, CopiesForward, OneSave

(* A request loads a copy as coherent as the row. *)
LEMMA LoadCoherent ==
    ASSUME IInv, NEW r \in Requests, NEW op \in Ledger!Ops, Load(r, op)
    PROVE  IInv'
<1>1. /\ row' = row /\ payouts' = payouts /\ crossed' = crossed
      /\ Ledger!Allowed(op, row.status) /\ row \in Rows
  BY DEF Load, IInv, TypeOK
<1>2. PICK h \in Hashes(op) :
        req' = [req EXCEPT ![r] = [op |-> op, copy |-> Updated(op, row), hash |-> h,
                                   paysOut |-> Ledger!PaysOut(op, row.status),
                                   saving |-> FALSE, writes |-> {}]]
  BY DEF Load, TakeCopy
<1>3. h \in Nat /\ overlaps' \in Nat /\ Ledger!PaysOut(op, row.status) \in BOOLEAN
  BY DEF Hashes, Ledger!Ops, Ledger!PaysOut, Load, Arrive, IInv, TypeOK
<1>4. /\ Updated(op, row) \in Rows
      /\ Coherent(row) => Coherent(Updated(op, row))
      /\ Updated(op, row).status \notin {"none", "pending"}
      /\ row.status # "none"
  <2>1. Coherent(row) => Coherent(Updated(op, row))
    BY <1>1, UpdatedCoherent
  <2>2. Updated(op, row) \in Rows /\ Updated(op, row).status \notin {"none", "pending"}
    BY <1>1 DEF Updated, Rows, Ledger!Ops, Ledger!Target, Ledger!Statuses
  <2>3. row.status # "none"
    BY <1>1 DEF Ledger!Allowed, Ledger!Ops
  <2> QED
    BY <2>1, <2>2, <2>3
<1>5. TypeOK'
  <2>1. [op |-> op, copy |-> Updated(op, row), hash |-> h,
         paysOut |-> Ledger!PaysOut(op, row.status), saving |-> FALSE, writes |-> {}]
          \in RequestStates
    BY <1>3, <1>4 DEF RequestStates
  <2> QED
    BY <1>1, <1>2, <1>3, <2>1 DEF IInv, TypeOK
<1>6. /\ req'[r].copy = Updated(op, row) /\ ~req'[r].saving
      /\ \A q \in Requests \ {r} : req'[q] = req[q]
      /\ InFlight' = InFlight \union {r} /\ InFlight \subseteq Requests \ {r}
  <2>1. req'[r].op = op /\ op # "none"
    BY <1>2 DEF IInv, TypeOK, Ledger!Ops
  <2> QED
    BY <1>2, <2>1 DEF IInv, TypeOK, InFlight, Load, Arrive
<1>7. CopiesForward'
  BY <1>1, <1>4, <1>6 DEF IInv, CopiesForward
<1>8. ~crossed' => OneSave'
  BY <1>1, <1>4, <1>6 DEF IInv, OneSave, Coherent, Differing
<1> QED
  BY <1>5, <1>7, <1>8 DEF IInv

(* A save begins: unless it crosses another, it is the only one. *)
LEMMA ReloadCoherent ==
    ASSUME IInv, NEW r \in Requests, Reload(r)
    PROVE  IInv'
<1>1. PICK again \in SUBSET {c \in Stamps : req[r].copy[c] /\ row[c]} :
        BeginSave(r, Differing(req[r].copy, row) \union again)
  BY DEF Reload
<1> DEFINE cs == Differing(req[r].copy, row) \union again
<1>2. /\ req[r].op # "none" /\ cs \subseteq Columns
      /\ req' = [req EXCEPT ![r].saving = TRUE, ![r].writes = cs]
      /\ crossed' = (crossed \/ \E q \in Requests : req[q].saving)
      /\ UNCHANGED <<row, payouts, overlaps>>
  BY <1>1 DEF BeginSave, Differing, Columns
<1> HIDE DEF cs
<1>3. TypeOK'
  <2>1. [req[r] EXCEPT !.saving = TRUE, !.writes = cs] \in RequestStates
    BY <1>2 DEF IInv, TypeOK, RequestStates
  <2>2. req' = [req EXCEPT ![r] = [req[r] EXCEPT !.saving = TRUE, !.writes = cs]]
    BY <1>2
  <2>3. crossed' \in BOOLEAN
    BY <1>2 DEF IInv, TypeOK
  <2> QED
    BY <1>2, <2>1, <2>2, <2>3 DEF IInv, TypeOK
<1>4. /\ req'[r].saving /\ req'[r].writes = cs
      /\ \A q \in Requests \ {r} : req'[q] = req[q]
      /\ \A q \in Requests : req'[q].op = req[q].op /\ req'[q].copy = req[q].copy
  BY <1>2 DEF IInv, TypeOK
<1>5. InFlight' = InFlight /\ r \in InFlight /\ InFlight \subseteq Requests
  BY <1>2, <1>4 DEF InFlight
<1>6. CopiesForward'
  BY <1>2, <1>4, <1>5 DEF IInv, CopiesForward
<1>7. ~crossed' => OneSave'
  <2> SUFFICES ASSUME ~crossed' PROVE OneSave'
    OBVIOUS
  <2>1. ~crossed /\ OneSave /\ \A q \in Requests : ~req[q].saving
    BY <1>2 DEF IInv
  <2>2. \A q \in Requests : req'[q].saving => q = r
    BY <1>4, <2>1
  <2>3. Differing(req'[r].copy, row') \subseteq req'[r].writes
    BY <1>2, <1>4 DEF cs, Differing
  <2>4. Coherent(row') /\ \A q \in InFlight' : Coherent(req'[q].copy)
    <3>1. row' = row /\ Coherent(row)
      BY <1>2, <2>1 DEF OneSave
    <3>2. \A q \in InFlight' : req'[q].copy = req[q].copy /\ Coherent(req[q].copy)
      BY <1>4, <1>5, <2>1 DEF OneSave
    <3> QED
      BY <3>1, <3>2
  <2>5. \A q \in Requests : req'[q].saving =>
            Differing(req'[q].copy, row') \subseteq req'[q].writes
    BY <2>2, <2>3
  <2>6. \A q, p \in Requests : req'[q].saving /\ req'[p].saving => q = p
    BY <2>2
  <2> QED
    BY <2>4, <2>5, <2>6 DEF OneSave, Coherent
<1> QED
  BY <1>3, <1>6, <1>7 DEF IInv

(* The UPDATE: unless saves have crossed, the row becomes the copy. *)
LEMMA SaveCoherent ==
    ASSUME IInv, NEW r \in Requests, Save(r)
    PROVE  IInv'
<1>1. /\ req[r].saving /\ req[r].copy \in Rows /\ req[r].writes \in SUBSET Columns
      /\ row' = Overwritten(req[r].copy, req[r].writes)
      /\ req' = [req EXCEPT ![r] = Idle] /\ overlaps' = overlaps /\ crossed' = crossed
      /\ payouts' \in Nat /\ row \in Rows /\ r \in InFlight
  BY DEF Save, IInv, TypeOK, RequestStates, CopiesForward
<1>2. row' \in Rows /\ row'.status # "none"
  <2>1. req[r].copy.status # "none" /\ row.status # "none"
    BY <1>1 DEF IInv, CopiesForward
  <2> QED
    BY <1>1, <2>1, OverwrittenRow
<1>3. /\ ~req'[r].saving /\ \A q \in Requests \ {r} : req'[q] = req[q]
      /\ InFlight' = InFlight \ {r} /\ InFlight \subseteq Requests
  BY <1>1, GoneFromFlight DEF IInv
<1>4. TypeOK'
  BY <1>1, <1>2, GoneFromFlight DEF IInv, TypeOK
<1>5. CopiesForward'
  BY <1>2, <1>3 DEF IInv, CopiesForward
<1>6. ~crossed' => OneSave'
  <2> SUFFICES ASSUME ~crossed' PROVE OneSave'
    OBVIOUS
  <2>1. OneSave
    BY <1>1 DEF IInv
  <2>2. row' = req[r].copy
    BY <1>1, <2>1, OverwrittenWhole DEF OneSave
  <2>3. \A q \in Requests : ~req'[q].saving
    BY <1>1, <1>3, <2>1 DEF OneSave
  <2> QED
    BY <1>1, <1>3, <2>1, <2>2, <2>3 DEF OneSave, Coherent
<1> QED
  BY <1>4, <1>5, <1>6 DEF IInv

(* A save that fails, at either statement, leaves the row alone. *)
LEMMA FailCoherent ==
    ASSUME IInv, NEW r \in Requests, SaveFails(r)
    PROVE  IInv'
<1>1. req' = [req EXCEPT ![r] = Idle] /\ UNCHANGED <<row, payouts, overlaps, crossed>>
  BY DEF SaveFails
<1>2. /\ ~req'[r].saving /\ \A q \in Requests \ {r} : req'[q] = req[q]
      /\ InFlight' = InFlight \ {r} /\ InFlight \subseteq Requests
  BY <1>1, GoneFromFlight DEF IInv
<1>3. TypeOK'
  BY <1>1, GoneFromFlight DEF IInv, TypeOK
<1>4. CopiesForward'
  BY <1>1, <1>2 DEF IInv, CopiesForward
<1>5. ~crossed' => OneSave'
  BY <1>1, <1>2 DEF IInv, OneSave, Coherent, Differing
<1> QED
  BY <1>3, <1>4, <1>5 DEF IInv

(* Every step keeps the invariant. *)
LEMMA NextCoherent == IInv /\ [Next]_vars => IInv'
<1> SUFFICES ASSUME IInv, [Next]_vars PROVE IInv'
  OBVIOUS
<1>1. CASE UNCHANGED vars
  BY <1>1 DEF vars, IInv, TypeOK, CopiesForward, OneSave, Coherent, Differing, InFlight
<1> QED
  BY <1>1, CreateCoherent, LoadCoherent, ReloadCoherent, SaveCoherent, FailCoherent DEF Next

(* The inductive invariant holds always. *)
LEMMA AlwaysCoherent == Spec => []IInv
  BY InitCoherent, NextCoherent, PTL DEF Spec

(* Type correctness of the escrow, for any number of overlapping requests. *)
THEOREM EscrowTypeCorrect == Spec => []TypeOK
<1>1. IInv => TypeOK
  BY DEF IInv
<1> QED
  BY <1>1, AlwaysCoherent, PTL

(* The row's status agrees with its timestamps however many of fundEscrow,  *)
(* releaseEscrow, disputeEscrow, resolveDispute and cancelEscrow overlap    *)
(* and however stale the copies are that they save, until one save begins   *)
(* between the SELECT and the UPDATE of another.                            *)
THEOREM CoherentUntilCrossed == Spec => []CoherentUnlessCrossed
<1>1. IInv => CoherentUnlessCrossed
  BY DEF IInv, OneSave, Coherent, CoherentUnlessCrossed
<1> QED
  BY <1>1, AlwaysCoherent, PTL

(* Neither a stale save nor saves that cross make a funded escrow look      *)
(* unfunded.                                                                *)
THEOREM NoWayBackToPending == Spec => NeverPendingAgain
<1>1. IInv /\ [Next]_vars =>
        [row.status \notin {"none", "pending"} => row'.status \notin {"none", "pending"}]_vars
  <2> SUFFICES ASSUME IInv, Next, row.status \notin {"none", "pending"}
               PROVE  row'.status \notin {"none", "pending"}
    OBVIOUS
  <2>1. CASE CreateEscrow
    BY <2>1 DEF CreateEscrow
  <2>2. ASSUME NEW r \in Requests, Save(r) PROVE row'.status \notin {"none", "pending"}
    <3>1. /\ req[r].copy \in Rows /\ req[r].writes \in SUBSET Columns /\ row \in Rows
          /\ req[r].copy.status \notin {"none", "pending"}
      BY <2>2 DEF Save, IInv, TypeOK, RequestStates, CopiesForward
    <3> QED
      BY <2>2, <3>1, OverwrittenRow DEF Save
  <2>3. ASSUME NEW r \in Requests, SaveFails(r) PROVE row' = row
    BY <2>3 DEF SaveFails
  <2>4. ASSUME NEW r \in Requests, Reload(r) PROVE row' = row
    BY <2>4 DEF Reload, BeginSave
  <2>5. ASSUME NEW r \in Requests, NEW op \in Ledger!Ops, Load(r, op) PROVE row' = row
    BY <2>5 DEF Load
  <2> QED
    BY <2>1, <2>2, <2>3, <2>4, <2>5 DEF Next
<1> QED
  BY <1>1, AlwaysCoherent, PTL DEF Spec, NeverPendingAgain

-----------------------------------------------------------------------------
(* Payouts and overlaps *)

(* Whether the funds are still to leave escrow, as a number. *)
Payable(st) == IF st \in {"released", "cancelled"} THEN 0 ELSE 1

(* The request would pass its check on the row as it is now, and pays what  *)
(* it would then pay; if its save has begun, it will write the status.      *)
Fresh(r) ==
    /\ Ledger!Allowed(req[r].op, row.status)
    /\ req[r].paysOut = Ledger!PaysOut(req[r].op, row.status)
    /\ req[r].saving => "status" \in req[r].writes

AllFresh == InFlight # {} /\ \A r \in InFlight : Fresh(r)

(* What a copy in flight will do to the status and to the funds. *)
CopiesKnown ==
    \A r \in InFlight :
        /\ req[r].op \in Ledger!Ops
        /\ req[r].copy.status = Ledger!Target(req[r].op)
        /\ req[r].op \in {"release", "resolve"} => req[r].paysOut
        /\ req[r].paysOut => req[r].op \in {"release", "resolve", "cancel"}

(* Each copy in flight may let the funds out once more, as may the row, but *)
(* copies that are all fresh and the row promise the same payout.           *)
Charged ==
    payouts + Payable(row.status) + Cardinality(InFlight) - (IF AllFresh THEN 1 ELSE 0)
        <= 1 + overlaps

ReleasedPaid == row.status = "released" => payouts > 0

OverlapInv == IInv /\ CopiesKnown /\ Charged /\ ReleasedPaid

(* Requests in flight are counted. *)
LEMMA InFlightFinite == IsFiniteSet(InFlight) /\ Cardinality(InFlight) \in Nat
<1>1. IsFiniteSet(InFlight)
  BY FS_Subset DEF InFlight
<1> QED
  BY <1>1, FS_CardinalityType

(* A request leaves. *)
LEMMA Leaves ==
    ASSUME IInv, NEW r \in Requests, req[r].op # "none", req' = [req EXCEPT ![r] = Idle]
    PROVE  /\ r \in InFlight /\ InFlight' = InFlight \ {r}
           /\ Cardinality(InFlight') = Cardinality(InFlight) - 1
           /\ \A q \in InFlight' : q \in InFlight /\ req'[q] = req[q]
<1>1. r \in InFlight
  BY DEF InFlight
<1>2. InFlight' = InFlight \ {r} /\ \A q \in InFlight' : q \in InFlight /\ req'[q] = req[q]
  BY GoneFromFlight, <1>1 DEF IInv
<1>3. Cardinality(InFlight \ {r}) = Cardinality(InFlight) - 1
  BY <1>1, InFlightFinite, FS_RemoveElement
<1> QED
  BY <1>1, <1>2, <1>3

(* A request arrives with a copy that is fresh. *)
LEMMA Arrives ==
    ASSUME IInv, NEW r \in Requests, NEW op \in Ledger!Ops, Load(r, op)
    PROVE  /\ r \notin InFlight /\ InFlight' = InFlight \cup {r}
           /\ Cardinality(InFlight') = Cardinality(InFlight) + 1
           /\ \A q \in InFlight : req'[q] = req[q]
           /\ req'[r].op = op /\ req'[r].copy.status = Ledger!Target(op)
           /\ req'[r].paysOut = Ledger!PaysOut(op, row.status) /\ ~req'[r].saving
           /\ Ledger!Allowed(op, row.status) /\ UNCHANGED <<row, payouts, crossed>>
<1>1. r \notin InFlight /\ Ledger!Allowed(op, row.status) /\ UNCHANGED <<row, payouts, crossed>>
  BY DEF Load, Arrive, InFlight
<1>2. PICK h \in Hashes(op) :
        req' = [req EXCEPT ![r] = [op |-> op, copy |-> Updated(op, row), hash |-> h,
                                   paysOut |-> Ledger!PaysOut(op, row.status),
                                   saving |-> FALSE, writes |-> {}]]
  BY DEF Load, TakeCopy
<1>3. /\ req'[r].op = op /\ req'[r].copy.status = Ledger!Target(op)
      /\ req'[r].paysOut = Ledger!PaysOut(op, row.status) /\ ~req'[r].saving
      /\ \A q \in Requests \ {r} : req'[q] = req[q]
  BY <1>2 DEF IInv, TypeOK, Updated
<1>4. op # "none"
  BY DEF Ledger!Ops
<1>5. InFlight' = InFlight \cup {r} /\ \A q \in InFlight : req'[q] = req[q]
  BY <1>1, <1>3, <1>4 DEF InFlight
<1>6. Cardinality(InFlight \cup {r}) = Cardinality(InFlight) + 1
  BY <1>1, InFlightFinite, FS_AddElement
<1> QED
  BY <1>1, <1>3, <1>5, <1>6

(* A save begins: whoever was fresh still is, because an operation that may *)
(* take place moves to another status, which its UPDATE therefore names.    *)
LEMMA Begins ==
    ASSUME IInv, CopiesKnown, NEW r \in Requests, Reload(r)
    PROVE  /\ InFlight' = InFlight /\ UNCHANGED <<row, payouts, overlaps>>
           /\ \A q \in InFlight : /\ req'[q].op = req[q].op
                                  /\ req'[q].copy = req[q].copy
                                  /\ req'[q].paysOut = req[q].paysOut
                                  /\ Fresh(q) => Fresh(q)'
<1>1. PICK again \in SUBSET {c \in Stamps : req[r].copy[c] /\ row[c]} :
        BeginSave(r, Differing(req[r].copy, row) \union again)
  BY DEF Reload
<1> DEFINE cs == Differing(req[r].copy, row) \union again
<1>2. /\ req[r].op # "none" /\ req' = [req EXCEPT ![r].saving = TRUE, ![r].writes = cs]
      /\ UNCHANGED <<row, payouts, overlaps>>
  BY <1>1 DEF BeginSave
<1>3. r \in InFlight /\ InFlight \subseteq Requests
  BY <1>2 DEF InFlight
<1>4. Fresh(r) => "status" \in cs
  <2> SUFFICES ASSUME Fresh(r) PROVE req[r].copy.status # row.status
    BY DEF Differing, Columns
  <2>1. req[r].copy.status = Ledger!Target(req[r].op) /\ req[r].op \in Ledger!Ops
    BY <1>3 DEF CopiesKnown
  <2> QED
    BY <2>1 DEF Fresh, Ledger!Allowed, Ledger!Target, Ledger!Ops
<1> HIDE DEF cs
<1>5. /\ \A q \in Requests : /\ req'[q].op = req[q].op /\ req'[q].copy = req[q].copy
                             /\ req'[q].paysOut = req[q].paysOut
      /\ \A q \in Requests \ {r} : req'[q] = req[q]
      /\ req'[r].writes = cs
  BY <1>2 DEF IInv, TypeOK
<1>6. InFlight' = InFlight
  BY <1>5 DEF InFlight
<1> QED
  BY <1>2, <1>3, <1>4, <1>5, <1>6 DEF Fresh

(* What one save adds to what was paid and is still payable: a fresh one    *)
(* nothing, a stale one at most one payout.                                 *)
LEMMA SavePays ==
    ASSUME IInv, CopiesKnown, ReleasedPaid, NEW r \in Requests, Save(r)
    PROVE  /\ payouts' + Payable(row'.status) <= payouts + Payable(row.status) + 1
           /\ Fresh(r) => payouts' + Payable(row'.status) <= payouts + Payable(row.status)
           /\ row'.status = "released" => payouts' > 0
           /\ payouts \in Nat /\ payouts' \in Nat
<1>1. /\ r \in InFlight /\ payouts \in Nat /\ req[r].saving
      /\ req[r].copy \in Rows /\ req[r].writes \in SUBSET Columns /\ row \in Rows
  BY DEF Save, IInv, TypeOK, RequestStates, CopiesForward
<1>2. /\ req[r].copy.status = Ledger!Target(req[r].op) /\ req[r].op \in Ledger!Ops
      /\ req[r].op \in {"release", "resolve"} => req[r].paysOut
      /\ req[r].paysOut => req[r].op \in {"release", "resolve", "cancel"}
  BY <1>1 DEF CopiesKnown
<1>3. payouts' = IF req[r].paysOut THEN payouts + 1 ELSE payouts
  BY DEF Save
<1>4. payouts' \in Nat
  BY <1>1, <1>3
<1>5. row'.status = IF "status" \in req[r].writes THEN req[r].copy.status ELSE row.status
  BY <1>1, OverwrittenRow DEF Save
<1>6. Payable(row'.status) \in {0, 1} /\ Payable(row.status) \in {0, 1}
  BY DEF Payable
<1>7. CASE "status" \in req[r].writes
  <2>1. req[r].paysOut => Payable(row'.status) = 0
    BY <1>2, <1>5, <1>7 DEF Payable, Ledger!Target
  <2>2. row'.status = "released" => req[r].paysOut
    BY <1>2, <1>5, <1>7 DEF Ledger!Target, Ledger!Ops
  <2>3. Fresh(r) => Payable(row.status) = 1
    BY <1>2 DEF Fresh, Payable, Ledger!Allowed, Ledger!Ops
  <2> QED
    BY <1>1, <1>3, <1>4, <1>6, <2>1, <2>2, <2>3
<1>8. CASE "status" \notin req[r].writes
  <2>1. ~Fresh(r) /\ row'.status = row.status
    BY <1>1, <1>5, <1>8 DEF Fresh
  <2> QED
    BY <1>1, <1>3, <1>4, <1>6, <2>1 DEF ReleasedPaid
<1> QED
  BY <1>7, <1>8

(* Nothing is charged before createEscrow. *)
LEMMA InitOverlap == Init => OverlapInv
<1> SUFFICES ASSUME Init PROVE OverlapInv
  OBVIOUS
<1>1. InFlight = {} /\ ~AllFresh
  BY DEF Init, InFlight, Idle, AllFresh
<1>2. Payable(row.status) = 1 /\ ReleasedPaid
  BY DEF Init, NoRow, Payable, ReleasedPaid
<1>3. Charged
  BY <1>1, <1>2, FS_EmptySet DEF Init, Charged
<1> QED
  BY <1>1, <1>2, <1>3, InitCoherent DEF OverlapInv, CopiesKnown

(* createEscrow: no copy in flight can be fresh before it. *)
LEMMA CreateCharged ==
    ASSUME OverlapInv, IInv', CreateEscrow
    PROVE  OverlapInv'
<1> USE DEF OverlapInv
<1>1. /\ row.status = "none" /\ row'.status = "pending" /\ InFlight' = InFlight
      /\ UNCHANGED <<req, payouts, overlaps>>
  BY DEF CreateEscrow, IInv, TypeOK, Rows, InFlight
<1>2. ~AllFresh
  BY <1>1 DEF AllFresh, Fresh, CopiesKnown, Ledger!Allowed, Ledger!Ops
<1>3. Payable(row.status) = 1 /\ Payable(row'.status) = 1
  BY <1>1 DEF Payable
<1>4. Charged'
  BY <1>1, <1>2, <1>3, InFlightFinite DEF Charged, IInv, TypeOK
<1> QED
  BY <1>1, <1>4 DEF CopiesKnown, ReleasedPaid

(* A save: what it pays was charged to its copy. *)
LEMMA SaveCharged ==
    ASSUME OverlapInv, IInv', NEW r \in Requests, Save(r)
    PROVE  OverlapInv'
<1> USE DEF OverlapInv
<1> DEFINE n == Cardinality(InFlight)
           free == IF AllFresh THEN 1 ELSE 0
<1>1. /\ r \in InFlight /\ Cardinality(InFlight') = n - 1 /\ n \in Nat
      /\ \A q \in InFlight' : q \in InFlight /\ req'[q] = req[q]
      /\ overlaps' = overlaps /\ overlaps \in Nat
  <2>1. /\ req[r].op # "none" /\ req' = [req EXCEPT ![r] = Idle]
        /\ overlaps' = overlaps /\ overlaps \in Nat
    BY DEF Save, IInv, TypeOK, CopiesForward, InFlight
  <2> QED
    BY <2>1, Leaves, InFlightFinite
<1>2. /\ payouts' + Payable(row'.status) <= payouts + Payable(row.status) + 1
      /\ Fresh(r) => payouts' + Payable(row'.status) <= payouts + Payable(row.status)
      /\ row'.status = "released" => payouts' > 0
      /\ payouts \in Nat /\ payouts' \in Nat
  BY SavePays
<1>3. AllFresh => Fresh(r)
  BY <1>1 DEF AllFresh
<1>4. Payable(row.status) \in {0, 1} /\ Payable(row'.status) \in {0, 1}
  BY DEF Payable
<1>5. payouts + Payable(row.status) + n - free <= 1 + overlaps
  BY DEF Charged
<1>6. payouts' + Payable(row'.status) + (n - 1) <= 1 + overlaps
  <2>1. CASE AllFresh
    BY <1>1, <1>2, <1>3, <1>4, <1>5, <2>1
  <2>2. CASE ~AllFresh
    BY <1>1, <1>2, <1>4, <1>5, <2>2
  <2> QED
    BY <2>1, <2>2
<1>7. Charged'
  BY <1>1, <1>2, <1>4, <1>6 DEF Charged
<1> QED
  BY <1>1, <1>2, <1>7 DEF CopiesKnown, ReleasedPaid

(* A save that fails frees what was charged to its copy. *)
LEMMA FailCharged ==
    ASSUME OverlapInv, IInv', NEW r \in Requests, SaveFails(r)
    PROVE  OverlapInv'
<1> USE DEF OverlapInv
<1> DEFINE n == Cardinality(InFlight)
<1>1. /\ r \in InFlight /\ InFlight' = InFlight \ {r}
      /\ Cardinality(InFlight') = n - 1 /\ n \in Nat
      /\ \A q \in InFlight' : q \in InFlight /\ req'[q] = req[q]
      /\ UNCHANGED <<row, payouts, overlaps>> /\ overlaps \in Nat /\ payouts \in Nat
  BY Leaves, InFlightFinite DEF SaveFails, IInv, TypeOK
<1>2. AllFresh => AllFresh' \/ InFlight' = {}
  BY <1>1 DEF AllFresh, Fresh
<1>3. Payable(row.status) \in {0, 1} /\ Payable(row'.status) = Payable(row.status)
  BY <1>1 DEF Payable
<1>4. payouts + Payable(row.status) + n - (IF AllFresh THEN 1 ELSE 0) <= 1 + overlaps
  BY DEF Charged
<1>5. Charged'
  <2>1. CASE AllFresh /\ AllFresh'
    BY <1>1, <1>3, <1>4, <2>1 DEF Charged
  <2>2. CASE ~AllFresh
    BY <1>1, <1>3, <1>4, <2>2 DEF Charged
  <2>3. CASE InFlight' = {} /\ ~AllFresh'
    BY <1>1, <1>3, <1>4, <2>3 DEF Charged
  <2> QED
    BY <1>2, <2>1, <2>2, <2>3
<1> QED
  BY <1>1, <1>5 DEF CopiesKnown, ReleasedPaid

(* The start of a save changes neither what is paid nor what is charged. *)
LEMMA ReloadCharged ==
    ASSUME OverlapInv, IInv', NEW r \in Requests, Reload(r)
    PROVE  OverlapInv'
<1> USE DEF OverlapInv
<1> DEFINE n == Cardinality(InFlight)
<1>1. /\ InFlight' = InFlight /\ UNCHANGED <<row, payouts, overlaps>>
      /\ \A q \in InFlight : /\ req'[q].op = req[q].op /\ req'[q].copy = req[q].copy
                             /\ req'[q].paysOut = req[q].paysOut /\ (Fresh(q) => Fresh(q)')
  BY Begins
<1>2. AllFresh => AllFresh'
  BY <1>1 DEF AllFresh
<1>3. n \in Nat /\ overlaps \in Nat /\ payouts \in Nat
  BY InFlightFinite DEF IInv, TypeOK
<1>4. Payable(row.status) \in {0, 1} /\ Payable(row'.status) = Payable(row.status)
  BY <1>1 DEF Payable
<1>5. payouts + Payable(row.status) + n - (IF AllFresh THEN 1 ELSE 0) <= 1 + overlaps
  BY DEF Charged
<1>6. Charged'
  <2>1. CASE AllFresh
    BY <1>1, <1>2, <1>3, <1>4, <1>5, <2>1 DEF Charged
  <2>2. CASE ~AllFresh
    BY <1>1, <1>3, <1>4, <1>5, <2>2 DEF Charged
  <2> QED
    BY <2>1, <2>2
<1> QED
  BY <1>1, <1>6 DEF CopiesKnown, ReleasedPaid

(* A load: the copy of a request that finds nobody in flight is charged to  *)
(* the row, any other to the overlap.                                       *)
LEMMA LoadCharged ==
    ASSUME OverlapInv, IInv', NEW r \in Requests, NEW op \in Ledger!Ops, Load(r, op)
    PROVE  OverlapInv'
<1> USE DEF OverlapInv
<1> DEFINE n == Cardinality(InFlight)
<1>1. /\ InFlight' = InFlight \cup {r} /\ Cardinality(InFlight') = n + 1
      /\ \A q \in InFlight : req'[q] = req[q]
      /\ req'[r].op = op /\ req'[r].copy.status = Ledger!Target(op)
      /\ req'[r].paysOut = Ledger!PaysOut(op, row.status) /\ ~req'[r].saving
      /\ Ledger!Allowed(op, row.status) /\ row' = row /\ payouts' = payouts
  BY Arrives
<1>2. n \in Nat /\ overlaps \in Nat /\ payouts \in Nat
  BY InFlightFinite DEF IInv, TypeOK
<1>3. Fresh(r)'
  BY <1>1 DEF Fresh
<1>4. AllFresh \/ InFlight = {} => AllFresh'
  BY <1>1, <1>3 DEF AllFresh, Fresh
<1>5. Payable(row.status) \in {0, 1} /\ Payable(row'.status) = Payable(row.status)
  BY <1>1 DEF Payable
<1>6. payouts + Payable(row.status) + n - (IF AllFresh THEN 1 ELSE 0) <= 1 + overlaps
  BY DEF Charged
<1>7. Charged'
  <2>1. CASE InFlight = {} /\ overlaps' = overlaps
    <3>1. n = 0 /\ ~AllFresh /\ AllFresh'
      BY <1>4, <2>1, FS_EmptySet DEF AllFresh
    <3> QED
      BY <1>1, <1>2, <1>5, <1>6, <2>1, <3>1 DEF Charged
  <2>2. CASE overlaps' = overlaps + 1
    <3>1. CASE AllFresh
      BY <1>1, <1>2, <1>4, <1>5, <1>6, <2>2, <3>1 DEF Charged
    <3>2. CASE ~AllFresh
      BY <1>1, <1>2, <1>5, <1>6, <2>2, <3>2 DEF Charged
    <3> QED
      BY <3>1, <3>2
  <2> QED
    BY <2>1, <2>2 DEF Load, Arrive
<1>8. CopiesKnown'
  <2>1. /\ op \in {"release", "resolve"} => Ledger!PaysOut(op, row.status)
        /\ Ledger!PaysOut(op, row.status) => op \in {"release", "resolve", "cancel"}
    BY DEF Ledger!PaysOut
  <2> QED
    BY <1>1, <2>1 DEF CopiesKnown
<1> QED
  BY <1>1, <1>7, <1>8 DEF ReleasedPaid

(* Every step keeps the payouts charged. *)
LEMMA NextOverlap == OverlapInv /\ [Next]_vars => OverlapInv'
<1> SUFFICES ASSUME OverlapInv, [Next]_vars PROVE OverlapInv'
  OBVIOUS
<1>1. IInv'
  BY NextCoherent DEF OverlapInv
<1>2. CASE UNCHANGED vars
  BY <1>1, <1>2
  DEF vars, OverlapInv, CopiesKnown, Charged, ReleasedPaid, AllFresh, Fresh, InFlight
<1> QED
  BY <1>1, <1>2, CreateCharged, ReloadCharged, SaveCharged, FailCharged, LoadCharged DEF Next

(* Always, every payout after the first was made by an overlap of its own,  *)
(* whatever number of requests overlap and in whatever order they save.     *)
THEOREM OverlapsBoundPayouts == Spec => []PayoutsWithinOverlaps
<1>1. OverlapInv => PayoutsWithinOverlaps
  <2> SUFFICES ASSUME OverlapInv PROVE PayoutsWithinOverlaps
    OBVIOUS
  <2>1. Cardinality(InFlight) - (IF AllFresh THEN 1 ELSE 0) \in Nat
    BY InFlightFinite, FS_EmptySet, FS_CardinalityType DEF AllFresh
  <2> QED
    BY <2>1, InFlightFinite
    DEF OverlapInv, Charged, ReleasedPaid, PayoutsWithinOverlaps, Payable, IInv, TypeOK
<1> QED
  BY <1>1, InitOverlap, NextOverlap, PTL DEF Spec

-----------------------------------------------------------------------------
(* No overlaps *)

(* The request in flight is the only one and knows the row as it is. *)
Alone == \A r, q \in InFlight : r = q /\ Fresh(r)

SerialInv == OverlapInv /\ (overlaps = 0 => Alone /\ ~crossed)

(* A request leaves and nobody is in flight any more. *)
LEMMA NobodyLeft ==
    ASSUME NEW r \in Requests, IInv, Alone, req[r].op # "none", req' = [req EXCEPT ![r] = Idle]
    PROVE  InFlight' = {}
<1>1. r \in InFlight /\ InFlight' = InFlight \ {r}
  BY Leaves
<1> QED
  BY <1>1 DEF Alone

(* What saving the one request in flight does to the ledger. *)
LEMMA SaveOperates ==
    ASSUME NEW r \in Requests, OverlapInv, Alone, Save(r)
    PROVE  Ledger!Operate(req[r].op) /\ req[r].op \in Ledger!Ops
<1>1. r \in InFlight
  BY DEF Save, OverlapInv, IInv, CopiesForward
<1>2. row'.status = req[r].copy.status
  <2>1. /\ req[r].saving /\ req[r].copy \in Rows /\ req[r].writes \in SUBSET Columns
        /\ row \in Rows
    BY DEF Save, OverlapInv, IInv, TypeOK, RequestStates
  <2>2. "status" \in req[r].writes
    BY <1>1, <2>1 DEF Alone, Fresh
  <2> QED
    BY <2>1, <2>2, OverwrittenRow DEF Save
<1>3. payouts' = IF Ledger!PaysOut(req[r].op, row.status) THEN payouts + 1 ELSE payouts
  BY <1>1 DEF Save, Alone, Fresh
<1> QED
  BY <1>1, <1>2, <1>3 DEF Alone, Fresh, OverlapInv, CopiesKnown, Ledger!Operate

(* Every step without an overlap keeps requests alone. *)
LEMMA NextSerial == SerialInv /\ [Next]_vars => SerialInv'
<1> SUFFICES ASSUME SerialInv, [Next]_vars, overlaps' = 0 PROVE Alone' /\ ~crossed'
  BY NextOverlap DEF SerialInv
<1> USE DEF SerialInv, OverlapInv
<1>1. CASE CreateEscrow
  <2>1. \A op \in Ledger!Ops : ~Ledger!Allowed(op, row.status)
    BY <1>1 DEF CreateEscrow, Ledger!Allowed, Ledger!Ops
  <2>2. InFlight = {} /\ InFlight' = {}
    BY <1>1, <2>1 DEF Alone, Fresh, CopiesKnown, CreateEscrow, InFlight
  <2> QED
    BY <1>1, <2>2 DEF Alone, CreateEscrow
<1>2. ASSUME NEW r \in Requests, Save(r) \/ SaveFails(r) PROVE Alone' /\ ~crossed'
  <2>1. /\ overlaps = 0 /\ ~crossed' /\ req' = [req EXCEPT ![r] = Idle]
        /\ req[r].op # "none"
    BY <1>2 DEF Save, SaveFails, IInv, CopiesForward, InFlight
  <2>2. InFlight' = {}
    BY <2>1, NobodyLeft
  <2> QED
    BY <2>1, <2>2 DEF Alone
<1>3. ASSUME NEW r \in Requests, Reload(r) PROVE Alone' /\ ~crossed'
  <2>1. /\ InFlight' = InFlight /\ overlaps' = overlaps
        /\ \A q \in InFlight : Fresh(q) => Fresh(q)'
    BY <1>3, Begins
  <2>2. /\ r \in InFlight /\ ~req[r].saving
        /\ crossed' = (crossed \/ \E q \in Requests : req[q].saving)
    BY <1>3 DEF Reload, BeginSave, InFlight
  <2>3. \A q \in Requests : ~req[q].saving
    BY <2>1, <2>2 DEF Alone, IInv, CopiesForward
  <2> QED
    BY <2>1, <2>2, <2>3 DEF Alone
<1>4. ASSUME NEW r \in Requests, NEW op \in Ledger!Ops, Load(r, op) PROVE Alone' /\ ~crossed'
  <2>1. InFlight = {}
    BY <1>4 DEF Load, Arrive, IInv, TypeOK
  <2>2. /\ InFlight' = InFlight \cup {r} /\ row' = row
        /\ req'[r].op = op /\ req'[r].paysOut = Ledger!PaysOut(op, row.status)
        /\ Ledger!Allowed(op, row.status) /\ ~req'[r].saving
    BY <1>4, Arrives
  <2>3. ~crossed'
    BY <1>4 DEF Load, Arrive, IInv, TypeOK
  <2> QED
    BY <2>1, <2>2, <2>3 DEF Alone, Fresh
<1>5. CASE UNCHANGED vars
  BY <1>5 DEF vars, Alone, Fresh, InFlight
<1> QED
  BY <1>1, <1>2, <1>3, <1>4, <1>5 DEF Next

(* Nothing is in flight before createEscrow. *)
LEMMA InitSerial == Init => SerialInv
  BY InitOverlap DEF SerialInv, Alone, Init, InFlight, Idle

(* Saves cross only if requests overlapped: until the first overlap the     *)
(* row's status agrees with its timestamps without any proviso.             *)
THEOREM CrossingNeedsOverlap == Spec => [](overlaps = 0 => ~crossed /\ Coherent(row))
<1>1. SerialInv => (overlaps = 0 => ~crossed /\ Coherent(row))
  BY DEF SerialInv, OverlapInv, IInv, OneSave
<1> QED
  BY <1>1, InitSerial, NextSerial, PTL DEF Spec

(* As long as no request reads the row while another has yet to save it,    *)
(* EscrowService implements the ledger: the races are the only way in which *)
(* the two differ.                                                          *)
THEOREM SerialImplementsLedger == Spec /\ [](overlaps = 0) => ImplementsLedger
<1>1. Init => Ledger!LedgerInit
  BY DEF Init, NoRow, Ledger!LedgerInit
<1>2. SerialInv /\ overlaps = 0 /\ [Next]_vars => [Ledger!LedgerNext]_(Ledger!ledgerVars)
  <2> SUFFICES ASSUME SerialInv, overlaps = 0, [Next]_vars
               PROVE  Ledger!LedgerNext \/ UNCHANGED Ledger!ledgerVars
    OBVIOUS
  <2>1. CASE CreateEscrow
    BY <2>1 DEF CreateEscrow, Ledger!LedgerNext, Ledger!Create, SerialInv, OverlapInv, IInv,
       TypeOK, Rows
  <2>2. ASSUME NEW r \in Requests, Save(r) PROVE Ledger!LedgerNext
    BY <2>2, SaveOperates DEF SerialInv, Ledger!LedgerNext
  <2>3. ASSUME NEW r \in Requests, SaveFails(r) PROVE UNCHANGED Ledger!ledgerVars
    BY <2>3 DEF SaveFails, Ledger!ledgerVars
  <2>4. ASSUME NEW r \in Requests, NEW op \in Ledger!Ops, Load(r, op)
        PROVE  UNCHANGED Ledger!ledgerVars
    BY <2>4 DEF Load, Ledger!ledgerVars
  <2>5. CASE UNCHANGED vars
    BY <2>5 DEF vars, Ledger!ledgerVars
  <2>6. ASSUME NEW r \in Requests, Reload(r) PROVE UNCHANGED Ledger!ledgerVars
    BY <2>6 DEF Reload, BeginSave, Ledger!ledgerVars
  <2> QED
    BY <2>1, <2>2, <2>3, <2>4, <2>5, <2>6 DEF Next
<1>3. Init => SerialInv
  BY InitSerial
<1> QED
  BY <1>1, <1>2, <1>3, NextSerial, PTL DEF Spec, ImplementsLedger, Ledger!LedgerSpec

(* An operation of the ledger keeps the funds paid at most once. *)
LEMMA OperatePaysOnce ==
    ASSUME NEW op \in Ledger!Ops, payouts \in Nat, Ledger!PaidOnce, Ledger!Operate(op)
    PROVE  Ledger!PaidOnce'
<1>1. op \in {"fund", "release", "dispute", "resolve", "cancel"}
  BY DEF Ledger!Ops
<1>2. Ledger!Allowed(op, row.status) /\ row'.status = Ledger!Target(op)
  BY DEF Ledger!Operate
<1>3. payouts = 0
  <2>1. row.status \in {"pending", "funded", "disputed"}
    BY <1>1, <1>2 DEF Ledger!Allowed
  <2> QED
    BY <2>1 DEF Ledger!PaidOnce
<1>4. payouts' = IF Ledger!PaysOut(op, row.status) THEN 1 ELSE 0
  BY <1>3 DEF Ledger!Operate
<1>5. CASE Ledger!PaysOut(op, row.status)
  <2>1. row'.status \in {"released", "cancelled"} /\ payouts' = 1
    BY <1>2, <1>4, <1>5 DEF Ledger!PaysOut, Ledger!Target
  <2> QED
    BY <2>1 DEF Ledger!PaidOnce
<1>6. CASE ~Ledger!PaysOut(op, row.status)
  <2>1. row'.status # "released" /\ payouts' = 0
    BY <1>1, <1>2, <1>4, <1>6 DEF Ledger!PaysOut, Ledger!Target
  <2> QED
    BY <2>1 DEF Ledger!PaidOnce
<1> QED
  BY <1>5, <1>6

(* What the ledger is for: of an escrow whose operations take effect one at *)
(* a time the funds leave at most once, and only for a status that says so. *)
THEOREM LedgerPaysOnce == Ledger!LedgerSpec => []Ledger!PaidOnce
<1> DEFINE LInv == payouts \in Nat /\ Ledger!PaidOnce
<1>1. Ledger!LedgerInit => LInv
  BY DEF Ledger!LedgerInit, Ledger!PaidOnce
<1>2. LInv /\ [Ledger!LedgerNext]_(Ledger!ledgerVars) => LInv'
  <2> SUFFICES ASSUME LInv, [Ledger!LedgerNext]_(Ledger!ledgerVars) PROVE LInv'
    OBVIOUS
  <2>1. CASE Ledger!Create
    BY <2>1 DEF Ledger!Create, Ledger!PaidOnce
  <2>2. ASSUME NEW op \in Ledger!Ops, Ledger!Operate(op) PROVE LInv'
    <3>1. payouts' \in Nat
      BY <2>2 DEF Ledger!Operate
    <3> QED
      BY <2>2, <3>1, OperatePaysOnce
  <2>3. CASE UNCHANGED Ledger!ledgerVars
    BY <2>3 DEF Ledger!ledgerVars, Ledger!PaidOnce
  <2> QED
    BY <2>1, <2>2, <2>3 DEF Ledger!LedgerNext
<1>3. LInv => Ledger!PaidOnce
  OBVIOUS
<1> QED
  BY <1>1, <1>2, <1>3, PTL DEF Ledger!LedgerSpec

(* Until the first overlap the funds have left escrow at most once, and     *)
(* only for a row that says so.                                             *)
THEOREM SerialPaysOnce == Spec => [](overlaps = 0 => Ledger!PaidOnce)
<1>1. IInv /\ PayoutsWithinOverlaps => (overlaps = 0 => Ledger!PaidOnce)
  BY DEF IInv, TypeOK, PayoutsWithinOverlaps, Ledger!PaidOnce
<1> QED
  BY <1>1, AlwaysCoherent, OverlapsBoundPayouts, PTL
=============================================================================
