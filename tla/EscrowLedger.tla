---------------------------- MODULE EscrowLedger ----------------------------
(***************************************************************************)
(* What EscrowService promises: one escrow whose operations take effect    *)
(* one at a time, each only from the statuses its check names, so that the *)
(* funds leave escrow at most once.                                        *)
(***************************************************************************)
EXTENDS Naturals

VARIABLES status,   \* of the escrow; "none" before createEscrow
          payouts   \* how often the funds left escrow

ledgerVars == <<status, payouts>>

Statuses == {"none", "pending", "funded", "released", "disputed", "cancelled"}
Ops == {"fund", "release", "dispute", "resolve", "cancel"}

(* The check of each operation and the status it sets. *)
Allowed(op, st) ==
    CASE op = "fund" -> st = "pending"
      [] op \in {"release", "dispute"} -> st = "funded"
      [] op = "resolve" -> st = "disputed"
      [] op = "cancel" -> st \in {"pending", "funded"}

Target(op) ==
    CASE op = "fund" -> "funded"
      [] op \in {"release", "resolve"} -> "released"
      [] op = "dispute" -> "disputed"
      [] op = "cancel" -> "cancelled"

(* Operations that let funds out: release, resolve, and cancel once funded. *)
PaysOut(op, st) == op \in {"release", "resolve"} \/ (op = "cancel" /\ st = "funded")

LedgerInit == status = "none" /\ payouts = 0

Create == status = "none" /\ status' = "pending" /\ UNCHANGED payouts

Operate(op) ==
    /\ Allowed(op, status)
    /\ status' = Target(op)
    /\ payouts' = IF PaysOut(op, status) THEN payouts + 1 ELSE payouts

LedgerNext == Create \/ \E op \in Ops : Operate(op)

LedgerSpec == LedgerInit /\ [][LedgerNext]_ledgerVars
-----------------------------------------------------------------------------
LedgerTypeOK == status \in Statuses /\ payouts \in Nat

(* The funds leave escrow at most once, and only for good. *)
PaidOnce ==
    /\ payouts <= 1
    /\ payouts = 1 => status \in {"released", "cancelled"}
    /\ status = "released" => payouts = 1
=============================================================================
