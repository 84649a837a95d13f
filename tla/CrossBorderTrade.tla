-------------------------- MODULE CrossBorderTrade --------------------------
(***************************************************************************)
(* CrossBorderTradeService.initiateCrossBorderTrade (Module_13, src/       *)
(* services/cross-border-trade.service.ts): compliance, FX lock, payment   *)
(* set-up, shipping, each an awaited call that writes a row of its own.    *)
(* The escrow it creates is the one of module Escrow, open to requests     *)
(* from the moment it is saved.                                            *)
(*                                                                         *)
(* Which of the rows the database takes is a parameter: as the services    *)
(* and the entities stand, the inserts of create_check and shipping leave  *)
(* NOT NULL columns unset (and the check's type is not in its enum), and   *)
(* the rate look-up of forex uses operators TypeORM does not know, so that *)
(* the handler throws at its first call.  With Refused = {} the model      *)
(* shows the handler as it is meant; the theorems are for every Refused.   *)
(***************************************************************************)
EXTENDS Escrow

CONSTANT Refused   \* calls of the handler whose row the database never takes

ASSUME TradeAssumption ==
    Refused \subseteq {"create_check", "forex", "escrow", "letter_of_credit", "shipping"}

VARIABLES
    trade,        \* the request: payment method, shipping wanted, sanctioned country
    step,         \* the call the handler awaits next, or "done"
    compliance,   \* status of the row of trade_compliance
    read,         \* the status performComplianceCheck read, "none" if not reading
    fxLocked,     \* a locked forex rate exists for the trade
    shipment,     \* status of the shipping order
    result        \* status in the answer

tradeVars == <<trade, step, compliance, read, fxLocked, shipment, result>>
allVars == <<vars, tradeVars>>
escrowVars == vars

ComplianceStatuses == {"pending", "approved", "rejected", "under_review"}

TradeTypeOK ==
    /\ TypeOK
    /\ trade \in [method : {"escrow", "letter_of_credit", "telegraphic_transfer"},
                  shippingRequired : BOOLEAN, sanctioned : BOOLEAN]
    /\ step \in {"create_check", "perform_check", "forex", "payment", "shipping", "done"}
    /\ compliance \in ComplianceStatuses \union {"none"}
    /\ read \in {"none", "pending"}
    /\ fxLocked \in BOOLEAN
    /\ shipment \in {"none", "pending"}
    /\ result \in {"none", "compliance_approved", "failed"}

TradeInit ==
    /\ Init
    /\ trade \in [method : {"escrow", "letter_of_credit", "telegraphic_transfer"},
                  shippingRequired : BOOLEAN, sanctioned : BOOLEAN]
    /\ step = "create_check" /\ compliance = "none" /\ read = "none"
    /\ fxLocked = FALSE /\ shipment = "none" /\ result = "none"

(* runComplianceCheck: sanctions and embargo checks look at the countries,  *)
(* the generic check, the one of every other type, approves.                *)
Verdict(type) ==
    IF type \in {"sanctions_check", "embargo_check"} /\ trade.sanctioned
      THEN "rejected" ELSE "approved"

(* The service asks for this type of check. *)
TradeCheckType == "trade_restrictions"

-----------------------------------------------------------------------------
CreateCheck ==
    /\ step = "create_check" /\ "create_check" \notin Refused
    /\ compliance' = "pending" /\ step' = "perform_check"
    /\ UNCHANGED <<escrowVars, trade, read, fxLocked, shipment, result>>

ReadCheck ==
    /\ step = "perform_check" /\ read = "none"
    /\ compliance = "pending"
    /\ read' = "pending"
    /\ UNCHANGED <<escrowVars, trade, step, compliance, fxLocked, shipment, result>>

(* The check's status is the one column others write too: a save that does  *)
(* not name it, because the row read again has this status already, has the *)
(* effect of one done at that reading.                                      *)
SaveVerdict ==
    /\ step = "perform_check" /\ read = "pending"
    /\ compliance' = Verdict(TradeCheckType)
    /\ read' = "none" /\ step' = "forex"
    /\ UNCHANGED <<escrowVars, trade, fxLocked, shipment, result>>

(* updateComplianceCheck, by a compliance officer at any time. *)
Officer(st) ==
    /\ compliance # "none"
    /\ compliance' = st
    /\ UNCHANGED <<escrowVars, trade, step, read, fxLocked, shipment, result>>

LockRate ==
    /\ step = "forex" /\ "forex" \notin Refused
    /\ fxLocked' = TRUE /\ step' = "payment"
    /\ UNCHANGED <<escrowVars, trade, compliance, read, shipment, result>>

(* MUTANT of AfterPayment: the answer does not wait for the shipping order. *)
AfterPaymentNoShipping == step' = "done" /\ result' = "compliance_approved"

(* What follows the payment set-up: shipping if required, then the answer. *)
AfterPayment ==
    IF trade.shippingRequired
      THEN step' = "shipping" /\ UNCHANGED result
      ELSE step' = "done" /\ result' = "compliance_approved"

(* MUTANT of SetUpEscrow: it does not wait for the FX rate. *)
SetUpEscrowEarly ==
    /\ step \in {"perform_check", "forex", "payment"} /\ trade.method = "escrow"
    /\ CreateEscrow
    /\ AfterPayment
    /\ UNCHANGED <<trade, compliance, read, fxLocked, shipment>>

SetUpEscrow ==
    /\ step = "payment" /\ trade.method = "escrow" /\ "escrow" \notin Refused
    /\ CreateEscrow
    /\ AfterPayment
    /\ UNCHANGED <<trade, compliance, read, fxLocked, shipment>>

(* A letter of credit is a row of a table no other step reads; a telegraphic *)
(* transfer writes nothing.                                                  *)
SetUpOther ==
    /\ step = "payment" /\ trade.method # "escrow" /\ trade.method \notin Refused
    /\ AfterPayment
    /\ UNCHANGED <<escrowVars, trade, compliance, read, fxLocked, shipment>>

(* MUTANT of SetUpShipping: a status the order does not have yet. *)
SetUpConfirmed ==
    /\ step = "shipping"
    /\ shipment' = "confirmed" /\ step' = "done" /\ result' = "compliance_approved"
    /\ UNCHANGED <<escrowVars, trade, compliance, read, fxLocked>>

SetUpShipping ==
    /\ step = "shipping" /\ "shipping" \notin Refused
    /\ shipment' = "pending" /\ step' = "done" /\ result' = "compliance_approved"
    /\ UNCHANGED <<escrowVars, trade, compliance, read, fxLocked>>

(* Any awaited call throws (a row the database refuses, a database error, no *)
(* exchange rate, a check that is no longer pending): the catch answers      *)
(* 'failed' and undoes nothing.                                              *)
StepThrows ==
    /\ step # "done"
    /\ ~(step = "payment" /\ trade.method = "telegraphic_transfer")
    /\ step' = "done" /\ read' = "none" /\ result' = "failed"
    /\ UNCHANGED <<escrowVars, trade, compliance, fxLocked, shipment>>

EscrowRequest ==
    /\ \E r \in Requests :
          \/ Reload(r) \/ Save(r) \/ SaveFails(r)
          \/ \E op \in Ledger!Ops : Load(r, op)
    /\ UNCHANGED tradeVars

TradeNext ==
    \/ CreateCheck \/ ReadCheck \/ SaveVerdict \/ LockRate
    \/ SetUpEscrow \/ SetUpOther \/ SetUpShipping \/ StepThrows
    \/ \E st \in ComplianceStatuses : Officer(st)
    \/ EscrowRequest

TradeSpec == TradeInit /\ [][TradeNext]_allVars

-----------------------------------------------------------------------------
(* Money can be put in escrow only for a trade that was screened and whose  *)
(* rate is locked, whichever call of the handler throws.                    *)
EscrowAfterScreening ==
    row.status # "none" => fxLocked /\ compliance \notin {"none"} /\ read = "none"

(* An answer that reports success leaves nothing out: the escrow exists if  *)
(* the trade pays by escrow, and the shipment if it was asked for.          *)
SuccessIsComplete ==
    result = "compliance_approved" =>
        /\ trade.method = "escrow" => row.status # "none"
        /\ trade.shippingRequired => shipment # "none"
        /\ fxLocked
=============================================================================
