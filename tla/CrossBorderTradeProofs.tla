----------------------- MODULE CrossBorderTradeProofs -----------------------
(* Proofs about the composition of the trade handler with the escrow it creates.
   The handler moves the escrow only as EscrowService does, so that whatever
   EscrowProofs shows of the service holds of the escrow of a trade.         *)
EXTENDS CrossBorderTrade, EscrowProofs

(* Requests are in flight only for an escrow that exists. *)
RequestsOpen == \A r \in Requests : req[r].op # "none" => row.status # "none"

(* What the calls awaited so far have left. *)
Progress ==
    /\ read = "pending" => step = "perform_check"
    /\ step \in {"perform_check", "forex", "payment", "shipping"} => compliance # "none"
    /\ step \in {"payment", "shipping"} => fxLocked
    /\ row.status # "none" => step \in {"shipping", "done"}
    /\ step = "shipping" /\ trade.method = "escrow" => row.status # "none"
    /\ result = "compliance_approved" => step = "done"

TradeInv ==
    /\ TradeTypeOK
    /\ IInv
    /\ RequestsOpen
    /\ Progress
    /\ EscrowAfterScreening
    /\ SuccessIsComplete

-----------------------------------------------------------------------------
(* The handler and the requests drive the escrow by the service's steps alone. *)
LEMMA TradeStepsAreEscrowSteps == [TradeNext]_allVars => [Next]_vars
BY DEF TradeNext, Next, CreateCheck, ReadCheck, SaveVerdict, LockRate, SetUpEscrow,
       SetUpOther, SetUpShipping, StepThrows, Officer, EscrowRequest, escrowVars, allVars

(* Every behaviour of a trade is, for its escrow, a behaviour of EscrowService. *)
LEMMA TradeIsEscrow == TradeSpec => Spec
<1>1. TradeInit => Init
  BY DEF TradeInit
<1> QED
  BY <1>1, TradeStepsAreEscrowSteps, PTL DEF TradeSpec, Spec

(* ImplementsLedger: while requests on it do not overlap, the escrow of a trade moves as
   the ledger does. *)
THEOREM TradeImplementsLedger == TradeSpec /\ [](overlaps = 0) => ImplementsLedger
BY TradeIsEscrow, SerialImplementsLedger, PTL

(* PayoutsWithinOverlaps: each payout of a trade's escrow after the first is the doing of
   an overlap of its own, whichever call of the handler throws. *)
THEOREM TradePayoutsBounded == TradeSpec => []PayoutsWithinOverlaps
BY TradeIsEscrow, OverlapsBoundPayouts, PTL

-----------------------------------------------------------------------------
(* Before the handler's first call there is no escrow, no check and no answer. *)
LEMMA InitTrade == TradeInit => TradeInv
<1> SUFFICES ASSUME TradeInit PROVE TradeInv
  OBVIOUS
<1>1. IInv
  BY InitCoherent DEF TradeInit
<1>2. row.status = "none" /\ \A r \in Requests : req[r].op = "none"
  BY DEF TradeInit, Init, NoRow, Idle
<1>3. TradeTypeOK
  BY <1>1 DEF IInv, TradeInit, TradeTypeOK
<1> QED
  BY <1>1, <1>2, <1>3 DEF TradeInv, IInv, TradeInit, RequestsOpen, Progress,
     EscrowAfterScreening, SuccessIsComplete

(* A step of the handler that leaves the escrow alone. *)
LEMMA HandlerTrade ==
    ASSUME TradeInv, UNCHANGED vars,
           \/ CreateCheck \/ ReadCheck \/ SaveVerdict \/ LockRate \/ SetUpOther
           \/ SetUpShipping \/ StepThrows \/ \E st \in ComplianceStatuses : Officer(st)
    PROVE  TradeInv'
<1> USE DEF TradeInv
<1>1. TypeOK' /\ IInv' /\ RequestsOpen'
  <2>1. IInv'
    BY NextCoherent
  <2> QED
    BY <2>1 DEF vars, IInv, RequestsOpen
<1>2. row' = row
  BY DEF vars
<1>3. CASE CreateCheck
  BY <1>1, <1>2, <1>3 DEF CreateCheck, TradeTypeOK, ComplianceStatuses, Progress,
     EscrowAfterScreening, SuccessIsComplete
<1>4. CASE ReadCheck
  BY <1>1, <1>2, <1>4 DEF ReadCheck, TradeTypeOK, Progress,
     EscrowAfterScreening, SuccessIsComplete
<1>5. CASE SaveVerdict
  BY <1>1, <1>2, <1>5 DEF SaveVerdict, Verdict, TradeTypeOK, ComplianceStatuses, Progress,
     EscrowAfterScreening, SuccessIsComplete
<1>6. CASE LockRate
  BY <1>1, <1>2, <1>6 DEF LockRate, TradeTypeOK, Progress,
     EscrowAfterScreening, SuccessIsComplete
<1>7. CASE SetUpOther
  BY <1>1, <1>2, <1>7 DEF SetUpOther, AfterPayment, TradeTypeOK, Progress,
     EscrowAfterScreening, SuccessIsComplete
<1>8. CASE SetUpShipping
  BY <1>1, <1>2, <1>8 DEF SetUpShipping, TradeTypeOK, Progress,
     EscrowAfterScreening, SuccessIsComplete
<1>9. CASE StepThrows
  BY <1>1, <1>2, <1>9 DEF StepThrows, TradeTypeOK, Progress,
     EscrowAfterScreening, SuccessIsComplete
<1>10. ASSUME NEW st \in ComplianceStatuses, Officer(st) PROVE TradeInv'
  BY <1>1, <1>2, <1>10 DEF Officer, TradeTypeOK, ComplianceStatuses, Progress,
     EscrowAfterScreening, SuccessIsComplete
<1> QED
  BY <1>3, <1>4, <1>5, <1>6, <1>7, <1>8, <1>9, <1>10

(* Creating the escrow. *)
LEMMA SetUpTrade == ASSUME TradeInv, IInv', SetUpEscrow PROVE TradeInv'
<1> USE DEF TradeInv
<1>1. /\ row.status = "none" /\ row'.status = "pending" /\ req' = req
      /\ step = "payment" /\ UNCHANGED <<trade, compliance, read, fxLocked, shipment>>
  BY DEF SetUpEscrow, CreateEscrow, TradeTypeOK, TypeOK, Rows
<1>2. \/ trade.shippingRequired /\ step' = "shipping" /\ result' = result
      \/ ~trade.shippingRequired /\ step' = "done" /\ result' = "compliance_approved"
  BY DEF SetUpEscrow, AfterPayment
<1>3. TradeTypeOK'
  BY <1>1, <1>2 DEF TradeTypeOK, IInv
<1>4. RequestsOpen' /\ EscrowAfterScreening'
  BY <1>1 DEF RequestsOpen, Progress, EscrowAfterScreening, TradeTypeOK
<1>5. Progress'
  BY <1>1, <1>2 DEF Progress, TradeTypeOK
<1>6. SuccessIsComplete'
  BY <1>1, <1>2 DEF Progress, SuccessIsComplete
<1> QED
  BY <1>3, <1>4, <1>5, <1>6 DEF IInv

(* A request on the escrow never makes it vanish. *)
LEMMA RequestTrade == ASSUME TradeInv, IInv', EscrowRequest PROVE TradeInv'
<1> USE DEF TradeInv
<1>1. row.status # "none" /\ row'.status # "none"
  <2>1. ASSUME NEW r \in Requests, Save(r) PROVE row.status # "none" /\ row'.status # "none"
    <3>1. /\ req[r].copy \in Rows /\ req[r].writes \in SUBSET Columns /\ row \in Rows
          /\ req[r].copy.status # "none" /\ row.status # "none"
      BY <2>1 DEF Save, IInv, TypeOK, RequestStates, CopiesForward
    <3> QED
      BY <2>1, <3>1, OverwrittenRow DEF Save
  <2>4. ASSUME NEW r \in Requests, Reload(r)
        PROVE  row.status # "none" /\ row'.status # "none"
    BY <2>4 DEF Reload, BeginSave, RequestsOpen
  <2>2. ASSUME NEW r \in Requests, SaveFails(r)
        PROVE  row.status # "none" /\ row'.status # "none"
    BY <2>2 DEF SaveFails, RequestsOpen
  <2>3. ASSUME NEW r \in Requests, NEW op \in Ledger!Ops, Load(r, op)
        PROVE  row.status # "none" /\ row'.status # "none"
    BY <2>3 DEF Load, Ledger!Allowed, Ledger!Ops
  <2> QED
    BY <2>1, <2>2, <2>3, <2>4 DEF EscrowRequest
<1>2. UNCHANGED tradeVars
  BY DEF EscrowRequest
<1>3. TradeTypeOK'
  BY <1>2 DEF TradeTypeOK, IInv, tradeVars
<1> QED
  BY <1>1, <1>2, <1>3 DEF IInv, RequestsOpen, Progress, EscrowAfterScreening,
     SuccessIsComplete, tradeVars

(* Every step keeps the invariant. *)
LEMMA NextTrade == TradeInv /\ [TradeNext]_allVars => TradeInv'
<1> SUFFICES ASSUME TradeInv, [TradeNext]_allVars PROVE TradeInv'
  OBVIOUS
<1>1. IInv'
  BY TradeStepsAreEscrowSteps, NextCoherent DEF TradeInv, TradeTypeOK, IInv
<1>2. CASE SetUpEscrow
  BY <1>1, <1>2, SetUpTrade
<1>3. CASE EscrowRequest
  BY <1>1, <1>3, RequestTrade
<1>4. CASE CreateCheck \/ ReadCheck \/ SaveVerdict \/ LockRate \/ SetUpOther
           \/ SetUpShipping \/ StepThrows \/ \E st \in ComplianceStatuses : Officer(st)
  <2>1. UNCHANGED vars
    BY <1>4 DEF CreateCheck, ReadCheck, SaveVerdict, LockRate, SetUpOther, SetUpShipping,
       StepThrows, Officer, escrowVars
  <2> QED
    BY <1>4, <2>1, HandlerTrade
<1>5. CASE UNCHANGED allVars
  <2>1. UNCHANGED <<row, req, payouts, overlaps, crossed>> /\ UNCHANGED tradeVars
    BY <1>5 DEF allVars, vars
  <2>2. TradeTypeOK' /\ IInv'
    BY <1>1, <2>1 DEF TradeInv, TradeTypeOK, IInv, tradeVars
  <2>3. RequestsOpen' /\ Progress'
    BY <2>1 DEF TradeInv, RequestsOpen, Progress, tradeVars
  <2>4. EscrowAfterScreening' /\ SuccessIsComplete'
    BY <2>1 DEF TradeInv, EscrowAfterScreening, SuccessIsComplete, tradeVars
  <2> QED
    BY <2>2, <2>3, <2>4 DEF TradeInv
<1> QED
  BY <1>2, <1>3, <1>4, <1>5 DEF TradeNext

(* The invariant holds always. *)
LEMMA AlwaysTrade == TradeSpec => []TradeInv
BY InitTrade, NextTrade, PTL DEF TradeSpec

(* TradeTypeOK: type correctness of the handler and its escrow. *)
THEOREM TradeTypeCorrect == TradeSpec => []TradeTypeOK
BY AlwaysTrade, PTL DEF TradeInv

(* EscrowAfterScreening: no money goes into an escrow whose trade was not screened or has
   no locked rate, however many requests on the escrow overlap. *)
THEOREM ScreenedBeforeEscrow == TradeSpec => []EscrowAfterScreening
BY AlwaysTrade, PTL DEF TradeInv

(* SuccessIsComplete: an answer that reports success leaves nothing out. *)
THEOREM SuccessAlwaysComplete == TradeSpec => []SuccessIsComplete
BY AlwaysTrade, PTL DEF TradeInv
-----------------------------------------------------------------------------
(* Nothing the handler does after its first call has happened. *)
FirstCallOnly ==
    /\ step \in {"create_check", "done"}
    /\ row.status = "none" /\ result # "compliance_approved"

(* While the database refuses the row of the compliance check, as it does with the
   entity as it stands, no trade is answered with success and no escrow is created. *)
THEOREM RefusedCheckStopsTrade ==
    ASSUME "create_check" \in Refused
    PROVE  TradeSpec => [](row.status = "none" /\ result # "compliance_approved")
<1>1. TradeInit => FirstCallOnly
  BY DEF TradeInit, Init, NoRow, FirstCallOnly
<1>2. TradeInv /\ FirstCallOnly /\ [TradeNext]_allVars => FirstCallOnly'
  <2> SUFFICES ASSUME TradeInv, FirstCallOnly, [TradeNext]_allVars PROVE FirstCallOnly'
    OBVIOUS
  <2>1. ~CreateCheck /\ ~ReadCheck /\ ~SaveVerdict /\ ~LockRate /\ ~SetUpEscrow
        /\ ~SetUpOther /\ ~SetUpShipping
    BY DEF FirstCallOnly, CreateCheck, ReadCheck, SaveVerdict, LockRate, SetUpEscrow,
       SetUpOther, SetUpShipping
  <2>2. ~EscrowRequest \/ row' = row
    <3>1. \A r \in Requests : req[r].op = "none" /\ ~req[r].saving
      BY DEF FirstCallOnly, TradeInv, RequestsOpen, IInv, CopiesForward, InFlight
    <3> QED
      BY <3>1 DEF EscrowRequest, Reload, BeginSave, Save, SaveFails, Load
  <2>3. CASE StepThrows
    BY <2>3 DEF StepThrows, FirstCallOnly, escrowVars, vars
  <2>4. ASSUME NEW st \in ComplianceStatuses, Officer(st) PROVE FirstCallOnly'
    BY <2>4 DEF Officer, FirstCallOnly, escrowVars, vars
  <2>5. CASE EscrowRequest
    BY <2>2, <2>5 DEF EscrowRequest, FirstCallOnly, tradeVars
  <2>6. CASE UNCHANGED allVars
    BY <2>6 DEF allVars, vars, tradeVars, FirstCallOnly
  <2> QED
    BY <2>1, <2>3, <2>4, <2>5, <2>6 DEF TradeNext
<1>3. FirstCallOnly => row.status = "none" /\ result # "compliance_approved"
  BY DEF FirstCallOnly
<1> QED
  BY <1>1, <1>2, <1>3, AlwaysTrade, PTL DEF TradeSpec
=============================================================================
