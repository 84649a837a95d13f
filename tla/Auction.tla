------------------------------- MODULE Auction -------------------------------
(***************************************************************************)
(* AuctionService (Module_07_Financing_Factoring/code/services/            *)
(* auction.service.ts) on one auction.  startAuction saves the row and     *)
(* leaves submitToPartnersAsync running: it collects the partners' offers, *)
(* stores them and tries to complete the auction, while users complete or  *)
(* cancel it.  Every one of them reads the row, works on its copy and      *)
(* saves it later.  TypeORM's save is two statements: it reads the row     *)
(* again, and later UPDATEs the columns in which the copy differed from    *)
(* what it read.  Others run between any two of these.                     *)
(***************************************************************************)
EXTENDS Naturals, FiniteSets

CONSTANTS Partners,      \* partners that have a plugin in the registry
          MaxUnknown,    \* how many more ids may be invited that have none (a bound)
          MinOffers,     \* values of minOffersRequired; `|| 2` rules out 0
          Thresholds,    \* values of earlyTerminationThreshold, 0 for none
          Users,         \* callers of completeAuction and cancelAuction
          Submission,    \* the submitToPartnersAsync of the auction
          None

ASSUME AuctionAssumption ==
    /\ IsFiniteSet(Partners) /\ None \notin Partners
    /\ MaxUnknown \in Nat /\ MinOffers \subseteq Nat \ {0} /\ Thresholds \subseteq Nat
    /\ Submission \notin Users

VARIABLES
    row,       \* status, offers (whose) and winner of the auction's row
    terms,     \* the columns startAuction sets for good
    late,      \* now >= expiresAt
    answer,    \* partner -> what its getOffers came to
    offers,    \* the offers collectOffersWithTimeout returned
    at,        \* where submitToPartnersAsync is
    call,      \* actor -> its operation, its copy of the row, the columns to UPDATE
    crossed    \* ghost: a save has begun between the read and the UPDATE of another

vars == <<row, terms, late, answer, offers, at, call, crossed>>

Actors == Users \union {Submission}
NoRow == [status |-> "none", offers |-> {}, winner |-> None]
NoCall == [op |-> "none", copy |-> NoRow, saving |-> FALSE, writes |-> {}]
(* startAuction saves the row active: pending is never stored. *)
Rows == [status : {"none", "active", "completed", "cancelled", "expired"},
         offers : SUBSET Partners, winner : Partners \union {None}]
Columns == {"status", "offers", "winner"}
Calls == [op : {"none", "complete", "cancel", "store"}, copy : Rows, saving : BOOLEAN,
          writes : SUBSET Columns]

TypeOK ==
    /\ row \in Rows
    /\ terms \in [partners : SUBSET Partners, invited : Nat, min : Nat,
                  autoComplete : BOOLEAN, threshold : Nat]
    /\ late \in BOOLEAN
    /\ answer \in [Partners -> {"pending", "offer", "nothing"}]
    /\ offers \subseteq Partners
    /\ at \in {"before", "collect", "read", "store", "try", "complete", "done", "failed"}
    /\ call \in [Actors -> Calls]
    /\ crossed \in BOOLEAN

Init ==
    /\ row = NoRow
    /\ terms = [partners |-> {}, invited |-> 0, min |-> 0, autoComplete |-> FALSE, threshold |-> 0]
    /\ late = FALSE
    /\ answer = [p \in Partners |-> "pending"]
    /\ offers = {}
    /\ at = "before"
    /\ call = [a \in Actors |-> NoCall]
    /\ crossed = FALSE

Offered == {p \in terms.partners : answer[p] = "offer"}
Read(a, op, copy) ==
    call' = [call EXCEPT ![a] = [op |-> op, copy |-> copy, saving |-> FALSE, writes |-> {}]]
Forget(a) == call' = [call EXCEPT ![a] = NoCall]

(* The columns in which two versions of the row differ. *)
Differing(e, f) == {c \in Columns : e[c] # f[c]}

(* The row after an UPDATE of the columns cs from a copy of it. *)
Overwritten(e, cs) ==
    LET Value(c) == IF c \in cs THEN e[c] ELSE row[c]
    IN  [status |-> Value("status"), offers |-> Value("offers"), winner |-> Value("winner")]

(* rankOffers and selectWinner depend on the offers alone: some fixed       *)
(* partner of theirs wins.                                                  *)
Winner(from) == CHOOSE p \in from : TRUE

(* checkCompletionCriteria *)
ShouldComplete ==
    LET received == Cardinality(row.offers)
    IN \/ late /\ received >= terms.min
       \/ terms.autoComplete /\ received >= terms.invited /\ received >= terms.min
       \/ terms.threshold # 0 /\ received >= terms.threshold

-----------------------------------------------------------------------------
(* MUTANT of StartAuction: the row keeps the default status of the column. *)
StartPending ==
    /\ at = "before"
    /\ \E ps \in SUBSET Partners : terms' = [terms EXCEPT !.partners = ps]
    /\ row' = [NoRow EXCEPT !.status = "pending"]
    /\ at' = "collect"
    /\ UNCHANGED <<late, answer, offers, call, crossed>>

StartAuction ==
    /\ at = "before"
    /\ \E ps \in SUBSET Partners, unknown \in 0 .. MaxUnknown,
          min \in MinOffers, auto \in BOOLEAN, th \in Thresholds :
          /\ Cardinality(ps) >= 2
          /\ terms' = [partners |-> ps, invited |-> Cardinality(ps) + unknown, min |-> min,
                       autoComplete |-> auto, threshold |-> th]
    /\ row' = [NoRow EXCEPT !.status = "active"]
    /\ at' = "collect"
    /\ UNCHANGED <<late, answer, offers, call, crossed>>

DeadlinePasses ==
    /\ at # "before" /\ ~late
    /\ late' = TRUE
    /\ UNCHANGED <<row, terms, answer, offers, at, call, crossed>>

(* getOffers resolves with an offer, or with none, or rejects. *)
PartnerAnswers(p, what) ==
    /\ at = "collect" /\ p \in terms.partners /\ answer[p] = "pending"
    /\ answer' = [answer EXCEPT ![p] = what]
    /\ UNCHANGED <<row, terms, late, offers, at, call, crossed>>

-----------------------------------------------------------------------------
(* The first statement of save, outside any transaction, has read the row   *)
(* again and determined the columns cs that the UPDATE will name.           *)
BeginSave(a, cs) ==
    /\ call[a].op # "none" /\ ~call[a].saving
    /\ call' = [call EXCEPT ![a].saving = TRUE, ![a].writes = cs]
    /\ crossed' = (crossed \/ \E b \in Actors : call[b].saving)
    /\ UNCHANGED <<row, terms, late, answer, offers, at>>

(* MUTANT of Reload: the UPDATE names the columns the operation assigned. *)
ReloadAssigned(a) ==
    BeginSave(a, CASE call[a].op = "store" -> {"offers"}
                   [] call[a].op = "complete" -> {"status", "winner"}
                   [] OTHER -> {"status"})

(* The columns in which the copy differs from the row as it is now; a new   *)
(* winningOffer holds a Date and so differs from any the database returns.  *)
Reload(a) ==
    BeginSave(a, Differing(call[a].copy, row)
                   \union (IF call[a].op = "complete" THEN {"winner"} ELSE {}))

-----------------------------------------------------------------------------
(* submitToPartnersAsync *)

AllSettled ==
    /\ at = "collect" /\ \A p \in terms.partners : answer[p] # "pending"
    /\ offers' = Offered
    /\ at' = "read"
    /\ UNCHANGED <<row, terms, late, answer, call, crossed>>

(* MUTANT of TimerFires: it waits for a first offer. *)
TimerWithOffer ==
    /\ at = "collect" /\ late /\ Offered # {}
    /\ offers' = {}
    /\ at' = "read"
    /\ UNCHANGED <<row, terms, late, answer, call, crossed>>

(* The timer wins the race and resolves to no results at all. *)
TimerFires ==
    /\ at = "collect" /\ late /\ \E p \in terms.partners : answer[p] = "pending"
    /\ offers' = {}
    /\ at' = "read"
    /\ UNCHANGED <<row, terms, late, answer, call, crossed>>

(* processOfferResults *)
ReadForOffers ==
    /\ at = "read"
    /\ Read(Submission, "store", [row EXCEPT !.offers = offers])
    /\ at' = "store"
    /\ UNCHANGED <<row, terms, late, answer, offers, crossed>>

StoreOffers ==
    /\ at = "store" /\ call[Submission].saving
    /\ row' = Overwritten(call[Submission].copy, call[Submission].writes)
    /\ Forget(Submission)
    /\ at' = "try"
    /\ UNCHANGED <<terms, late, answer, offers, crossed>>

(* MUTANT of TryComplete: it completes only after the deadline. *)
TryCompleteWhenLate ==
    /\ at = "try"
    /\ at' = IF late /\ ShouldComplete THEN "complete" ELSE "done"
    /\ UNCHANGED <<row, terms, late, answer, offers, call, crossed>>

TryComplete ==
    /\ at = "try"
    /\ at' = IF ShouldComplete THEN "complete" ELSE "done"
    /\ UNCHANGED <<row, terms, late, answer, offers, call, crossed>>

(* completeAuction finds the auction completed by a user. *)
AlreadyCompleted ==
    /\ at = "complete" /\ call[Submission].op = "none" /\ row.status = "completed"
    /\ at' = "done"
    /\ UNCHANGED <<row, terms, late, answer, offers, call, crossed>>

(* An awaited call rejects (in collectOffersWithTimeout only its first), or *)
(* completeAuction finds too few offers: the catch marks the auction        *)
(* expired, unless the database refuses that too.                           *)
SubmissionFails ==
    /\ at \in {"collect", "read", "store", "try", "complete"}
    /\ at = "collect" => \A p \in Partners : answer[p] = "pending"
    /\ Forget(Submission)
    /\ \/ row' = [row EXCEPT !.status = "expired"] /\ at' = "done"
       \/ row' = row /\ at' = "failed"
    /\ UNCHANGED <<terms, late, answer, offers, crossed>>

-----------------------------------------------------------------------------
(* completeAuction and cancelAuction *)

MayComplete(a) ==
    IF a = Submission THEN at = "complete" ELSE at # "before"

(* The only status it refuses is completed. *)
BeginComplete(a) ==
    /\ call[a].op = "none" /\ MayComplete(a)
    /\ row.status # "completed" /\ Cardinality(row.offers) >= terms.min
    /\ Read(a, "complete", [row EXCEPT !.status = "completed", !.winner = Winner(row.offers)])
    /\ UNCHANGED <<row, terms, late, answer, offers, at, crossed>>

BeginCancel(u) ==
    /\ call[u].op = "none"
    /\ row.status = "active"
    /\ Read(u, "cancel", [row EXCEPT !.status = "cancelled"])
    /\ UNCHANGED <<row, terms, late, answer, offers, at, crossed>>

(* The UPDATE, after normalisation, ranking and the second read. *)
Save(a) ==
    /\ call[a].op \in {"complete", "cancel"} /\ call[a].saving
    /\ row' = Overwritten(call[a].copy, call[a].writes)
    /\ Forget(a)
    /\ at' = IF a = Submission THEN "done" ELSE at
    /\ UNCHANGED <<terms, late, answer, offers, crossed>>

(* Ranking or save, at either statement, rejects and the user is told. *)
UserCallFails(u) ==
    /\ call[u].op # "none"
    /\ Forget(u)
    /\ UNCHANGED <<row, terms, late, answer, offers, at, crossed>>

-----------------------------------------------------------------------------
SubmissionStep ==
    \/ AllSettled \/ TimerFires \/ ReadForOffers \/ StoreOffers \/ TryComplete
    \/ AlreadyCompleted \/ BeginComplete(Submission) \/ Reload(Submission) \/ Save(Submission)
    \/ SubmissionFails

UserStep(u) ==
    BeginComplete(u) \/ BeginCancel(u) \/ Reload(u) \/ Save(u) \/ UserCallFails(u)

Next ==
    \/ StartAuction \/ DeadlinePasses \/ SubmissionStep
    \/ \E p \in Partners, what \in {"offer", "nothing"} : PartnerAnswers(p, what)
    \/ \E u \in Users : UserStep(u)

Spec == Init /\ [][Next]_vars

(* The clock moves on, a timer that is due fires and the database settles   *)
(* every call, one way or the other.  Partners need not answer.             *)
FairSpec == Spec /\ WF_vars(DeadlinePasses) /\ WF_vars(SubmissionStep)

-----------------------------------------------------------------------------
(* Although every actor saves a copy read earlier, stale copies alone never *)
(* tear an award: a completed auction has a winner, that partner's offer    *)
(* and enough offers, and a winner stands in no row that is active or       *)
(* cancelled.  Only a save that begins between the two statements of        *)
(* another may leave, for instance, a cancelled auction with a winner.      *)
AwardWholeUnlessCrossed ==
    ~crossed =>
        /\ row.status = "completed" => /\ row.winner \in row.offers
                                       /\ Cardinality(row.offers) >= terms.min
                                       /\ row.offers \subseteq Offered
        /\ row.status \in {"active", "cancelled"} => row.winner = None

(* The submission ends although a partner may never answer. *)
SubmissionEnds == at = "collect" ~> at \in {"done", "failed"}

(* With autoComplete, an auction whose every invited partner has made an    *)
(* offer and whose offers were all collected does not stay active, whatever *)
(* users do at the same time, unless the database refuses even the catch's  *)
(* update.                                                                  *)
FullHouseSettles ==
    /\ at = "read" /\ terms.autoComplete
    /\ Cardinality(offers) >= terms.invited /\ terms.invited >= terms.min
    ~> row.status # "active" \/ at = "failed"

(* "Complete if X offers received" (earlyTerminationThreshold): an auction  *)
(* that has received X offers does not stay active for ever.                *)
EarlyTermination ==
    /\ at = "collect" /\ terms.threshold # 0
    /\ Cardinality(Offered) >= terms.threshold
    ~> row.status # "active" \/ at = "failed"
=============================================================================
