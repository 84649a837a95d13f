---------------------------- MODULE AuctionProofs ----------------------------
(***************************************************************************)
(* The award of an auction is not torn until two saves cross, and no full  *)
(* house is left behind even then, for every number of partners and users  *)
(* and every choice of terms.                                              *)
(***************************************************************************)
EXTENDS Auction, FiniteSetTheorems, TLAPS

USE AuctionAssumption

(* What AwardWholeUnlessCrossed says of the row, or of a copy of it. *)
Award(e) ==
    /\ e.offers \subseteq Offered
    /\ e.status = "completed" => e.winner \in e.offers /\ Cardinality(e.offers) >= terms.min
    /\ e.status \in {"active", "cancelled"} => e.winner = None

Early == at \in {"before", "collect", "read", "store"}

CopiesAward == \A a \in Actors : call[a].op # "none" => Award(call[a].copy)

(* A save that has begun will leave its copy, but for the status if the     *)
(* catch has set it to expired since.                                       *)
Complete(a) ==
    Differing(call[a].copy, row)
        \subseteq call[a].writes \union (IF row.status = "expired" THEN {"status"} ELSE {})

(* Until two saves cross. *)
OneSave ==
    /\ Award(row) /\ CopiesAward
    /\ \A a, b \in Actors : call[a].saving /\ call[b].saving => a = b
    /\ \A a \in Actors : call[a].saving => Complete(a)

(* Until the offers are stored there is nothing to award. *)
NothingYet ==
    /\ Early => /\ row.offers = {} /\ row.winner = None
                /\ row.status \notin {"completed", "expired"}
                /\ \A a \in Actors : call[a].op # "complete"
                /\ \A u \in Users : call[u].op # "none" =>
                      /\ call[u].copy.offers = {} /\ call[u].copy.winner = None
                      /\ call[u].copy.status = "cancelled"
    /\ at = "before" => row = NoRow /\ \A a \in Actors : call[a].op = "none"
    /\ at \in {"before", "collect"} => offers = {}

(* The submission's call and offers fit where it is. *)
SubmissionFits ==
    /\ at = "store" <=> call[Submission].op = "store"
    /\ at # "before" => terms.min \in Nat \ {0}
    /\ offers \subseteq Offered
    /\ \A a \in Actors : call[a].saving => call[a].op # "none"

(* Why it is inductive: every copy is as consistent as the row, a save that *)
(* crosses no other leaves its copy whole, and until the offers are stored  *)
(* nobody can be completing the auction, so that the submission's own copy  *)
(* cannot be stale about an award.                                          *)
IInv == TypeOK /\ (~crossed => OneSave) /\ NothingYet /\ SubmissionFits

(* No row and no call are typed. *)
LEMMA IdleTyped == NoCall \in Calls /\ NoRow \in Rows
  BY DEF NoCall, Calls, NoRow, Rows

(* The invariant holds before startAuction. *)
LEMMA InitAward == Init => IInv
<1> SUFFICES ASSUME Init PROVE IInv
  OBVIOUS
<1>1. \A a \in Actors : call[a].op = "none" /\ ~call[a].saving
  BY DEF Init, NoCall
<1>2. TypeOK
  BY IdleTyped DEF Init, TypeOK
<1>3. row.status = "none" /\ row.offers = {} /\ row.winner = None /\ at = "before" /\ offers = {}
  BY DEF Init, NoRow
<1>4. Award(row)
  BY <1>3 DEF Award
<1>5. OneSave /\ NothingYet
  BY <1>1, <1>3, <1>4 DEF Init, OneSave, CopiesAward, NothingYet, Actors
<1>6. SubmissionFits
  BY <1>1, <1>3 DEF SubmissionFits, Actors
<1> QED
  BY <1>2, <1>5, <1>6 DEF IInv

(* The actor's record in call' is new, the others are as before. *)
LEMMA CallRecord ==
    ASSUME TypeOK, NEW a \in Actors, NEW op \in {"none", "complete", "cancel", "store"},
           NEW copy \in Rows, Read(a, op, copy)
    PROVE  /\ call' \in [Actors -> Calls]
           /\ call'[a].op = op /\ call'[a].copy = copy /\ ~call'[a].saving
           /\ \A b \in Actors : b # a => call'[b] = call[b]
<1>1. [op |-> op, copy |-> copy, saving |-> FALSE, writes |-> {}] \in Calls
  BY DEF Calls
<1> QED
  BY <1>1 DEF Read, TypeOK

(* The actor is in no operation in call', the others are as before. *)
LEMMA CallForgotten ==
    ASSUME TypeOK, NEW a \in Actors, Forget(a)
    PROVE  /\ call' \in [Actors -> Calls]
           /\ call'[a].op = "none" /\ ~call'[a].saving
           /\ \A b \in Actors : b # a => call'[b] = call[b]
<1>1. call' = [call EXCEPT ![a] = NoCall] /\ NoCall \in Calls
  BY IdleTyped DEF Forget
<1>2. call'[a] = NoCall /\ \A b \in Actors : b # a => call'[b] = call[b]
  BY <1>1 DEF TypeOK
<1> QED
  BY <1>1, <1>2 DEF TypeOK, NoCall

(* What an UPDATE can leave in the row. *)
LEMMA OverwrittenRow ==
    ASSUME NEW e \in Rows, NEW cs \in SUBSET Columns, row \in Rows
    PROVE  /\ Overwritten(e, cs) \in Rows
           /\ Overwritten(e, cs).status = IF "status" \in cs THEN e.status ELSE row.status
           /\ Overwritten(e, cs).offers = IF "offers" \in cs THEN e.offers ELSE row.offers
           /\ Overwritten(e, cs).winner = IF "winner" \in cs THEN e.winner ELSE row.winner
  BY DEF Overwritten, Rows, Columns

(* An award depends on the terms and the answers. *)
LEMMA AwardPrimed ==
    ASSUME UNCHANGED <<terms, answer>>
    PROVE  /\ Offered' = Offered
           /\ \A e : Award(e) =>
                /\ e.offers \subseteq Offered'
                /\ e.status = "completed" =>
                     e.winner \in e.offers /\ Cardinality(e.offers) >= terms'.min
                /\ e.status \in {"active", "cancelled"} => e.winner = None
<1>1. Offered' = Offered
  BY DEF Offered
<1> QED
  BY <1>1 DEF Award

(* A step that changes the call of one actor, who does not begin to save,   *)
(* or leaves the row expired.                                               *)
LEMMA CallStep ==
    ASSUME IInv, NEW a \in Actors, \A b \in Actors : b # a => call'[b] = call[b],
           ~call'[a].saving, UNCHANGED <<terms, answer, crossed>>,
           row' = row \/ row' = [row EXCEPT !.status = "expired"],
           call'[a].op # "none" => (~crossed => Award(call'[a].copy))
    PROVE  Offered' = Offered /\ (~crossed' => OneSave')
<1>1. Offered' = Offered
  BY AwardPrimed
<1> SUFFICES ASSUME ~crossed' PROVE OneSave'
  BY <1>1
<1>2. OneSave /\ ~crossed
  BY DEF IInv
<1>3. Award(row) => Award(row)'
  BY <1>1 DEF Award, IInv, TypeOK, Rows
<1>4. CopiesAward'
  <2>1. \A b \in Actors : call'[b].op # "none" => Award(call'[b].copy)
    BY <1>2 DEF OneSave, CopiesAward
  <2> QED
    BY <2>1, AwardPrimed DEF CopiesAward, Award
<1>5. \A b, c \in Actors : call'[b].saving /\ call'[c].saving => b = c
  BY <1>2 DEF OneSave
<1>6. ASSUME NEW b \in Actors, call'[b].saving PROVE Complete(b)'
  <2>1. b # a /\ call'[b] = call[b] /\ Complete(b)
    BY <1>2, <1>6 DEF OneSave
  <2>2. CASE row' = row
    BY <2>1, <2>2 DEF Complete, Differing
  <2>3. CASE row' = [row EXCEPT !.status = "expired"]
    <3>1. row'.status = "expired" /\ row'.offers = row.offers /\ row'.winner = row.winner
      BY <2>3 DEF IInv, TypeOK, Rows
    <3>2. Differing(call[b].copy, row') \subseteq Differing(call[b].copy, row) \union {"status"}
      <4>1. \A c \in Columns \ {"status"} : row'[c] = row[c]
        BY <3>1 DEF Columns
      <4> QED
        BY <4>1 DEF Differing
    <3> QED
      BY <2>1, <3>1, <3>2 DEF Complete, Differing
  <2> QED
    BY <2>2, <2>3
<1> QED
  BY <1>2, <1>3, <1>4, <1>5, <1>6 DEF OneSave

(* An UPDATE: unless saves have crossed, the row becomes the copy, or the   *)
(* copy but expired.                                                        *)
LEMMA UpdateStep ==
    ASSUME IInv, NEW a \in Actors, \A b \in Actors : b # a => call'[b] = call[b],
           call[a].saving, ~call'[a].saving, call'[a].op = "none",
           UNCHANGED <<terms, answer, crossed>>,
           row' = Overwritten(call[a].copy, call[a].writes)
    PROVE  /\ Offered' = Offered /\ (~crossed' => OneSave')
           /\ row' \in Rows
           /\ row'.status \in {row.status, call[a].copy.status}
           /\ row'.offers \in {row.offers, call[a].copy.offers}
           /\ row'.winner \in {row.winner, call[a].copy.winner}
<1> DEFINE e == call[a].copy
<1>1. e \in Rows /\ call[a].writes \in SUBSET Columns /\ row \in Rows
  BY DEF IInv, TypeOK, Calls
<1>2. /\ row' \in Rows
      /\ row'.status = IF "status" \in call[a].writes THEN e.status ELSE row.status
      /\ row'.offers = IF "offers" \in call[a].writes THEN e.offers ELSE row.offers
      /\ row'.winner = IF "winner" \in call[a].writes THEN e.winner ELSE row.winner
  BY <1>1, OverwrittenRow
<1>3. Offered' = Offered
  BY AwardPrimed
<1>4. ASSUME ~crossed' PROVE OneSave'
  <2>1. OneSave /\ ~crossed
    BY <1>4 DEF IInv
  <2>2. \A b \in Actors : ~call'[b].saving
    BY <2>1 DEF OneSave
  <2>3. Award(e) /\ Complete(a)
    BY <2>1 DEF OneSave, CopiesAward, IInv, SubmissionFits
  <2>4. CopiesAward'
    <3>1. \A b \in Actors : call'[b].op # "none" => Award(call'[b].copy)
      BY <2>1 DEF OneSave, CopiesAward
    <3> QED
      BY <3>1, AwardPrimed DEF CopiesAward, Award
  <2>5. row'.offers = e.offers /\ row'.winner = e.winner
    BY <1>2, <2>3 DEF Complete, Differing, Columns
  <2>6. row'.status = e.status \/ row'.status = "expired"
    BY <1>2, <2>3 DEF Complete, Differing, Columns
  <2>7. Award(row)'
    BY <1>3, <2>3, <2>5, <2>6 DEF Award
  <2> QED
    BY <2>2, <2>4, <2>7 DEF OneSave
<1> QED
  BY <1>2, <1>3, <1>4

(* startAuction: the row is new and nobody holds a copy of it with offers. *)
LEMMA StartKeeps == ASSUME IInv, StartAuction PROVE IInv'
<1>1. PICK ps \in SUBSET Partners, unknown \in 0 .. MaxUnknown,
           min \in MinOffers, auto \in BOOLEAN, th \in Thresholds :
          terms' = [partners |-> ps, invited |-> Cardinality(ps) + unknown, min |-> min,
                    autoComplete |-> auto, threshold |-> th]
  BY DEF StartAuction
<1>2. /\ at = "before" /\ at' = "collect"
      /\ row' = [NoRow EXCEPT !.status = "active"]
      /\ UNCHANGED <<late, answer, offers, call, crossed>>
  BY DEF StartAuction
<1>3. Cardinality(ps) \in Nat
  BY FS_Subset, FS_CardinalityType
<1>4. terms' \in [partners : SUBSET Partners, invited : Nat, min : Nat,
                  autoComplete : BOOLEAN, threshold : Nat] /\ terms'.min \in Nat \ {0}
  BY <1>1, <1>3
<1>5. row' \in Rows /\ row'.offers = {} /\ row'.status = "active" /\ row'.winner = None
  BY <1>2 DEF NoRow, Rows
<1>6. TypeOK'
  BY <1>2, <1>4, <1>5 DEF IInv, TypeOK
<1>7. OneSave' /\ NothingYet'
  <2>1. \A a \in Actors : call'[a].op = "none" /\ ~call'[a].saving
    BY <1>2 DEF IInv, NothingYet, SubmissionFits
  <2>2. Award(row)' /\ CopiesAward'
    BY <1>5, <2>1 DEF Award, CopiesAward
  <2> QED
    BY <1>2, <1>5, <2>1, <2>2 DEF IInv, OneSave, NothingYet, Early, Actors
<1>8. SubmissionFits'
  BY <1>2, <1>4 DEF IInv, NothingYet, SubmissionFits, Actors
<1> QED
  BY <1>6, <1>7, <1>8 DEF IInv

(* An answer only adds to the offers. *)
LEMMA AnswerKeeps ==
    ASSUME IInv, NEW p \in Partners, NEW what \in {"offer", "nothing"}, PartnerAnswers(p, what)
    PROVE  IInv'
<1>1. /\ at = "collect" /\ answer[p] = "pending" /\ answer' = [answer EXCEPT ![p] = what]
      /\ UNCHANGED <<row, terms, late, offers, at, call, crossed>>
  BY DEF PartnerAnswers
<1>2. Offered \subseteq Offered'
  BY <1>1 DEF Offered, IInv, TypeOK
<1>3. TypeOK'
  BY <1>1 DEF IInv, TypeOK
<1>4. ~crossed' => OneSave'
  BY <1>1, <1>2 DEF IInv, OneSave, CopiesAward, Award, Complete, Differing
<1> QED
  BY <1>1, <1>2, <1>3, <1>4 DEF IInv, NothingYet, SubmissionFits, Early

(* The end of the collection, by the last answer or by the timer. *)
LEMMA CollectedKeeps == ASSUME IInv, AllSettled \/ TimerFires PROVE IInv'
<1>1. /\ at = "collect" /\ at' = "read" /\ offers' \subseteq Offered
      /\ UNCHANGED <<row, terms, late, answer, call, crossed>>
  BY DEF AllSettled, TimerFires
<1>2. Offered' = Offered /\ Offered \subseteq Partners
  BY <1>1 DEF Offered, IInv, TypeOK
<1>3. TypeOK'
  BY <1>1, <1>2 DEF IInv, TypeOK
<1>4. ~crossed' => OneSave'
  BY <1>1, <1>2 DEF IInv, OneSave, CopiesAward, Award, Complete, Differing
<1> QED
  BY <1>1, <1>2, <1>3, <1>4 DEF IInv, NothingYet, SubmissionFits, Early

(* The copy processOfferResults will save carries the offers collected. *)
LEMMA ReadForOffersKeeps == ASSUME IInv, ReadForOffers PROVE IInv'
<1> DEFINE copy == [row EXCEPT !.offers = offers]
<1>1. /\ at = "read" /\ at' = "store" /\ Read(Submission, "store", copy)
      /\ UNCHANGED <<row, terms, late, answer, offers, crossed>>
  BY DEF ReadForOffers
<1>2. copy \in Rows /\ copy.offers = offers /\ copy.status = row.status /\ copy.winner = row.winner
  BY DEF IInv, TypeOK, Rows
<1>3. ~crossed => Award(copy)
  BY <1>1, <1>2 DEF IInv, OneSave, Award, NothingYet, SubmissionFits, Early
<1> HIDE DEF copy
<1>4. Submission \in Actors
  BY DEF Actors
<1>5. /\ call' \in [Actors -> Calls]
      /\ call'[Submission].op = "store" /\ call'[Submission].copy = copy
      /\ ~call'[Submission].saving
      /\ \A b \in Actors : b # Submission => call'[b] = call[b]
  BY <1>1, <1>2, <1>4, CallRecord DEF IInv
<1>6. Offered' = Offered /\ (~crossed' => OneSave')
  BY <1>1, <1>3, <1>4, <1>5, CallStep
<1>7. TypeOK'
  BY <1>1, <1>5, <1>6 DEF IInv, TypeOK, Award
<1>8. NothingYet'
  BY <1>1, <1>5 DEF IInv, NothingYet, Early, Actors
<1>9. SubmissionFits'
  BY <1>1, <1>5, <1>6 DEF IInv, SubmissionFits, Actors
<1> QED
  BY <1>6, <1>7, <1>8, <1>9 DEF IInv

(* The UPDATE of processOfferResults. *)
LEMMA StoreOffersKeeps == ASSUME IInv, StoreOffers PROVE IInv'
<1>1. /\ at = "store" /\ at' = "try" /\ Forget(Submission) /\ call[Submission].saving
      /\ row' = Overwritten(call[Submission].copy, call[Submission].writes)
      /\ UNCHANGED <<terms, late, answer, offers, crossed>>
  BY DEF StoreOffers
<1>2. Submission \in Actors
  BY DEF Actors
<1>3. /\ call' \in [Actors -> Calls]
      /\ call'[Submission].op = "none" /\ ~call'[Submission].saving
      /\ \A b \in Actors : b # Submission => call'[b] = call[b]
  BY <1>1, <1>2, CallForgotten DEF IInv
<1>4. Offered' = Offered /\ (~crossed' => OneSave') /\ row' \in Rows
  BY <1>1, <1>2, <1>3, UpdateStep
<1>5. TypeOK'
  BY <1>1, <1>3, <1>4 DEF IInv, TypeOK
<1>6. NothingYet' /\ SubmissionFits'
  BY <1>1, <1>3, <1>4 DEF IInv, NothingYet, SubmissionFits, Early, Actors
<1> QED
  BY <1>4, <1>5, <1>6 DEF IInv

(* The submission gives up, from any place. *)
LEMMA SubmissionFailsKeeps == ASSUME IInv, SubmissionFails PROVE IInv'
<1>1. /\ at # "before" /\ at' \in {"done", "failed"} /\ Forget(Submission)
      /\ row' = [row EXCEPT !.status = "expired"] \/ row' = row
      /\ UNCHANGED <<terms, late, answer, offers, crossed>>
  BY DEF SubmissionFails
<1>2. Submission \in Actors
  BY DEF Actors
<1>3. /\ call' \in [Actors -> Calls]
      /\ call'[Submission].op = "none" /\ ~call'[Submission].saving
      /\ \A b \in Actors : b # Submission => call'[b] = call[b]
  BY <1>1, <1>2, CallForgotten DEF IInv
<1>4. Offered' = Offered /\ (~crossed' => OneSave')
  BY <1>1, <1>2, <1>3, CallStep
<1>5. row' \in Rows
  BY <1>1 DEF IInv, TypeOK, Rows
<1>6. TypeOK'
  BY <1>1, <1>3, <1>4, <1>5 DEF IInv, TypeOK, Award
<1> QED
  BY <1>1, <1>3, <1>4, <1>6 DEF IInv, NothingYet, SubmissionFits, Early, Actors

-----------------------------------------------------------------------------
(* The copy of a completion has a winner because it has an offer. *)
LEMMA WinnerOffered ==
    ASSUME NEW from \in SUBSET Partners, Cardinality(from) # 0
    PROVE  Winner(from) \in from
<1>1. from # {}
  BY FS_EmptySet
<1> QED
  BY <1>1 DEF Winner

(* The copy of a completion: a winner among enough offers. *)
LEMMA BeginCompleteKeeps ==
    ASSUME IInv, NEW a \in Actors, BeginComplete(a)
    PROVE  IInv'
<1> DEFINE copy == [row EXCEPT !.status = "completed", !.winner = Winner(row.offers)]
<1>1. /\ MayComplete(a) /\ row.status # "completed" /\ Cardinality(row.offers) >= terms.min
      /\ call[a].op = "none" /\ Read(a, "complete", copy)
      /\ UNCHANGED <<row, terms, late, answer, offers, at, crossed>>
  BY DEF BeginComplete
<1>2. at # "before" /\ terms.min \in Nat \ {0}
  BY <1>1 DEF MayComplete, IInv, SubmissionFits
<1>3. row.offers \in SUBSET Partners /\ Cardinality(row.offers) \in Nat
  BY FS_Subset, FS_CardinalityType DEF IInv, TypeOK, Rows
<1>4. Winner(row.offers) \in row.offers
  BY <1>1, <1>2, <1>3, WinnerOffered
<1>5. /\ copy \in Rows /\ copy.offers = row.offers /\ copy.status = "completed"
      /\ copy.winner = Winner(row.offers)
  BY <1>3, <1>4 DEF IInv, TypeOK, Rows
<1>6. ~crossed => Award(copy)
  BY <1>1, <1>4, <1>5 DEF IInv, OneSave, Award
<1> HIDE DEF copy
<1>7. ~Early
  BY <1>4 DEF IInv, NothingYet
<1>8. /\ call' \in [Actors -> Calls]
      /\ call'[a].op = "complete" /\ call'[a].copy = copy /\ ~call'[a].saving
      /\ \A b \in Actors : b # a => call'[b] = call[b]
  BY <1>1, <1>5, CallRecord DEF IInv
<1>9. Offered' = Offered /\ (~crossed' => OneSave')
  BY <1>1, <1>6, <1>8, CallStep
<1>10. TypeOK'
  BY <1>1, <1>8, <1>9 DEF IInv, TypeOK, Award
<1>11. NothingYet'
  BY <1>1, <1>7 DEF NothingYet, Early
<1>12. SubmissionFits'
  BY <1>1, <1>2, <1>7, <1>8, <1>9 DEF IInv, SubmissionFits, Early, Actors
<1> QED
  BY <1>9, <1>10, <1>11, <1>12 DEF IInv

(* The copy of a cancellation: active when read, hence without a winner. *)
LEMMA BeginCancelKeeps ==
    ASSUME IInv, NEW u \in Users, BeginCancel(u)
    PROVE  IInv'
<1> DEFINE copy == [row EXCEPT !.status = "cancelled"]
<1>1. /\ row.status = "active" /\ Read(u, "cancel", copy)
      /\ UNCHANGED <<row, terms, late, answer, offers, at, crossed>>
  BY DEF BeginCancel
<1>2. copy \in Rows /\ copy.offers = row.offers /\ copy.status = "cancelled" /\ copy.winner = row.winner
  BY DEF IInv, TypeOK, Rows
<1>3. ~crossed => Award(copy)
  BY <1>1, <1>2 DEF IInv, OneSave, Award
<1> HIDE DEF copy
<1>4. u \in Actors /\ u # Submission
  BY DEF Actors
<1>5. /\ call' \in [Actors -> Calls]
      /\ call'[u].op = "cancel" /\ call'[u].copy = copy /\ ~call'[u].saving
      /\ \A b \in Actors : b # u => call'[b] = call[b]
  BY <1>1, <1>2, <1>4, CallRecord DEF IInv
<1>6. Offered' = Offered /\ (~crossed' => OneSave')
  BY <1>1, <1>3, <1>4, <1>5, CallStep
<1>7. TypeOK'
  BY <1>1, <1>5, <1>6 DEF IInv, TypeOK, Award
<1>8. NothingYet'
  BY <1>1, <1>2, <1>4, <1>5 DEF IInv, NothingYet, Early, NoRow, Actors
<1>9. SubmissionFits'
  BY <1>1, <1>4, <1>5, <1>6 DEF IInv, SubmissionFits, Actors
<1> QED
  BY <1>6, <1>7, <1>8, <1>9 DEF IInv

(* What the calls are once a save has begun. *)
LEMMA SaveBegun ==
    ASSUME call \in [Actors -> Calls], NEW a \in Actors, NEW cs,
           call' = [call EXCEPT ![a].saving = TRUE, ![a].writes = cs]
    PROVE  /\ call'[a].saving /\ call'[a].writes = cs
           /\ \A b \in Actors : b # a => call'[b] = call[b]
           /\ \A b \in Actors : call'[b].op = call[b].op /\ call'[b].copy = call[b].copy
<1>1. call'[a] = [call[a] EXCEPT !.saving = TRUE, !.writes = cs]
  OBVIOUS
<1>2. /\ call'[a].saving /\ call'[a].writes = cs
      /\ call'[a].op = call[a].op /\ call'[a].copy = call[a].copy
  BY <1>1 DEF Calls
<1>3. \A b \in Actors : b # a => call'[b] = call[b]
  OBVIOUS
<1> QED
  BY <1>2, <1>3

(* A save begins: unless it crosses another, it is the only one, and names  *)
(* every column in which its copy differs.                                  *)
LEMMA ReloadKeeps ==
    ASSUME IInv, NEW a \in Actors, Reload(a)
    PROVE  IInv'
<1> DEFINE cs == Differing(call[a].copy, row)
                   \union (IF call[a].op = "complete" THEN {"winner"} ELSE {})
<1>1. /\ call[a].op # "none" /\ cs \in SUBSET Columns /\ Differing(call[a].copy, row) \subseteq cs
      /\ call' = [call EXCEPT ![a].saving = TRUE, ![a].writes = cs]
      /\ crossed' = (crossed \/ \E b \in Actors : call[b].saving)
      /\ UNCHANGED <<row, terms, late, answer, offers, at>>
  BY DEF Reload, BeginSave, Differing, Columns
<1> HIDE DEF cs
<1>2. /\ call'[a].saving /\ call'[a].writes = cs
      /\ \A b \in Actors : b # a => call'[b] = call[b]
      /\ \A b \in Actors : call'[b].op = call[b].op /\ call'[b].copy = call[b].copy
  BY <1>1, SaveBegun DEF IInv, TypeOK
<1>3. call' \in [Actors -> Calls] /\ crossed' \in BOOLEAN
  <2>1. call \in [Actors -> Calls] /\ crossed \in BOOLEAN
    BY DEF IInv, TypeOK
  <2>2. [call[a] EXCEPT !.saving = TRUE, !.writes = cs] \in Calls
    BY <1>1, <2>1 DEF Calls
  <2>3. call' = [call EXCEPT ![a] = [call[a] EXCEPT !.saving = TRUE, !.writes = cs]]
    BY <1>1
  <2>4. call' \in [Actors -> Calls]
    BY <2>1, <2>2, <2>3
  <2>5. crossed' \in BOOLEAN
    BY <1>1, <2>1
  <2> QED
    BY <2>4, <2>5
<1>4. TypeOK' /\ Offered' = Offered
  BY <1>1, <1>3 DEF IInv, TypeOK, Offered
<1>5. ~crossed' => OneSave'
  <2> SUFFICES ASSUME ~crossed' PROVE OneSave'
    OBVIOUS
  <2>1. ~crossed /\ OneSave /\ \A b \in Actors : ~call[b].saving
    BY <1>1 DEF IInv
  <2>2. \A b \in Actors : call'[b].saving => b = a
    BY <1>2, <2>1
  <2>3. Complete(a)'
    BY <1>1, <1>2 DEF Complete, Differing
  <2>4. Award(row)' /\ CopiesAward'
    <3>1. Award(row) /\ \A b \in Actors : call'[b].op # "none" => Award(call'[b].copy)
      BY <1>2, <2>1 DEF OneSave, CopiesAward
    <3> QED
      BY <1>1, <3>1, AwardPrimed DEF CopiesAward, Award
  <2> QED
    BY <2>2, <2>3, <2>4 DEF OneSave
<1>6. NothingYet'
  <2>1. \A u \in Users : u \in Actors
    BY DEF Actors
  <2>2. NothingYet
    BY DEF IInv
  <2>3. /\ row' = row /\ at' = at /\ offers' = offers /\ Early' = Early
        /\ \A b \in Actors : call'[b].op = call[b].op /\ call'[b].copy = call[b].copy
    BY <1>1, <1>2 DEF Early
  <2> QED
    BY <2>1, <2>2, <2>3 DEF NothingYet
<1>7. SubmissionFits'
  <2>1. \A b \in Actors : call'[b].saving => call'[b].op # "none"
    BY <1>1, <1>2 DEF IInv, SubmissionFits
  <2>2. Submission \in Actors
    BY DEF Actors
  <2> QED
    BY <1>1, <1>2, <1>4, <2>1, <2>2 DEF IInv, SubmissionFits
<1> QED
  BY <1>4, <1>5, <1>6, <1>7 DEF IInv

(* The UPDATE of a completion or a cancellation. *)
LEMMA SaveKeeps ==
    ASSUME IInv, NEW a \in Actors, Save(a)
    PROVE  IInv'
<1>1. /\ call[a].op \in {"complete", "cancel"} /\ call[a].saving /\ Forget(a)
      /\ row' = Overwritten(call[a].copy, call[a].writes)
      /\ at' = IF a = Submission THEN "done" ELSE at
      /\ UNCHANGED <<terms, late, answer, offers, crossed>>
  BY DEF Save
<1>2. /\ call' \in [Actors -> Calls]
      /\ call'[a].op = "none" /\ ~call'[a].saving
      /\ \A b \in Actors : b # a => call'[b] = call[b]
  BY <1>1, CallForgotten DEF IInv
<1>3. /\ Offered' = Offered /\ (~crossed' => OneSave') /\ row' \in Rows
      /\ row'.status \in {row.status, call[a].copy.status}
      /\ row'.offers \in {row.offers, call[a].copy.offers}
      /\ row'.winner \in {row.winner, call[a].copy.winner}
  BY <1>1, <1>2, UpdateStep
<1>4. TypeOK'
  BY <1>1, <1>2, <1>3 DEF IInv, TypeOK
<1>5. at # "before"
  BY <1>1 DEF IInv, NothingYet
<1>6. SubmissionFits'
  BY <1>1, <1>2, <1>3, <1>5 DEF IInv, SubmissionFits, Actors
<1>7. NothingYet'
  <2>1. CASE a = Submission
    BY <1>1, <2>1 DEF NothingYet, Early
  <2>2. CASE a # Submission
    <3>1. a \in Users /\ at' = at
      BY <1>1, <2>2 DEF Actors
    <3>2. ASSUME Early
          PROVE  /\ row'.offers = {} /\ row'.winner = None
                 /\ row'.status \notin {"completed", "expired"}
      BY <1>1, <1>3, <3>1, <3>2 DEF IInv, NothingYet
    <3> QED
      BY <1>1, <1>2, <1>5, <3>1, <3>2 DEF IInv, NothingYet, Early, Actors
  <2> QED
    BY <2>1, <2>2
<1> QED
  BY <1>3, <1>4, <1>6, <1>7 DEF IInv

(* Every step of the auction keeps the invariant. *)
LEMMA NextAward == IInv /\ [Next]_vars => IInv'
<1> SUFFICES ASSUME IInv, [Next]_vars PROVE IInv'
  OBVIOUS
<1>1. ASSUME at' \in {at, "complete", "done"}, at \in {"try", "complete"} \/ at' = at,
             UNCHANGED <<row, terms, answer, offers, call, crossed>>, late' \in BOOLEAN
      PROVE  IInv'
  <2>1. Offered' = Offered
    BY <1>1 DEF Offered
  <2>2. TypeOK' /\ (~crossed' => OneSave')
    BY <1>1, <2>1 DEF IInv, TypeOK, OneSave, Award, CopiesAward, Complete, Differing
  <2>3. NothingYet' /\ SubmissionFits'
    BY <1>1, <2>1 DEF IInv, NothingYet, SubmissionFits, Early
  <2> QED
    BY <2>2, <2>3 DEF IInv
<1>2. CASE DeadlinePasses
  BY <1>1, <1>2 DEF DeadlinePasses
<1>3. CASE TryComplete \/ AlreadyCompleted
  BY <1>1, <1>3 DEF TryComplete, AlreadyCompleted, IInv, TypeOK
<1>4. ASSUME NEW u \in Users, UserCallFails(u) PROVE IInv'
  <2>1. Forget(u) /\ call[u].op # "none" /\ UNCHANGED <<row, terms, late, answer, offers, at, crossed>>
    BY <1>4 DEF UserCallFails
  <2>2. u \in Actors /\ u # Submission
    BY DEF Actors
  <2>3. /\ call' \in [Actors -> Calls]
        /\ call'[u].op = "none" /\ ~call'[u].saving
        /\ \A b \in Actors : b # u => call'[b] = call[b]
    BY <2>1, <2>2, CallForgotten DEF IInv
  <2>4. Offered' = Offered /\ (~crossed' => OneSave')
    BY <2>1, <2>2, <2>3, CallStep
  <2>5. TypeOK'
    BY <2>1, <2>3, <2>4 DEF IInv, TypeOK, Award
  <2>6. NothingYet' /\ SubmissionFits'
    BY <2>1, <2>2, <2>3, <2>4 DEF IInv, NothingYet, SubmissionFits, Early, Actors
  <2> QED
    BY <2>4, <2>5, <2>6 DEF IInv
<1>5. CASE UNCHANGED vars
  BY <1>1, <1>5 DEF vars, IInv, TypeOK
<1>6. Submission \in Actors /\ \A u \in Users : u \in Actors
  BY DEF Actors
<1>7. CASE SubmissionStep
  BY <1>3, <1>6, <1>7, CollectedKeeps, ReadForOffersKeeps, StoreOffersKeeps, SubmissionFailsKeeps,
     BeginCompleteKeeps, ReloadKeeps, SaveKeeps DEF SubmissionStep
<1>8. ASSUME NEW u \in Users, UserStep(u) PROVE IInv'
  BY <1>4, <1>6, <1>8, BeginCompleteKeeps, BeginCancelKeeps, ReloadKeeps, SaveKeeps
  DEF UserStep
<1> QED
  BY <1>2, <1>5, <1>7, <1>8, StartKeeps, AnswerKeeps DEF Next

(* The inductive invariant holds always. *)
LEMMA AlwaysAward == Spec => []IInv
  BY InitAward, NextAward, PTL DEF Spec

(* Type correctness of the auction. *)
THEOREM AuctionTypeCorrect == Spec => []TypeOK
<1>1. IInv => TypeOK
  BY DEF IInv
<1> QED
  BY <1>1, AlwaysAward, PTL

(* Whatever completes, cancels, stores and expires the auction at once, and *)
(* however stale the copies are that are saved, its status, winner and      *)
(* offers belong together until one save begins between the SELECT and the  *)
(* UPDATE of another.                                                       *)
THEOREM AwardWholeUntilCrossed == Spec => []AwardWholeUnlessCrossed
<1>1. IInv => AwardWholeUnlessCrossed
  BY DEF IInv, OneSave, Award, AwardWholeUnlessCrossed
<1> QED
  BY <1>1, AlwaysAward, PTL

-----------------------------------------------------------------------------
(* A full house: every invited partner's offer was collected, and the terms *)
(* let these offers complete the auction by themselves.                     *)
FullHouse ==
    /\ terms.autoComplete /\ Cardinality(offers) >= terms.invited
    /\ terms.invited >= terms.min

(* No copy of a completion or cancellation makes the row active again, and  *)
(* only users cancel.                                                       *)
CopiesEnd ==
    /\ \A a \in Actors : call[a].op \in {"complete", "cancel"} => call[a].copy.status # "active"
    /\ call[Submission].op # "cancel"

(* A save of a completion or cancellation whose UPDATE leaves the status    *)
(* alone has found the auction over, or was of a cancelled row without      *)
(* offers before any were stored, and then writes nothing at all.           *)
SavesEnd ==
    \A a \in Actors : call[a].saving =>
        /\ call[a].op = "complete" => "winner" \in call[a].writes
        /\ call[a].op \in {"complete", "cancel"} /\ "status" \notin call[a].writes =>
              call[a].writes = {} \/ (~Early /\ row.status # "active")

(* While the row is active it keeps the offers that the submission stored.  *)
OffersKept ==
    /\ at = "store" => call[Submission].copy.offers = offers
    /\ at = "store" /\ call[Submission].saving =>
          "offers" \in call[Submission].writes \/ offers = {}
    /\ at \in {"try", "complete"} /\ row.status = "active" => row.offers = offers

(* An auction with a full house is not active when its submission has ended *)
(* well: nothing would look at it again.                                    *)
NoFullHouseLeft == at = "done" /\ FullHouse => row.status # "active"

House == CopiesEnd /\ SavesEnd /\ OffersKept /\ NoFullHouseLeft

(* Stored offers of a full house meet the criteria of autoComplete. *)
LEMMA FullHouseCompletes ==
    ASSUME IInv, FullHouse, row.offers = offers
    PROVE  ShouldComplete
<1>1. terms.invited \in Nat /\ terms.min \in Nat
  BY DEF IInv, TypeOK
<1>2. Cardinality(row.offers) \in Nat
  BY FS_Subset, FS_CardinalityType DEF IInv, TypeOK, Rows
<1> QED
  BY <1>1, <1>2 DEF FullHouse, ShouldComplete

(* A save that leaves the auction active leaves it as it was, and is not    *)
(* the one of a completion.                                                 *)
LEMMA SaveEnds ==
    ASSUME IInv, House, NEW a \in Actors, Save(a), row'.status = "active"
    PROVE  row' = row /\ call[a].op = "cancel"
<1>1. /\ call[a].op \in {"complete", "cancel"} /\ call[a].saving
      /\ row' = Overwritten(call[a].copy, call[a].writes)
      /\ call[a].copy \in Rows /\ call[a].writes \in SUBSET Columns /\ row \in Rows
  BY DEF Save, IInv, TypeOK, Calls
<1>2. "status" \notin call[a].writes /\ row'.status = row.status
  BY <1>1, OverwrittenRow DEF House, CopiesEnd
<1>3. call[a].writes = {} /\ call[a].op = "cancel"
  BY <1>1, <1>2 DEF House, SavesEnd
<1>4. Overwritten(call[a].copy, {}) = row
  BY <1>1 DEF Overwritten, Rows
<1> QED
  BY <1>1, <1>3, <1>4

(* What the next state needs of the calls when one actor's is replaced by   *)
(* one that is not saving, if it copies an auction that is over.            *)
LEMMA CallEnds ==
    ASSUME House, NEW a \in Actors, ~call'[a].saving,
           \A b \in Actors : b # a => call'[b] = call[b],
           call'[a].op \in {"complete", "cancel"} => call'[a].copy.status # "active",
           a = Submission => call'[a].op # "cancel",
           Early' => Early,
           Early \/ row'.status # "active" \/ row' = row
    PROVE  CopiesEnd' /\ SavesEnd'
<1>1. CopiesEnd'
  BY DEF House, CopiesEnd, Actors
<1>2. SavesEnd'
  BY DEF House, SavesEnd
<1> QED
  BY <1>1, <1>2

(* The start of a save, by the submission or by a user. *)
LEMMA ReloadKeepsHouse == ASSUME IInv, House, NEW a \in Actors, Reload(a) PROVE House'
<1> DEFINE cs == Differing(call[a].copy, row)
                   \union (IF call[a].op = "complete" THEN {"winner"} ELSE {})
<1>1. /\ call' = [call EXCEPT ![a].saving = TRUE, ![a].writes = cs]
      /\ UNCHANGED <<row, terms, late, answer, offers, at>> /\ call[a].op # "none"
  BY DEF Reload, BeginSave
<1>2. /\ call[a].op = "complete" => "winner" \in cs
      /\ "status" \notin cs => row.status = call[a].copy.status
      /\ "offers" \notin cs => row.offers = call[a].copy.offers
  BY DEF Differing, Columns
<1>3. call[a].op \in {"complete", "cancel"} /\ "status" \notin cs =>
        cs = {} \/ (~Early /\ row.status # "active")
  <2> SUFFICES ASSUME call[a].op \in {"complete", "cancel"}, "status" \notin cs
               PROVE  cs = {} \/ (~Early /\ row.status # "active")
    OBVIOUS
  <2>1. row.status # "active"
    BY <1>2 DEF House, CopiesEnd
  <2>2. CASE Early
    <3>1. a \in Users /\ call[a].op = "cancel"
      BY <2>2 DEF IInv, NothingYet, House, CopiesEnd, Actors
    <3>2. /\ call[a].copy.offers = row.offers /\ call[a].copy.winner = row.winner
          /\ call[a].copy.status = row.status
      BY <1>2, <2>2, <3>1 DEF IInv, NothingYet
    <3>3. Differing(call[a].copy, row) = {}
      BY <3>2 DEF Differing, Columns
    <3> QED
      BY <3>1, <3>3
  <2> QED
    BY <2>1, <2>2
<1> HIDE DEF cs
<1>4. /\ call'[a].saving /\ call'[a].writes = cs
      /\ \A b \in Actors : b # a => call'[b] = call[b]
      /\ \A b \in Actors : call'[b].op = call[b].op /\ call'[b].copy = call[b].copy
  BY <1>1, SaveBegun DEF IInv, TypeOK
<1>5. CopiesEnd'
  BY <1>4 DEF House, CopiesEnd, Actors
<1>6. SavesEnd'
  <2>1. row' = row /\ Early' = Early
    BY <1>1 DEF Early
  <2>2. \A b \in Actors : b # a /\ call'[b].saving =>
          /\ call'[b].op = "complete" => "winner" \in call'[b].writes
          /\ call'[b].op \in {"complete", "cancel"} /\ "status" \notin call'[b].writes =>
                call'[b].writes = {} \/ (~Early /\ row.status # "active")
    BY <1>4 DEF House, SavesEnd
  <2>3. /\ call'[a].op = "complete" => "winner" \in call'[a].writes
        /\ call'[a].op \in {"complete", "cancel"} /\ "status" \notin call'[a].writes =>
              call'[a].writes = {} \/ (~Early /\ row.status # "active")
    BY <1>2, <1>3, <1>4
  <2> QED
    BY <2>1, <2>2, <2>3 DEF SavesEnd
<1>7. OffersKept'
  <2>0. Submission \in Actors
    BY DEF Actors
  <2>1. CASE a = Submission
    <3>1. at = "store" => row.offers = {}
      BY DEF IInv, NothingYet, Early
    <3> QED
      BY <1>1, <1>2, <1>4, <2>0, <2>1, <3>1 DEF House, OffersKept
  <2>2. CASE a # Submission
    BY <1>1, <1>4, <2>0, <2>2 DEF House, OffersKept
  <2> QED
    BY <2>1, <2>2
<1>8. NoFullHouseLeft'
  BY <1>1 DEF House, NoFullHouseLeft, FullHouse
<1> QED
  BY <1>5, <1>6, <1>7, <1>8 DEF House

(* Steps of the submission. *)
LEMMA SubmissionKeepsHouse == ASSUME IInv, House, SubmissionStep PROVE House'
<1>0. Submission \in Actors
  BY DEF Actors
<1>1. CASE AllSettled \/ TimerFires
  BY <1>1 DEF AllSettled, TimerFires, House, CopiesEnd, SavesEnd, OffersKept,
     NoFullHouseLeft, Early
<1>2. CASE ReadForOffers
  <2> DEFINE copy == [row EXCEPT !.offers = offers]
  <2>1. /\ at = "read" /\ at' = "store" /\ Read(Submission, "store", copy)
        /\ UNCHANGED <<row, terms, late, answer, offers>>
    BY <1>2 DEF ReadForOffers
  <2>2. copy \in Rows /\ copy.offers = offers
    BY DEF IInv, TypeOK, Rows
  <2> HIDE DEF copy
  <2>3. /\ call'[Submission].op = "store" /\ call'[Submission].copy = copy
        /\ ~call'[Submission].saving
        /\ \A b \in Actors : b # Submission => call'[b] = call[b]
    BY <1>0, <2>1, <2>2, CallRecord DEF IInv
  <2>4. CopiesEnd' /\ SavesEnd'
    BY <1>0, <2>1, <2>3, CallEnds DEF Early
  <2> QED
    BY <2>1, <2>2, <2>3, <2>4 DEF House, OffersKept, NoFullHouseLeft
<1>3. CASE StoreOffers
  <2>1. /\ at = "store" /\ at' = "try" /\ Forget(Submission) /\ call[Submission].saving
        /\ row' = Overwritten(call[Submission].copy, call[Submission].writes)
        /\ UNCHANGED <<terms, late, answer, offers>>
    BY <1>3 DEF StoreOffers
  <2>2. /\ call'[Submission].op = "none" /\ ~call'[Submission].saving
        /\ \A b \in Actors : b # Submission => call'[b] = call[b]
    BY <1>0, <2>1, CallForgotten DEF IInv
  <2>3. CopiesEnd' /\ SavesEnd'
    BY <1>0, <2>1, <2>2, CallEnds DEF Early
  <2>4. row'.offers = offers
    <3>1. /\ call[Submission].copy \in Rows /\ call[Submission].writes \in SUBSET Columns
          /\ row \in Rows
      BY <1>0 DEF IInv, TypeOK, Calls
    <3>2. row'.offers = IF "offers" \in call[Submission].writes
                        THEN call[Submission].copy.offers ELSE row.offers
      BY <2>1, <3>1, OverwrittenRow
    <3> QED
      BY <2>1, <3>2 DEF House, OffersKept, IInv, NothingYet, Early
  <2> QED
    BY <2>1, <2>3, <2>4 DEF House, OffersKept, NoFullHouseLeft
<1>4. CASE TryComplete
  <2>1. /\ at = "try" /\ at' = IF ShouldComplete THEN "complete" ELSE "done"
        /\ UNCHANGED <<row, terms, late, answer, offers, call>>
    BY <1>4 DEF TryComplete
  <2>2. FullHouse' = FullHouse
    BY <2>1 DEF FullHouse
  <2>3. NoFullHouseLeft'
    BY <2>1, <2>2, FullHouseCompletes DEF House, OffersKept, NoFullHouseLeft
  <2> QED
    BY <2>1, <2>3 DEF House, CopiesEnd, SavesEnd, OffersKept, Early
<1>5. CASE AlreadyCompleted
  BY <1>5 DEF AlreadyCompleted, House, CopiesEnd, SavesEnd, OffersKept, NoFullHouseLeft, Early
<1>6. CASE BeginComplete(Submission)
  <2> DEFINE copy == [row EXCEPT !.status = "completed", !.winner = Winner(row.offers)]
  <2>1. /\ at = "complete" /\ Read(Submission, "complete", copy)
        /\ UNCHANGED <<row, terms, late, answer, offers, at>>
    BY <1>6 DEF BeginComplete, MayComplete
  <2>2. copy.status = "completed"
    BY DEF IInv, TypeOK, Rows
  <2> HIDE DEF copy
  <2>3. /\ call'[Submission].copy = copy /\ ~call'[Submission].saving
        /\ call'[Submission].op = "complete"
        /\ \A b \in Actors : b # Submission => call'[b] = call[b]
    BY <1>0, <2>1 DEF Read, IInv, TypeOK
  <2>4. CopiesEnd' /\ SavesEnd'
    BY <1>0, <2>1, <2>2, <2>3, CallEnds DEF Early
  <2> QED
    BY <2>1, <2>4 DEF House, OffersKept, NoFullHouseLeft
<1>7. CASE Reload(Submission)
  BY <1>0, <1>7, ReloadKeepsHouse
<1>8. CASE Save(Submission)
  <2>1. at' = "done" /\ Forget(Submission) /\ call[Submission].op \in {"complete", "cancel"}
    BY <1>8 DEF Save
  <2>3. row'.status # "active" \/ (row' = row /\ call[Submission].op = "cancel")
    BY <1>0, <1>8, SaveEnds
  <2>4. /\ call'[Submission].op = "none" /\ ~call'[Submission].saving
        /\ \A b \in Actors : b # Submission => call'[b] = call[b]
    BY <1>0, <2>1, CallForgotten DEF IInv
  <2>5. CopiesEnd' /\ SavesEnd'
    BY <1>0, <2>1, <2>3, <2>4, CallEnds DEF Early
  <2>6. call[Submission].op = "complete"
    BY <2>1 DEF House, CopiesEnd
  <2> QED
    BY <2>1, <2>3, <2>5, <2>6 DEF House, OffersKept, NoFullHouseLeft
<1>9. CASE SubmissionFails
  <2>1. /\ Forget(Submission) /\ at' \in {"done", "failed"}
        /\ \/ row' = [row EXCEPT !.status = "expired"]
           \/ row' = row /\ at' = "failed"
    BY <1>9 DEF SubmissionFails
  <2>2. [row EXCEPT !.status = "expired"].status = "expired"
    BY DEF IInv, TypeOK, Rows
  <2>3. /\ call'[Submission].op = "none" /\ ~call'[Submission].saving
        /\ \A b \in Actors : b # Submission => call'[b] = call[b]
    BY <1>0, <2>1, CallForgotten DEF IInv
  <2>4. CopiesEnd' /\ SavesEnd'
    BY <1>0, <2>1, <2>2, <2>3, CallEnds DEF Early
  <2> QED
    BY <2>1, <2>2, <2>4 DEF House, OffersKept, NoFullHouseLeft
<1> QED
  BY <1>1, <1>2, <1>3, <1>4, <1>5, <1>6, <1>7, <1>8, <1>9 DEF SubmissionStep

(* Steps of a user: what is saved over the row ends the auction, or leaves  *)
(* the row as it is.                                                        *)
LEMMA UserKeepsHouse == ASSUME IInv, House, NEW u \in Users, UserStep(u) PROVE House'
<1>1. u \in Actors /\ u # Submission /\ Submission \in Actors
  BY DEF Actors
<1>2. CASE BeginComplete(u) \/ BeginCancel(u)
  <2>1. PICK op, copy :
          /\ Read(u, op, copy) /\ copy.status # "active"
          /\ UNCHANGED <<row, terms, late, answer, offers, at>>
    <3>1. /\ [row EXCEPT !.status = "completed", !.winner = Winner(row.offers)].status = "completed"
          /\ [row EXCEPT !.status = "cancelled"].status = "cancelled"
      BY DEF IInv, TypeOK, Rows
    <3> QED
      BY <1>2, <3>1 DEF BeginComplete, BeginCancel
  <2>2. /\ call'[u].copy = copy /\ ~call'[u].saving
        /\ \A b \in Actors : b # u => call'[b] = call[b]
    BY <1>1, <2>1 DEF Read, IInv, TypeOK
  <2>3. FullHouse' = FullHouse
    BY <2>1 DEF FullHouse
  <2>4. CopiesEnd' /\ SavesEnd'
    BY <1>1, <2>1, <2>2, CallEnds DEF Early
  <2> QED
    BY <1>1, <2>1, <2>2, <2>3, <2>4 DEF House, OffersKept, NoFullHouseLeft
<1>3. CASE Reload(u)
  BY <1>1, <1>3, ReloadKeepsHouse
<1>4. CASE Save(u) \/ UserCallFails(u)
  <2>1. Forget(u) /\ UNCHANGED <<terms, offers, at>>
    BY <1>1, <1>4 DEF Save, UserCallFails
  <2>2. row' = row \/ row'.status # "active"
    BY <1>1, <1>4, SaveEnds DEF UserCallFails
  <2>3. /\ call'[u].op = "none" /\ ~call'[u].saving
        /\ \A b \in Actors : b # u => call'[b] = call[b]
    BY <1>1, <2>1, CallForgotten DEF IInv
  <2>4. FullHouse' = FullHouse
    BY <2>1 DEF FullHouse
  <2>5. CopiesEnd' /\ SavesEnd'
    BY <1>1, <2>1, <2>2, <2>3, CallEnds DEF Early
  <2> QED
    BY <1>1, <2>1, <2>2, <2>3, <2>4, <2>5 DEF House, OffersKept, NoFullHouseLeft
<1> QED
  BY <1>2, <1>3, <1>4 DEF UserStep

(* No full house is left active, whatever users completed and cancelled at  *)
(* the same time and however their saves overlapped: what FullHouseSettles  *)
(* rests on besides fairness.                                               *)
THEOREM FullHouseNeverLeft == Spec => []NoFullHouseLeft
<1>1. Init => House
  BY DEF Init, House, CopiesEnd, SavesEnd, OffersKept, NoFullHouseLeft, NoCall,
     Actors
<1>2. IInv /\ House /\ [Next]_vars => House'
  <2> SUFFICES ASSUME IInv, House, [Next]_vars PROVE House'
    OBVIOUS
  <2>1. CASE StartAuction
    <3>1. at = "before" /\ at' = "collect" /\ call' = call
      BY <2>1 DEF StartAuction
    <3>2. \A a \in Actors : call[a].op = "none" /\ ~call[a].saving
      BY <3>1 DEF IInv, NothingYet, SubmissionFits
    <3> QED
      BY <3>1, <3>2 DEF House, CopiesEnd, SavesEnd, OffersKept, NoFullHouseLeft
  <2>2. ASSUME UNCHANGED <<row, terms, offers, at, call>> PROVE House'
    BY <2>2 DEF House, CopiesEnd, SavesEnd, OffersKept, NoFullHouseLeft, FullHouse, Early
  <2>3. CASE DeadlinePasses
    BY <2>2, <2>3 DEF DeadlinePasses
  <2>4. ASSUME NEW p \in Partners, NEW what \in {"offer", "nothing"}, PartnerAnswers(p, what)
        PROVE  House'
    BY <2>2, <2>4 DEF PartnerAnswers
  <2>5. CASE UNCHANGED vars
    BY <2>2, <2>5 DEF vars
  <2> QED
    BY <2>1, <2>3, <2>4, <2>5, SubmissionKeepsHouse, UserKeepsHouse DEF Next
<1>3. House => NoFullHouseLeft
  BY DEF House
<1> QED
  BY <1>1, <1>2, <1>3, AlwaysAward, PTL DEF Spec
=============================================================================
