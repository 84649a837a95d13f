---------------------------- MODULE MCGlPosting ----------------------------
(* Two accounts of opposite normal balance; entries that name the accounts in
   opposite orders, name one twice, are a cent off, or
   further, which createEntry refuses. *)
EXTENDS GlPosting

CONSTANTS Cash, Sales

MCAccounts == {Cash, Sales}
MCNormalBalance == [a \in MCAccounts |-> IF a = Cash THEN "debit" ELSE "credit"]

At(a, type, amount) == [account |-> a, type |-> type, amount |-> amount]

MCLineLists == {
    <<At(Cash, "debit", 2), At(Sales, "credit", 2)>>,
    <<At(Sales, "credit", 3), At(Cash, "debit", 1), At(Cash, "debit", 1)>>,
    <<At(Cash, "credit", 2), At(Sales, "credit", 1)>>,
    <<At(Cash, "debit", 3), At(Sales, "credit", 1)>> }
=============================================================================
