--------------------------- MODULE GeneralLedger ---------------------------
(* What the general ledger promises: posting a journal entry is one step that
   marks the entry and moves the balance of every account by the entry's net
   change. `shaky` holds the entries and accounts that two posts
   worked on at the same time: for them nothing is promised.               *)
EXTENDS Sums

CONSTANTS
    Accounts,       \* accounts of the ledger
    NormalBalance,  \* account -> "debit" or "credit", the side on which it grows
    Entries         \* identifiers of journal entries

VARIABLES
    status,   \* entry -> "none", "draft" or "posted"
    lines,    \* entry -> its lines
    balance,  \* account -> current balance, in cents
    shaky

vars == <<status, lines, balance, shaky>>

(* What a line adds to the balance of its account. *)
Change(line) ==
    IF NormalBalance[line.account] = line.type THEN line.amount ELSE -line.amount

(* What the lines add to account a. *)
Net(ls, a) == Sum([i \in DOMAIN ls |-> Change(ls[i])], {i \in DOMAIN ls : ls[i].account = a})

-----------------------------------------------------------------------------

Init ==
    /\ status = [e \in Entries |-> "none"]
    /\ lines = [e \in Entries |-> <<>>]
    /\ balance = [a \in Accounts |-> 0]
    /\ shaky = {}

Create ==
    \E e \in Entries :
        /\ status[e] = "none"
        /\ status' = [status EXCEPT ![e] = "draft"]
        /\ \A f \in Entries \ {e} : lines'[f] = lines[f]
        /\ UNCHANGED <<balance, shaky>>

Post ==
    \E e \in Entries :
        /\ status[e] = "draft" \/ e \in shaky
        /\ status' = [status EXCEPT ![e] = "posted"]
        /\ \A a \in Accounts \ shaky : balance'[a] = balance[a] + Net(lines[e], a)
        /\ UNCHANGED <<lines, shaky>>

(* Two posts begin to overlap. *)
Overlap ==
    /\ shaky \subseteq shaky'
    /\ UNCHANGED <<status, lines, balance>>

Next == Create \/ Post \/ Overlap

Spec == Init /\ [][Next]_vars
=============================================================================
