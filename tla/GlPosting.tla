----------------------------- MODULE GlPosting -----------------------------
(* GlPostingService (Module_17): journal entries are created as drafts and
   posted to the balances of their accounts. A post is one PostgreSQL
   transaction at READ COMMITTED, TypeORM's default: a read sees what is
   committed and the transaction's own writes; a write locks its row until the
   transaction ends, and a transaction that waits for a row in a circle of
   waiting transactions is aborted. The service reads an account, changes the
   balance in memory and writes it back, and reads the entry's status without
   a lock. Amounts are in cents.                                            *)
EXTENDS Sequences, FiniteSets, Sums

CONSTANTS
    Accounts,       \* rows of gl_accounts
    NormalBalance,  \* account -> "debit" or "credit"
    Entries,        \* identifiers of journal entries
    Requests,       \* calls of postEntry that may be in flight at once
    LineLists,      \* the lists of lines that callers of createEntry submit
    NoEntry         \* the entry of a request that is not in flight

Types == {"debit", "credit"}
Line == [account : Accounts, type : Types, amount : Nat]

ASSUME GlAssumption ==
    /\ NormalBalance \in [Accounts -> Types]
    /\ LineLists \subseteq Seq(Line)
    /\ NoEntry \notin Entries
    /\ IsFiniteSet(Accounts) /\ IsFiniteSet(Entries) /\ IsFiniteSet(Requests)

VARIABLES
    status,   \* journal_entries.status, "none" before the entry is created
    lines,    \* the gl_entries of an entry
    balance,  \* gl_accounts.current_balance as committed
    pc,       \* request -> what its transaction does next
    entry,    \* request -> the entry it posts
    next,     \* request -> index of the line it is at
    read,     \* request -> balance read for that line
    written,  \* request -> account -> balance it wrote, for the accounts in locked
    locked,   \* request -> accounts whose rows it has locked
    booked,   \* ghost: account -> sum of the changes of all committed posts
    net,      \* ghost: request -> account -> changes it has made so far
    touched,  \* ghost: request -> accounts it has read
    posts,    \* ghost: entry -> number of committed posts
    overlap   \* ghost: entries and accounts two transactions in flight have both read

rows == <<status, lines, balance>>
own == <<read, written, locked, net, touched>>
vars == <<rows, pc, entry, next, own, booked, posts, overlap>>

InFlight == {t \in Requests : pc[t] # "idle"}
Current(t) == lines[entry[t]][next[t]]

-----------------------------------------------------------------------------
(* createEntry: the header and its lines are inserted in one transaction, which
   nobody sees before it commits; a failure leaves nothing behind. An entry is
   accepted when its sides differ by at most a cent (a difference of exactly one
   cent passes or not as the floating point subtraction rounds it).          *)

(* Sum of the lines of one side. *)
Total(ls, type) == Sum([i \in DOMAIN ls |-> ls[i].amount], {i \in DOMAIN ls : ls[i].type = type})

(* MUTANT of Balanced: the tolerance is a whole unit. *)
BalancedToAUnit(ls) ==
    Total(ls, "debit") - Total(ls, "credit") \in -100..100

Balanced(ls) == Total(ls, "debit") - Total(ls, "credit") \in -1..1

CreateEntry ==
    \E e \in Entries, ls \in LineLists :
        /\ status[e] = "none"
        /\ Balanced(ls)
        /\ status' = [status EXCEPT ![e] = "draft"]
        /\ lines' = [lines EXCEPT ![e] = ls]
        /\ UNCHANGED <<balance, pc, entry, next, own, booked, posts, overlap>>

-----------------------------------------------------------------------------
(* postEntry *)

(* What the line adds to the balance of its account. *)
Change(line) ==
    IF NormalBalance[line.account] = line.type THEN line.amount ELSE -line.amount

(* The balance that t reads: its own write, or what is committed. *)
View(t, a) == IF a \in locked[t] THEN written[t][a] ELSE balance[a]

(* MUTANT of AtLine: one line too many. *)
AtLinePastLast(t, e, i) ==
    /\ next' = [next EXCEPT ![t] = i]
    /\ pc' = [pc EXCEPT ![t] = IF i <= Len(lines[e]) + 1 THEN "read" ELSE "mark"]

(* t has come to line i of entry e, or past the last one. *)
AtLine(t, e, i) ==
    /\ next' = [next EXCEPT ![t] = i]
    /\ pc' = [pc EXCEPT ![t] = IF i <= Len(lines[e]) THEN "read" ELSE "mark"]

(* MUTANT of Postable: the status is not looked at. *)
PostableTwice(e) == status[e] # "none"

(* Neither not found nor posted. *)
Postable(e) == status[e] \notin {"none", "posted"}

(* The entry is read with its lines; a refused call changes nothing. *)
LoadEntry(t) ==
    \E e \in Entries :
        /\ pc[t] = "idle"
        /\ Postable(e)
        /\ entry' = [entry EXCEPT ![t] = e]
        /\ AtLine(t, e, 1)
        /\ overlap' = IF \E u \in InFlight : entry[u] = e THEN overlap \cup {e} ELSE overlap
        /\ UNCHANGED <<rows, own, booked, posts>>

(* MUTANT of ReadAccount: the account is read through the repository, outside the
   transaction. *)
ReadCommittedAccount(t) ==
    LET a == Current(t).account IN
    /\ pc[t] = "read"
    /\ pc' = [pc EXCEPT ![t] = "save"]
    /\ read' = [read EXCEPT ![t] = balance[a]]
    /\ touched' = [touched EXCEPT ![t] = @ \cup {a}]
    /\ overlap' = IF \E u \in InFlight \ {t} : a \in touched[u] THEN overlap \cup {a} ELSE overlap
    /\ UNCHANGED <<rows, entry, next, written, locked, net, booked, posts>>

ReadAccount(t) ==
    LET a == Current(t).account IN
    /\ pc[t] = "read"
    /\ pc' = [pc EXCEPT ![t] = "save"]
    /\ read' = [read EXCEPT ![t] = View(t, a)]
    /\ touched' = [touched EXCEPT ![t] = @ \cup {a}]
    /\ overlap' = IF \E u \in InFlight \ {t} : a \in touched[u] THEN overlap \cup {a} ELSE overlap
    /\ UNCHANGED <<rows, entry, next, written, locked, net, booked, posts>>

(* t waits for u to end: u has locked the row that t is about to write. *)
WaitsFor(t, u) ==
    /\ t # u
    /\ \/ pc[t] = "save" /\ Current(t).account \in locked[u]
       \/ pc[t] = "mark" /\ pc[u] = "commit" /\ entry[u] = entry[t]

Waits(t) == \E u \in Requests : WaitsFor(t, u)

(* MUTANT of SaveAccount: written through the repository, outside the transaction. *)
SaveAccountAtOnce(t) ==
    LET line == Current(t)
        a == line.account IN
    /\ pc[t] = "save"
    /\ ~Waits(t)
    /\ balance' = [balance EXCEPT ![a] = read[t] + Change(line)]
    /\ net' = [net EXCEPT ![t][a] = @ + Change(line)]
    /\ AtLine(t, entry[t], next[t] + 1)
    /\ UNCHANGED <<status, lines, entry, read, written, locked, touched, booked, posts, overlap>>

(* The balance is written back; its row stays locked. *)
SaveAccount(t) ==
    LET line == Current(t)
        a == line.account IN
    /\ pc[t] = "save"
    /\ ~Waits(t)
    /\ written' = [written EXCEPT ![t][a] = read[t] + Change(line)]
    /\ locked' = [locked EXCEPT ![t] = @ \cup {a}]
    /\ net' = [net EXCEPT ![t][a] = @ + Change(line)]
    /\ AtLine(t, entry[t], next[t] + 1)
    /\ UNCHANGED <<rows, entry, read, touched, booked, posts, overlap>>

(* The entry's row is written and stays locked. *)
SaveEntry(t) ==
    /\ pc[t] = "mark"
    /\ ~Waits(t)
    /\ pc' = [pc EXCEPT ![t] = "commit"]
    /\ UNCHANGED <<rows, entry, next, own, booked, posts, overlap>>

(* MUTANT of End: a connection is given back with its transaction still open. *)
EndKeepingLocks(t) ==
    /\ pc' = [pc EXCEPT ![t] = "idle"]
    /\ entry' = [entry EXCEPT ![t] = NoEntry]
    /\ next' = [next EXCEPT ![t] = 1]
    /\ net' = [net EXCEPT ![t] = [a \in Accounts |-> 0]]
    /\ touched' = [touched EXCEPT ![t] = {}]
    /\ UNCHANGED <<read, written, locked>>

(* The end of a transaction: its locks are released and its copies forgotten. *)
End(t) ==
    /\ pc' = [pc EXCEPT ![t] = "idle"]
    /\ entry' = [entry EXCEPT ![t] = NoEntry]
    /\ next' = [next EXCEPT ![t] = 1]
    /\ read' = [read EXCEPT ![t] = 0]
    /\ written' = [written EXCEPT ![t] = [a \in Accounts |-> 0]]
    /\ locked' = [locked EXCEPT ![t] = {}]
    /\ net' = [net EXCEPT ![t] = [a \in Accounts |-> 0]]
    /\ touched' = [touched EXCEPT ![t] = {}]

(* The writes of t become visible, all at once. *)
Commit(t) ==
    /\ pc[t] = "commit"
    /\ status' = [status EXCEPT ![entry[t]] = "posted"]
    /\ balance' = [a \in Accounts |-> View(t, a)]
    /\ booked' = [a \in Accounts |-> booked[a] + net[t][a]]
    /\ posts' = [posts EXCEPT ![entry[t]] = @ + 1]
    /\ End(t)
    /\ UNCHANGED <<lines, overlap>>

(* A database call fails: the callback throws and the transaction is rolled back. *)
Rollback(t) ==
    /\ pc[t] # "idle"
    /\ End(t)
    /\ UNCHANGED <<rows, booked, posts, overlap>>

(* PostgreSQL aborts a transaction that waits in a circle. *)
InCircle(t) ==
    \E S \in SUBSET Requests :
        /\ t \in S
        /\ \A s \in S : (\E u \in S : WaitsFor(s, u)) /\ (\E u \in S : WaitsFor(u, s))

AbortDeadlock(t) == InCircle(t) /\ Rollback(t)

-----------------------------------------------------------------------------

Init ==
    /\ status = [e \in Entries |-> "none"]
    /\ lines = [e \in Entries |-> <<>>]
    /\ balance = [a \in Accounts |-> 0]
    /\ pc = [t \in Requests |-> "idle"]
    /\ entry = [t \in Requests |-> NoEntry]
    /\ next = [t \in Requests |-> 1]
    /\ read = [t \in Requests |-> 0]
    /\ written = [t \in Requests |-> [a \in Accounts |-> 0]]
    /\ locked = [t \in Requests |-> {}]
    /\ booked = [a \in Accounts |-> 0]
    /\ net = [t \in Requests |-> [a \in Accounts |-> 0]]
    /\ touched = [t \in Requests |-> {}]
    /\ posts = [e \in Entries |-> 0]
    /\ overlap = {}

Next ==
    \/ CreateEntry
    \/ \E t \in Requests :
          \/ LoadEntry(t)
          \/ ReadAccount(t)
          \/ SaveAccount(t)
          \/ SaveEntry(t)
          \/ Commit(t)
          \/ Rollback(t)
          \/ AbortDeadlock(t)

(* Statements that do not wait return; a row lock is granted in the order of the
   requests for it; the deadlock detector runs. Nobody has to call the service. *)
Fairness ==
    \A t \in Requests :
        /\ WF_vars(ReadAccount(t))
        /\ SF_vars(SaveAccount(t))
        /\ SF_vars(SaveEntry(t))
        /\ WF_vars(Commit(t))
        /\ WF_vars(AbortDeadlock(t))

Spec == Init /\ [][Next]_vars

FairSpec == Spec /\ Fairness

-----------------------------------------------------------------------------
(* Properties *)

(* The variables keep their types. *)
TypeOK ==
    /\ status \in [Entries -> {"none", "draft", "posted"}]
    /\ lines \in [Entries -> LineLists \cup {<<>>}]
    /\ balance \in [Accounts -> Int]
    /\ pc \in [Requests -> {"idle", "read", "save", "mark", "commit"}]
    /\ entry \in [Requests -> Entries \cup {NoEntry}]
    /\ \A t \in Requests : pc[t] # "idle" => entry[t] \in Entries
    /\ next \in [Requests -> Nat \ {0}]
    /\ \A t \in Requests : pc[t] \in {"read", "save"} => next[t] <= Len(lines[entry[t]])
    /\ read \in [Requests -> Int]
    /\ written \in [Requests -> [Accounts -> Int]]
    /\ locked \in [Requests -> SUBSET Accounts]
    /\ booked \in [Accounts -> Int]
    /\ net \in [Requests -> [Accounts -> Int]]
    /\ touched \in [Requests -> SUBSET Accounts]
    /\ posts \in [Entries -> Nat]
    /\ overlap \subseteq Accounts \cup Entries

(* An account that no two transactions ever read at the same time holds exactly
   the changes of all committed posts: none is lost, none counted twice, and
   nothing of a rolled back post remains, although the balance is read, changed in
   memory and written back. *)
NoLostChange == \A a \in Accounts \ overlap : balance[a] = booked[a]

(* An entry on which no two posts overlapped is posted at most once, and exactly
   when its status says so. *)
PostedOnce ==
    \A e \in Entries \ overlap : posts[e] = IF status[e] = "posted" THEN 1 ELSE 0

Side(type) == {a \in Accounts : NormalBalance[a] = type}

(* The trial balance: while no two posts have overlapped on an account, the sides
   of the ledger differ by at most the cent that each posted entry may be off. *)
TrialBalanceDrift ==
    overlap \cap Accounts = {} =>
        Sum(balance, Side("debit")) - Sum(balance, Side("credit"))
            \in -Sum(posts, Entries)..Sum(posts, Entries)

GL == INSTANCE GeneralLedger WITH shaky <- overlap

(* Each post appears as one step that moves all balances of the entry by its net
   change and marks it, even for entries that name an account several times; no
   partial post is ever visible. Only rows on which posts overlapped are exempt. *)
ImplementsLedger == GL!Spec

(* Every call of postEntry ends, also when posts wait for each other's rows in
   opposite orders. *)
PostSettles == \A t \in Requests : pc[t] # "idle" ~> pc[t] = "idle"
=============================================================================
