-------------------------- MODULE GlPostingProofs --------------------------
(* Proofs about GlPosting, for every set of accounts, entries, line lists and
   concurrent calls. The inductive invariant says what a transaction in flight
   knows about an account that no other transaction has read: its view is the booked
   balance plus the changes it has made itself. On top of it come the books: what
   the saved lines of an entry have added, by account and by side, from which the
   trial balance and the refinement of GeneralLedger follow. The sums need lemmas,
   by induction on finite sets, that come first.                             *)
EXTENDS GlPosting, FiniteSetTheorems, TLAPS

-----------------------------------------------------------------------------
(* Sums over finite sets *)

(* A set of naturals that holds 0, and with each number the next one, holds them all. *)
LEMMA SetInduction ==
    ASSUME NEW A \in SUBSET Nat, 0 \in A, \A n \in A : n + 1 \in A
    PROVE  A = Nat
<1> SUFFICES ASSUME Nat \ A # {} PROVE FALSE
  OBVIOUS
<1>1. PICK R : IsWellFoundedOn(R, Nat) /\ \A m, n \in Nat : m < n => <<m, n>> \in R
  <2>1. \A m, n \in Nat : m < n => <<m, n>> \in OpToRel(<, Nat)
    BY Zenon DEF OpToRel
  <2> QED
    BY <2>1, NatLessThanWellFounded, Zenon
<1>2. PICK x \in Nat \ A : \A y \in Nat \ A : ~ (<<y, x>> \in R)
  BY <1>1, WFMin, Zenon
<1>3. x # 0 /\ x - 1 \in Nat /\ x - 1 < x
  OBVIOUS
<1>4. x - 1 \in A
  BY <1>1, <1>2, <1>3
<1> QED
  BY <1>4

(* Induction on the subsets of a finite set. *)
LEMMA SubsetInduction ==
    ASSUME NEW U, IsFiniteSet(U), NEW G,
           \A T \in SUBSET U : (\A V \in SUBSET T : V # T => V \in G) => T \in G
    PROVE  \A T \in SUBSET U : T \in G
<1> DEFINE A == {n \in Nat : \A T \in SUBSET U : Cardinality(T) <= n => T \in G}
<1>1. \A T \in SUBSET U : /\ IsFiniteSet(T) /\ Cardinality(T) \in Nat
                          /\ \A V \in SUBSET T : V # T => Cardinality(V) \in Nat /\ Cardinality(V) < Cardinality(T)
  <2> TAKE T \in SUBSET U
  <2>1. IsFiniteSet(T) /\ Cardinality(T) \in Nat
    BY FS_Subset, FS_CardinalityType
  <2>2. ASSUME NEW V \in SUBSET T, V # T
        PROVE  Cardinality(V) \in Nat /\ Cardinality(V) < Cardinality(T)
    BY <2>1, <2>2, FS_Subset, FS_CardinalityType
  <2> QED
    BY <2>1, <2>2
<1>2. 0 \in A
  BY <1>1
<1>3. ASSUME NEW n \in A PROVE n + 1 \in A
  <2> SUFFICES ASSUME NEW T \in SUBSET U, Cardinality(T) <= n + 1 PROVE T \in G
    OBVIOUS
  <2>1. \A V \in SUBSET T : V # T => V \in SUBSET U /\ Cardinality(V) <= n
    BY <1>1
  <2> QED
    BY <2>1
<1>4. A = Nat
  BY <1>2, <1>3, SetInduction
<1> QED
  BY <1>1, <1>4

(* The element that Sum takes from a set, and the function by which it goes through
   the subsets of S. *)
Pick(T) == CHOOSE i \in T : TRUE
Step(f, g, T) == IF T = {} THEN 0 ELSE f[Pick(T)] + g[T \ {Pick(T)}]
Partial(f, S) == CHOOSE g : g = [T \in SUBSET S |-> Step(f, g, T)]

(* Sum is read off that function. *)
LEMMA SumIsPartial == \A f, S : Sum(f, S) = Partial(f, S)[S]
BY DEF Sum, MapThenFoldSet, Partial, Step, Pick

(* The element is one of the set. *)
LEMMA PickIn == \A T : T # {} => Pick(T) \in T
BY DEF Pick

(* The function exists: it is built up from the small subsets to the large ones. *)
LEMMA PartialDef ==
    ASSUME NEW S, IsFiniteSet(S), NEW f, \A i \in S : f[i] \in Int
    PROVE  Partial(f, S) = [T \in SUBSET S |-> Step(f, Partial(f, S), T)]
<1> DEFINE Upto(g, n) == \A T \in SUBSET S : Cardinality(T) <= n => g[T] = Step(f, g, T)
           A == {n \in Nat : \E g \in [SUBSET S -> Int] : Upto(g, n)}
<1>1. \A T \in SUBSET S : /\ Cardinality(T) \in Nat
                          /\ T = {} <=> Cardinality(T) = 0
                          /\ T # {} => /\ Pick(T) \in T
                                       /\ Cardinality(T \ {Pick(T)}) = Cardinality(T) - 1
  BY PickIn, FS_Subset, FS_CardinalityType, FS_EmptySet, FS_RemoveElement
<1>2. 0 \in A
  <2> DEFINE g == [T \in SUBSET S |-> 0]
  <2>1. ASSUME NEW T \in SUBSET S, Cardinality(T) <= 0
        PROVE  g[T] = Step(f, g, T)
    <3>1. IsFiniteSet(T) /\ Cardinality(T) \in Nat
      BY FS_Subset, FS_CardinalityType
    <3>2. T = {}
      BY <2>1, <3>1, FS_EmptySet
    <3> QED
      BY <3>2 DEF Step
  <2>2. Upto(g, 0) /\ g \in [SUBSET S -> Int]
    BY <2>1
  <2> QED
    BY <2>2
<1>3. ASSUME NEW n \in A PROVE n + 1 \in A
  <2>1. PICK g \in [SUBSET S -> Int] : Upto(g, n)
    OBVIOUS
  <2> DEFINE h == [T \in SUBSET S |-> Step(f, g, T)]
  <2>2. h \in [SUBSET S -> Int]
    <3> SUFFICES ASSUME NEW T \in SUBSET S PROVE Step(f, g, T) \in Int
      OBVIOUS
    <3> QED
      BY PickIn DEF Step
  <2>3. ASSUME NEW T \in SUBSET S, Cardinality(T) <= n + 1
        PROVE  h[T] = Step(f, h, T)
    <3>1. CASE T = {}
      BY <3>1 DEF Step
    <3>2. CASE T # {}
      <4> DEFINE V == T \ {Pick(T)}
      <4>1. V \in SUBSET S /\ Cardinality(V) <= n
        BY <1>1, <2>3, <3>2
      <4>2. h[V] = g[V]
        BY <2>1, <4>1
      <4> QED
        BY <3>2, <4>2 DEF Step
    <3> QED
      BY <3>1, <3>2
  <2>4. Upto(h, n + 1)
    BY <2>3
  <2>5. n + 1 \in Nat
    OBVIOUS
  <2> HIDE DEF Upto, h
  <2> QED
    BY <2>2, <2>4, <2>5
<1>4. A = Nat
  BY <1>2, <1>3, SetInduction
<1>5. PICK g \in [SUBSET S -> Int] : Upto(g, Cardinality(S))
  BY <1>1, <1>4
<1>6. \A T \in SUBSET S : g[T] = Step(f, g, T)
  BY <1>5, FS_Subset, FS_CardinalityType
<1>7. g = [T \in SUBSET S |-> Step(f, g, T)]
  BY <1>6
<1> QED
  BY <1>7, Zenon DEF Partial

(* Its values. *)
LEMMA PartialValue ==
    ASSUME NEW S, IsFiniteSet(S), NEW f, \A i \in S : f[i] \in Int
    PROVE  \A T \in SUBSET S : Partial(f, S)[T] = Step(f, Partial(f, S), T)
<1> DEFINE p == Partial(f, S)
<1>1. p = [T \in SUBSET S |-> Step(f, p, T)]
  BY PartialDef
<1> HIDE DEF p
<1>2. \A T \in SUBSET S : p[T] = Step(f, p, T)
  BY <1>1
<1> QED
  BY <1>2 DEF p

(* It has the same values on a smaller set. *)
LEMMA PartialOfSubset ==
    ASSUME NEW S, IsFiniteSet(S), NEW T \in SUBSET S, NEW f, \A i \in S : f[i] \in Int
    PROVE  \A V \in SUBSET T : Partial(f, S)[V] = Partial(f, T)[V]
<1> DEFINE G == {V \in SUBSET T : Partial(f, S)[V] = Partial(f, T)[V]}
<1>1. IsFiniteSet(T)
  BY FS_Subset
<1>2. \A V \in SUBSET T : Partial(f, S)[V] = Step(f, Partial(f, S), V)
  BY PartialValue
<1>3. \A V \in SUBSET T : Partial(f, T)[V] = Step(f, Partial(f, T), V)
  BY <1>1, PartialValue
<1>4. ASSUME NEW V \in SUBSET T, \A W \in SUBSET V : W # V => W \in G
      PROVE  V \in G
  <2>1. V # {} => V \ {Pick(V)} \in G
    BY <1>4, PickIn
  <2> QED
    BY <1>2, <1>3, <2>1 DEF Step
<1>5. \A V \in SUBSET T : V \in G
  <2> HIDE DEF G
  <2> QED
    BY <1>1, <1>4, SubsetInduction
<1> QED
  BY <1>5

(* The sum over nothing. *)
LEMMA SumEmpty == \A f : Sum(f, {}) = 0
<1> TAKE f
<1>1. Partial(f, {}) = [T \in SUBSET {} |-> Step(f, Partial(f, {}), T)]
  BY FS_EmptySet, PartialDef
<1> QED
  BY <1>1, SumIsPartial DEF Step

(* The element that is taken first adds its value to the sum of the rest. *)
LEMMA SumPick ==
    ASSUME NEW S, IsFiniteSet(S), S # {}, NEW f, \A i \in S : f[i] \in Int
    PROVE  Pick(S) \in S /\ Sum(f, S) = f[Pick(S)] + Sum(f, S \ {Pick(S)})
<1> DEFINE T == S \ {Pick(S)}
<1>1. Pick(S) \in S
  BY PickIn
<1>2. Partial(f, S)[S] = f[Pick(S)] + Partial(f, S)[T]
  BY PartialValue DEF Step
<1>3. Partial(f, S)[T] = Partial(f, T)[T]
  BY PartialOfSubset
<1> QED
  BY <1>1, <1>2, <1>3, SumIsPartial

(* A sum of integers is an integer. *)
LEMMA SumType ==
    ASSUME NEW S, IsFiniteSet(S), NEW f, \A i \in S : f[i] \in Int
    PROVE  Sum(f, S) \in Int
<1> DEFINE G == {T \in SUBSET S : Sum(f, T) \in Int}
<1>1. ASSUME NEW T \in SUBSET S, \A V \in SUBSET T : V # T => V \in G
      PROVE  T \in G
  <2>1. CASE T = {}
    BY <2>1, SumEmpty
  <2>2. CASE T # {}
    <3>1. IsFiniteSet(T)
      BY FS_Subset
    <3>2. Pick(T) \in T /\ Sum(f, T) = f[Pick(T)] + Sum(f, T \ {Pick(T)})
      BY <2>2, <3>1, SumPick
    <3> QED
      BY <1>1, <3>2
  <2> QED
    BY <2>1, <2>2
<1>2. S \in G
  <2> HIDE DEF G
  <2> QED
    BY <1>1, SubsetInduction
<1> QED
  BY <1>2

(* Any element can be taken out first. *)
LEMMA SumAdd ==
    ASSUME NEW S, IsFiniteSet(S), NEW x \in S, NEW f, \A i \in S : f[i] \in Int
    PROVE  Sum(f, S) = f[x] + Sum(f, S \ {x})
<1> DEFINE G == {T \in SUBSET S : \A y \in T : Sum(f, T) = f[y] + Sum(f, T \ {y})}
<1>1. ASSUME NEW T \in SUBSET S, \A V \in SUBSET T : V # T => V \in G
      PROVE  T \in G
  <2> SUFFICES ASSUME NEW y \in T PROVE Sum(f, T) = f[y] + Sum(f, T \ {y})
    OBVIOUS
  <2> DEFINE p == Pick(T)
  <2>1. IsFiniteSet(T) /\ T # {}
    BY FS_Subset
  <2>2. p \in T /\ Sum(f, T) = f[p] + Sum(f, T \ {p})
    BY <2>1, SumPick
  <2>4. f[y] \in Int /\ f[p] \in Int
    BY <2>2
  <2> HIDE DEF p
  <2>3. CASE y # p
    <3> DEFINE W == T \ {y, p}
    <3>1. (T \ {p}) \ {y} = W /\ (T \ {y}) \ {p} = W
      OBVIOUS
    <3>2. Sum(f, T \ {p}) = f[y] + Sum(f, W)
      <4>1. T \ {p} \in G /\ y \in T \ {p}
        BY <1>1, <2>2, <2>3
      <4> QED
        BY <3>1, <4>1
    <3>3. Sum(f, T \ {y}) = f[p] + Sum(f, W)
      <4>1. T \ {y} \in G /\ p \in T \ {y}
        BY <1>1, <2>2, <2>3
      <4> QED
        BY <3>1, <4>1
    <3>4. Sum(f, W) \in Int
      BY <2>1, FS_Subset, SumType
    <3> HIDE DEF W, G
    <3> QED
      BY <2>2, <2>4, <3>2, <3>3, <3>4
  <2> QED
    BY <2>2, <2>3
<1>2. S \in G
  <2> HIDE DEF G
  <2> QED
    BY <1>1, SubsetInduction
<1> QED
  BY <1>2

(* A sum depends only on the values it adds up. *)
LEMMA SumCong ==
    ASSUME NEW S, IsFiniteSet(S), NEW f, NEW g, \A i \in S : f[i] \in Int /\ g[i] = f[i]
    PROVE  Sum(g, S) = Sum(f, S)
<1> DEFINE G == {T \in SUBSET S : Sum(g, T) = Sum(f, T)}
<1>1. ASSUME NEW T \in SUBSET S, \A V \in SUBSET T : V # T => V \in G
      PROVE  T \in G
  <2>1. CASE T = {}
    BY <2>1, SumEmpty
  <2>2. CASE T # {}
    <3>1. IsFiniteSet(T)
      BY FS_Subset
    <3>2. Pick(T) \in T /\ Sum(f, T) = f[Pick(T)] + Sum(f, T \ {Pick(T)})
      BY <2>2, <3>1, SumPick
    <3>3. \A i \in T : g[i] \in Int
      OBVIOUS
    <3>4. Sum(g, T) = g[Pick(T)] + Sum(g, T \ {Pick(T)})
      BY <2>2, <3>1, <3>3, SumPick
    <3> QED
      BY <1>1, <3>2, <3>4
  <2> QED
    BY <2>1, <2>2
<1>2. S \in G
  <2> HIDE DEF G
  <2> QED
    BY <1>1, SubsetInduction
<1> QED
  BY <1>2

(* The sum of two functions is the sum of their sums. *)
LEMMA SumPlus ==
    ASSUME NEW S, IsFiniteSet(S), NEW f, NEW g, NEW h,
           \A i \in S : f[i] \in Int /\ g[i] \in Int /\ h[i] = f[i] + g[i]
    PROVE  Sum(h, S) = Sum(f, S) + Sum(g, S)
<1> DEFINE G == {T \in SUBSET S : Sum(h, T) = Sum(f, T) + Sum(g, T)}
<1>1. ASSUME NEW T \in SUBSET S, \A V \in SUBSET T : V # T => V \in G
      PROVE  T \in G
  <2>1. CASE T = {}
    BY <2>1, SumEmpty
  <2>2. CASE T # {}
    <3>7. \A i \in T : h[i] \in Int
      OBVIOUS
    <3> DEFINE p == Pick(T)
               V == T \ {p}
    <3>1. IsFiniteSet(T)
      BY FS_Subset
    <3>2. p \in T /\ Sum(f, T) = f[p] + Sum(f, V)
      BY <2>2, <3>1, SumPick
    <3>3. Sum(g, T) = g[p] + Sum(g, V)
      BY <2>2, <3>1, SumPick
    <3>4. Sum(h, T) = h[p] + Sum(h, V)
      BY <2>2, <3>1, <3>7, SumPick
    <3>5. Sum(h, V) = Sum(f, V) + Sum(g, V)
      BY <1>1, <3>2
    <3>6. Sum(f, V) \in Int /\ Sum(g, V) \in Int
      BY <3>1, FS_RemoveElement, SumType
    <3> HIDE DEF V, p
    <3> QED
      BY <3>2, <3>3, <3>4, <3>5, <3>6
  <2> QED
    BY <2>1, <2>2
<1>2. S \in G
  <2> HIDE DEF G
  <2> QED
    BY <1>1, SubsetInduction
<1> QED
  BY <1>2

(* One value grows by d. *)
LEMMA SumChange ==
    ASSUME NEW S, IsFiniteSet(S), NEW x \in S, NEW d \in Int, NEW f, NEW g,
           \A i \in S : f[i] \in Int,
           \A i \in S \ {x} : g[i] = f[i], g[x] = f[x] + d
    PROVE  Sum(g, S) = Sum(f, S) + d
<1>1. Sum(f, S) = f[x] + Sum(f, S \ {x})
  BY SumAdd
<1>2. Sum(g, S) = g[x] + Sum(g, S \ {x})
  BY SumAdd
<1>3. Sum(g, S \ {x}) = Sum(f, S \ {x})
  BY FS_RemoveElement, SumCong
<1>4. Sum(f, S \ {x}) \in Int
  BY FS_RemoveElement, SumType
<1> QED
  BY <1>1, <1>2, <1>3, <1>4

-----------------------------------------------------------------------------
(* The invariant *)

(* An entry being posted exists; its lines therefore stay as they are. *)
Existing == \A t \in Requests : pc[t] # "idle" => status[entry[t]] # "none"

(* What is written was read before, and only while in flight. *)
ReadFirst ==
    \A t \in Requests :
        /\ locked[t] \subseteq touched[t]
        /\ pc[t] = "idle" => touched[t] = {}
        /\ pc[t] = "save" => Current(t).account \in touched[t]

(* A call that is not in flight works on no entry. *)
IdleRests == \A t \in Requests : pc[t] = "idle" => entry[t] = NoEntry

(* Two transactions share only what overlap holds. *)
Separate ==
    \A t, u \in Requests :
        t # u =>
            /\ touched[t] \cap touched[u] \subseteq overlap
            /\ pc[t] # "idle" /\ entry[t] = entry[u] => entry[t] \in overlap

(* The views of the transactions in flight. *)
Views ==
    \A t \in Requests :
        /\ \A a \in Accounts \ locked[t] : net[t][a] = 0
        /\ \A a \in locked[t] \ overlap : written[t][a] = booked[a] + net[t][a]
        /\ pc[t] = "save" /\ Current(t).account \notin overlap =>
              read[t] = booked[Current(t).account] + net[t][Current(t).account]

(* An entry that only one call works on is still a draft. *)
DraftInFlight ==
    \A t \in Requests :
        pc[t] # "idle" /\ entry[t] \notin overlap => status[entry[t]] = "draft"

IInv ==
    /\ TypeOK
    /\ Existing
    /\ ReadFirst
    /\ IdleRests
    /\ Separate
    /\ Views
    /\ DraftInFlight
    /\ NoLostChange
    /\ PostedOnce

-----------------------------------------------------------------------------
(* Lemmas on the operators *)

(* The line a call is at is a line, and what it adds is an integer. *)
LEMMA CurrentLine ==
    ASSUME TypeOK, NEW t \in Requests, pc[t] \in {"read", "save"}
    PROVE  /\ Current(t) \in Line
           /\ Current(t).account \in Accounts
           /\ Change(Current(t)) \in Int
<1>1. lines[entry[t]] \in Seq(Line)
  BY GlAssumption DEF TypeOK
<1>2. next[t] \in 1..Len(lines[entry[t]])
  BY <1>1 DEF TypeOK
<1>3. Current(t) \in Line
  BY <1>1, <1>2 DEF Current
<1>4. Change(Current(t)) \in Int
  BY <1>3, GlAssumption DEF Change, Line
<1> QED
  BY <1>3, <1>4 DEF Line

(* A transaction reads a balance. *)
LEMMA ViewType ==
    ASSUME TypeOK, NEW t \in Requests, NEW a \in Accounts
    PROVE  View(t, a) \in Int
BY DEF TypeOK, View

(* What a transaction sees of an account that no other one has read: the booked
   balance and its own changes. *)
LEMMA ViewIsOwn ==
    ASSUME IInv, NEW t \in Requests, NEW a \in Accounts, a \notin overlap
    PROVE  View(t, a) = booked[a] + net[t][a]
<1>1. CASE a \in locked[t]
  BY <1>1 DEF IInv, Views, View
<1>2. CASE a \notin locked[t]
  <2>1. net[t][a] = 0
    BY <1>2 DEF IInv, Views
  <2>2. balance[a] = booked[a] /\ booked[a] \in Int
    BY DEF IInv, NoLostChange, TypeOK
  <2> QED
    BY <1>2, <2>1, <2>2 DEF View
<1> QED
  BY <1>1, <1>2

-----------------------------------------------------------------------------
(* One lemma per action *)

(* The initial state. *)
LEMMA InitInv == Init => IInv
BY GlAssumption DEF Init, IInv, TypeOK, Existing, ReadFirst, IdleRests, Separate, Views,
   DraftInFlight, NoLostChange, PostedOnce, Current

(* A new draft is on nobody's way. *)
LEMMA CreateInv ==
    ASSUME IInv, CreateEntry
    PROVE  IInv'
<1>1. PICK e \in Entries, ls \in LineLists :
        /\ status[e] = "none"
        /\ status' = [status EXCEPT ![e] = "draft"]
        /\ lines' = [lines EXCEPT ![e] = ls]
        /\ UNCHANGED <<balance, pc, entry, next, own, booked, posts, overlap>>
  BY DEF CreateEntry
<1> USE DEF own
<1>2. \A t \in Requests :
        pc[t] # "idle" => entry[t] # e /\ lines'[entry[t]] = lines[entry[t]]
  BY <1>1 DEF IInv, TypeOK, Existing
<1>3. \A t \in Requests : pc[t] # "idle" => Current(t)' = Current(t)
  BY <1>1, <1>2 DEF Current
<1>4. TypeOK'
  BY <1>1, <1>2 DEF IInv, TypeOK
<1>5. Existing'
  BY <1>1, <1>2 DEF IInv, Existing, TypeOK
<1>6. ReadFirst'
  BY <1>1, <1>3 DEF IInv, ReadFirst
<1>7. IdleRests' /\ Separate'
  BY <1>1 DEF IInv, IdleRests, Separate
<1>8. Views'
  BY <1>1, <1>3 DEF IInv, Views
<1>9. DraftInFlight'
  BY <1>1, <1>2 DEF IInv, DraftInFlight, TypeOK
<1>10. NoLostChange'
  BY <1>1 DEF IInv, NoLostChange
<1>11. PostedOnce'
  BY <1>1 DEF IInv, PostedOnce, TypeOK
<1> QED
  BY <1>4, <1>5, <1>6, <1>7, <1>8, <1>9, <1>10, <1>11 DEF IInv

(* A call that finds another one on the entry marks it as overlapped. *)
LEMMA LoadInv ==
    ASSUME IInv, NEW t \in Requests, LoadEntry(t)
    PROVE  IInv'
<1>1. PICK e \in Entries :
        /\ pc[t] = "idle"
        /\ Postable(e)
        /\ entry' = [entry EXCEPT ![t] = e]
        /\ AtLine(t, e, 1)
        /\ overlap' = IF \E u \in InFlight : entry[u] = e THEN overlap \cup {e} ELSE overlap
        /\ UNCHANGED <<rows, own, booked, posts>>
  BY DEF LoadEntry
<1> USE DEF own, rows
<1>2. status[e] = "draft"
  BY <1>1 DEF Postable, IInv, TypeOK
<1>3. /\ next' = [next EXCEPT ![t] = 1]
      /\ pc' \in {[pc EXCEPT ![t] = "read"], [pc EXCEPT ![t] = "mark"]}
      /\ pc'[t] = "read" => 1 <= Len(lines[e])
      /\ pc'[t] # "idle" /\ pc'[t] # "save"
  BY <1>1 DEF AtLine, IInv, TypeOK
<1>4. overlap \subseteq overlap'
  BY <1>1
<1>5. \A u \in Requests \ {t} : pc'[u] = pc[u] /\ Current(u)' = Current(u) /\ entry'[u] = entry[u]
  BY <1>1, <1>3 DEF Current, IInv, TypeOK
<1>6. TypeOK'
  <2>1. pc' \in [Requests -> {"idle", "read", "save", "mark", "commit"}]
    BY <1>3 DEF IInv, TypeOK
  <2>2. /\ entry' \in [Requests -> Entries \cup {NoEntry}]
        /\ \A u \in Requests : pc'[u] # "idle" => entry'[u] \in Entries
    BY <1>1, <1>5 DEF IInv, TypeOK
  <2>3. \A u \in Requests : pc'[u] \in {"read", "save"} => next'[u] <= Len(lines'[entry'[u]])
    BY <1>1, <1>3, <1>5 DEF IInv, TypeOK
  <2>4. next' \in [Requests -> Nat \ {0}]
    BY <1>3 DEF IInv, TypeOK
  <2>5. overlap' \subseteq Accounts \cup Entries
    BY <1>1 DEF IInv, TypeOK
  <2> QED
    BY <1>1, <2>1, <2>2, <2>3, <2>4, <2>5 DEF IInv, TypeOK
<1>7. Existing'
  BY <1>1, <1>2, <1>5 DEF IInv, Existing, TypeOK
<1>8. ReadFirst' /\ IdleRests'
  BY <1>1, <1>3, <1>5 DEF IInv, ReadFirst, IdleRests
<1>9. Separate'
  <2> SUFFICES ASSUME NEW u \in Requests, NEW v \in Requests, u # v
               PROVE  /\ touched'[u] \cap touched'[v] \subseteq overlap'
                      /\ pc'[u] # "idle" /\ entry'[u] = entry'[v] => entry'[u] \in overlap'
    BY DEF Separate
  <2>1. touched'[u] \cap touched'[v] \subseteq overlap'
    BY <1>1, <1>4 DEF IInv, Separate
  <2>2. CASE u # t /\ v # t
    BY <1>4, <1>5, <2>1, <2>2 DEF IInv, Separate
  <2>3. CASE u = t /\ entry'[u] = entry'[v]
    <3>1. entry'[u] = e /\ entry[v] = e
      BY <1>1, <1>5, <2>3 DEF IInv, TypeOK
    <3>2. CASE pc[v] # "idle"
      BY <1>1, <2>1, <2>3, <3>1, <3>2 DEF InFlight
    <3>3. CASE pc[v] = "idle"
      BY <3>1, <3>3, GlAssumption DEF IInv, IdleRests
    <3> QED
      BY <2>1, <3>2, <3>3
  <2>4. CASE v = t /\ entry'[u] = entry'[v] /\ pc'[u] # "idle"
    <3>1. entry'[v] = e /\ entry[u] = e /\ pc[u] # "idle"
      BY <1>1, <1>5, <2>4 DEF IInv, TypeOK
    <3> QED
      BY <1>1, <2>1, <2>4, <3>1 DEF InFlight
  <2> QED
    BY <2>1, <2>2, <2>3, <2>4
<1>10. Views'
  BY <1>1, <1>3, <1>4, <1>5 DEF IInv, Views
<1>11. DraftInFlight'
  BY <1>1, <1>2, <1>4, <1>5 DEF IInv, DraftInFlight, TypeOK
<1>12. NoLostChange'
  BY <1>1, <1>4 DEF IInv, NoLostChange
<1>13. PostedOnce'
  BY <1>1, <1>4 DEF IInv, PostedOnce
<1> QED
  BY <1>6, <1>7, <1>8, <1>9, <1>10, <1>11, <1>12, <1>13 DEF IInv

(* What is read is the call's own view; an account in the hands of another one is
   marked as overlapped. *)
LEMMA ReadInv ==
    ASSUME IInv, NEW t \in Requests, ReadAccount(t)
    PROVE  IInv'
<1> DEFINE a == Current(t).account
<1>1. /\ pc[t] = "read"
      /\ pc' = [pc EXCEPT ![t] = "save"]
      /\ read' = [read EXCEPT ![t] = View(t, a)]
      /\ touched' = [touched EXCEPT ![t] = @ \cup {a}]
      /\ overlap' = IF \E u \in InFlight \ {t} : a \in touched[u]
                    THEN overlap \cup {a} ELSE overlap
      /\ UNCHANGED <<status, lines, balance, entry, next, written, locked, net, booked, posts>>
  BY DEF ReadAccount, rows
<1>2. a \in Accounts /\ View(t, a) \in Int
  BY <1>1, CurrentLine, ViewType DEF IInv
<1>3. overlap \subseteq overlap'
  BY <1>1
<1>4. \A u \in Requests : Current(u)' = Current(u)
  BY <1>1 DEF Current
<1>5. \A u \in Requests \ {t} : pc'[u] = pc[u] /\ read'[u] = read[u] /\ touched'[u] = touched[u]
  BY <1>1 DEF IInv, TypeOK
<1>6. touched'[t] = touched[t] \cup {a} /\ pc'[t] = "save" /\ read'[t] = View(t, a)
  BY <1>1 DEF IInv, TypeOK
<1> HIDE DEF a
<1>7. TypeOK'
  BY <1>1, <1>2, <1>5, <1>6 DEF IInv, TypeOK
<1>8. Existing' /\ IdleRests'
  BY <1>1, <1>5 DEF IInv, Existing, IdleRests
<1>9. ReadFirst'
  BY <1>1, <1>4, <1>5, <1>6 DEF IInv, ReadFirst, a
<1>10. Separate'
  <2> SUFFICES ASSUME NEW u \in Requests, NEW v \in Requests, u # v
               PROVE  /\ touched'[u] \cap touched'[v] \subseteq overlap'
                      /\ pc'[u] # "idle" /\ entry'[u] = entry'[v] => entry'[u] \in overlap'
    BY DEF Separate
  <2>1. pc'[u] # "idle" /\ entry'[u] = entry'[v] => entry'[u] \in overlap'
    BY <1>1, <1>3, <1>5 DEF IInv, Separate
  <2>2. \A w \in Requests \ {t} : a \in touched[w] => a \in overlap'
    <3> SUFFICES ASSUME NEW w \in Requests \ {t}, a \in touched[w]
                 PROVE  a \in overlap'
      OBVIOUS
    <3>1. w \in InFlight
      BY DEF InFlight, IInv, ReadFirst
    <3> QED
      BY <1>1, <3>1
  <2>3. touched[u] \cap touched[v] \subseteq overlap
    BY DEF IInv, Separate
  <2>4. touched'[u] \cap touched'[v] \subseteq overlap'
    BY <1>3, <1>5, <1>6, <2>2, <2>3
  <2> QED
    BY <2>1, <2>4
<1>11. Views'
  <2> SUFFICES ASSUME NEW u \in Requests
               PROVE  /\ \A b \in Accounts \ locked'[u] : net'[u][b] = 0
                      /\ \A b \in locked'[u] \ overlap' :
                            written'[u][b] = booked'[b] + net'[u][b]
                      /\ pc'[u] = "save" /\ Current(u)'.account \notin overlap' =>
                            read'[u] = booked'[Current(u)'.account] + net'[u][Current(u)'.account]
    BY DEF Views
  <2>1. CASE u # t
    BY <1>1, <1>3, <1>4, <1>5, <2>1 DEF IInv, Views
  <2>2. CASE u = t
    <3>1. a \notin overlap' => View(t, a) = booked[a] + net[t][a]
      BY <1>2, <1>3, ViewIsOwn
    <3>2. Current(u)'.account = a
      BY <1>4, <2>2 DEF a
    <3> QED
      BY <1>1, <1>3, <1>6, <2>2, <3>1, <3>2 DEF IInv, Views
  <2> QED
    BY <2>1, <2>2
<1>12. DraftInFlight'
  BY <1>1, <1>3, <1>5 DEF IInv, DraftInFlight
<1>13. NoLostChange' /\ PostedOnce'
  BY <1>1, <1>3 DEF IInv, NoLostChange, PostedOnce
<1> QED
  BY <1>7, <1>8, <1>9, <1>10, <1>11, <1>12, <1>13 DEF IInv

(* The account of the line is now written, with the change added. *)
LEMMA SaveInv ==
    ASSUME IInv, NEW t \in Requests, SaveAccount(t)
    PROVE  IInv'
<1> DEFINE a == Current(t).account
           c == Change(Current(t))
<1>1. /\ pc[t] = "save"
      /\ written' = [written EXCEPT ![t][a] = read[t] + c]
      /\ locked' = [locked EXCEPT ![t] = @ \cup {a}]
      /\ net' = [net EXCEPT ![t][a] = @ + c]
      /\ AtLine(t, entry[t], next[t] + 1)
      /\ UNCHANGED <<status, lines, balance, entry, read, touched, booked, posts, overlap>>
  BY DEF SaveAccount, rows
<1>2. a \in Accounts /\ c \in Int
  BY <1>1, CurrentLine DEF IInv
<1>3. /\ next' = [next EXCEPT ![t] = next[t] + 1]
      /\ pc' \in {[pc EXCEPT ![t] = "read"], [pc EXCEPT ![t] = "mark"]}
      /\ pc'[t] = "read" => next[t] + 1 <= Len(lines[entry[t]])
      /\ pc'[t] # "idle" /\ pc'[t] # "save"
  BY <1>1 DEF AtLine, IInv, TypeOK
<1>4. \A u \in Requests \ {t} :
        /\ pc'[u] = pc[u] /\ Current(u)' = Current(u)
        /\ locked'[u] = locked[u] /\ net'[u] = net[u] /\ written'[u] = written[u]
  BY <1>1, <1>3 DEF Current, IInv, TypeOK
<1>5. /\ locked'[t] = locked[t] \cup {a}
      /\ net'[t][a] = net[t][a] + c
      /\ written'[t][a] = read[t] + c
      /\ \A b \in Accounts \ {a} : net'[t][b] = net[t][b] /\ written'[t][b] = written[t][b]
  BY <1>1, <1>2 DEF IInv, TypeOK
<1>6. a \in touched[t]
  BY <1>1 DEF IInv, ReadFirst
<1>7. a \notin overlap => read[t] = booked[a] + net[t][a]
  BY <1>1 DEF IInv, Views
<1> HIDE DEF a, c
<1>8. TypeOK'
  <2>1. pc' \in [Requests -> {"idle", "read", "save", "mark", "commit"}]
    BY <1>3 DEF IInv, TypeOK
  <2>2. next' \in [Requests -> Nat \ {0}]
    BY <1>3 DEF IInv, TypeOK
  <2>3. \A u \in Requests : pc'[u] \in {"read", "save"} => next'[u] <= Len(lines'[entry'[u]])
    BY <1>1, <1>3, <1>4 DEF IInv, TypeOK
  <2>4. /\ written' \in [Requests -> [Accounts -> Int]]
        /\ net' \in [Requests -> [Accounts -> Int]]
        /\ locked' \in [Requests -> SUBSET Accounts]
    BY <1>1, <1>2 DEF IInv, TypeOK
  <2>5. \A u \in Requests : pc'[u] # "idle" => entry'[u] \in Entries
    BY <1>1, <1>4 DEF IInv, TypeOK
  <2> QED
    BY <1>1, <2>1, <2>2, <2>3, <2>4, <2>5 DEF IInv, TypeOK
<1>9. Existing' /\ IdleRests'
  BY <1>1, <1>3, <1>4 DEF IInv, Existing, IdleRests
<1>10. ReadFirst'
  BY <1>1, <1>3, <1>4, <1>5, <1>6 DEF IInv, ReadFirst
<1>11. Separate'
  BY <1>1, <1>4 DEF IInv, Separate
<1>12. Views'
  <2> SUFFICES ASSUME NEW u \in Requests
               PROVE  /\ \A b \in Accounts \ locked'[u] : net'[u][b] = 0
                      /\ \A b \in locked'[u] \ overlap' :
                            written'[u][b] = booked'[b] + net'[u][b]
                      /\ pc'[u] = "save" /\ Current(u)'.account \notin overlap' =>
                            read'[u] = booked'[Current(u)'.account] + net'[u][Current(u)'.account]
    BY DEF Views
  <2>1. CASE u # t
    BY <1>1, <1>4, <2>1 DEF IInv, Views
  <2>2. CASE u = t
    <3>1. \A b \in Accounts \ locked'[t] : net'[t][b] = 0
      BY <1>5 DEF IInv, Views
    <3>2. ASSUME NEW b \in locked'[t] \ overlap'
          PROVE  written'[t][b] = booked'[b] + net'[t][b]
      <4>1. CASE b = a
        <5>1. read[t] = booked[a] + net[t][a]
          BY <1>1, <1>7, <3>2, <4>1
        <5>2. booked[a] \in Int /\ net[t][a] \in Int
          BY <1>2 DEF IInv, TypeOK
        <5> QED
          BY <1>1, <1>2, <1>5, <4>1, <5>1, <5>2
      <4>2. CASE b # a
        BY <1>1, <1>5, <3>2, <4>2 DEF IInv, Views, TypeOK
      <4> QED
        BY <4>1, <4>2
    <3> QED
      BY <1>3, <2>2, <3>1, <3>2
  <2> QED
    BY <2>1, <2>2
<1>13. DraftInFlight'
  BY <1>1, <1>4, <1>3 DEF IInv, DraftInFlight
<1>14. NoLostChange' /\ PostedOnce'
  BY <1>1 DEF IInv, NoLostChange, PostedOnce
<1> QED
  BY <1>8, <1>9, <1>10, <1>11, <1>12, <1>13, <1>14 DEF IInv

(* Marking the entry changes nothing that others see. *)
LEMMA MarkInv ==
    ASSUME IInv, NEW t \in Requests, SaveEntry(t)
    PROVE  IInv'
<1>1. /\ pc[t] = "mark"
      /\ pc' = [pc EXCEPT ![t] = "commit"]
      /\ UNCHANGED <<status, lines, balance, entry, next, read, written, locked, net, touched,
                     booked, posts, overlap>>
  BY DEF SaveEntry, rows, own
<1>2. \A u \in Requests : Current(u)' = Current(u)
  BY <1>1 DEF Current
<1>3. TypeOK'
  BY <1>1 DEF IInv, TypeOK
<1>4. Existing' /\ IdleRests' /\ ReadFirst' /\ DraftInFlight'
  BY <1>1, <1>2 DEF IInv, TypeOK, Existing, IdleRests, ReadFirst, DraftInFlight
<1>5. Separate' /\ Views'
  BY <1>1, <1>2 DEF IInv, TypeOK, Separate, Views
<1>6. NoLostChange' /\ PostedOnce'
  BY <1>1 DEF IInv, NoLostChange, PostedOnce
<1> QED
  BY <1>3, <1>4, <1>5, <1>6 DEF IInv

(* What End does to the calls. *)
LEMMA EndEffect ==
    ASSUME TypeOK, NEW t \in Requests, End(t)
    PROVE  /\ \A u \in Requests \ {t} :
                /\ pc'[u] = pc[u] /\ entry'[u] = entry[u] /\ next'[u] = next[u]
                /\ read'[u] = read[u] /\ written'[u] = written[u] /\ locked'[u] = locked[u]
                /\ net'[u] = net[u] /\ touched'[u] = touched[u]
           /\ pc'[t] = "idle" /\ entry'[t] = NoEntry
           /\ locked'[t] = {} /\ touched'[t] = {}
           /\ net'[t] = [a \in Accounts |-> 0]
BY DEF End, TypeOK

(* The parts of the type invariant that End touches. *)
LEMMA EndType ==
    ASSUME TypeOK, NEW t \in Requests, End(t), lines' = lines
    PROVE  /\ pc' \in [Requests -> {"idle", "read", "save", "mark", "commit"}]
           /\ entry' \in [Requests -> Entries \cup {NoEntry}]
           /\ \A u \in Requests : pc'[u] # "idle" => entry'[u] \in Entries
           /\ next' \in [Requests -> Nat \ {0}]
           /\ \A u \in Requests :
                 pc'[u] \in {"read", "save"} => next'[u] <= Len(lines'[entry'[u]])
           /\ read' \in [Requests -> Int]
           /\ written' \in [Requests -> [Accounts -> Int]]
           /\ locked' \in [Requests -> SUBSET Accounts]
           /\ net' \in [Requests -> [Accounts -> Int]]
           /\ touched' \in [Requests -> SUBSET Accounts]
<1>1. \A u \in Requests : pc'[u] # "idle" => u # t
  BY EndEffect
<1>2. \A u \in Requests :
        /\ pc'[u] # "idle" => entry'[u] \in Entries
        /\ pc'[u] \in {"read", "save"} => next'[u] <= Len(lines'[entry'[u]])
  BY <1>1, EndEffect DEF TypeOK
<1> QED
  BY <1>2 DEF End, TypeOK

(* A transaction that is rolled back leaves no trace. *)
LEMMA RollbackInv ==
    ASSUME IInv, NEW t \in Requests, Rollback(t)
    PROVE  IInv'
<1>1. End(t) /\ UNCHANGED <<status, lines, balance, booked, posts, overlap>> /\ TypeOK
  BY DEF Rollback, rows, IInv
<1>2. \A u \in Requests \ {t} : Current(u)' = Current(u)
  BY <1>1, EndEffect DEF Current
<1>3. TypeOK'
  BY <1>1, EndType DEF TypeOK
<1>4. Existing' /\ IdleRests' /\ DraftInFlight'
  BY <1>1, EndEffect DEF IInv, Existing, IdleRests, DraftInFlight
<1>5. ReadFirst'
  BY <1>1, <1>2, EndEffect DEF IInv, ReadFirst
<1>6. Separate'
  <2> SUFFICES ASSUME NEW u \in Requests, NEW v \in Requests, u # v
               PROVE  /\ touched'[u] \cap touched'[v] \subseteq overlap'
                      /\ pc'[u] # "idle" /\ entry'[u] = entry'[v] => entry'[u] \in overlap'
    BY DEF Separate
  <2>1. CASE u # t /\ v # t
    BY <1>1, <2>1, EndEffect DEF IInv, Separate
  <2>2. CASE u = t
    BY <1>1, <2>2, EndEffect
  <2>3. CASE v = t
    BY <1>1, <2>3, EndEffect, GlAssumption DEF IInv, TypeOK
  <2> QED
    BY <2>1, <2>2, <2>3
<1>7. Views'
  BY <1>1, <1>2, EndEffect DEF IInv, Views
<1>8. NoLostChange' /\ PostedOnce'
  BY <1>1 DEF IInv, NoLostChange, PostedOnce
<1> QED
  BY <1>3, <1>4, <1>5, <1>6, <1>7, <1>8 DEF IInv

(* The committed balance of an account nobody else has read is the booked one;
   the views of the others do not involve the accounts that were written. *)
LEMMA CommitInv ==
    ASSUME IInv, NEW t \in Requests, Commit(t)
    PROVE  IInv'
<1> DEFINE e == entry[t]
<1>1. /\ pc[t] = "commit"
      /\ status' = [status EXCEPT ![e] = "posted"]
      /\ balance' = [a \in Accounts |-> View(t, a)]
      /\ booked' = [a \in Accounts |-> booked[a] + net[t][a]]
      /\ posts' = [posts EXCEPT ![e] = @ + 1]
      /\ End(t) /\ TypeOK
      /\ UNCHANGED <<lines, overlap>>
  BY DEF Commit, IInv
<1>2. e \in Entries
  BY <1>1 DEF TypeOK
<1>3. \A u \in Requests \ {t} : Current(u)' = Current(u)
  BY <1>1, EndEffect DEF Current
<1>4. \A a \in Accounts : balance'[a] \in Int /\ booked'[a] \in Int
  BY <1>1, ViewType DEF TypeOK
<1>5. \A u \in Requests \ {t} : \A a \in touched[u] \ overlap : booked'[a] = booked[a]
  <2> SUFFICES ASSUME NEW u \in Requests \ {t}, NEW a \in touched[u] \ overlap
               PROVE  booked'[a] = booked[a]
    OBVIOUS
  <2>1. a \notin touched[t]
    BY DEF IInv, Separate
  <2>2. a \in Accounts /\ a \notin locked[t]
    BY <2>1 DEF IInv, TypeOK, ReadFirst
  <2>3. net[t][a] = 0
    BY <2>2 DEF IInv, Views
  <2> QED
    BY <1>1, <2>2, <2>3 DEF TypeOK
<1>6. TypeOK'
  <2>1. status' \in [Entries -> {"none", "draft", "posted"}] /\ posts' \in [Entries -> Nat]
    BY <1>1, <1>2 DEF TypeOK
  <2>2. balance' \in [Accounts -> Int] /\ booked' \in [Accounts -> Int]
    BY <1>1, <1>4
  <2> QED
    BY <1>1, <2>1, <2>2, EndType DEF TypeOK
<1>7. Existing' /\ IdleRests'
  <2>1. \A f \in Entries : status[f] # "none" => status'[f] # "none"
    BY <1>1 DEF TypeOK
  <2>2. Existing'
    BY <1>1, <2>1, EndEffect DEF IInv, TypeOK, Existing
  <2>3. IdleRests'
    BY <1>1, EndEffect DEF IInv, IdleRests
  <2> QED
    BY <2>2, <2>3
<1>8. ReadFirst'
  BY <1>1, <1>3, EndEffect DEF IInv, ReadFirst
<1>9. Separate'
  <2> SUFFICES ASSUME NEW u \in Requests, NEW v \in Requests, u # v
               PROVE  /\ touched'[u] \cap touched'[v] \subseteq overlap'
                      /\ pc'[u] # "idle" /\ entry'[u] = entry'[v] => entry'[u] \in overlap'
    BY DEF Separate
  <2>1. CASE u # t /\ v # t
    BY <1>1, <2>1, EndEffect DEF IInv, Separate
  <2>2. CASE u = t
    BY <1>1, <2>2, EndEffect
  <2>3. CASE v = t
    BY <1>1, <2>3, EndEffect, GlAssumption DEF IInv, TypeOK
  <2> QED
    BY <2>1, <2>2, <2>3
<1>10. Views'
  <2> SUFFICES ASSUME NEW u \in Requests
               PROVE  /\ \A b \in Accounts \ locked'[u] : net'[u][b] = 0
                      /\ \A b \in locked'[u] \ overlap' :
                            written'[u][b] = booked'[b] + net'[u][b]
                      /\ pc'[u] = "save" /\ Current(u)'.account \notin overlap' =>
                            read'[u] = booked'[Current(u)'.account] + net'[u][Current(u)'.account]
    BY DEF Views
  <2>1. CASE u = t
    BY <1>1, <2>1, EndEffect
  <2>2. CASE u # t
    <3>1. locked[u] \subseteq touched[u]
      BY DEF IInv, ReadFirst
    <3>2. pc[u] = "save" => Current(u).account \in touched[u]
      BY DEF IInv, ReadFirst
    <3>3. /\ net'[u] = net[u] /\ written'[u] = written[u] /\ locked'[u] = locked[u]
          /\ read'[u] = read[u] /\ pc'[u] = pc[u] /\ Current(u)' = Current(u)
      BY <1>1, <1>3, <2>2, EndEffect
    <3>4. \A b \in Accounts \ locked'[u] : net'[u][b] = 0
      BY <3>3 DEF IInv, Views
    <3>6. ASSUME NEW b \in locked'[u] \ overlap'
          PROVE  written'[u][b] = booked'[b] + net'[u][b]
      <4>1. b \in locked[u] \ overlap /\ b \in touched[u] \ overlap
        BY <1>1, <3>1, <3>3
      <4>2. booked'[b] = booked[b]
        BY <1>5, <2>2, <4>1
      <4>3. written[u][b] = booked[b] + net[u][b]
        BY <4>1 DEF IInv, Views
      <4> QED
        BY <3>3, <4>2, <4>3
    <3>5. ASSUME pc'[u] = "save", Current(u)'.account \notin overlap'
          PROVE  read'[u] = booked'[Current(u)'.account] + net'[u][Current(u)'.account]
      <4> DEFINE b == Current(u).account
      <4>1. pc[u] = "save" /\ Current(u)' = Current(u) /\ b \in touched[u] \ overlap
        BY <1>1, <3>2, <3>3, <3>5
      <4>2. booked'[b] = booked[b]
        BY <1>5, <2>2, <4>1
      <4>3. read[u] = booked[b] + net[u][b]
        BY <4>1 DEF IInv, Views
      <4> QED
        BY <3>3, <4>1, <4>2, <4>3
    <3> QED
      BY <3>4, <3>5, <3>6
  <2> QED
    BY <2>1, <2>2
<1>11. DraftInFlight'
  <2> SUFFICES ASSUME NEW u \in Requests, pc'[u] # "idle", entry'[u] \notin overlap'
               PROVE  status'[entry'[u]] = "draft"
    BY DEF DraftInFlight
  <2>1. u # t /\ pc[u] # "idle" /\ entry'[u] = entry[u]
    BY <1>1, EndEffect
  <2>2. entry[u] # e
    BY <1>1, <2>1 DEF IInv, Separate
  <2> QED
    BY <1>1, <2>1, <2>2 DEF IInv, DraftInFlight, TypeOK
<1>12. NoLostChange'
  BY <1>1, ViewIsOwn DEF NoLostChange
<1>13. PostedOnce'
  <2>1. e \notin overlap => status[e] = "draft"
    BY <1>1 DEF IInv, DraftInFlight
  <2>2. e \notin overlap => posts[e] = 0
    BY <1>2, <2>1 DEF IInv, PostedOnce
  <2> QED
    BY <1>1, <1>2, <2>2 DEF IInv, PostedOnce, TypeOK
<1> QED
  BY <1>6, <1>7, <1>8, <1>9, <1>10, <1>11, <1>12, <1>13 DEF IInv

-----------------------------------------------------------------------------
(* The theorems *)

(* Every step preserves the invariant. *)
LEMMA StepInv == IInv /\ [Next]_vars => IInv'
<1> SUFFICES ASSUME IInv, [Next]_vars PROVE IInv'
  OBVIOUS
<1>1. CASE CreateEntry
  BY <1>1, CreateInv
<1>2. ASSUME NEW t \in Requests, LoadEntry(t) PROVE IInv'
  BY <1>2, LoadInv
<1>3. ASSUME NEW t \in Requests, ReadAccount(t) PROVE IInv'
  BY <1>3, ReadInv
<1>4. ASSUME NEW t \in Requests, SaveAccount(t) PROVE IInv'
  BY <1>4, SaveInv
<1>5. ASSUME NEW t \in Requests, SaveEntry(t) PROVE IInv'
  BY <1>5, MarkInv
<1>6. ASSUME NEW t \in Requests, Commit(t) PROVE IInv'
  BY <1>6, CommitInv
<1>7. ASSUME NEW t \in Requests, Rollback(t) PROVE IInv'
  BY <1>7, RollbackInv
<1>8. ASSUME NEW t \in Requests, AbortDeadlock(t) PROVE IInv'
  BY <1>8, RollbackInv DEF AbortDeadlock
<1>9. CASE UNCHANGED vars
  <2> USE <1>9 DEF vars, rows, own, IInv
  <2>1. TypeOK' /\ Existing'
    BY DEF TypeOK, Existing
  <2>2. ReadFirst' /\ IdleRests' /\ Separate'
    BY DEF ReadFirst, IdleRests, Separate, Current
  <2>3. Views'
    BY DEF Views, Current
  <2>4. DraftInFlight' /\ NoLostChange' /\ PostedOnce'
    BY DEF DraftInFlight, NoLostChange, PostedOnce
  <2> QED
    BY <2>1, <2>2, <2>3, <2>4
<1> QED
  BY <1>1, <1>2, <1>3, <1>4, <1>5, <1>6, <1>7, <1>8, <1>9 DEF Next

(* The invariant always holds. *)
LEMMA SpecInv == Spec => []IInv
BY InitInv, StepInv, PTL DEF Spec

(* TypeOK: the rows and the transactions in flight keep their types; in particular
   the index of the line never leaves the entry's list. *)
THEOREM GlTypeCorrect == Spec => []TypeOK
BY SpecInv, PTL DEF IInv

(* NoLostChange: whatever overlaps elsewhere, an account that no two transactions
   read at once holds the sum of the committed changes. *)
THEOREM NoChangeLost == Spec => []NoLostChange
BY SpecInv, PTL DEF IInv

(* PostedOnce: an entry on which no two posts overlapped is posted at most once,
   and its status tells. *)
THEOREM PostedAtMostOnce == Spec => []PostedOnce
BY SpecInv, PTL DEF IInv

-----------------------------------------------------------------------------
(* What a post has booked so far: the arithmetic of the trial balance *)

(* What the lines add to their accounts, and their amounts. *)
Changes(ls) == [i \in DOMAIN ls |-> Change(ls[i])]
Amounts(ls) == [i \in DOMAIN ls |-> ls[i].amount]

(* The lines among those in I that name account a, and those on one side. *)
Naming(ls, I, a) == {i \in I : ls[i].account = a}
OnSide(ls, I, type) == {i \in I : ls[i].type = type}

(* The lines that t has saved. *)
Done(t) == 1..(next[t] - 1)

(* By how much the debit side of the accounts exceeds the credit side in f. *)
Excess(f) == Sum(f, Side("debit")) - Sum(f, Side("credit"))

(* By how much the debit lines among those in I exceed the credit lines. *)
LineExcess(ls, I) ==
    Sum(Amounts(ls), OnSide(ls, I, "debit")) - Sum(Amounts(ls), OnSide(ls, I, "credit"))

(* A call that marks or commits has saved all lines. *)
LinesDone ==
    \A t \in Requests :
        pc[t] \in {"mark", "commit"} => next[t] = Len(lines[entry[t]]) + 1

(* net holds what the saved lines add to each account. *)
NetSoFar ==
    \A t \in Requests : pc[t] # "idle" =>
        \A a \in Accounts :
            net[t][a] = Sum(Changes(lines[entry[t]]), Naming(lines[entry[t]], Done(t), a))

(* Saved lines move the sides of the ledger as their amounts say. *)
SidesSoFar ==
    \A t \in Requests : pc[t] # "idle" => Excess(net[t]) = LineExcess(lines[entry[t]], Done(t))

(* Only balanced entries are kept. *)
BalancedLines == \A e \in Entries : status[e] # "none" => Balanced(lines[e])

(* What is booked is off by at most a cent per post. *)
BookedDrift == Excess(booked) \in -Sum(posts, Entries)..Sum(posts, Entries)

Booking ==
    /\ LinesDone
    /\ NetSoFar
    /\ SidesSoFar
    /\ BalancedLines
    /\ BookedDrift

(* Only zero is its own double. *)
LEMMA OwnDouble == \A x \in Int : x = x + x => x = 0
  OBVIOUS

(* Nothing adds up to nothing. *)
LEMMA SumZero ==
    ASSUME NEW S, IsFiniteSet(S), NEW f, \A i \in S : f[i] = 0
    PROVE  Sum(f, S) = 0
<1>1. Sum(f, S) \in Int
  BY SumType
<1>2. Sum(f, S) = Sum(f, S) + Sum(f, S)
  BY SumPlus
<1> QED
  BY <1>1, <1>2, OwnDouble, Zenon

(* One more element. *)
LEMMA SumInsert ==
    ASSUME NEW S, IsFiniteSet(S), NEW x, x \notin S, NEW f, \A i \in S \cup {x} : f[i] \in Int
    PROVE  Sum(f, S \cup {x}) = Sum(f, S) + f[x]
<1>1. IsFiniteSet(S \cup {x}) /\ (S \cup {x}) \ {x} = S
  BY FS_AddElement
<1>2. Sum(f, S \cup {x}) = f[x] + Sum(f, S)
  BY <1>1, SumAdd
<1>3. Sum(f, S) \in Int
  BY SumType
<1> QED
  BY <1>2, <1>3

(* Both sides are finite. *)
LEMMA SideFinite ==
    ASSUME NEW type
    PROVE  IsFiniteSet(Side(type)) /\ Side(type) \subseteq Accounts
BY GlAssumption, FS_Subset DEF Side

(* The excess of integers is an integer. *)
LEMMA ExcessType ==
    ASSUME NEW f, \A a \in Accounts : f[a] \in Int
    PROVE  Excess(f) \in Int
BY SideFinite, SumType DEF Excess

(* The excess of nothing. *)
LEMMA ExcessZero ==
    ASSUME NEW f, \A a \in Accounts : f[a] = 0
    PROVE  Excess(f) = 0
<1>1. Sum(f, Side("debit")) = 0 /\ Sum(f, Side("credit")) = 0
  BY SideFinite, SumZero
<1> QED
  BY <1>1 DEF Excess

(* Excesses add up. *)
LEMMA ExcessPlus ==
    ASSUME NEW f, NEW g, NEW h,
           \A a \in Accounts : f[a] \in Int /\ g[a] \in Int /\ h[a] = f[a] + g[a]
    PROVE  Excess(h) = Excess(f) + Excess(g)
<1>1. ASSUME NEW type
      PROVE  /\ Sum(h, Side(type)) = Sum(f, Side(type)) + Sum(g, Side(type))
             /\ Sum(f, Side(type)) \in Int /\ Sum(g, Side(type)) \in Int
  <2>1. IsFiniteSet(Side(type)) /\ Side(type) \subseteq Accounts
    BY SideFinite
  <2> QED
    BY <2>1, SumPlus, SumType
<1> QED
  BY <1>1 DEF Excess

(* One account's change shows on the account's side. *)
LEMMA ExcessChange ==
    ASSUME NEW a \in Accounts, NEW d \in Int, NEW f, NEW g,
           \A b \in Accounts : f[b] \in Int,
           \A b \in Accounts \ {a} : g[b] = f[b], g[a] = f[a] + d
    PROVE  Excess(g) = Excess(f) + (IF NormalBalance[a] = "debit" THEN d ELSE -d)
<1>1. ASSUME NEW type, NormalBalance[a] = type
      PROVE  Sum(g, Side(type)) = Sum(f, Side(type)) + d
  <2>1. a \in Side(type)
    BY <1>1 DEF Side
  <2> QED
    BY <2>1, SideFinite, SumChange
<1>2. ASSUME NEW type, NormalBalance[a] # type
      PROVE  Sum(g, Side(type)) = Sum(f, Side(type))
  <2>1. \A b \in Side(type) : f[b] \in Int /\ g[b] = f[b]
    BY <1>2 DEF Side
  <2> QED
    BY <2>1, SideFinite, SumCong
<1>3. Sum(f, Side("debit")) \in Int /\ Sum(f, Side("credit")) \in Int
  BY SideFinite, SumType
<1>4. NormalBalance[a] \in {"debit", "credit"}
  BY GlAssumption DEF Types
<1> QED
  BY <1>1, <1>2, <1>3, <1>4 DEF Excess

(* The lines of an entry. *)
LEMMA LinesType ==
    ASSUME TypeOK, NEW e \in Entries
    PROVE  lines[e] \in Seq(Line)
<1>1. lines[e] \in LineLists \cup {<<>>}
  BY DEF TypeOK
<1>2. LineLists \subseteq Seq(Line) /\ <<>> \in Seq(Line)
  BY GlAssumption
<1> QED
  BY <1>1, <1>2

(* What lines add up to, by account and by side. *)
LEMMA LineSums ==
    ASSUME NEW ls \in Seq(Line), NEW n \in Nat, n <= Len(ls), NEW a, NEW type
    PROVE  /\ \A i \in 1..n : /\ ls[i] \in Line
                              /\ Changes(ls)[i] \in Int /\ Amounts(ls)[i] \in Int
           /\ IsFiniteSet(Naming(ls, 1..n, a)) /\ IsFiniteSet(OnSide(ls, 1..n, type))
           /\ Sum(Changes(ls), Naming(ls, 1..n, a)) \in Int
           /\ Sum(Amounts(ls), OnSide(ls, 1..n, type)) \in Int
<1>1. \A i \in 1..n : i \in DOMAIN ls /\ ls[i] \in Line
  OBVIOUS
<1>2. \A i \in 1..n : Changes(ls)[i] \in Int /\ Amounts(ls)[i] \in Int
  BY <1>1, GlAssumption DEF Changes, Amounts, Change, Line
<1>3. Naming(ls, 1..n, a) \subseteq 1..n /\ OnSide(ls, 1..n, type) \subseteq 1..n
  BY DEF Naming, OnSide
<1>4. IsFiniteSet(Naming(ls, 1..n, a)) /\ IsFiniteSet(OnSide(ls, 1..n, type))
  <2>1. IsFiniteSet(1..n)
    BY FS_Interval
  <2> QED
    BY <1>3, <2>1, FS_Subset
<1> QED
  BY <1>1, <1>2, <1>3, <1>4, SumType

(* The next line adds its change to its account and to no other. *)
LEMMA NextChange ==
    ASSUME NEW ls \in Seq(Line), NEW n \in 1..Len(ls), NEW a
    PROVE  Sum(Changes(ls), Naming(ls, 1..n, a)) =
              Sum(Changes(ls), Naming(ls, 1..(n - 1), a))
                 + (IF ls[n].account = a THEN Change(ls[n]) ELSE 0)
<1> DEFINE S == Naming(ls, 1..(n - 1), a)
<1>0. n - 1 \in Nat /\ n - 1 <= Len(ls) /\ n \in Nat /\ n <= Len(ls)
  OBVIOUS
<1>1. /\ IsFiniteSet(S) /\ Sum(Changes(ls), S) \in Int
      /\ \A i \in 1..n : Changes(ls)[i] \in Int
  BY <1>0, LineSums
<1>2. Changes(ls)[n] = Change(ls[n])
  BY DEF Changes
<1>3. CASE ls[n].account = a
  <2>1. Naming(ls, 1..n, a) = S \cup {n} /\ n \notin S /\ S \subseteq 1..n
    BY <1>3 DEF Naming
  <2>2. Sum(Changes(ls), S \cup {n}) = Sum(Changes(ls), S) + Changes(ls)[n]
    <3>1. \A i \in S \cup {n} : Changes(ls)[i] \in Int
      BY <1>1, <2>1
    <3> HIDE DEF S
    <3> QED
      BY <1>1, <2>1, <3>1, SumInsert
  <2> QED
    BY <1>2, <1>3, <2>1, <2>2
<1>4. CASE ls[n].account # a
  <2>1. Naming(ls, 1..n, a) = S
    BY <1>4 DEF Naming
  <2> QED
    BY <1>1, <1>4, <2>1
<1> QED
  BY <1>3, <1>4

(* The next line's amount falls on its side. *)
LEMMA NextAmount ==
    ASSUME NEW ls \in Seq(Line), NEW n \in 1..Len(ls)
    PROVE  LineExcess(ls, 1..n) =
              LineExcess(ls, 1..(n - 1))
                 + (IF ls[n].type = "debit" THEN ls[n].amount ELSE -ls[n].amount)
<1> DEFINE S(type) == OnSide(ls, 1..(n - 1), type)
<1>0. n - 1 \in Nat /\ n - 1 <= Len(ls) /\ n \in Nat /\ n <= Len(ls)
  OBVIOUS
<1>1. ASSUME NEW type
      PROVE  /\ IsFiniteSet(S(type)) /\ Sum(Amounts(ls), S(type)) \in Int
             /\ \A i \in 1..n : Amounts(ls)[i] \in Int
  BY <1>0, LineSums
<1>2. Amounts(ls)[n] = ls[n].amount /\ ls[n].amount \in Nat /\ ls[n].type \in {"debit", "credit"}
  <2>1. ls[n] \in Line
    OBVIOUS
  <2> QED
    BY <2>1 DEF Amounts, Line, Types
<1>3. ASSUME NEW type, ls[n].type = type
      PROVE  Sum(Amounts(ls), OnSide(ls, 1..n, type)) = Sum(Amounts(ls), S(type)) + ls[n].amount
  <2>1. OnSide(ls, 1..n, type) = S(type) \cup {n} /\ n \notin S(type) /\ S(type) \subseteq 1..n
    BY <1>3 DEF OnSide
  <2>2. \A i \in S(type) \cup {n} : Amounts(ls)[i] \in Int
    BY <1>1, <2>1
  <2>3. IsFiniteSet(S(type))
    BY <1>1
  <2> HIDE DEF S
  <2>4. Sum(Amounts(ls), S(type) \cup {n}) = Sum(Amounts(ls), S(type)) + Amounts(ls)[n]
    BY <2>1, <2>2, <2>3, SumInsert
  <2> QED
    BY <1>2, <2>1, <2>4
<1>4. ASSUME NEW type, ls[n].type # type
      PROVE  OnSide(ls, 1..n, type) = S(type)
  BY <1>4 DEF OnSide
<1> HIDE DEF S
<1>5. LineExcess(ls, 1..(n - 1)) = Sum(Amounts(ls), S("debit")) - Sum(Amounts(ls), S("credit"))
  BY DEF LineExcess, S
<1>6. CASE ls[n].type = "debit"
  BY <1>1, <1>2, <1>3, <1>4, <1>5, <1>6 DEF LineExcess
<1>7. CASE ls[n].type = "credit"
  BY <1>1, <1>2, <1>3, <1>4, <1>5, <1>7 DEF LineExcess
<1> QED
  BY <1>2, <1>6, <1>7

(* Before the first line nothing is saved. *)
LEMMA NothingYet ==
    ASSUME NEW ls, NEW a
    PROVE  Sum(Changes(ls), Naming(ls, {}, a)) = 0 /\ LineExcess(ls, {}) = 0
<1>1. Naming(ls, {}, a) = {} /\ \A type : OnSide(ls, {}, type) = {}
  BY DEF Naming, OnSide
<1> QED
  BY <1>1, SumEmpty DEF LineExcess

(* After the last one the excess is the difference that createEntry looks at. *)
LEMMA AllLines ==
    ASSUME NEW ls \in Seq(Line), Balanced(ls)
    PROVE  LineExcess(ls, 1..Len(ls)) \in -1..1
<1>1. DOMAIN ls = 1..Len(ls)
  OBVIOUS
<1>2. \A type : Total(ls, type) = Sum(Amounts(ls), OnSide(ls, 1..Len(ls), type))
  BY <1>1 DEF Total, Amounts, OnSide
<1> QED
  BY <1>2 DEF LineExcess, Balanced
-----------------------------------------------------------------------------
(* The books under each action *)

(* What another call does leaves the books of t as they are. *)
LEMMA BooksKept ==
    ASSUME Booking, NEW t \in Requests,
           pc'[t] # "idle" => /\ pc[t] # "idle" /\ entry'[t] = entry[t] /\ next'[t] = next[t]
                              /\ net'[t] = net[t] /\ lines'[entry[t]] = lines[entry[t]],
           pc'[t] \in {"mark", "commit"} => pc[t] \in {"mark", "commit"}
    PROVE  /\ pc'[t] \in {"mark", "commit"} => next'[t] = Len(lines'[entry'[t]]) + 1
           /\ pc'[t] # "idle" =>
                 /\ \A a \in Accounts :
                       net'[t][a] =
                          Sum(Changes(lines'[entry'[t]]), Naming(lines'[entry'[t]], Done(t)', a))
                 /\ Excess(net'[t]) = LineExcess(lines'[entry'[t]], Done(t)')
<1>1. pc'[t] # "idle" => Done(t)' = Done(t)
  BY DEF Done
<1> QED
  BY <1>1 DEF Booking, LinesDone, NetSoFar, SidesSoFar

(* The initial state. *)
LEMMA InitBooking == Init => Booking
<1> SUFFICES ASSUME Init PROVE Booking
  OBVIOUS
<1>1. LinesDone /\ NetSoFar /\ SidesSoFar /\ BalancedLines
  BY DEF Init, LinesDone, NetSoFar, SidesSoFar, BalancedLines
<1>2. Excess(booked) = 0
  BY ExcessZero DEF Init
<1>3. Sum(posts, Entries) = 0
  BY SumZero, GlAssumption DEF Init
<1> QED
  BY <1>1, <1>2, <1>3 DEF Booking, BookedDrift

(* createEntry keeps an entry only when its sides agree. *)
LEMMA CreateBooking ==
    ASSUME IInv, Booking, CreateEntry
    PROVE  Booking'
<1>1. PICK e \in Entries, ls \in LineLists :
        /\ status[e] = "none"
        /\ Balanced(ls)
        /\ status' = [status EXCEPT ![e] = "draft"]
        /\ lines' = [lines EXCEPT ![e] = ls]
        /\ UNCHANGED <<balance, pc, entry, next, own, booked, posts, overlap>>
  BY DEF CreateEntry
<1>2. \A t \in Requests : pc[t] # "idle" => lines'[entry[t]] = lines[entry[t]]
  BY <1>1 DEF IInv, TypeOK, Existing
<1>3. LinesDone' /\ NetSoFar' /\ SidesSoFar'
  BY <1>1, <1>2, BooksKept DEF LinesDone, NetSoFar, SidesSoFar, own
<1>4. BalancedLines'
  BY <1>1 DEF Booking, BalancedLines, IInv, TypeOK
<1>5. BookedDrift'
  BY <1>1 DEF Booking, BookedDrift
<1> QED
  BY <1>3, <1>4, <1>5 DEF Booking

(* A call that begins has saved nothing. *)
LEMMA LoadBooking ==
    ASSUME IInv, Booking, NEW t \in Requests, LoadEntry(t)
    PROVE  Booking'
<1>1. PICK e \in Entries :
        /\ pc[t] = "idle"
        /\ entry' = [entry EXCEPT ![t] = e]
        /\ AtLine(t, e, 1)
        /\ UNCHANGED <<rows, own, booked, posts>>
  BY DEF LoadEntry
<1> USE DEF own, rows
<1>2. /\ next'[t] = 1 /\ entry'[t] = e
      /\ pc'[t] \in {"read", "mark"}
      /\ pc'[t] = "mark" => ~ (1 <= Len(lines[e]))
  BY <1>1 DEF AtLine, IInv, TypeOK
<1>3. \A u \in Requests \ {t} : pc'[u] = pc[u] /\ next'[u] = next[u] /\ entry'[u] = entry[u]
  BY <1>1 DEF AtLine, IInv, TypeOK
<1>4. \A a \in Accounts : net[t][a] = 0
  BY <1>1 DEF IInv, ReadFirst, Views
<1>5. Done(t)' = {}
  BY <1>2 DEF Done
<1>6. LinesDone'
  <2>1. pc'[t] = "mark" => next'[t] = Len(lines[e]) + 1
    <3>1. Len(lines[e]) \in Nat
      BY LinesType DEF IInv
    <3> QED
      BY <1>2, <3>1
  <2> QED
    BY <1>1, <1>2, <1>3, <2>1 DEF Booking, LinesDone
<1>7. NetSoFar' /\ SidesSoFar'
  <2>1. /\ \A a \in Accounts : net'[t][a] = Sum(Changes(lines[e]), Naming(lines[e], Done(t)', a))
        /\ Excess(net'[t]) = LineExcess(lines[e], Done(t)')
    BY <1>1, <1>4, <1>5, NothingYet, ExcessZero
  <2>2. \A u \in Requests \ {t} :
          pc'[u] # "idle" =>
             /\ \A a \in Accounts :
                   net'[u][a] =
                      Sum(Changes(lines'[entry'[u]]), Naming(lines'[entry'[u]], Done(u)', a))
             /\ Excess(net'[u]) = LineExcess(lines'[entry'[u]], Done(u)')
    BY <1>1, <1>3, BooksKept
  <2> QED
    BY <1>1, <1>2, <2>1, <2>2 DEF NetSoFar, SidesSoFar
<1>8. BalancedLines' /\ BookedDrift'
  BY <1>1 DEF Booking, BalancedLines, BookedDrift
<1> QED
  BY <1>6, <1>7, <1>8 DEF Booking

(* Reading an account and marking the entry save no line. *)
LEMMA ReadBooking ==
    ASSUME IInv, Booking, NEW t \in Requests, ReadAccount(t) \/ SaveEntry(t)
    PROVE  Booking'
<1>1. /\ UNCHANGED <<status, lines, entry, next, net, booked, posts>>
      /\ pc[t] # "idle"
      /\ \/ pc' = [pc EXCEPT ![t] = "save"]
         \/ pc[t] = "mark" /\ pc' = [pc EXCEPT ![t] = "commit"]
  BY DEF ReadAccount, SaveEntry, rows, own
<1>2. \A u \in Requests :
        /\ pc'[u] # "idle" => pc[u] # "idle"
        /\ pc'[u] \in {"mark", "commit"} => pc[u] \in {"mark", "commit"}
  BY <1>1 DEF IInv, TypeOK
<1>3. LinesDone' /\ NetSoFar' /\ SidesSoFar'
  BY <1>1, <1>2, BooksKept DEF LinesDone, NetSoFar, SidesSoFar
<1>4. BalancedLines' /\ BookedDrift'
  BY <1>1 DEF Booking, BalancedLines, BookedDrift
<1> QED
  BY <1>3, <1>4 DEF Booking

(* A saved line adds its change to its account, and its amount to its side. *)
LEMMA SaveBooking ==
    ASSUME IInv, Booking, NEW t \in Requests, SaveAccount(t)
    PROVE  Booking'
<1> DEFINE ls == lines[entry[t]]
           n == next[t]
           line == Current(t)
           a == line.account
           c == Change(line)
<1>1. /\ pc[t] = "save"
      /\ net' = [net EXCEPT ![t][a] = @ + c]
      /\ AtLine(t, entry[t], n + 1)
      /\ UNCHANGED <<status, lines, entry, booked, posts>>
  BY DEF SaveAccount, rows
<1>2. line = ls[n] /\ line \in Line /\ a \in Accounts /\ c \in Int
  BY <1>1, CurrentLine DEF IInv, Current
<1>3. ls \in Seq(Line) /\ n \in 1..Len(ls)
  BY <1>1, LinesType DEF IInv, TypeOK
<1>4. /\ next'[t] = n + 1
      /\ pc'[t] \in {"read", "mark"}
      /\ pc'[t] = "mark" => ~ (n + 1 <= Len(ls))
  BY <1>1 DEF AtLine, IInv, TypeOK
<1>5. \A u \in Requests \ {t} :
        pc'[u] = pc[u] /\ next'[u] = next[u] /\ entry'[u] = entry[u] /\ net'[u] = net[u]
  BY <1>1 DEF AtLine, IInv, TypeOK
<1>6. /\ net'[t][a] = net[t][a] + c
      /\ \A b \in Accounts \ {a} : net'[t][b] = net[t][b]
      /\ \A b \in Accounts : net[t][b] \in Int
  BY <1>1, <1>2 DEF IInv, TypeOK
<1>7. Done(t) = 1..(n - 1) /\ Done(t)' = 1..n
  BY <1>3, <1>4 DEF Done
<1> HIDE DEF line, a, c, n, ls
<1>8. LinesDone'
  <2>1. pc'[t] = "mark" => next'[t] = Len(ls) + 1
    BY <1>3, <1>4
  <2> QED
    BY <1>1, <1>4, <1>5, <2>1 DEF Booking, LinesDone, ls
<1>9. \A b \in Accounts : net'[t][b] = Sum(Changes(ls), Naming(ls, 1..n, b))
  <2> TAKE b \in Accounts
  <2>1. net[t][b] = Sum(Changes(ls), Naming(ls, 1..(n - 1), b))
    BY <1>1, <1>7 DEF Booking, NetSoFar, ls
  <2>2. Sum(Changes(ls), Naming(ls, 1..n, b)) =
           net[t][b] + (IF ls[n].account = b THEN Change(ls[n]) ELSE 0)
    BY <1>3, <2>1, NextChange
  <2>3. CASE b = a
    BY <1>2, <1>6, <2>2, <2>3 DEF a, c
  <2>4. CASE b # a
    BY <1>2, <1>6, <2>2, <2>4 DEF a
  <2> QED
    BY <2>3, <2>4
<1>10. Excess(net'[t]) = LineExcess(ls, 1..n)
  <2>1. Excess(net[t]) = LineExcess(ls, 1..(n - 1))
    BY <1>1, <1>7 DEF Booking, SidesSoFar, ls
  <2>2. LineExcess(ls, 1..n) =
           Excess(net[t]) + (IF line.type = "debit" THEN line.amount ELSE -line.amount)
    BY <1>2, <1>3, <2>1, NextAmount
  <2>3. Excess(net'[t]) = Excess(net[t]) + (IF NormalBalance[a] = "debit" THEN c ELSE -c)
    BY <1>2, <1>6, ExcessChange
  <2>4. c = IF NormalBalance[a] = line.type THEN line.amount ELSE -line.amount
    BY DEF c, a, Change
  <2>5. line.amount \in Nat /\ line.type \in {"debit", "credit"}
        /\ NormalBalance[a] \in {"debit", "credit"}
    BY <1>2, GlAssumption DEF Line, Types
  <2>6. (IF NormalBalance[a] = "debit" THEN c ELSE -c)
           = (IF line.type = "debit" THEN line.amount ELSE -line.amount)
    BY <2>4, <2>5
  <2> QED
    BY <2>2, <2>3, <2>6
<1>11. \A u \in Requests \ {t} :
         pc'[u] # "idle" =>
            /\ \A b \in Accounts :
                  net'[u][b] =
                     Sum(Changes(lines'[entry'[u]]), Naming(lines'[entry'[u]], Done(u)', b))
            /\ Excess(net'[u]) = LineExcess(lines'[entry'[u]], Done(u)')
  BY <1>1, <1>5, BooksKept
<1>12. NetSoFar' /\ SidesSoFar'
  <2>1. lines'[entry'[t]] = ls
    BY <1>1 DEF ls
  <2> QED
    BY <1>7, <1>9, <1>10, <1>11, <2>1 DEF NetSoFar, SidesSoFar
<1>13. BalancedLines' /\ BookedDrift'
  BY <1>1 DEF Booking, BalancedLines, BookedDrift
<1> QED
  BY <1>8, <1>12, <1>13 DEF Booking

(* A call that is rolled back has booked nothing. *)
LEMMA RollbackBooking ==
    ASSUME IInv, Booking, NEW t \in Requests, Rollback(t)
    PROVE  Booking'
<1>1. End(t) /\ UNCHANGED <<status, lines, balance, booked, posts, overlap>> /\ TypeOK
  BY DEF Rollback, rows, IInv
<1>2. LinesDone' /\ NetSoFar' /\ SidesSoFar'
  BY <1>1, EndEffect, BooksKept DEF LinesDone, NetSoFar, SidesSoFar
<1>3. BalancedLines' /\ BookedDrift'
  BY <1>1 DEF Booking, BalancedLines, BookedDrift
<1> QED
  BY <1>2, <1>3 DEF Booking

(* What a call about to commit has added up: the net changes of its entry's lines. *)
LEMMA AtCommit ==
    ASSUME IInv, Booking, NEW t \in Requests, pc[t] = "commit"
    PROVE  /\ \A a \in Accounts :
                 net[t][a] = Sum(Changes(lines[entry[t]]),
                                 Naming(lines[entry[t]], 1..Len(lines[entry[t]]), a))
           /\ Excess(net[t]) \in -1..1
<1>1. entry[t] \in Entries /\ lines[entry[t]] \in Seq(Line)
  BY LinesType DEF IInv, TypeOK
<1>2. Done(t) = 1..Len(lines[entry[t]])
  BY <1>1 DEF Booking, LinesDone, Done
<1>3. Balanced(lines[entry[t]])
  BY <1>1 DEF IInv, Existing, Booking, BalancedLines
<1>4. LineExcess(lines[entry[t]], Done(t)) \in -1..1
  BY <1>1, <1>2, <1>3, AllLines
<1> QED
  BY <1>2, <1>4 DEF Booking, NetSoFar, SidesSoFar

(* A commit books an entry that is off by at most a cent. *)
LEMMA CommitBooking ==
    ASSUME IInv, Booking, NEW t \in Requests, Commit(t)
    PROVE  Booking'
<1> DEFINE e == entry[t]
<1>1. /\ pc[t] = "commit"
      /\ status' = [status EXCEPT ![e] = "posted"]
      /\ booked' = [a \in Accounts |-> booked[a] + net[t][a]]
      /\ posts' = [posts EXCEPT ![e] = @ + 1]
      /\ End(t) /\ TypeOK
      /\ UNCHANGED <<lines, overlap>>
  BY DEF Commit, IInv
<1>2. e \in Entries /\ status[e] # "none"
  BY <1>1 DEF IInv, TypeOK, Existing
<1>3. LinesDone' /\ NetSoFar' /\ SidesSoFar'
  BY <1>1, EndEffect, BooksKept DEF LinesDone, NetSoFar, SidesSoFar
<1>4. BalancedLines'
  BY <1>1, <1>2 DEF Booking, BalancedLines, TypeOK
<1>5. BookedDrift'
  <2>1. Excess(booked') = Excess(booked) + Excess(net[t])
    BY <1>1, ExcessPlus DEF TypeOK
  <2>2. Sum(posts', Entries) = Sum(posts, Entries) + 1
    <3>1. /\ \A f \in Entries : posts[f] \in Int
          /\ \A f \in Entries \ {e} : posts'[f] = posts[f]
          /\ posts'[e] = posts[e] + 1
      BY <1>1, <1>2 DEF TypeOK
    <3>2. IsFiniteSet(Entries)
      BY GlAssumption
    <3> HIDE DEF e
    <3> QED
      BY <1>2, <3>1, <3>2, SumChange
  <2>3. Excess(booked) \in Int /\ Sum(posts, Entries) \in Int
    BY <1>1, ExcessType, SumType, GlAssumption DEF TypeOK
  <2>4. Excess(net[t]) \in -1..1
    BY <1>1, AtCommit
  <2>5. Excess(booked) \in -Sum(posts, Entries)..Sum(posts, Entries)
    BY DEF Booking, BookedDrift
  <2>6. Excess(booked') \in -Sum(posts', Entries)..Sum(posts', Entries)
    BY <2>1, <2>2, <2>3, <2>4, <2>5
  <2> QED
    BY <2>6 DEF BookedDrift, Excess, Side
<1> QED
  BY <1>3, <1>4, <1>5 DEF Booking

(* Every step keeps the books. *)
LEMMA StepBooking == IInv /\ Booking /\ [Next]_vars => Booking'
<1> SUFFICES ASSUME IInv, Booking, [Next]_vars PROVE Booking'
  OBVIOUS
<1>1. CASE CreateEntry
  BY <1>1, CreateBooking
<1>2. ASSUME NEW t \in Requests, LoadEntry(t) PROVE Booking'
  BY <1>2, LoadBooking
<1>3. ASSUME NEW t \in Requests, ReadAccount(t) \/ SaveEntry(t) PROVE Booking'
  BY <1>3, ReadBooking
<1>4. ASSUME NEW t \in Requests, SaveAccount(t) PROVE Booking'
  BY <1>4, SaveBooking
<1>5. ASSUME NEW t \in Requests, Commit(t) PROVE Booking'
  BY <1>5, CommitBooking
<1>6. ASSUME NEW t \in Requests, Rollback(t) \/ AbortDeadlock(t) PROVE Booking'
  BY <1>6, RollbackBooking DEF AbortDeadlock
<1>7. CASE UNCHANGED vars
  <2>1. LinesDone' /\ NetSoFar' /\ SidesSoFar'
    BY <1>7, BooksKept DEF vars, rows, own, LinesDone, NetSoFar, SidesSoFar
  <2> QED
    BY <1>7, <2>1 DEF vars, rows, Booking, BalancedLines, BookedDrift
<1> QED
  BY <1>1, <1>2, <1>3, <1>4, <1>5, <1>6, <1>7 DEF Next

(* The books are always kept. *)
LEMMA SpecBooking == Spec => [](IInv /\ Booking)
<1>1. Init => Booking
  BY InitBooking
<1>2. IInv /\ Booking /\ [Next]_vars => Booking'
  BY StepBooking
<1> QED
  BY <1>1, <1>2, InitInv, StepInv, PTL DEF Spec

(* TrialBalanceDrift: as long as no two posts overlapped on an account, the sides of
   the ledger differ by at most a cent per committed post. *)
THEOREM TrialBalanceBounded == Spec => []TrialBalanceDrift
<1>1. IInv /\ Booking => TrialBalanceDrift
  <2> SUFFICES ASSUME IInv, Booking, overlap \cap Accounts = {}
               PROVE  Sum(balance, Side("debit")) - Sum(balance, Side("credit"))
                         \in -Sum(posts, Entries)..Sum(posts, Entries)
    BY DEF TrialBalanceDrift
  <2>1. \A a \in Accounts : balance[a] = booked[a] /\ booked[a] \in Int
    BY DEF IInv, NoLostChange, TypeOK
  <2>2. \A type : Sum(balance, Side(type)) = Sum(booked, Side(type))
    BY <2>1, SideFinite, SumCong
  <2> QED
    BY <2>2 DEF Booking, BookedDrift, Excess
<1> QED
  BY <1>1, SpecBooking, PTL

(* The net change of an entry, as GeneralLedger defines it. *)
LEMMA NetIsNet ==
    ASSUME NEW ls \in Seq(Line), NEW a
    PROVE  GL!Net(ls, a) = Sum(Changes(ls), Naming(ls, 1..Len(ls), a))
<1>1. DOMAIN ls = 1..Len(ls)
  OBVIOUS
<1> QED
  BY <1>1 DEF GL!Net, GL!Sum, GL!MapThenFoldSet, Sum, MapThenFoldSet, Changes, Naming, GL!Change, Change

(* A commit is the step Post of the ledger, createEntry its Create; reads that meet
   another call are its Overlap, and nothing else is visible. *)
LEMMA StepRefines == IInv /\ Booking /\ [Next]_vars => [GL!Next]_(GL!vars)
<1> SUFFICES ASSUME IInv, Booking, [Next]_vars PROVE GL!Next \/ UNCHANGED GL!vars
  OBVIOUS
<1>1. CASE CreateEntry
  <2>1. PICK e \in Entries, ls \in LineLists :
          /\ status[e] = "none"
          /\ status' = [status EXCEPT ![e] = "draft"]
          /\ lines' = [lines EXCEPT ![e] = ls]
          /\ UNCHANGED <<balance, overlap>>
    BY <1>1 DEF CreateEntry
  <2>2. \A f \in Entries \ {e} : lines'[f] = lines[f]
    BY <2>1 DEF IInv, TypeOK
  <2> QED
    BY <2>1, <2>2 DEF GL!Next, GL!Create
<1>2. ASSUME NEW t \in Requests, LoadEntry(t) \/ ReadAccount(t) PROVE GL!Next
  <2>1. overlap \subseteq overlap' /\ UNCHANGED <<status, lines, balance>>
    BY <1>2 DEF LoadEntry, ReadAccount, rows
  <2> QED
    BY <2>1 DEF GL!Next, GL!Overlap
<1>3. ASSUME NEW t \in Requests,
             SaveAccount(t) \/ SaveEntry(t) \/ Rollback(t) \/ AbortDeadlock(t)
      PROVE  UNCHANGED GL!vars
  BY <1>3 DEF SaveAccount, SaveEntry, Rollback, AbortDeadlock, rows, GL!vars
<1>4. ASSUME NEW t \in Requests, Commit(t) PROVE GL!Next
  <2> DEFINE e == entry[t]
  <2>1. /\ pc[t] = "commit"
        /\ status' = [status EXCEPT ![e] = "posted"]
        /\ balance' = [a \in Accounts |-> View(t, a)]
        /\ UNCHANGED <<lines, overlap>>
    BY <1>4 DEF Commit
  <2>2. e \in Entries /\ lines[e] \in Seq(Line)
    BY <2>1, LinesType DEF IInv, TypeOK
  <2>3. status[e] = "draft" \/ e \in overlap
    BY <2>1 DEF IInv, DraftInFlight
  <2>4. ASSUME NEW a \in Accounts \ overlap
        PROVE  balance'[a] = balance[a] + GL!Net(lines[e], a)
    <3>1. balance'[a] = booked[a] + net[t][a]
      BY <2>1, ViewIsOwn
    <3>2. balance[a] = booked[a]
      BY DEF IInv, NoLostChange
    <3>3. net[t][a] = GL!Net(lines[e], a)
      BY <2>1, <2>2, AtCommit, NetIsNet
    <3> QED
      BY <3>1, <3>2, <3>3
  <2> QED
    BY <2>1, <2>2, <2>3, <2>4 DEF GL!Next, GL!Post
<1>5. CASE UNCHANGED vars
  BY <1>5 DEF vars, rows, GL!vars
<1> QED
  BY <1>1, <1>2, <1>3, <1>4, <1>5 DEF Next

(* ImplementsLedger: each post moves all balances of its entry at once. *)
THEOREM PostingImplementsLedger == Spec => ImplementsLedger
<1>1. Init => GL!Init
  BY DEF Init, GL!Init
<1>2. IInv /\ Booking /\ [Next]_vars => [GL!Next]_(GL!vars)
  BY StepRefines
<1> QED
  BY <1>1, <1>2, SpecBooking, PTL DEF Spec, ImplementsLedger, GL!Spec

-----------------------------------------------------------------------------
(* Waiting in circles *)

(* Transactions that all wait for each other contain a circle: those for which
   nobody waits can be left out until none is left. *)
LEMMA CircleExists ==
    ASSUME NEW S \in SUBSET Requests, S # {}, \A t \in S : \E u \in S : WaitsFor(t, u)
    PROVE  \E t \in S : InCircle(t)
<1> DEFINE Waiting(T) == T # {} /\ \A t \in T : \E u \in T : WaitsFor(t, u)
           G == {T \in SUBSET Requests : Waiting(T) => \E t \in T : InCircle(t)}
<1>1. \A t, u : WaitsFor(t, u) => t # u
  BY DEF WaitsFor
<1>2. ASSUME NEW T \in SUBSET Requests, \A V \in SUBSET T : V # T => V \in G
      PROVE  T \in G
  <2> SUFFICES ASSUME Waiting(T) PROVE \E t \in T : InCircle(t)
    OBVIOUS
  <2>1. CASE \A t \in T : \E u \in T : WaitsFor(u, t)
    <3>1. PICK t \in T : TRUE
      OBVIOUS
    <3>2. InCircle(t)
      BY <2>1 DEF InCircle
    <3> QED
      BY <3>2
  <2>2. CASE ~ \A t \in T : \E u \in T : WaitsFor(u, t)
    <3>1. PICK s \in T : \A u \in T : ~WaitsFor(u, s)
      BY <2>2
    <3>2. Waiting(T \ {s})
      BY <1>1, <3>1
    <3>3. T \ {s} \in G
      BY <1>2
    <3> QED
      BY <3>2, <3>3
  <2> QED
    BY <2>1, <2>2
<1>3. \A T \in SUBSET Requests : T \in G
  <2> HIDE DEF G
  <2> QED
    BY <1>2, SubsetInduction, GlAssumption
<1> QED
  BY <1>3

(* While calls are in flight, one of them does not wait, or one waits in a circle and
   is aborted: locks taken in any order leave nobody waiting for ever. *)
Unblocked == InFlight # {} => \E t \in InFlight : ~Waits(t) \/ InCircle(t)

(* Unblocked: what PostSettles rests on besides fairness. Who holds a lock is in
   flight, so that all who wait wait for each other. *)
THEOREM NoStandstill == Spec => []Unblocked
<1>1. IInv => Unblocked
  <2> SUFFICES ASSUME IInv, InFlight # {}, \A t \in InFlight : Waits(t)
               PROVE  \E t \in InFlight : InCircle(t)
    BY DEF Unblocked
  <2>1. ASSUME NEW t \in Requests, NEW u \in Requests, WaitsFor(t, u) PROVE u \in InFlight
    BY <2>1 DEF WaitsFor, InFlight, IInv, ReadFirst
  <2>2. \A t \in InFlight : \E u \in InFlight : WaitsFor(t, u)
    BY <2>1 DEF Waits, InFlight
  <2>3. InFlight \in SUBSET Requests
    BY DEF InFlight
  <2> QED
    BY <2>2, <2>3, CircleExists
<1> QED
  BY <1>1, SpecInv, PTL
=============================================================================
