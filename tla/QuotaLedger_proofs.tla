------------------------- MODULE QuotaLedger_proofs -------------------------
(***************************************************************************)
(* Proofs about the quota ledger, for every set of accounts and jobs, every *)
(* limit and every price: what the accounts say is what the leases add up   *)
(* to, and every account behaves as the in-memory manager does.             *)
(***************************************************************************)
EXTENDS QuotaLedger, FiniteSetTheorems, TLAPS

-----------------------------------------------------------------------------
(* Sums of a function over a finite set. The sum of the community modules  *)
(* is a recursive function: that its equation has a solution, and what the  *)
(* sum does when one summand changes, follow by taking a smallest set for   *)
(* which it would be false.                                                 *)

Sum(f, S) == SumFunctionOnSet(f, S)
AnyOf(T) == CHOOSE x \in T : TRUE
Solves(g, f, S) ==
    g = [T \in SUBSET S |-> IF T = {} THEN 0 ELSE f[AnyOf(T)] + g[T \ {AnyOf(T)}]]

(* A non-empty family of subsets of a finite set has a smallest member.    *)
LEMMA SmallestSubset ==
    \A S, Family : IsFiniteSet(S) /\ Family \in SUBSET (SUBSET S) /\ Family # {} =>
        \E T \in Family : \A U \in Family : U \subseteq T => U = T
<1> SUFFICES ASSUME NEW S, IsFiniteSet(S), NEW Family \in SUBSET (SUBSET S), Family # {}
             PROVE  \E T \in Family : \A U \in Family : U \subseteq T => U = T
  OBVIOUS
<1>1. IsWellFoundedOn(StrictSubsetOrdering(S), SUBSET S)
  <2>1. IsWellFoundedOn(StrictSubsetOrdering(S), FiniteSubsetsOf(S))
    BY FS_StrictSubsetOrderingWellFounded, Zenon
  <2>2. FiniteSubsetsOf(S) = SUBSET S
    BY FS_FiniteSubsetsOfFinite, Zenon
  <2> QED
    BY <2>1, <2>2
<1>2. PICK T \in Family : \A U \in Family : <<U, T>> \notin StrictSubsetOrdering(S)
  BY <1>1, WFMin
<1>3. \A U \in Family : U \subseteq T => U = T
  BY <1>2 DEF StrictSubsetOrdering
<1> QED
  BY <1>3

LEMMA AnyOfIsMember == \A T : T # {} => AnyOf(T) \in T
BY DEF AnyOf

LEMMA SolutionValue ==
    ASSUME NEW f, NEW S, NEW g, Solves(g, f, S), NEW T, T \subseteq S
    PROVE  g[T] = IF T = {} THEN 0 ELSE f[AnyOf(T)] + g[T \ {AnyOf(T)}]
<1>1. T \in SUBSET S
  OBVIOUS
<1> QED
  BY <1>1, Zenon DEF Solves

(* Solutions agree wherever both are defined.                              *)
LEMMA SolutionsAgree ==
    ASSUME NEW f, NEW R, NEW S, NEW g, NEW h, Solves(g, f, R), Solves(h, f, S),
           IsFiniteSet(S), NEW T, T \subseteq R, T \subseteq S
    PROVE  g[T] = h[T]
<1> DEFINE Bad == {U \in SUBSET S : U \subseteq R /\ g[U] # h[U]}
<1>1. CASE Bad = {}
  BY <1>1
<1>2. CASE Bad # {}
  <2>1. PICK U \in Bad : \A V \in Bad : V \subseteq U => V = U
    <3>1. Bad \in SUBSET (SUBSET S) /\ IsFiniteSet(S)
      OBVIOUS
    <3> HIDE DEF Bad
    <3> QED
      BY <3>1, <1>2, SmallestSubset
  <2>2. /\ g[U] = IF U = {} THEN 0 ELSE f[AnyOf(U)] + g[U \ {AnyOf(U)}]
        /\ h[U] = IF U = {} THEN 0 ELSE f[AnyOf(U)] + h[U \ {AnyOf(U)}]
    BY <2>1, SolutionValue
  <2>3. U # {}
    BY <2>1, <2>2
  <2>4. U \ {AnyOf(U)} \notin Bad
    BY <2>1, <2>3, AnyOfIsMember
  <2>5. g[U \ {AnyOf(U)}] = h[U \ {AnyOf(U)}]
    BY <2>1, <2>4
  <2> QED
    BY <2>1, <2>2, <2>3, <2>5
<1> QED
  BY <1>1, <1>2

LEMMA SumIsValue ==
    ASSUME NEW f, NEW S
    PROVE  Sum(f, S) = (CHOOSE g : Solves(g, f, S))[S]
BY DEF Sum, SumFunctionOnSet, FoldFunctionOnSet, MapThenFoldSet, Solves, AnyOf

LEMMA SumOfSolution ==
    ASSUME NEW f, NEW S, IsFiniteSet(S), NEW R, NEW g, Solves(g, f, R), S \subseteq R,
           \E h : Solves(h, f, S)
    PROVE  Sum(f, S) = g[S]
<1> DEFINE h == CHOOSE h : Solves(h, f, S)
<1>1. Solves(h, f, S)
  BY Zenon
<1>2. Sum(f, S) = h[S]
  BY SumIsValue
<1> HIDE DEF h
<1> QED
  BY <1>1, <1>2, SolutionsAgree

(* The equation of the sum has a solution.                                 *)
LEMMA SolutionExists ==
    ASSUME NEW f, NEW S, IsFiniteSet(S)
    PROVE  \E g : Solves(g, f, S)
<1> DEFINE Bad == {T \in SUBSET S : ~ \E g : Solves(g, f, T)}
<1>1. CASE Bad = {}
  BY <1>1
<1>2. CASE Bad # {}
  <2>1. PICK R \in Bad : \A U \in Bad : U \subseteq R => U = R
    <3>1. Bad \in SUBSET (SUBSET S) /\ IsFiniteSet(S)
      OBVIOUS
    <3> HIDE DEF Bad
    <3> QED
      BY <3>1, <1>2, SmallestSubset
  <2> DEFINE Value(T) == IF T = {} THEN 0 ELSE f[AnyOf(T)] + Sum(f, T \ {AnyOf(T)})
             g == [T \in SUBSET R |-> Value(T)]
  <2>2. ASSUME NEW U, U \subseteq R, U # R
        PROVE  Sum(f, U) = Value(U)
    <3>1. PICK h : Solves(h, f, U)
      BY <2>1, <2>2
    <3>2. IsFiniteSet(U)
      BY <2>2, FS_Subset
    <3>3. Sum(f, U) = h[U]
      BY <3>1, <3>2, SumOfSolution
    <3>4. h[U] = IF U = {} THEN 0 ELSE f[AnyOf(U)] + h[U \ {AnyOf(U)}]
      <4>1. \A V : V \subseteq U => h[V] = IF V = {} THEN 0 ELSE f[AnyOf(V)] + h[V \ {AnyOf(V)}]
        BY <3>1, SolutionValue
      <4> QED
        BY <4>1
    <3>5. CASE U = {}
      BY <3>3, <3>4, <3>5
    <3>6. CASE U # {}
      <4> DEFINE V == U \ {AnyOf(U)}
      <4>1. V \subseteq U /\ V # R /\ IsFiniteSet(V)
        BY <2>2, <3>2, FS_Subset
      <4>2. \E k : Solves(k, f, V)
        BY <2>1, <2>2, <4>1
      <4>3. Sum(f, V) = h[V]
        BY <3>1, <4>1, <4>2, SumOfSolution
      <4> QED
        BY <3>3, <3>4, <3>6, <4>3
    <3> QED
      BY <3>5, <3>6
  <2>3. ASSUME NEW T \in SUBSET R, T # {}
        PROVE  Value(T) = f[AnyOf(T)] + g[T \ {AnyOf(T)}]
    <3>1. T \ {AnyOf(T)} \subseteq R /\ T \ {AnyOf(T)} # R
      BY <2>3, AnyOfIsMember
    <3>2. g[T \ {AnyOf(T)}] = Sum(f, T \ {AnyOf(T)})
      BY <2>2, <3>1
    <3> QED
      BY <2>3, <3>2
  <2>4. \A T \in SUBSET R : Value(T) = IF T = {} THEN 0 ELSE f[AnyOf(T)] + g[T \ {AnyOf(T)}]
    BY <2>3
  <2>5. Solves(g, f, R)
    <3> HIDE DEF Value
    <3> QED
      BY <2>4 DEF Solves
  <2> QED
    BY <2>1, <2>5
<1> QED
  BY <1>1, <1>2

LEMMA SumEquation ==
    ASSUME NEW f, NEW S, IsFiniteSet(S)
    PROVE  Sum(f, S) = IF S = {} THEN 0 ELSE f[AnyOf(S)] + Sum(f, S \ {AnyOf(S)})
<1>1. PICK g : Solves(g, f, S)
  BY SolutionExists
<1>2. Sum(f, S) = g[S]
  BY <1>1, SumOfSolution
<1>3. g[S] = IF S = {} THEN 0 ELSE f[AnyOf(S)] + g[S \ {AnyOf(S)}]
  BY <1>1, SolutionValue
<1>4. IsFiniteSet(S \ {AnyOf(S)})
  BY FS_Subset
<1>5. Sum(f, S \ {AnyOf(S)}) = g[S \ {AnyOf(S)}]
  BY <1>1, <1>4, SolutionExists, SumOfSolution
<1> QED
  BY <1>2, <1>3, <1>5

(* Any summand can be taken out of the sum.                                *)
LEMMA SumWithout ==
    ASSUME NEW S, IsFiniteSet(S), NEW f, \A x \in S : f[x] \in Int
    PROVE  /\ Sum(f, S) \in Int
           /\ \A x \in S : Sum(f, S) = f[x] + Sum(f, S \ {x})
<1> DEFINE Good(T) == /\ Sum(f, T) \in Int
                      /\ \A x \in T : Sum(f, T) = f[x] + Sum(f, T \ {x})
           Bad == {T \in SUBSET S : ~Good(T)}
<1>1. CASE Bad = {}
  BY <1>1
<1>2. CASE Bad # {}
  <2>1. PICK T \in Bad : \A U \in Bad : U \subseteq T => U = T
    <3>1. Bad \in SUBSET (SUBSET S) /\ IsFiniteSet(S)
      OBVIOUS
    <3> HIDE DEF Bad
    <3> QED
      BY <3>1, <1>2, SmallestSubset
  <2>2. \A U : U \subseteq T /\ U # T => Good(U)
    BY <2>1
  <2>3. T \subseteq S /\ IsFiniteSet(T)
    BY <2>1, FS_Subset
  <2>4. Sum(f, T) = IF T = {} THEN 0 ELSE f[AnyOf(T)] + Sum(f, T \ {AnyOf(T)})
    BY <2>3, SumEquation
  <2>5. CASE T = {}
    BY <2>1, <2>4, <2>5
  <2>6. CASE T # {}
    <3> DEFINE y == AnyOf(T)
    <3>1. y \in T /\ f[y] \in Int
      BY <2>3, <2>6, AnyOfIsMember
    <3>2. Good(T \ {y})
      BY <2>2, <3>1
    <3>3. Sum(f, T) = f[y] + Sum(f, T \ {y})
      BY <2>4, <2>6
    <3> HIDE DEF y
    <3>4. ASSUME NEW x \in T
          PROVE  Sum(f, T) = f[x] + Sum(f, T \ {x})
      <4>1. CASE x = y
        BY <3>3, <4>1
      <4>2. CASE x # y
        <5>1. Good(T \ {x})
          BY <2>2, <3>4
        <5>2. (T \ {x}) \ {y} = (T \ {y}) \ {x}
          OBVIOUS
        <5> DEFINE W == Sum(f, (T \ {y}) \ {x})
        <5>3. Sum(f, T \ {x}) = f[y] + W
          BY <3>1, <4>2, <5>1, <5>2
        <5>4. Sum(f, T \ {y}) = f[x] + W
          BY <3>2, <3>4, <4>2
        <5>5. Good((T \ {y}) \ {x})
          BY <2>2, <3>1
        <5>6. W \in Int /\ f[x] \in Int /\ f[y] \in Int
          BY <2>3, <3>1, <3>4, <5>5
        <5> HIDE DEF W
        <5> QED
          BY <3>3, <5>3, <5>4, <5>6
      <4> QED
        BY <4>1, <4>2
    <3>5. Sum(f, T) \in Int
      BY <3>1, <3>2, <3>3
    <3> QED
      BY <2>1, <3>4, <3>5
  <2> QED
    BY <2>5, <2>6
<1> QED
  BY <1>1, <1>2

(* The sum depends on the summands only.                                   *)
LEMMA SumSame ==
    ASSUME NEW S, IsFiniteSet(S), NEW f, NEW g, \A x \in S : f[x] = g[x]
    PROVE  Sum(f, S) = Sum(g, S)
<1> DEFINE Bad == {T \in SUBSET S : Sum(f, T) # Sum(g, T)}
<1>1. CASE Bad = {}
  BY <1>1
<1>2. CASE Bad # {}
  <2>1. PICK T \in Bad : \A U \in Bad : U \subseteq T => U = T
    <3>1. Bad \in SUBSET (SUBSET S) /\ IsFiniteSet(S)
      OBVIOUS
    <3> HIDE DEF Bad
    <3> QED
      BY <3>1, <1>2, SmallestSubset
  <2>2. T \subseteq S /\ IsFiniteSet(T)
    BY <2>1, FS_Subset
  <2>3. /\ Sum(f, T) = IF T = {} THEN 0 ELSE f[AnyOf(T)] + Sum(f, T \ {AnyOf(T)})
        /\ Sum(g, T) = IF T = {} THEN 0 ELSE g[AnyOf(T)] + Sum(g, T \ {AnyOf(T)})
    BY <2>2, SumEquation
  <2>4. T # {} /\ AnyOf(T) \in T
    BY <2>1, <2>3, AnyOfIsMember
  <2>5. Sum(f, T \ {AnyOf(T)}) = Sum(g, T \ {AnyOf(T)})
    BY <2>1, <2>2, <2>4
  <2> QED
    BY <2>1, <2>2, <2>3, <2>4, <2>5
<1> QED
  BY <1>1, <1>2

(* When one summand changes, the sum changes by as much.                   *)
LEMMA SumMoves ==
    ASSUME NEW S, IsFiniteSet(S), NEW f, NEW g, NEW p \in S,
           \A x \in S : f[x] \in Int /\ g[x] \in Int,
           \A x \in S \ {p} : f[x] = g[x]
    PROVE  Sum(g, S) = Sum(f, S) + (g[p] - f[p])
<1>1. IsFiniteSet(S \ {p})
  BY FS_Subset
<1>2. Sum(f, S \ {p}) = Sum(g, S \ {p})
  BY <1>1, SumSame
<1>3. Sum(f, S) = f[p] + Sum(f, S \ {p}) /\ Sum(g, S) = g[p] + Sum(g, S \ {p})
  BY SumWithout
<1>4. Sum(f, S \ {p}) \in Int /\ f[p] \in Int /\ g[p] \in Int
  BY <1>1, SumWithout
<1> QED
  BY <1>2, <1>3, <1>4

LEMMA SumOfZeros ==
    ASSUME NEW S, IsFiniteSet(S), NEW f, \A x \in S : f[x] = 0
    PROVE  Sum(f, S) = 0
<1> DEFINE Bad == {T \in SUBSET S : Sum(f, T) # 0}
<1> SUFFICES ASSUME Bad # {} PROVE FALSE
  OBVIOUS
<1>1. PICK T \in Bad : \A U \in Bad : U \subseteq T => U = T
  <2>1. Bad \in SUBSET (SUBSET S) /\ IsFiniteSet(S)
    OBVIOUS
  <2> HIDE DEF Bad
  <2> QED
    BY <2>1, SmallestSubset
<1>2. T \subseteq S /\ IsFiniteSet(T)
  BY <1>1, FS_Subset
<1>3. Sum(f, T) = IF T = {} THEN 0 ELSE f[AnyOf(T)] + Sum(f, T \ {AnyOf(T)})
  BY <1>2, SumEquation
<1>4. T # {} /\ AnyOf(T) \in T
  BY <1>1, <1>3, AnyOfIsMember
<1>5. Sum(f, T \ {AnyOf(T)}) = 0 /\ f[AnyOf(T)] = 0
  BY <1>1, <1>2, <1>4
<1> QED
  BY <1>1, <1>3, <1>4, <1>5

(* A sum of naturals is at least each of its summands.                     *)
LEMMA SumAtLeast ==
    ASSUME NEW S, IsFiniteSet(S), NEW f, \A x \in S : f[x] \in Nat
    PROVE  Sum(f, S) \in Nat /\ \A x \in S : f[x] <= Sum(f, S)
<1> DEFINE Bad == {T \in SUBSET S : Sum(f, T) \notin Nat}
<1>1. Bad = {}
  <2> SUFFICES ASSUME Bad # {} PROVE FALSE
    OBVIOUS
  <2>1. PICK T \in Bad : \A U \in Bad : U \subseteq T => U = T
    <3>1. Bad \in SUBSET (SUBSET S) /\ IsFiniteSet(S)
      OBVIOUS
    <3> HIDE DEF Bad
    <3> QED
      BY <3>1, SmallestSubset
  <2>2. T \subseteq S /\ IsFiniteSet(T)
    BY <2>1, FS_Subset
  <2>3. Sum(f, T) = IF T = {} THEN 0 ELSE f[AnyOf(T)] + Sum(f, T \ {AnyOf(T)})
    BY <2>2, SumEquation
  <2>4. T # {} /\ AnyOf(T) \in T
    BY <2>1, <2>3, AnyOfIsMember
  <2>5. Sum(f, T \ {AnyOf(T)}) \in Nat /\ f[AnyOf(T)] \in Nat
    BY <2>1, <2>2, <2>4
  <2> QED
    BY <2>1, <2>3, <2>4, <2>5
<1>2. ASSUME NEW x \in S
      PROVE  f[x] <= Sum(f, S)
  <2>1. Sum(f, S) = f[x] + Sum(f, S \ {x})
    BY SumWithout
  <2>2. Sum(f, S \ {x}) \in Nat /\ f[x] \in Nat
    BY <1>1
  <2> QED
    BY <2>1, <2>2
<1> QED
  BY <1>1, <1>2

-----------------------------------------------------------------------------
(* The inductive invariant.                                                *)

USE QuotaAssumption

(* An account that was never opened is empty, an open one has a version.   *)
AccountOK(a) ==
    IF account[a].exists THEN account[a].version > 0
    ELSE account[a] = [exists |-> FALSE, limit |-> 0, initial |-> 0,
                       consumed |-> 0, reserved |-> 0, version |-> 0]

(* A lease is reserved in an open account, holds what its job claims, runs  *)
(* only while it is active and gives nothing back before it is settled.     *)
LeaseOK(p) ==
    /\ lease[p].state = "none" => lease[p] = NoLease
    /\ lease[p].state # "none" => account[p[2]].exists /\ lease[p].reserved = Units[p[1]]
    /\ lease[p].left > 0 => lease[p].state = "active"
    /\ lease[p].consumed + lease[p].released <= lease[p].reserved
    /\ lease[p].state # "settled" => lease[p].released = 0

(* It exists with the accepted decision of its job.                        *)
DecisionOK(p) == lease[p].state # "none" <=> decision[p[1]] = "accepted"

(* The halves of a job's reservation have been closed by the same calls.   *)
Closing == Keys \ UncertainKeys
HalvesOK(p, q) ==
    /\ lease[p].state = "settled" => lease[q].state = "settled"
    /\ rows[p] \cap Closing = rows[q] \cap Closing
    /\ Dimension[p[2]] = Dimension[q[2]] =>
          lease[p].consumed = lease[q].consumed /\ usage[p] = usage[q]

(* What a recoverer works on is lost; it closes a reservation as a whole,  *)
(* none of which is active any more.                                       *)
Past == {"expired", "uncertain", "settled"}
Gone == {"lost", "withheld"}
RecoveryOK(r) ==
    \/ recovery[r] = Idle
    \/ /\ recovery[r].job \in Jobs /\ recovery[r].step # "idle"
       /\ fence[recovery[r].job] \in Gone
       /\ recovery[r].batch \subseteq Of(recovery[r].job)
       /\ recovery[r].step = "close" =>
             /\ recovery[r].batch = Of(recovery[r].job)
             /\ \A p \in Of(recovery[r].job) : lease[p].state \in Past

GrantOK(g) == grant[g].account # NoAccount => account[grant[g].account].exists

AccountsOK == \A a \in Accounts : AccountOK(a)
LeasesOK == \A p \in Leases : LeaseOK(p)
DecisionsOK == \A p \in Leases : DecisionOK(p)
PairsOK == \A j \in Jobs : \A p, q \in Of(j) : HalvesOK(p, q)
RecoveriesOK == \A r \in Recoverers : RecoveryOK(r)
GrantsOK == \A g \in Grants : GrantOK(g)

Books == TypeOK /\ WithinLimit /\ ProjectionsAreSums /\ AccountsOK /\ LeasesOK
IInv == Books /\ DecisionsOK /\ PairsOK /\ RecoveriesOK /\ GrantsOK

LEMMA LeaseFacts ==
    /\ \A p \in Leases : /\ p = <<p[1], p[2]>> /\ p[1] \in Jobs /\ p[2] \in Accounts
                         /\ p[2] \in Claims[p[1]] /\ p \in In(p[2]) /\ p \in Of(p[1])
    /\ \A a \in Accounts : \A p \in In(a) : p \in Leases /\ p[2] = a
    /\ \A j \in Jobs : \A p \in Of(j) : p \in Leases /\ p[1] = j
    /\ \A j \in Jobs, a \in Accounts :
          /\ <<j, a>>[1] = j /\ <<j, a>>[2] = a
          /\ a \in Claims[j] <=> <<j, a>> \in Leases
BY DEF Leases, In, Of

LEMMA LeasesOfAccountFinite == \A a \in Accounts : IsFiniteSet(In(a))
<1> SUFFICES ASSUME NEW a \in Accounts PROVE IsFiniteSet(In(a))
  OBVIOUS
<1>1. IsFiniteSet({a})
  BY FS_Singleton
<1>2. IsFiniteSet(Jobs \X {a})
  BY <1>1, FS_Product
<1>3. In(a) \subseteq Jobs \X {a}
  BY DEF In, Leases
<1> QED
  BY <1>2, <1>3, FS_Subset

-----------------------------------------------------------------------------
(* What a step may do to one account and to the leases in it. Every action  *)
(* of the ledger does one of these things to every account.                 *)

SameLeases(S) == \A p \in S : lease'[p] = lease[p] /\ usage'[p] = usage[p]

Marks(a) ==
    /\ account'[a] = account[a]
    /\ \A p \in In(a) :
          /\ usage'[p] = usage[p]
          /\ \/ lease'[p] = lease[p]
             \/ Lapsed(p) /\ lease'[p] = [lease[p] EXCEPT !.state = "expired"]

Ages(a) ==
    /\ account'[a] = account[a]
    /\ \A p \in In(a) :
          /\ usage'[p] = usage[p]
          /\ lease'[p] = IF lease[p].left > 0 THEN [lease[p] EXCEPT !.left = @ - 1] ELSE lease[p]

Opens(a) ==
    /\ ~account[a].exists
    /\ \E limit, initial \in 0 .. MaxUnits : account'[a] = Opened(limit, initial)
    /\ SameLeases(In(a))

Binds(a) ==
    /\ account[a].exists
    /\ \E initial \in 0 .. MaxUnits : account'[a] = [account[a] EXCEPT !.initial = initial]
    /\ SameLeases(In(a))

Raises(a) ==
    /\ account[a].exists /\ account[a].limit <= MaxUnits - Delta
    /\ account'[a] = [account[a] EXCEPT !.limit = @ + Delta, !.version = @ + 1]
    /\ SameLeases(In(a))

Reserves(p, limit) ==
    LET row == Ensured(p[2], limit)
    IN  /\ lease[p].state = "none"
        /\ Available(row) >= Units[p[1]]
        /\ account'[p[2]] = Charged(row, Units[p[1]])
        /\ lease'[p] = Reserved(Units[p[1]]) /\ usage'[p] = usage[p]

Takes(p) ==
    /\ lease[p].state = "none"
    /\ account[p[2]].exists /\ Available(account[p[2]]) >= Units[p[1]]
    /\ account'[p[2]] = Charged(account[p[2]], Units[p[1]])
    /\ lease'[p] = Reserved(Units[p[1]]) /\ usage'[p] = usage[p]

Running(p) == lease[p].state = "active" /\ lease[p].left > 0

Charges(p, e) ==
    /\ Running(p) /\ e \notin usage[p]
    /\ Cost[e] <= Remaining(p) /\ Cost[e] <= account[p[2]].reserved
    /\ account'[p[2]] = Spent(account[p[2]], Cost[e])
    /\ lease'[p] = [lease[p] EXCEPT !.consumed = @ + Cost[e]]
    /\ usage'[p] = usage[p] \cup {e}

Renews(p) ==
    /\ Running(p)
    /\ account'[p[2]] = account[p[2]]
    /\ lease'[p] = [lease[p] EXCEPT !.left = TTL] /\ usage'[p] = usage[p]

Doubts(p) ==
    /\ Running(p)
    /\ account'[p[2]] = account[p[2]]
    /\ lease'[p] = [lease[p] EXCEPT !.state = "uncertain", !.left = 0] /\ usage'[p] = usage[p]

Settles(p, key) ==
    /\ Running(p) \/ lease[p].state \in {"expired", "uncertain"}
    /\ key \in Closing
    /\ Remaining(p) <= account[p[2]].reserved
    /\ account'[p[2]] = Balanced(p, key)
    /\ lease'[p] = Closed(p, key) /\ usage'[p] = usage[p]

Moves(p) ==
    \/ \E limit \in 1 .. MaxUnits : Reserves(p, limit)
    \/ Takes(p)
    \/ \E e \in Events : Charges(p, e)
    \/ Renews(p)
    \/ Doubts(p)
    \/ \E key \in Keys : Settles(p, key)

AccountStep(a) ==
    \/ Marks(a) \/ Ages(a) \/ Opens(a) \/ Binds(a) \/ Raises(a)
    \/ \E p \in In(a) : Moves(p) /\ SameLeases(In(a) \ {p})

Rows ==
    /\ account' = [a \in Accounts |-> account'[a]]
    /\ lease' = [p \in Leases |-> lease'[p]]
    /\ usage' = [p \in Leases |-> usage'[p]]

Moved == Rows /\ \A a \in Accounts : AccountStep(a)

-----------------------------------------------------------------------------
(* What such a step keeps. First one lease and its account.                *)

RowOK(row) ==
    /\ row \in Account /\ row.exists /\ row.version > 0
    /\ row.consumed + row.reserved <= row.limit

Keeps(p) ==
    /\ RowOK(account'[p[2]])
    /\ lease'[p] \in Lease /\ usage'[p] \in SUBSET Events
    /\ account'[p[2]].consumed - account[p[2]].consumed = lease'[p].consumed - lease[p].consumed
    /\ account'[p[2]].reserved - account[p[2]].reserved = Remaining(p)' - Remaining(p)
    /\ LeaseOK(p)'

LEMMA AccountTyped ==
    ASSUME TypeOK, WithinLimit, NEW a \in Accounts, AccountOK(a)
    PROVE  /\ account[a] \in Account
           /\ account[a].consumed + account[a].reserved <= account[a].limit
           /\ account[a].exists => RowOK(account[a])
BY DEF TypeOK, WithinLimit, AccountOK, RowOK

LEMMA LeaseTyped ==
    ASSUME TypeOK, NEW p \in Leases
    PROVE  lease[p] \in Lease /\ usage[p] \in SUBSET Events
BY DEF TypeOK

LEMMA Constants ==
    /\ MaxUnits \in Nat /\ TTL \in Nat /\ TTL > 0 /\ Delta \in Nat /\ Delta > 0
    /\ \A j \in Jobs : /\ Units[j] \in Nat /\ Units[j] > 0 /\ Units[j] <= MaxUnits
                       /\ PolicyLimit[j] \in 1 .. MaxUnits /\ Policy[j] \in Policies
    /\ \A e \in Events : Cost[e] \in Nat /\ Cost[e] > 0 /\ Cost[e] <= MaxUnits
OBVIOUS

LEMMA AccountUpdate ==
    ASSUME NEW row \in Account, NEW r, NEW c, NEW v
    PROVE  [row EXCEPT !.reserved = r, !.consumed = c, !.version = v] =
               [exists |-> row.exists, limit |-> row.limit, initial |-> row.initial,
                consumed |-> c, reserved |-> r, version |-> v]
<1>1. PICK mid : mid = [row EXCEPT !.reserved = r, !.consumed = c]
  OBVIOUS
<1>2. mid = [exists |-> row.exists, limit |-> row.limit, initial |-> row.initial,
             consumed |-> c, reserved |-> r, version |-> row.version]
  BY <1>1 DEF Account
<1>3. [mid EXCEPT !.version = v] =
          [exists |-> row.exists, limit |-> row.limit, initial |-> row.initial,
           consumed |-> c, reserved |-> r, version |-> v]
  BY <1>2
<1> QED
  BY <1>1, <1>3

LEMMA LeaseUpdate ==
    ASSUME NEW row \in Lease, NEW s, NEW n
    PROVE  /\ [row EXCEPT !.state = s, !.left = 0, !.consumed = n] =
                 [state |-> s, left |-> 0, reserved |-> row.reserved, consumed |-> n,
                  released |-> row.released]
           /\ [row EXCEPT !.state = s, !.left = 0, !.released = n] =
                 [state |-> s, left |-> 0, reserved |-> row.reserved, consumed |-> row.consumed,
                  released |-> n]
<1>1. PICK mid : mid = [row EXCEPT !.state = s, !.left = 0]
  OBVIOUS
<1>2. mid = [state |-> s, left |-> 0, reserved |-> row.reserved, consumed |-> row.consumed,
             released |-> row.released]
  BY <1>1 DEF Lease
<1>3. /\ [mid EXCEPT !.consumed = n] =
            [state |-> s, left |-> 0, reserved |-> row.reserved, consumed |-> n,
             released |-> row.released]
      /\ [mid EXCEPT !.released = n] =
            [state |-> s, left |-> 0, reserved |-> row.reserved, consumed |-> row.consumed,
             released |-> n]
  BY <1>2
<1> QED
  BY <1>1, <1>3

LEMMA ReservationKeeps ==
    ASSUME NEW p \in Leases, LeaseOK(p), lease[p] \in Lease, usage[p] \in SUBSET Events,
           lease[p].state = "none",
           NEW row \in Account, row.exists, row.version \in Nat,
           row.consumed + row.reserved <= row.limit, Available(row) >= Units[p[1]],
           row.consumed = account[p[2]].consumed, row.reserved = account[p[2]].reserved,
           account'[p[2]] = Charged(row, Units[p[1]]),
           lease'[p] = Reserved(Units[p[1]]), usage'[p] = usage[p]
    PROVE  Keeps(p)
<1> DEFINE u == Units[p[1]]
<1>1. u \in Nat /\ u > 0 /\ u <= MaxUnits /\ MaxUnits \in Nat /\ TTL \in Nat
  BY LeaseFacts, Constants
<1> HIDE DEF u
<1>2. /\ account'[p[2]] = [exists |-> row.exists, limit |-> row.limit, initial |-> row.initial,
                           consumed |-> row.consumed, reserved |-> row.reserved + u,
                           version |-> row.version + 1]
      /\ lease'[p] = [state |-> "active", left |-> TTL, reserved |-> u, consumed |-> 0, released |-> 0]
  <2>1. account'[p[2]] = [row EXCEPT !.reserved = @ + u, !.version = @ + 1]
    BY DEF Charged, u
  <2>2. lease'[p] = [NoLease EXCEPT !.state = "active", !.left = TTL, !.reserved = u]
    BY DEF Reserved, u
  <2>3. account'[p[2]] = [exists |-> row.exists, limit |-> row.limit, initial |-> row.initial,
                          consumed |-> row.consumed, reserved |-> row.reserved + u,
                          version |-> row.version + 1]
    BY <2>1 DEF Account
  <2> QED
    BY <2>2, <2>3 DEF NoLease
<1>3. row.limit - row.consumed - row.reserved >= u
  BY DEF Available, u
<1>4. /\ row.limit \in 0 .. MaxUnits /\ row.initial \in 0 .. MaxUnits
      /\ row.consumed \in 0 .. MaxUnits /\ row.reserved \in 0 .. MaxUnits
  BY DEF Account
<1>5. RowOK(account'[p[2]])
  BY <1>1, <1>2, <1>3, <1>4 DEF RowOK, Account
<1>6. lease'[p] \in Lease
  BY <1>1, <1>2 DEF Lease, LeaseState
<1>7. lease[p].consumed = 0 /\ lease[p].reserved = 0 /\ lease[p].released = 0
  BY DEF LeaseOK, NoLease
<1>8. LeaseOK(p)'
  BY <1>1, <1>2, <1>5 DEF LeaseOK, RowOK, u
<1> QED
  BY <1>1, <1>2, <1>4, <1>5, <1>6, <1>7, <1>8 DEF Keeps, Remaining

LEMMA EnsuredFits ==
    ASSUME TypeOK, WithinLimit, NEW a \in Accounts, AccountOK(a), NEW limit \in 1 .. MaxUnits
    PROVE  /\ RowOK(Ensured(a, limit))
           /\ Ensured(a, limit).consumed = account[a].consumed
           /\ Ensured(a, limit).reserved = account[a].reserved
<1>1. account[a] \in Account /\ account[a].consumed + account[a].reserved <= account[a].limit
  BY AccountTyped
<1>2. limit \in 0 .. MaxUnits
  BY Constants
<1>3. CASE ~account[a].exists
  BY <1>1, <1>2, <1>3, Constants DEF Ensured, Opened, RowOK, Account, AccountOK
<1>4. CASE account[a].exists
  <2>1. RowOK(account[a])
    BY <1>4, AccountTyped
  <2>2. CASE account[a].initial = 0
    <3>1. Ensured(a, limit) = [account[a] EXCEPT !.initial = limit]
      BY <1>4, <2>2 DEF Ensured
    <3> QED
      BY <1>1, <1>2, <2>1, <3>1 DEF RowOK, Account
  <2>3. CASE account[a].initial # 0
    BY <1>4, <2>1, <2>3 DEF Ensured
  <2> QED
    BY <2>2, <2>3
<1> QED
  BY <1>3, <1>4

LEMMA ReservesKeeps ==
    ASSUME TypeOK, WithinLimit, NEW p \in Leases, AccountOK(p[2]), LeaseOK(p),
           NEW limit \in 1 .. MaxUnits, Reserves(p, limit)
    PROVE  Keeps(p)
<1>1. p[2] \in Accounts
  BY LeaseFacts
<1>2. /\ RowOK(Ensured(p[2], limit))
      /\ Ensured(p[2], limit).consumed = account[p[2]].consumed
      /\ Ensured(p[2], limit).reserved = account[p[2]].reserved
  BY <1>1, EnsuredFits
<1>3. lease[p] \in Lease /\ usage[p] \in SUBSET Events
  BY LeaseTyped
<1> QED
  BY <1>2, <1>3, ReservationKeeps DEF Reserves, RowOK, Account

LEMMA TakesKeeps ==
    ASSUME TypeOK, WithinLimit, NEW p \in Leases, AccountOK(p[2]), LeaseOK(p), Takes(p)
    PROVE  Keeps(p)
<1>1. p[2] \in Accounts
  BY LeaseFacts
<1>2. RowOK(account[p[2]])
  BY <1>1, AccountTyped DEF Takes
<1>3. lease[p] \in Lease /\ usage[p] \in SUBSET Events
  BY LeaseTyped
<1> QED
  BY <1>2, <1>3, ReservationKeeps DEF Takes, RowOK, Account

LEMMA ChargesKeeps ==
    ASSUME TypeOK, WithinLimit, NEW p \in Leases, AccountOK(p[2]), LeaseOK(p),
           NEW e \in Events, Charges(p, e)
    PROVE  Keeps(p)
<1> DEFINE a == p[2]  row == account[a]  u == Cost[e]  l == lease[p]
<1>1. a \in Accounts /\ p[1] \in Jobs
  BY LeaseFacts
<1>2. l \in Lease /\ usage[p] \in SUBSET Events /\ u \in Nat
  BY LeaseTyped, Constants
<1>3. RowOK(row)
  BY <1>1, AccountTyped DEF Charges, LeaseOK, Running
<1>4. /\ u <= row.reserved
      /\ u <= l.reserved - l.consumed - l.released
      /\ l.state = "active"
      /\ account'[a] = [row EXCEPT !.reserved = @ - u, !.consumed = @ + u, !.version = @ + 1]
      /\ lease'[p] = [l EXCEPT !.consumed = @ + u]
      /\ usage'[p] = usage[p] \cup {e}
  BY DEF Charges, Remaining, Spent, Running
<1>5. /\ l.reserved = Units[p[1]] /\ l.consumed + l.released <= l.reserved /\ l.released = 0
  BY <1>4 DEF LeaseOK
<1> HIDE DEF a, row, u, l
<1>6. /\ account'[a] = [exists |-> row.exists, limit |-> row.limit, initial |-> row.initial,
                        consumed |-> row.consumed + u, reserved |-> row.reserved - u,
                        version |-> row.version + 1]
      /\ lease'[p] = [state |-> l.state, left |-> l.left, reserved |-> l.reserved,
                      consumed |-> l.consumed + u, released |-> l.released]
  <2>1. row \in Account
    BY <1>3 DEF RowOK
  <2>2. account'[a] = [exists |-> row.exists, limit |-> row.limit, initial |-> row.initial,
                       consumed |-> row.consumed + u, reserved |-> row.reserved - u,
                       version |-> row.version + 1]
    <3>1. account'[a] = [row EXCEPT !.reserved = row.reserved - u, !.consumed = row.consumed + u,
                                    !.version = row.version + 1]
      BY <1>4
    <3>2. \A r, c, v : [row EXCEPT !.reserved = r, !.consumed = c, !.version = v] =
              [exists |-> row.exists, limit |-> row.limit, initial |-> row.initial,
               consumed |-> c, reserved |-> r, version |-> v]
      BY <2>1, AccountUpdate
    <3> QED
      BY <3>1, <3>2
  <2> QED
    BY <1>2, <1>4, <2>2 DEF Lease
<1>7. RowOK(account'[a])
  <2>1. /\ row.limit \in 0 .. MaxUnits /\ row.initial \in 0 .. MaxUnits /\ row.exists = TRUE
        /\ row.consumed \in 0 .. MaxUnits /\ row.reserved \in 0 .. MaxUnits
        /\ row.version \in Nat /\ row.consumed + row.reserved <= row.limit
    BY <1>3 DEF RowOK, Account
  <2>2. row.consumed + u \in 0 .. MaxUnits /\ row.reserved - u \in 0 .. MaxUnits
    BY <1>2, <1>4, <2>1, Constants
  <2>3. row.version + 1 \in Nat /\ row.version + 1 > 0
    BY <2>1
  <2>4. (row.consumed + u) + (row.reserved - u) <= row.limit
    BY <1>2, <2>1
  <2>5. account'[a] \in Account
    <3>1. row.exists \in BOOLEAN
      BY <1>3 DEF RowOK, Account
    <3> QED
      BY <1>6, <2>1, <2>2, <2>3, <3>1 DEF Account
  <2> QED
    BY <1>6, <2>1, <2>3, <2>4, <2>5 DEF RowOK
<1>8. lease'[p] \in Lease /\ usage'[p] \in SUBSET Events
  BY <1>2, <1>4, <1>6, Constants DEF Lease
<1>9. LeaseOK(p)'
  BY <1>1, <1>2, <1>4, <1>5, <1>6, <1>7, Constants DEF LeaseOK, RowOK, a, Lease
<1> QED
  BY <1>2, <1>3, <1>4, <1>6, <1>7, <1>8, <1>9 DEF Keeps, Remaining, RowOK, Account, Lease, a, row, l

LEMMA RenewsKeeps ==
    ASSUME TypeOK, WithinLimit, NEW p \in Leases, AccountOK(p[2]), LeaseOK(p), Renews(p)
    PROVE  Keeps(p)
<1> DEFINE a == p[2]  l == lease[p]
<1>1. a \in Accounts
  BY LeaseFacts
<1>2. l \in Lease /\ usage[p] \in SUBSET Events
  BY LeaseTyped
<1>3. RowOK(account[a])
  BY <1>1, AccountTyped DEF Renews, LeaseOK, Running
<1>4. lease'[p] = [l EXCEPT !.left = TTL] /\ account'[a] = account[a] /\ usage'[p] = usage[p]
      /\ l.state = "active"
  BY DEF Renews, Running
<1> HIDE DEF a, l
<1>5. lease'[p] = [state |-> l.state, left |-> TTL, reserved |-> l.reserved,
                   consumed |-> l.consumed, released |-> l.released]
  BY <1>2, <1>4 DEF Lease
<1>6. lease'[p] \in Lease
  BY <1>2, <1>5, Constants DEF Lease
<1>7. LeaseOK(p)'
  BY <1>3, <1>4, <1>5, Constants DEF LeaseOK, RowOK, a, l
<1> QED
  BY <1>2, <1>3, <1>4, <1>5, <1>6, <1>7 DEF Keeps, Remaining, RowOK, Account, Lease, a, l

LEMMA DoubtsKeeps ==
    ASSUME TypeOK, WithinLimit, NEW p \in Leases, AccountOK(p[2]), LeaseOK(p), Doubts(p)
    PROVE  Keeps(p)
<1> DEFINE a == p[2]  l == lease[p]
<1>1. a \in Accounts
  BY LeaseFacts
<1>2. l \in Lease /\ usage[p] \in SUBSET Events
  BY LeaseTyped
<1>3. RowOK(account[a])
  BY <1>1, AccountTyped DEF Doubts, LeaseOK, Running
<1>4. lease'[p] = [l EXCEPT !.state = "uncertain", !.left = 0] /\ account'[a] = account[a]
      /\ usage'[p] = usage[p] /\ l.state = "active"
  BY DEF Doubts, Running
<1> HIDE DEF a, l
<1>5. lease'[p] = [state |-> "uncertain", left |-> 0, reserved |-> l.reserved,
                   consumed |-> l.consumed, released |-> l.released]
  BY <1>2, <1>4 DEF Lease
<1>6. lease'[p] \in Lease
  BY <1>2, <1>5, Constants DEF Lease, LeaseState
<1>7. LeaseOK(p)'
  BY <1>3, <1>4, <1>5, Constants DEF LeaseOK, RowOK, a, l
<1> QED
  BY <1>2, <1>3, <1>4, <1>5, <1>6, <1>7 DEF Keeps, Remaining, RowOK, Account, Lease, a, l

LEMMA SettlesKeeps ==
    ASSUME TypeOK, WithinLimit, NEW p \in Leases, AccountOK(p[2]), LeaseOK(p),
           NEW key \in Keys, Settles(p, key)
    PROVE  Keeps(p)
<1> DEFINE a == p[2]  row == account[a]  l == lease[p]  rest == l.reserved - l.consumed - l.released
           spent == IF Policy[p[1]] = "never" THEN rest ELSE 0
           freed == IF Policy[p[1]] = "never" THEN 0 ELSE rest
<1>1. a \in Accounts /\ p[1] \in Jobs
  BY LeaseFacts
<1>2. l \in Lease /\ usage[p] \in SUBSET Events
  BY LeaseTyped
<1>3. l.state # "none" /\ rest <= row.reserved /\ key \notin UncertainKeys /\ usage'[p] = usage[p]
  BY DEF Settles, Running, Closing, Remaining
<1>4. /\ RowOK(row) /\ l.reserved = Units[p[1]] /\ l.consumed + l.released <= l.reserved
  BY <1>1, <1>3, AccountTyped DEF LeaseOK
<1>5. rest \in Nat
  BY <1>2, <1>4 DEF Lease
<1>6. /\ account'[a] = [exists |-> row.exists, limit |-> row.limit, initial |-> row.initial,
                        consumed |-> row.consumed + spent, reserved |-> row.reserved - rest,
                        version |-> row.version + 1]
      /\ lease'[p] = [state |-> "settled", left |-> 0, reserved |-> l.reserved,
                      consumed |-> l.consumed + spent, released |-> l.released + freed]
  <2>1. account'[a] = [row EXCEPT !.reserved = @ - rest,
                                  !.consumed = IF Policy[p[1]] = "never" THEN @ + rest ELSE @,
                                  !.version = @ + 1]
    BY <1>3 DEF Settles, Balanced, Remaining
  <2>2. lease'[p] = IF Policy[p[1]] = "never"
                    THEN [l EXCEPT !.state = "settled", !.left = 0, !.consumed = @ + rest]
                    ELSE [l EXCEPT !.state = "settled", !.left = 0, !.released = @ + rest]
    BY <1>3 DEF Settles, Closed, Remaining
  <2>3. row \in Account
    BY <1>4 DEF RowOK
  <2> DEFINE c == IF Policy[p[1]] = "never" THEN row.consumed + rest ELSE row.consumed
  <2>4. c = row.consumed + spent
    BY <2>3 DEF Account
  <2>5. l.consumed = l.consumed + 0 /\ l.released = l.released + 0
    BY <1>2 DEF Lease
  <2> HIDE DEF row, l, a, rest
  <2>6. account'[a] = [row EXCEPT !.reserved = row.reserved - rest, !.consumed = c,
                                  !.version = row.version + 1]
    BY <2>1
  <2> HIDE DEF c, spent
  <2>7. account'[a] = [exists |-> row.exists, limit |-> row.limit, initial |-> row.initial,
                       consumed |-> c, reserved |-> row.reserved - rest,
                       version |-> row.version + 1]
    BY <2>3, <2>6, AccountUpdate
  <2>8. lease'[p] = [state |-> "settled", left |-> 0, reserved |-> l.reserved,
                     consumed |-> l.consumed + spent, released |-> l.released + freed]
    <3>1. CASE Policy[p[1]] = "never"
      <4>1. lease'[p] = [l EXCEPT !.state = "settled", !.left = 0, !.consumed = l.consumed + rest]
        BY <2>2, <3>1
      <4>2. lease'[p] = [state |-> "settled", left |-> 0, reserved |-> l.reserved,
                         consumed |-> l.consumed + rest, released |-> l.released]
        <5>1. \A s, n : [l EXCEPT !.state = s, !.left = 0, !.consumed = n] =
                  [state |-> s, left |-> 0, reserved |-> l.reserved, consumed |-> n,
                   released |-> l.released]
          BY <1>2, LeaseUpdate
        <5> QED
          BY <4>1, <5>1
      <4> QED
        BY <2>5, <3>1, <4>2 DEF spent
    <3>2. CASE Policy[p[1]] # "never"
      <4>1. lease'[p] = [l EXCEPT !.state = "settled", !.left = 0, !.released = l.released + rest]
        BY <2>2, <3>2
      <4>2. lease'[p] = [state |-> "settled", left |-> 0, reserved |-> l.reserved,
                         consumed |-> l.consumed, released |-> l.released + rest]
        BY <1>2, <4>1, LeaseUpdate
      <4> QED
        BY <2>5, <3>2, <4>2 DEF spent
    <3> QED
      BY <3>1, <3>2
  <2> QED
    BY <2>4, <2>7, <2>8
<1>7. /\ spent \in Nat /\ freed \in Nat /\ spent + freed = rest
  BY <1>5
<1>8. rest = l.reserved - l.consumed - l.released
  OBVIOUS
<1> HIDE DEF a, row, l, rest, spent, freed
<1>9. RowOK(account'[a])
  BY <1>3, <1>4, <1>5, <1>6, <1>7, Constants DEF RowOK, Account
<1>10. lease'[p] \in Lease
  BY <1>2, <1>4, <1>5, <1>6, <1>7, <1>8, Constants DEF Lease, LeaseState
<1>11. LeaseOK(p)'
  BY <1>1, <1>2, <1>4, <1>5, <1>6, <1>7, <1>8, <1>9, Constants DEF LeaseOK, RowOK, a, Lease
<1> QED
  BY <1>2, <1>3, <1>4, <1>5, <1>6, <1>7, <1>8, <1>9, <1>10, <1>11
     DEF Keeps, Remaining, RowOK, Account, Lease, a, row, l

LEMMA MovesKeeps ==
    ASSUME TypeOK, WithinLimit, NEW p \in Leases, AccountOK(p[2]), LeaseOK(p), Moves(p)
    PROVE  Keeps(p)
BY ReservesKeeps, TakesKeeps, ChargesKeeps, RenewsKeeps, DoubtsKeeps, SettlesKeeps DEF Moves

(* Then an account and all its leases.                                     *)
SumsOK(a) ==
    /\ account[a].consumed = SumFunctionOnSet(Consumption, In(a))
    /\ account[a].reserved = SumFunctionOnSet(Holding, In(a))

LEMMA SumsStay ==
    ASSUME NEW a \in Accounts, SumsOK(a),
           account'[a].consumed = account[a].consumed, account'[a].reserved = account[a].reserved,
           \A p \in In(a) : lease'[p].consumed = lease[p].consumed /\ Remaining(p)' = Remaining(p)
    PROVE  SumsOK(a)'
<1>1. IsFiniteSet(In(a)) /\ In(a) \subseteq Leases
  BY LeasesOfAccountFinite DEF In
<1>2. \A p \in In(a) : Consumption'[p] = Consumption[p] /\ Holding'[p] = Holding[p]
  BY <1>1 DEF Consumption, Holding
<1>3. Sum(Consumption', In(a)) = Sum(Consumption, In(a)) /\ Sum(Holding', In(a)) = Sum(Holding, In(a))
  BY <1>1, <1>2, SumSame
<1>4. In(a)' = In(a)
  BY DEF In, Leases
<1> QED
  BY <1>3, <1>4 DEF SumsOK, Sum

LEMMA SumsMove ==
    ASSUME NEW a \in Accounts, SumsOK(a), NEW p \in In(a),
           \A q \in In(a) : lease[q] \in Lease /\ lease'[q] \in Lease,
           \A q \in In(a) \ {p} : lease'[q] = lease[q],
           account[a] \in Account, account'[a] \in Account,
           account'[a].consumed - account[a].consumed = lease'[p].consumed - lease[p].consumed,
           account'[a].reserved - account[a].reserved = Remaining(p)' - Remaining(p)
    PROVE  SumsOK(a)'
<1>1. IsFiniteSet(In(a)) /\ In(a) \subseteq Leases
  BY LeasesOfAccountFinite DEF In
<1>2. \A q \in In(a) : /\ Consumption[q] = lease[q].consumed /\ Consumption'[q] = lease'[q].consumed
                       /\ Holding[q] = Remaining(q) /\ Holding'[q] = Remaining(q)'
  BY <1>1 DEF Consumption, Holding
<1>3. \A q \in In(a) : /\ Consumption[q] \in Int /\ Consumption'[q] \in Int
                       /\ Holding[q] \in Int /\ Holding'[q] \in Int
  BY <1>2 DEF Lease, Remaining
<1>4. \A q \in In(a) \ {p} : Consumption[q] = Consumption'[q] /\ Holding[q] = Holding'[q]
  BY <1>2 DEF Remaining
<1> DEFINE c == Consumption  d == Consumption'  h == Holding  k == Holding'
<1>5. /\ \A q \in In(a) : c[q] \in Int /\ d[q] \in Int /\ h[q] \in Int /\ k[q] \in Int
      /\ \A q \in In(a) \ {p} : c[q] = d[q] /\ h[q] = k[q]
  BY <1>3, <1>4
<1>6. d[p] - c[p] = account'[a].consumed - account[a].consumed
      /\ k[p] - h[p] = account'[a].reserved - account[a].reserved
  BY <1>2
<1>7. account[a].consumed = Sum(c, In(a)) /\ account[a].reserved = Sum(h, In(a))
  BY DEF SumsOK, Sum
<1>8. In(a)' = In(a)
  BY DEF In, Leases
<1> HIDE DEF c, d, h, k
<1>9. /\ Sum(d, In(a)) = Sum(c, In(a)) + (d[p] - c[p])
      /\ Sum(k, In(a)) = Sum(h, In(a)) + (k[p] - h[p])
  BY <1>1, <1>5, SumMoves
<1>10. account'[a].consumed = Sum(d, In(a)) /\ account'[a].reserved = Sum(k, In(a))
  BY <1>5, <1>6, <1>7, <1>9 DEF Account
<1> QED
  BY <1>8, <1>10 DEF SumsOK, Sum, d, k

AccountKeeps(a) ==
    /\ account'[a] \in Account
    /\ account'[a].consumed + account'[a].reserved <= account'[a].limit
    /\ AccountOK(a)'
    /\ account[a].exists => account'[a].exists
    /\ \A p \in In(a) : lease'[p] \in Lease /\ usage'[p] \in SUBSET Events /\ LeaseOK(p)'
    /\ SumsOK(a)'

(* A step of the account alone.                                            *)
LEMMA AccountAlone ==
    ASSUME TypeOK, WithinLimit, AccountsOK, LeasesOK, ProjectionsAreSums, NEW a \in Accounts,
           SameLeases(In(a)), account'[a] \in Account, AccountOK(a)',
           account'[a].consumed + account'[a].reserved <= account'[a].limit,
           account'[a].consumed = account[a].consumed, account'[a].reserved = account[a].reserved,
           account[a].exists => account'[a].exists
    PROVE  AccountKeeps(a)
<1>1. ASSUME NEW p \in In(a)
      PROVE  lease'[p] \in Lease /\ usage'[p] \in SUBSET Events /\ LeaseOK(p)'
  <2>1. p \in Leases /\ p[2] = a
    BY LeaseFacts
  <2>2. lease'[p] = lease[p] /\ usage'[p] = usage[p]
    BY DEF SameLeases
  <2> QED
    BY <2>1, <2>2, LeaseTyped DEF LeaseOK, LeasesOK
<1>2. SumsOK(a)
  BY DEF ProjectionsAreSums, SumsOK
<1>3. \A p \in In(a) : lease'[p].consumed = lease[p].consumed /\ Remaining(p)' = Remaining(p)
  BY DEF SameLeases, Remaining
<1>4. SumsOK(a)'
  BY <1>2, <1>3, SumsStay
<1> QED
  BY <1>1, <1>4 DEF AccountKeeps

(* A step that leaves the account and what its leases hold.                *)
LEMMA LeasesAlone ==
    ASSUME TypeOK, WithinLimit, AccountsOK, LeasesOK, ProjectionsAreSums, NEW a \in Accounts,
           account'[a] = account[a],
           \A p \in In(a) : /\ lease'[p] \in Lease /\ usage'[p] = usage[p] /\ LeaseOK(p)'
                            /\ lease'[p].consumed = lease[p].consumed
                            /\ lease'[p].reserved = lease[p].reserved
                            /\ lease'[p].released = lease[p].released
    PROVE  AccountKeeps(a)
<1>1. account[a] \in Account /\ account[a].consumed + account[a].reserved <= account[a].limit
  BY AccountTyped DEF AccountsOK
<1>2. AccountOK(a)'
  BY DEF AccountsOK, AccountOK
<1>3. SumsOK(a)
  BY DEF ProjectionsAreSums, SumsOK
<1>4. \A p \in In(a) : lease'[p].consumed = lease[p].consumed /\ Remaining(p)' = Remaining(p)
  BY DEF Remaining
<1>5. SumsOK(a)'
  BY <1>3, <1>4, SumsStay
<1>6. \A p \in In(a) : usage'[p] \in SUBSET Events
  BY LeaseFacts, LeaseTyped
<1> QED
  BY <1>1, <1>2, <1>5, <1>6 DEF AccountKeeps

LEMMA AccountStepKeeps ==
    ASSUME TypeOK, WithinLimit, AccountsOK, LeasesOK, ProjectionsAreSums, NEW a \in Accounts,
           AccountStep(a)
    PROVE  AccountKeeps(a)
<1>1. /\ account[a] \in Account /\ account[a].consumed + account[a].reserved <= account[a].limit
      /\ AccountOK(a)
  BY AccountTyped DEF AccountsOK
<1>2. \A p \in In(a) : p \in Leases /\ p[2] = a /\ lease[p] \in Lease /\ LeaseOK(p)
  BY LeaseFacts, LeaseTyped DEF LeasesOK
<1>3. CASE Marks(a)
  <2>1. ASSUME NEW p \in In(a)
        PROVE  /\ lease'[p] \in Lease /\ usage'[p] = usage[p] /\ LeaseOK(p)'
               /\ lease'[p].consumed = lease[p].consumed
               /\ lease'[p].reserved = lease[p].reserved
               /\ lease'[p].released = lease[p].released
    <3>1. usage'[p] = usage[p] /\ account'[p[2]] = account[p[2]]
      BY <1>2, <1>3 DEF Marks
    <3>2. CASE lease'[p] = lease[p]
      BY <1>2, <3>1, <3>2 DEF LeaseOK
    <3>3. CASE Lapsed(p) /\ lease'[p] = [lease[p] EXCEPT !.state = "expired"]
      <4>1. lease'[p] = [state |-> "expired", left |-> lease[p].left, reserved |-> lease[p].reserved,
                         consumed |-> lease[p].consumed, released |-> lease[p].released]
        BY <1>2, <3>3 DEF Lease
      <4>2. lease[p].state = "active" /\ lease[p].left = 0
        BY <3>3 DEF Lapsed
      <4>3. lease'[p] \in Lease
        BY <1>2, <4>1 DEF Lease, LeaseState
      <4>4. LeaseOK(p)'
        BY <1>2, <3>1, <4>1, <4>2 DEF LeaseOK
      <4> QED
        BY <3>1, <4>1, <4>3, <4>4
    <3> QED
      BY <1>3, <3>2, <3>3 DEF Marks
  <2>2. account'[a] = account[a]
    BY <1>3 DEF Marks
  <2> QED
    BY <2>1, <2>2, LeasesAlone
<1>4. CASE Ages(a)
  <2>1. ASSUME NEW p \in In(a)
        PROVE  /\ lease'[p] \in Lease /\ usage'[p] = usage[p] /\ LeaseOK(p)'
               /\ lease'[p].consumed = lease[p].consumed
               /\ lease'[p].reserved = lease[p].reserved
               /\ lease'[p].released = lease[p].released
    <3>1. usage'[p] = usage[p] /\ account'[p[2]] = account[p[2]]
      BY <1>2, <1>4 DEF Ages
    <3>2. CASE ~(lease[p].left > 0)
      <4>1. lease'[p] = lease[p]
        BY <1>4, <3>2 DEF Ages
      <4> QED
        BY <1>2, <3>1, <4>1 DEF LeaseOK
    <3>3. CASE lease[p].left > 0
      <4>1. lease'[p] = [lease[p] EXCEPT !.left = lease[p].left - 1]
        BY <1>4, <3>3 DEF Ages
      <4>2. lease'[p] = [state |-> lease[p].state, left |-> lease[p].left - 1,
                         reserved |-> lease[p].reserved, consumed |-> lease[p].consumed,
                         released |-> lease[p].released]
        BY <1>2, <4>1 DEF Lease
      <4>3. lease[p].left - 1 \in 0 .. TTL /\ lease[p].state = "active"
        BY <1>2, <3>3, Constants DEF Lease, LeaseOK
      <4>4. lease'[p] \in Lease
        BY <1>2, <4>2, <4>3 DEF Lease
      <4>5. LeaseOK(p)'
        BY <1>2, <3>1, <4>2, <4>3 DEF LeaseOK
      <4> QED
        BY <3>1, <4>2, <4>4, <4>5
    <3> QED
      BY <3>2, <3>3
  <2>2. account'[a] = account[a]
    BY <1>4 DEF Ages
  <2> QED
    BY <2>1, <2>2, LeasesAlone
<1>5. CASE Opens(a)
  <2>1. PICK limit \in 0 .. MaxUnits, initial \in 0 .. MaxUnits :
            account'[a] = [exists |-> TRUE, limit |-> limit, initial |-> initial,
                           consumed |-> 0, reserved |-> 0, version |-> 1]
    BY <1>5 DEF Opens, Opened
  <2>2. account[a].consumed = 0 /\ account[a].reserved = 0
    BY <1>1, <1>5 DEF AccountOK, Opens
  <2>3. account'[a] \in Account /\ AccountOK(a)'
    BY <2>1, Constants DEF Account, AccountOK
  <2> QED
    BY <1>5, <2>1, <2>2, <2>3, AccountAlone DEF Opens
<1>6. CASE Binds(a)
  <2>1. PICK initial \in 0 .. MaxUnits : account'[a] = [account[a] EXCEPT !.initial = initial]
    BY <1>6 DEF Binds
  <2>2. account'[a] = [exists |-> account[a].exists, limit |-> account[a].limit, initial |-> initial,
                       consumed |-> account[a].consumed, reserved |-> account[a].reserved,
                       version |-> account[a].version]
    BY <1>1, <2>1 DEF Account
  <2>3. account'[a] \in Account
    BY <1>1, <2>2 DEF Account
  <2>4. AccountOK(a)'
    BY <1>1, <1>6, <2>2 DEF AccountOK, Binds
  <2> QED
    BY <1>1, <1>6, <2>2, <2>3, <2>4, AccountAlone DEF Binds
<1>7. CASE Raises(a)
  <2>1. account'[a] = [account[a] EXCEPT !.limit = account[a].limit + Delta,
                                         !.version = account[a].version + 1]
    BY <1>7 DEF Raises
  <2>2. account'[a] = [exists |-> account[a].exists, limit |-> account[a].limit + Delta,
                       initial |-> account[a].initial, consumed |-> account[a].consumed,
                       reserved |-> account[a].reserved, version |-> account[a].version + 1]
    BY <1>1, <2>1 DEF Account
  <2>3. account[a].limit + Delta \in 0 .. MaxUnits /\ account[a].version + 1 \in Nat
    BY <1>1, <1>7, Constants DEF Account, Raises
  <2>4. account'[a] \in Account
    BY <1>1, <2>2, <2>3 DEF Account
  <2>5. AccountOK(a)'
    BY <1>1, <1>7, <2>2 DEF AccountOK, Raises, Account
  <2>6. account'[a].consumed + account'[a].reserved <= account'[a].limit
    BY <1>1, <2>2, Constants DEF Account
  <2> QED
    BY <1>1, <1>7, <2>2, <2>4, <2>5, <2>6, AccountAlone DEF Raises
<1>8. ASSUME NEW p \in In(a), Moves(p), SameLeases(In(a) \ {p})
      PROVE  AccountKeeps(a)
  <2>1. Keeps(p)
    BY <1>1, <1>2, <1>8, MovesKeeps
  <2>2. RowOK(account'[a])
    BY <1>2, <2>1 DEF Keeps
  <2>3. ASSUME NEW q \in In(a) \ {p}
        PROVE  lease'[q] \in Lease /\ usage'[q] \in SUBSET Events /\ LeaseOK(q)'
    <3>1. lease'[q] = lease[q] /\ usage'[q] = usage[q]
      BY <1>8 DEF SameLeases
    <3>2. account'[q[2]].exists
      BY <1>2, <2>2 DEF RowOK
    <3> QED
      BY <1>2, <3>1, <3>2, LeaseTyped DEF LeaseOK
  <2>4. SumsOK(a)
    BY DEF ProjectionsAreSums, SumsOK
  <2>5. SumsOK(a)'
    <3>1. \A q \in In(a) : lease[q] \in Lease /\ lease'[q] \in Lease
      BY <1>2, <2>1, <2>3 DEF Keeps
    <3>2. \A q \in In(a) \ {p} : lease'[q] = lease[q]
      BY <1>8 DEF SameLeases
    <3>3. /\ account'[a].consumed - account[a].consumed = lease'[p].consumed - lease[p].consumed
          /\ account'[a].reserved - account[a].reserved = Remaining(p)' - Remaining(p)
      BY <1>2, <2>1 DEF Keeps
    <3> QED
      BY <1>1, <2>2, <2>4, <3>1, <3>2, <3>3, SumsMove DEF RowOK
  <2>6. lease'[p] \in Lease /\ usage'[p] \in SUBSET Events /\ LeaseOK(p)'
    BY <2>1 DEF Keeps
  <2>7. AccountOK(a)'
    BY <2>2 DEF AccountOK, RowOK
  <2> QED
    BY <2>2, <2>3, <2>5, <2>6, <2>7 DEF AccountKeeps, RowOK
<1> QED
  BY <1>3, <1>4, <1>5, <1>6, <1>7, <1>8 DEF AccountStep

LEMMA PastStays ==
    ASSUME TypeOK, NEW a \in Accounts, AccountStep(a), NEW p \in In(a), lease[p].state \in Past
    PROVE  lease'[p].state \in Past
<1>1. lease[p] \in Lease /\ p \in Leases /\ p[2] = a
  BY LeaseFacts, LeaseTyped
<1>2. lease[p].state # "active" /\ lease[p].state # "none"
  BY DEF Past
<1>3. CASE Marks(a) \/ Ages(a)
  <2>1. lease'[p] = lease[p] \/ lease'[p] = [lease[p] EXCEPT !.left = lease[p].left - 1]
    BY <1>2, <1>3 DEF Marks, Ages, Lapsed
  <2> QED
    BY <1>1, <2>1 DEF Lease
<1>4. CASE Opens(a) \/ Binds(a) \/ Raises(a)
  BY <1>4 DEF Opens, Binds, Raises, SameLeases
<1>5. ASSUME NEW q \in In(a), Moves(q), SameLeases(In(a) \ {q})
      PROVE  lease'[p].state \in Past
  <2>1. CASE p # q
    BY <1>5, <2>1 DEF SameLeases
  <2>2. CASE p = q
    <3>1. PICK key \in Keys : Settles(p, key)
      BY <1>2, <1>5, <2>2 DEF Moves, Reserves, Takes, Charges, Renews, Doubts, Running
    <3>2. lease'[p].state = "settled"
      BY <1>1, <3>1 DEF Settles, Closed, Closing, Lease
    <3> QED
      BY <3>2 DEF Past
  <2> QED
    BY <2>1, <2>2
<1> QED
  BY <1>3, <1>4, <1>5 DEF AccountStep

(* And all of them: the books stay in order.                               *)
LEMMA MovedKeeps ==
    ASSUME Books, Moved
    PROVE  /\ account' \in [Accounts -> Account]
           /\ lease' \in [Leases -> Lease]
           /\ usage' \in [Leases -> SUBSET Events]
           /\ WithinLimit' /\ ProjectionsAreSums' /\ AccountsOK' /\ LeasesOK'
           /\ \A a \in Accounts : account[a].exists => account'[a].exists
           /\ \A p \in Leases : lease[p].state \in Past => lease'[p].state \in Past
<1>1. \A a \in Accounts : AccountKeeps(a)
  BY AccountStepKeeps DEF Books, Moved
<1>2. \A p \in Leases : p[2] \in Accounts /\ p \in In(p[2])
  BY LeaseFacts
<1>3. account' \in [Accounts -> Account]
  <2>1. account' = [a \in Accounts |-> account'[a]]
    BY DEF Moved, Rows
  <2>2. \A a \in Accounts : account'[a] \in Account
    BY <1>1 DEF AccountKeeps
  <2> QED
    BY <2>1, <2>2
<1>4. \A p \in Leases : lease'[p] \in Lease /\ usage'[p] \in SUBSET Events /\ LeaseOK(p)'
  BY <1>1, <1>2 DEF AccountKeeps
<1>5. lease' \in [Leases -> Lease] /\ usage' \in [Leases -> SUBSET Events]
  <2>1. lease' = [p \in Leases |-> lease'[p]] /\ usage' = [p \in Leases |-> usage'[p]]
    BY DEF Moved, Rows
  <2> QED
    BY <1>4, <2>1
<1>6. WithinLimit' /\ AccountsOK'
  BY <1>1 DEF AccountKeeps, WithinLimit, AccountsOK
<1>7. ProjectionsAreSums'
  BY <1>1 DEF AccountKeeps, ProjectionsAreSums, SumsOK
<1>8. LeasesOK'
  BY <1>4 DEF LeasesOK, Leases
<1>9. \A a \in Accounts : account[a].exists => account'[a].exists
  BY <1>1 DEF AccountKeeps
<1>10. \A p \in Leases : lease[p].state \in Past => lease'[p].state \in Past
  BY <1>2, PastStays DEF Books, Moved
<1> QED
  BY <1>3, <1>5, <1>6, <1>7, <1>8, <1>9, <1>10

-----------------------------------------------------------------------------
(* Every action is such a step.                                            *)

LEMMA UntouchedAccount ==
    ASSUME NEW a \in Accounts, account'[a] = account[a], SameLeases(In(a))
    PROVE  AccountStep(a)
BY DEF AccountStep, Marks, SameLeases

(* A call that moves some leases of one job and no other.                  *)
LEMMA JobMoves ==
    ASSUME NEW j \in Jobs, NEW S, S \subseteq Of(j), Rows,
           \A p \in S : Moves(p),
           \A a \in Accounts : <<j, a>> \notin S => account'[a] = account[a],
           SameLeases(Leases \ S)
    PROVE  Moved
<1> SUFFICES ASSUME NEW a \in Accounts
             PROVE  AccountStep(a)
  BY DEF Moved
<1>1. \A p \in In(a) : p \in Leases /\ p[2] = a /\ p = <<p[1], a>>
  BY LeaseFacts
<1>2. \A p \in S : p \in Leases /\ p[1] = j /\ p = <<j, p[2]>> /\ p \in In(p[2])
  BY LeaseFacts
<1>3. CASE <<j, a>> \in S
  <2>1. <<j, a>> \in In(a) /\ Moves(<<j, a>>)
    BY <1>2, <1>3
  <2>2. \A q \in In(a) \ {<<j, a>>} : q \notin S
    BY <1>1, <1>2
  <2>3. SameLeases(In(a) \ {<<j, a>>})
    BY <1>1, <2>2 DEF SameLeases
  <2> QED
    BY <2>1, <2>3 DEF AccountStep
<1>4. CASE <<j, a>> \notin S
  <2>1. \A q \in In(a) : q \notin S
    BY <1>1, <1>2, <1>4
  <2>2. SameLeases(In(a))
    BY <1>1, <2>1 DEF SameLeases
  <2> QED
    BY <1>4, <2>2, UntouchedAccount
<1> QED
  BY <1>3, <1>4

LEMMA RowsStay ==
    ASSUME TypeOK
    PROVE  /\ account' = account => account' = [a \in Accounts |-> account'[a]]
           /\ lease' = lease => lease' = [p \in Leases |-> lease'[p]]
           /\ usage' = usage => usage' = [p \in Leases |-> usage'[p]]
BY DEF TypeOK

LEMMA ObservesExpiryMoved ==
    ASSUME TypeOK, NEW S, ObservesExpiry(S)
    PROVE  Moved
<1>1. Rows
  BY RowsStay DEF ObservesExpiry, MarkedExpired, Rows
<1>2. \A p \in Leases : \/ lease'[p] = lease[p]
                        \/ Lapsed(p) /\ lease'[p] = [lease[p] EXCEPT !.state = "expired"]
  BY DEF ObservesExpiry, MarkedExpired
<1>3. \A a \in Accounts : Marks(a)
  BY <1>2, LeaseFacts DEF ObservesExpiry, Marks
<1> QED
  BY <1>1, <1>3 DEF Moved, AccountStep

LEMMA AccountMoved ==
    ASSUME TypeOK, NEW a \in Accounts, NEW row, account' = [account EXCEPT ![a] = row],
           UNCHANGED <<lease, usage>>,
           account'[a] = row => Opens(a) \/ Binds(a) \/ Raises(a)
    PROVE  Moved
<1>1. account' = [b \in Accounts |-> IF b = a THEN row ELSE account[b]]
  BY DEF TypeOK
<1>2. Rows
  BY <1>1, RowsStay DEF Rows
<1>3. \A b \in Accounts : SameLeases(In(b))
  BY DEF SameLeases
<1>4. \A b \in Accounts \ {a} : AccountStep(b)
  BY <1>1, <1>3, UntouchedAccount
<1>5. AccountStep(a)
  BY <1>1 DEF AccountStep
<1> QED
  BY <1>2, <1>4, <1>5 DEF Moved

LEMMA CreateMoved ==
    ASSUME TypeOK, NEW a \in Accounts, NEW n \in Opening, CreateQuotaAccount(a, n)
    PROVE  Moved
<1>1. n \in 0 .. MaxUnits /\ 0 \in 0 .. MaxUnits
  BY Constants
<1>2. ~account[a].exists /\ account' = [account EXCEPT ![a] = Opened(n, 0)] /\ UNCHANGED <<lease, usage>>
  BY DEF CreateQuotaAccount
<1>3. account'[a] = Opened(n, 0) => Opens(a)
  BY <1>1, <1>2 DEF Opens, SameLeases
<1> QED
  BY <1>2, <1>3, AccountMoved

LEMMA GrantMoved ==
    ASSUME TypeOK, GrantsOK, NEW g \in Grants, GrantQuota(g)
    PROVE  Moved
<1> DEFINE a == grant[g].account
           row == [account[a] EXCEPT !.limit = @ + Delta, !.version = @ + 1]
<1>1. /\ a # NoAccount /\ account[a].limit <= MaxUnits - Delta
      /\ account' = [account EXCEPT ![a].limit = @ + Delta, ![a].version = @ + 1]
      /\ UNCHANGED <<lease, usage>>
  BY DEF GrantQuota, Grantable
<1>2. a \in Accounts /\ account[a].exists /\ account[a] \in Account
  BY <1>1 DEF TypeOK, GrantsOK, GrantOK
<1>3. account' = [account EXCEPT ![a] = row]
  BY <1>1, <1>2 DEF TypeOK
<1>4. account'[a] = row => Raises(a)
  BY <1>1, <1>2 DEF Raises, SameLeases
<1> HIDE DEF a, row
<1> QED
  BY <1>1, <1>2, <1>3, <1>4, AccountMoved

LEMMA LeasesOfJob ==
    ASSUME NEW j \in Jobs
    PROVE  /\ Of(j) = {<<j, a>> : a \in Claims[j]}
           /\ \A a \in Accounts : <<j, a>> \in Of(j) <=> a \in Claims[j]
BY DEF Of, Leases

LEMMA AdmitMoved ==
    ASSUME TypeOK, DecisionsOK, NEW j \in Jobs, AdmitTaskActorQuota(j)
    PROVE  Moved
<1>1. /\ decision[j] = "none"
      /\ account' = [a \in Accounts |->
             IF a \notin Claims[j] THEN account[a]
             ELSE IF Admissible(j) THEN Charged(Ensured(a, PolicyLimit[j]), Units[j])
             ELSE Ensured(a, PolicyLimit[j])]
      /\ lease' = [p \in Leases |->
             IF p \in Of(j) /\ Admissible(j) THEN Reserved(Units[j]) ELSE lease[p]]
      /\ UNCHANGED usage
  BY DEF AdmitTaskActorQuota
<1> DEFINE limit == PolicyLimit[j]
<1>2. limit \in 1 .. MaxUnits /\ limit \in 0 .. MaxUnits
  BY Constants
<1>3. Rows
  BY <1>1, RowsStay DEF Rows
<1>4. CASE Admissible(j)
  <2>1. \A p \in Of(j) : Moves(p)
    <3> SUFFICES ASSUME NEW p \in Of(j) PROVE Moves(p)
      OBVIOUS
    <3>1. p \in Leases /\ p[1] = j /\ p[2] \in Claims[j] /\ p[2] \in Accounts
      BY LeaseFacts
    <3>2. lease[p].state = "none"
      BY <1>1, <3>1 DEF DecisionsOK, DecisionOK
    <3>3. Available(Ensured(p[2], limit)) >= Units[j]
      BY <1>4, <3>1 DEF Admissible
    <3>4. /\ account'[p[2]] = Charged(Ensured(p[2], limit), Units[j])
          /\ lease'[p] = Reserved(Units[j]) /\ usage'[p] = usage[p]
      BY <1>1, <1>4, <3>1
    <3>5. Reserves(p, limit)
      BY <3>1, <3>2, <3>3, <3>4 DEF Reserves
    <3> QED
      BY <1>2, <3>5 DEF Moves
  <2>2. \A a \in Accounts : <<j, a>> \notin Of(j) => account'[a] = account[a]
    BY <1>1, LeasesOfJob
  <2>3. SameLeases(Leases \ Of(j))
    BY <1>1 DEF SameLeases
  <2> QED
    BY <1>3, <2>1, <2>2, <2>3, JobMoves
<1>5. CASE ~Admissible(j)
  <2>1. lease' = lease
    BY <1>1, <1>5 DEF TypeOK
  <2>2. ASSUME NEW a \in Accounts
        PROVE  AccountStep(a)
    <3>1. SameLeases(In(a))
      BY <1>1, <2>1 DEF SameLeases
    <3>2. CASE account'[a] = account[a]
      BY <3>1, <3>2, UntouchedAccount
    <3>3. CASE account'[a] # account[a]
      <4>1. account'[a] = Ensured(a, limit)
        BY <1>1, <1>5, <3>3
      <4>2. CASE ~account[a].exists
        BY <1>2, <3>1, <4>1, <4>2 DEF Ensured, AccountStep, Opens
      <4>3. CASE account[a].exists /\ account[a].initial = 0
        BY <1>2, <3>1, <4>1, <4>3 DEF Ensured, AccountStep, Binds
      <4> QED
        BY <3>3, <4>1, <4>2, <4>3 DEF Ensured
    <3> QED
      BY <3>2, <3>3
  <2> QED
    BY <1>3, <2>2 DEF Moved
<1> QED
  BY <1>4, <1>5

LEMMA ReserveMoved ==
    ASSUME TypeOK, DecisionsOK, NEW j \in Jobs, ReserveQuota(j)
    PROVE  Moved
<1>1. /\ decision[j] = "none"
      /\ \A a \in Claims[j] : account[a].exists /\ Available(account[a]) >= Units[j]
      /\ account' = [a \in Accounts |->
             IF a \in Claims[j] THEN Charged(account[a], Units[j]) ELSE account[a]]
      /\ lease' = [p \in Leases |-> IF p \in Of(j) THEN Reserved(Units[j]) ELSE lease[p]]
      /\ UNCHANGED usage
  BY DEF ReserveQuota
<1>2. Rows
  BY <1>1, RowsStay DEF Rows
<1>3. \A p \in Of(j) : Moves(p)
  <2> SUFFICES ASSUME NEW p \in Of(j) PROVE Moves(p)
    OBVIOUS
  <2>1. p \in Leases /\ p[1] = j /\ p[2] \in Claims[j] /\ p[2] \in Accounts
    BY LeaseFacts
  <2>2. lease[p].state = "none"
    BY <1>1, <2>1 DEF DecisionsOK, DecisionOK
  <2>3. Takes(p)
    BY <1>1, <2>1, <2>2 DEF Takes
  <2> QED
    BY <2>3 DEF Moves
<1>4. \A a \in Accounts : <<j, a>> \notin Of(j) => account'[a] = account[a]
  BY <1>1, LeasesOfJob
<1>5. SameLeases(Leases \ Of(j))
  BY <1>1 DEF SameLeases
<1> QED
  BY <1>2, <1>3, <1>4, <1>5, JobMoves

LEMMA NotOverdue ==
    ASSUME TypeOK, NEW S, S \subseteq Leases, Overdue(S) = {}, NEW p \in S,
           lease[p].state \in {"active", "expired"}
    PROVE  Running(p)
<1>1. lease[p].state # "expired" /\ ~Lapsed(p)
  BY DEF Overdue
<1>2. lease[p].left \in 0 .. TTL
  BY DEF TypeOK, Lease
<1> QED
  BY <1>1, <1>2, Constants DEF Running, Lapsed

LEMMA ChargeBatchMoved ==
    ASSUME TypeOK, NEW j \in Jobs, NEW S, S \subseteq Of(j), NEW e \in Events, ChargeBatch(j, S, e)
    PROVE  Moved
<1> DEFINE Fresh == ChargeFresh(S, e)
<1>1. Fresh \subseteq Of(j) /\ Fresh \subseteq Leases /\ \A p \in Fresh : e \notin usage[p]
  BY LeaseFacts DEF ChargeFresh
<1>2. \A p \in Fresh : lease[p].state \in {"active", "expired"}
  BY DEF ChargeBatch
<1>3. CASE Overdue(Fresh) # {}
  <2>1. ObservesExpiry(Fresh)
    BY <1>3 DEF ChargeBatch
  <2> QED
    BY <2>1, ObservesExpiryMoved
<1>4. CASE Overdue(Fresh) = {}
  <2>1. /\ \A p \in Fresh : Cost[e] <= Remaining(p) /\ Cost[e] <= account[p[2]].reserved
        /\ account' = [a \in Accounts |->
               IF <<j, a>> \in Fresh THEN Spent(account[a], Cost[e]) ELSE account[a]]
        /\ lease' = [p \in Leases |->
               IF p \in Fresh THEN [lease[p] EXCEPT !.consumed = @ + Cost[e]] ELSE lease[p]]
        /\ usage' = [p \in Leases |-> IF p \in Fresh THEN usage[p] \cup {e} ELSE usage[p]]
    BY <1>4 DEF ChargeBatch
  <2>2. ASSUME NEW p \in Fresh
        PROVE  Moves(p)
    <3>1. p \in Leases /\ p = <<j, p[2]>> /\ p[2] \in Accounts
      BY <1>1, LeaseFacts
    <3>2. Running(p)
      BY <1>1, <1>2, <1>4, NotOverdue
    <3>3. Charges(p, e)
      BY <1>1, <2>1, <3>1, <3>2 DEF Charges
    <3> QED
      BY <3>3 DEF Moves
  <2>3. Rows /\ SameLeases(Leases \ Fresh)
    BY <2>1 DEF Rows, SameLeases
  <2>4. \A a \in Accounts : <<j, a>> \notin Fresh => account'[a] = account[a]
    BY <2>1
  <2> HIDE DEF Fresh
  <2> QED
    BY <1>1, <2>2, <2>3, <2>4, JobMoves
<1> QED
  BY <1>3, <1>4

LEMMA HeartbeatBatchMoved ==
    ASSUME TypeOK, NEW j \in Jobs, NEW S, S \subseteq Of(j), HeartbeatBatch(S)
    PROVE  Moved
<1>1. S \subseteq Leases
  BY LeaseFacts
<1>2. CASE Overdue(S) # {}
  BY <1>2, ObservesExpiryMoved DEF HeartbeatBatch
<1>3. CASE Overdue(S) = {}
  <2>1. /\ lease' = [p \in Leases |-> IF p \in S THEN [lease[p] EXCEPT !.left = TTL] ELSE lease[p]]
        /\ UNCHANGED <<account, usage>>
        /\ \A p \in S : lease[p].state \in {"active", "expired"}
    BY <1>3 DEF HeartbeatBatch
  <2>2. \A p \in S : Moves(p)
    BY <1>1, <1>3, <2>1, NotOverdue DEF Moves, Renews
  <2>3. Rows
    BY <2>1, RowsStay DEF Rows
  <2>4. SameLeases(Leases \ S)
    BY <2>1 DEF SameLeases
  <2> QED
    BY <2>1, <2>2, <2>3, <2>4, JobMoves
<1> QED
  BY <1>2, <1>3

LEMMA SettleBatchMoved ==
    ASSUME TypeOK, NEW j \in Jobs, NEW S, S \subseteq Of(j), NEW key \in Keys,
           ~Refused(S, key), SettleBatch(j, S, key)
    PROVE  Moved
<1> DEFINE Fresh == SettleFresh(S, key)
<1>1. Fresh \subseteq Of(j) /\ Fresh \subseteq Leases
  BY LeaseFacts DEF SettleFresh
<1>2. \A p \in Fresh : Acceptable(p, key)
  BY DEF Refused
<1>3. CASE key \in DirectKeys /\ Overdue(Fresh) # {}
  <2>1. ObservesExpiry(Fresh)
    BY <1>3 DEF SettleBatch
  <2> QED
    BY <2>1, ObservesExpiryMoved
<1>4. CASE ~(key \in DirectKeys /\ Overdue(Fresh) # {})
  <2>1. /\ lease' = [p \in Leases |-> IF p \in Fresh THEN Closed(p, key) ELSE lease[p]]
        /\ account' = [a \in Accounts |->
               IF <<j, a>> \in Fresh THEN Balanced(<<j, a>>, key) ELSE account[a]]
        /\ UNCHANGED usage
    BY <1>4 DEF SettleBatch
  <2>2. ASSUME NEW p \in Fresh
        PROVE  Moves(p)
    <3>1. p \in Leases /\ p = <<j, p[2]>> /\ p[2] \in Accounts
      BY <1>1, LeaseFacts
    <3>2. lease'[p] = Closed(p, key) /\ account'[p[2]] = Balanced(p, key) /\ usage'[p] = usage[p]
      BY <2>1, <3>1
    <3>3. key \in DirectKeys => Running(p)
      BY <1>1, <1>2, <1>4, NotOverdue DEF Acceptable
    <3>4. Running(p) \/ lease[p].state \in {"expired", "uncertain"}
      BY <1>2, <3>3 DEF Acceptable
    <3>5. CASE key \in UncertainKeys
      <4>1. Running(p)
        BY <3>3, <3>5 DEF UncertainKeys, DirectKeys
      <4>2. Doubts(p)
        BY <3>2, <3>5, <4>1 DEF Doubts, Closed, Balanced
      <4> QED
        BY <4>2 DEF Moves
    <3>6. CASE key \notin UncertainKeys
      <4>1. key \in Closing
        BY <3>6 DEF Closing
      <4>2. ~(account[p[2]].reserved < Remaining(p))
        BY <1>4, <3>6 DEF Refused
      <4>3. account[p[2]].reserved \in Int /\ Remaining(p) \in Int
        BY <3>1 DEF TypeOK, Account, Lease, Remaining
      <4>4. Settles(p, key)
        BY <3>2, <3>4, <4>1, <4>2, <4>3 DEF Settles
      <4> QED
        BY <4>4 DEF Moves
    <3> QED
      BY <3>5, <3>6
  <2>3. Rows
    BY <2>1, RowsStay DEF Rows
  <2>4. SameLeases(Leases \ Fresh)
    BY <2>1 DEF SameLeases
  <2>5. \A a \in Accounts : <<j, a>> \notin Fresh => account'[a] = account[a]
    BY <2>1
  <2> HIDE DEF Fresh
  <2> QED
    BY <1>1, <2>2, <2>3, <2>4, <2>5, JobMoves
<1> QED
  BY <1>3, <1>4

LEMMA ExpireMoved ==
    ASSUME TypeOK, NEW S \in Scopes, ExpireQuotaLeases(S)
    PROVE  Moved
BY ObservesExpiryMoved DEF ExpireQuotaLeases, ObservesExpiry

LEMMA TickMoved ==
    ASSUME TypeOK, Tick
    PROVE  Moved
<1>1. Rows
  BY RowsStay DEF Tick, Rows
<1>2. \A a \in Accounts : Ages(a)
  BY LeaseFacts DEF Tick, Ages
<1> QED
  BY <1>1, <1>2 DEF Moved, AccountStep

LEMMA StillMoved ==
    ASSUME TypeOK, UNCHANGED <<account, lease, usage>>
    PROVE  Moved
<1>1. Rows
  BY RowsStay DEF Rows
<1>2. \A a \in Accounts : AccountStep(a)
  BY UntouchedAccount DEF SameLeases
<1> QED
  BY <1>1, <1>2 DEF Moved

-----------------------------------------------------------------------------
(* Decisions, halves, recoveries and grants.                               *)

(* A lease comes into being by a reservation only.                         *)
NoReservation == \A p \in Leases : lease'[p].state = "none" <=> lease[p].state = "none"

LEMMA DecisionsStay ==
    ASSUME DecisionsOK, NoReservation, UNCHANGED decision
    PROVE  DecisionsOK'
BY DEF DecisionsOK, DecisionOK, NoReservation, Leases

(* What the halves of a reservation have in common is left alone.          *)
QuietFor(p) ==
    /\ lease'[p].state = "settled" <=> lease[p].state = "settled"
    /\ lease'[p].consumed = lease[p].consumed
    /\ usage'[p] = usage[p]
    /\ rows'[p] \cap Closing = rows[p] \cap Closing

LEMMA PairsStay ==
    ASSUME PairsOK, \A p \in Leases : QuietFor(p)
    PROVE  PairsOK'
<1> SUFFICES ASSUME NEW j \in Jobs, NEW p \in Of(j), NEW q \in Of(j)
             PROVE  HalvesOK(p, q)'
  BY DEF PairsOK, Of, Leases
<1>1. p \in Leases /\ q \in Leases
  BY LeaseFacts
<1>2. HalvesOK(p, q)
  BY DEF PairsOK
<1> QED
  BY <1>1, <1>2 DEF HalvesOK, QuietFor

LEMMA OtherPairsStay ==
    ASSUME PairsOK, NEW j \in Jobs,
           \A p \in Leases \ Of(j) : QuietFor(p),
           \A p, q \in Of(j) : HalvesOK(p, q)'
    PROVE  PairsOK'
<1> SUFFICES ASSUME NEW i \in Jobs, i # j, NEW p \in Of(i), NEW q \in Of(i)
             PROVE  HalvesOK(p, q)'
  BY DEF PairsOK, Of, Leases
<1>1. p \in Leases \ Of(j) /\ q \in Leases \ Of(j)
  BY LeaseFacts
<1>2. HalvesOK(p, q)
  BY DEF PairsOK
<1> QED
  BY <1>1, <1>2 DEF HalvesOK, QuietFor

LEMMA SingleLease ==
    ASSUME NEW j \in Direct, NEW p \in Of(j), NEW q \in Of(j)
    PROVE  p = q
BY DEF Of, Leases

LEMMA RecoveriesStay ==
    ASSUME RecoveriesOK, UNCHANGED recovery,
           \A j \in Jobs : fence[j] \in Gone => fence'[j] \in Gone,
           \A p \in Leases : lease[p].state \in Past => lease'[p].state \in Past
    PROVE  RecoveriesOK'
<1> SUFFICES ASSUME NEW r \in Recoverers PROVE RecoveryOK(r)'
  BY DEF RecoveriesOK
<1>1. RecoveryOK(r)
  BY DEF RecoveriesOK
<1>2. \A j \in Jobs : Of(j)' = Of(j) /\ Of(j) \subseteq Leases
  BY DEF Of, Leases
<1> QED
  BY <1>1, <1>2 DEF RecoveryOK

LEMMA GrantsStay ==
    ASSUME TypeOK, GrantsOK, UNCHANGED grant,
           \A a \in Accounts : account[a].exists => account'[a].exists
    PROVE  GrantsOK'
BY DEF TypeOK, GrantsOK, GrantOK

(* The rest of the types, and the invariant from its parts.                *)
OtherTypes ==
    /\ rows \in [Leases -> SUBSET Keys]
    /\ decision \in [Jobs -> {"none", "accepted", "quota_exhausted"}]
    /\ fence \in [Jobs -> {"held", "delivered", "lost", "withheld"}]
    /\ doubt \in [Jobs -> BOOLEAN]
    /\ recovery \in [Recoverers -> Recovery]
    /\ grant \in [Grants -> [account : Accounts \cup {NoAccount}, expected : Nat, applied : BOOLEAN]]

LEMMA TypesTogether ==
    ASSUME Books, Moved, OtherTypes'
    PROVE  Books'
<1>1. /\ account' \in [Accounts -> Account]
      /\ lease' \in [Leases -> Lease]
      /\ usage' \in [Leases -> SUBSET Events]
      /\ WithinLimit' /\ ProjectionsAreSums' /\ AccountsOK' /\ LeasesOK'
  BY MovedKeeps
<1>2. Leases' = Leases /\ Account' = Account /\ Lease' = Lease
  BY DEF Leases, Account, Lease, LeaseState
<1>3. TypeOK'
  BY <1>1, <1>2 DEF TypeOK, OtherTypes
<1> QED
  BY <1>1, <1>3 DEF Books

(* The invariant after a step that changes no decision, recovery, grant.   *)
LEMMA LedgerInvariant ==
    ASSUME IInv, Moved, NoReservation, PairsOK',
           rows' \in [Leases -> SUBSET Keys],
           UNCHANGED <<decision, fence, doubt, recovery, grant>>
    PROVE  IInv'
<1>1. OtherTypes'
  BY DEF IInv, Books, TypeOK, OtherTypes, Leases, Keys, Recovery
<1>2. Books'
  BY <1>1, TypesTogether DEF IInv
<1>3. DecisionsOK'
  BY DecisionsStay DEF IInv
<1>4. RecoveriesOK'
  BY MovedKeeps, RecoveriesStay DEF IInv
<1>5. GrantsOK'
  BY MovedKeeps, GrantsStay DEF IInv, Books
<1> QED
  BY <1>2, <1>3, <1>4, <1>5 DEF IInv

(* After a step that changes none of the books.                            *)
LEMMA StillInvariant ==
    ASSUME IInv, UNCHANGED <<account, lease, usage, rows, decision>>,
           OtherTypes', RecoveriesOK', GrantsOK'
    PROVE  IInv'
<1>1. Moved
  BY StillMoved DEF IInv, Books
<1>2. Books'
  BY <1>1, TypesTogether DEF IInv
<1>3. DecisionsOK'
  BY DecisionsStay DEF IInv, NoReservation
<1>4. PairsOK'
  BY PairsStay DEF IInv, QuietFor
<1> QED
  BY <1>2, <1>3, <1>4 DEF IInv

-----------------------------------------------------------------------------
(* The invariant, action by action.                                        *)

LEMMA ObservesExpiryQuiet ==
    ASSUME TypeOK, NEW S, ObservesExpiry(S)
    PROVE  NoReservation /\ rows' = rows /\ \A p \in Leases : QuietFor(p)
<1>1. ASSUME NEW p \in Leases
      PROVE  QuietFor(p) /\ (lease'[p].state = "none" <=> lease[p].state = "none")
  <2>1. lease[p] \in Lease /\ usage'[p] = usage[p] /\ rows'[p] = rows[p]
    BY LeaseTyped DEF ObservesExpiry
  <2>2. CASE lease'[p] = lease[p]
    BY <2>1, <2>2 DEF QuietFor
  <2>3. CASE lease'[p] # lease[p]
    <3>1. lease'[p] = [lease[p] EXCEPT !.state = "expired"] /\ lease[p].state = "active"
      BY <2>3 DEF ObservesExpiry, MarkedExpired, Lapsed
    <3>2. lease'[p].state = "expired" /\ lease'[p].consumed = lease[p].consumed
      BY <2>1, <3>1 DEF Lease
    <3> QED
      BY <2>1, <3>1, <3>2 DEF QuietFor
  <2> QED
    BY <2>2, <2>3
<1> QED
  BY <1>1 DEF NoReservation, ObservesExpiry

LEMMA ObservesExpiryInvariant ==
    ASSUME IInv, NEW S, ObservesExpiry(S),
           UNCHANGED <<decision, fence, doubt, recovery, grant>>
    PROVE  IInv'
<1>1. TypeOK
  BY DEF IInv, Books
<1>2. Moved /\ NoReservation /\ rows' = rows /\ \A p \in Leases : QuietFor(p)
  BY <1>1, ObservesExpiryMoved, ObservesExpiryQuiet
<1>3. PairsOK'
  BY <1>2, PairsStay DEF IInv
<1>4. rows' \in [Leases -> SUBSET Keys]
  BY <1>1, <1>2 DEF TypeOK
<1> QED
  BY <1>2, <1>3, <1>4, LedgerInvariant

LEMMA CreateInvariant ==
    ASSUME IInv, NEW a \in Accounts, NEW n \in Opening, CreateQuotaAccount(a, n)
    PROVE  IInv'
<1>1. TypeOK
  BY DEF IInv, Books
<1>2. UNCHANGED <<lease, usage, rows, decision, fence, doubt, recovery, grant>>
  BY DEF CreateQuotaAccount
<1>3. Moved
  BY <1>1, CreateMoved
<1>4. NoReservation /\ \A p \in Leases : QuietFor(p)
  BY <1>2 DEF NoReservation, QuietFor
<1>5. PairsOK'
  BY <1>4, PairsStay DEF IInv
<1>6. rows' \in [Leases -> SUBSET Keys]
  BY <1>1, <1>2 DEF TypeOK
<1> QED
  BY <1>2, <1>3, <1>4, <1>5, <1>6, LedgerInvariant

LEMMA ExpireInvariant ==
    ASSUME IInv, NEW S \in Scopes, ExpireQuotaLeases(S)
    PROVE  IInv'
<1>1. /\ ObservesExpiry({p \in Leases : p[2] \in S})
      /\ UNCHANGED <<decision, fence, doubt, recovery, grant>>
  BY DEF ExpireQuotaLeases, ObservesExpiry
<1> QED
  BY <1>1, ObservesExpiryInvariant

LEMMA TickInvariant ==
    ASSUME IInv, Tick
    PROVE  IInv'
<1>1. TypeOK
  BY DEF IInv, Books
<1>2. UNCHANGED <<account, usage, rows, decision, fence, doubt, recovery, grant>>
  BY DEF Tick
<1>3. Moved
  BY <1>1, TickMoved
<1>4. \A p \in Leases : lease'[p].state = lease[p].state /\ lease'[p].consumed = lease[p].consumed
  <2> SUFFICES ASSUME NEW p \in Leases
               PROVE  lease'[p].state = lease[p].state /\ lease'[p].consumed = lease[p].consumed
    OBVIOUS
  <2>1. lease[p] \in Lease
    BY <1>1, LeaseTyped
  <2>2. lease'[p] = lease[p] \/ lease'[p] = [lease[p] EXCEPT !.left = lease[p].left - 1]
    BY DEF Tick
  <2> QED
    BY <2>1, <2>2 DEF Lease
<1>5. NoReservation /\ \A p \in Leases : QuietFor(p)
  BY <1>2, <1>4 DEF NoReservation, QuietFor
<1>6. PairsOK'
  BY <1>5, PairsStay DEF IInv
<1>7. rows' \in [Leases -> SUBSET Keys]
  BY <1>1, <1>2 DEF TypeOK
<1> QED
  BY <1>2, <1>3, <1>5, <1>6, <1>7, LedgerInvariant

LEMMA GrantInvariant ==
    ASSUME IInv, NEW g \in Grants, GrantQuota(g)
    PROVE  IInv'
<1>1. TypeOK /\ GrantsOK
  BY DEF IInv, Books
<1>2. /\ UNCHANGED <<lease, usage, rows, decision, fence, doubt, recovery>>
      /\ grant' = [grant EXCEPT ![g].applied = TRUE]
  BY DEF GrantQuota
<1>3. Moved
  BY <1>1, GrantMoved
<1>4. OtherTypes'
  <2>1. grant' \in [Grants -> [account : Accounts \cup {NoAccount}, expected : Nat, applied : BOOLEAN]]
    <3>1. grant \in [Grants -> [account : Accounts \cup {NoAccount}, expected : Nat, applied : BOOLEAN]]
      BY <1>1 DEF TypeOK
    <3>2. \A t \in BOOLEAN : [grant[g] EXCEPT !.applied = t]
              \in [account : Accounts \cup {NoAccount}, expected : Nat, applied : BOOLEAN]
      BY <3>1
    <3>3. grant' = [grant EXCEPT ![g] = [grant[g] EXCEPT !.applied = TRUE]]
      BY <1>2
    <3> QED
      BY <3>1, <3>2, <3>3
  <2> QED
    BY <1>1, <1>2, <2>1 DEF TypeOK, OtherTypes, Leases, Keys, Recovery
<1>5. Books'
  BY <1>3, <1>4, TypesTogether DEF IInv
<1>6. DecisionsOK' /\ PairsOK'
  BY <1>2, DecisionsStay, PairsStay DEF IInv, NoReservation, QuietFor
<1>7. RecoveriesOK'
  BY <1>2, RecoveriesStay DEF IInv
<1>8. GrantsOK'
  <2>1. \A a \in Accounts : account[a].exists => account'[a].exists
    BY <1>3, MovedKeeps DEF IInv
  <2>2. \A h \in Grants : grant'[h].account = grant[h].account
                          /\ grant[h].account \in Accounts \cup {NoAccount}
    BY <1>1, <1>2 DEF TypeOK
  <2> QED
    BY <1>1, <2>1, <2>2 DEF GrantsOK, GrantOK
<1> QED
  BY <1>5, <1>6, <1>7, <1>8 DEF IInv

LEMMA AskInvariant ==
    ASSUME IInv, NEW g \in Grants, NEW a \in Accounts, AskForGrant(g, a)
    PROVE  IInv'
<1>1. TypeOK /\ GrantsOK
  BY DEF IInv, Books
<1> DEFINE asked == [account |-> a, expected |-> account[a].version, applied |-> FALSE]
<1>2. /\ UNCHANGED <<account, lease, usage, rows, decision, fence, doubt, recovery>>
      /\ account[a].exists
      /\ grant' = [grant EXCEPT ![g] = asked]
  BY DEF AskForGrant
<1>3. asked \in [account : Accounts \cup {NoAccount}, expected : Nat, applied : BOOLEAN]
      /\ asked.account = a
  BY <1>1 DEF TypeOK, Account
<1> HIDE DEF asked
<1>4. OtherTypes'
  BY <1>1, <1>2, <1>3 DEF TypeOK, OtherTypes, Leases, Keys, Recovery
<1>5. RecoveriesOK'
  BY <1>2, RecoveriesStay DEF IInv
<1>6. GrantsOK'
  BY <1>1, <1>2, <1>3 DEF GrantsOK, GrantOK, TypeOK
<1> QED
  BY <1>2, <1>4, <1>5, <1>6, StillInvariant

LEMMA DeliverInvariant ==
    ASSUME IInv, NEW j \in Jobs, Deliver(j)
    PROVE  IInv'
<1>1. TypeOK
  BY DEF IInv, Books
<1>2. /\ UNCHANGED <<account, lease, usage, rows, decision, doubt, recovery, grant>>
      /\ fence[j] = "held" /\ fence' = [fence EXCEPT ![j] = "delivered"]
  BY DEF Deliver
<1>3. OtherTypes'
  BY <1>1, <1>2 DEF TypeOK, OtherTypes, Leases, Keys, Recovery
<1>4. RecoveriesOK'
  <2>1. \A i \in Jobs : fence[i] \in Gone => fence'[i] \in Gone
    BY <1>1, <1>2 DEF TypeOK, Gone
  <2> QED
    BY <1>2, <2>1, RecoveriesStay DEF IInv
<1>5. GrantsOK'
  BY <1>1, <1>2, GrantsStay DEF IInv
<1> QED
  BY <1>2, <1>3, <1>4, <1>5, StillInvariant

LEMMA LoseInvariant ==
    ASSUME IInv, NEW j \in Jobs, NEW unknown \in BOOLEAN, Lose(j, unknown)
    PROVE  IInv'
<1>1. TypeOK
  BY DEF IInv, Books
<1>2. /\ UNCHANGED <<account, lease, usage, rows, decision, recovery, grant>>
      /\ \E state \in Gone : fence' = [fence EXCEPT ![j] = state]
      /\ doubt' = [doubt EXCEPT ![j] = unknown]
  BY DEF Lose, Gone
<1>3. OtherTypes'
  BY <1>1, <1>2 DEF TypeOK, OtherTypes, Leases, Keys, Recovery, Gone
<1>4. RecoveriesOK'
  <2>1. \A i \in Jobs : fence[i] \in Gone => fence'[i] \in Gone
    BY <1>1, <1>2 DEF TypeOK, Gone
  <2> QED
    BY <1>2, <2>1, RecoveriesStay DEF IInv
<1>5. GrantsOK'
  BY <1>1, <1>2, GrantsStay DEF IInv
<1> QED
  BY <1>2, <1>3, <1>4, <1>5, StillInvariant

LEMMA WithholdInvariant ==
    ASSUME IInv, NEW j \in Jobs, Withhold(j)
    PROVE  IInv'
<1>1. TypeOK
  BY DEF IInv, Books
<1>2. /\ UNCHANGED <<account, lease, usage, rows, decision, doubt, recovery, grant>>
      /\ fence' = [fence EXCEPT ![j] = "withheld"]
  BY DEF Withhold
<1>3. OtherTypes'
  BY <1>1, <1>2 DEF TypeOK, OtherTypes, Leases, Keys, Recovery
<1>4. RecoveriesOK'
  <2>1. \A i \in Jobs : fence[i] \in Gone => fence'[i] \in Gone
    BY <1>1, <1>2 DEF TypeOK, Gone
  <2> QED
    BY <1>2, <2>1, RecoveriesStay DEF IInv
<1>5. GrantsOK'
  BY <1>1, <1>2, GrantsStay DEF IInv
<1> QED
  BY <1>2, <1>3, <1>4, <1>5, StillInvariant

LEMMA ResolveInvariant ==
    ASSUME IInv, NEW j \in Jobs, ResolveEffect(j)
    PROVE  IInv'
<1>1. TypeOK
  BY DEF IInv, Books
<1>2. /\ UNCHANGED <<account, lease, usage, rows, decision, fence, recovery, grant>>
      /\ doubt' = [doubt EXCEPT ![j] = FALSE]
  BY DEF ResolveEffect
<1>3. OtherTypes'
  BY <1>1, <1>2 DEF TypeOK, OtherTypes, Leases, Keys, Recovery
<1>4. RecoveriesOK' /\ GrantsOK'
  BY <1>1, <1>2, RecoveriesStay, GrantsStay DEF IInv
<1> QED
  BY <1>2, <1>3, <1>4, StillInvariant

LEMMA ReservedFields ==
    ASSUME NEW u
    PROVE  Reserved(u).state = "active" /\ Reserved(u).consumed = 0
BY DEF Reserved, NoLease

(* A reservation: all the leases of the job, or none of them.              *)
LEMMA ReservationInvariant ==
    ASSUME IInv, Moved, NEW j \in Jobs, decision[j] = "none",
           NEW outcome \in {"none", "accepted", "quota_exhausted"},
           decision' = [decision EXCEPT ![j] = outcome],
           \A p \in Leases \ Of(j) : lease'[p] = lease[p],
           \A p \in Of(j) : lease'[p] = IF outcome = "accepted" THEN Reserved(Units[j]) ELSE lease[p],
           UNCHANGED <<usage, rows, fence, doubt, recovery, grant>>
    PROVE  IInv'
<1>1. TypeOK
  BY DEF IInv, Books
<1>2. OtherTypes'
  BY <1>1 DEF TypeOK, OtherTypes, Leases, Keys, Recovery
<1>3. Books'
  BY <1>2, TypesTogether DEF IInv
<1>4. \A p \in Of(j) : p \in Leases /\ p[1] = j /\ lease[p].state = "none"
  BY LeaseFacts DEF IInv, DecisionsOK, DecisionOK
<1>5. DecisionsOK'
  <2> SUFFICES ASSUME NEW p \in Leases
               PROVE  lease'[p].state # "none" <=> decision'[p[1]] = "accepted"
    BY DEF DecisionsOK, DecisionOK, Leases
  <2>1. DecisionOK(p) /\ p[1] \in Jobs /\ p \in Of(p[1])
    BY LeaseFacts DEF IInv, DecisionsOK
  <2>2. CASE p \in Of(j)
    <3>1. p[1] = j /\ decision'[p[1]] = outcome
      BY <1>1, <1>4, <2>2 DEF TypeOK
    <3> QED
      BY <1>4, <2>2, <3>1, ReservedFields
  <2>3. CASE p \notin Of(j)
    <3>1. p[1] # j /\ decision'[p[1]] = decision[p[1]]
      BY <1>1, <2>1, <2>3 DEF TypeOK
    <3> QED
      BY <2>1, <2>3, <3>1 DEF DecisionOK
  <2> QED
    BY <2>2, <2>3
<1>6. PairsOK'
  <2>1. \A p \in Leases \ Of(j) : QuietFor(p)
    BY DEF QuietFor
  <2>2. ASSUME NEW p \in Of(j), NEW q \in Of(j)
        PROVE  HalvesOK(p, q)'
    <3>1. HalvesOK(p, q)
      BY DEF IInv, PairsOK
    <3>2. CASE outcome = "accepted"
      BY <3>1, <3>2, ReservedFields DEF HalvesOK
    <3>3. CASE outcome # "accepted"
      BY <3>1, <3>3 DEF HalvesOK
    <3> QED
      BY <3>2, <3>3
  <2> QED
    BY <2>1, <2>2, OtherPairsStay DEF IInv
<1>7. RecoveriesOK'
  BY MovedKeeps, RecoveriesStay DEF IInv
<1>8. GrantsOK'
  BY <1>1, MovedKeeps, GrantsStay DEF IInv
<1> QED
  BY <1>3, <1>5, <1>6, <1>7, <1>8 DEF IInv

LEMMA AdmitInvariant ==
    ASSUME IInv, NEW j \in Jobs, AdmitTaskActorQuota(j)
    PROVE  IInv'
<1> DEFINE outcome == IF Admissible(j) THEN "accepted" ELSE "quota_exhausted"
<1>1. Moved
  BY AdmitMoved DEF IInv, Books
<1>2. /\ decision[j] = "none" /\ decision' = [decision EXCEPT ![j] = outcome]
      /\ lease' = [p \in Leases |->
             IF p \in Of(j) /\ Admissible(j) THEN Reserved(Units[j]) ELSE lease[p]]
      /\ UNCHANGED <<usage, rows, fence, doubt, recovery, grant>>
  BY DEF AdmitTaskActorQuota
<1>3. outcome \in {"none", "accepted", "quota_exhausted"} /\ (outcome = "accepted" <=> Admissible(j))
  OBVIOUS
<1>4. \A p \in Leases \ Of(j) : lease'[p] = lease[p]
  BY <1>2
<1>5. \A p \in Of(j) : lease'[p] = IF outcome = "accepted" THEN Reserved(Units[j]) ELSE lease[p]
  BY <1>2, <1>3, LeaseFacts
<1> HIDE DEF outcome
<1> QED
  BY <1>1, <1>2, <1>3, <1>4, <1>5, ReservationInvariant

LEMMA ReserveInvariant ==
    ASSUME IInv, NEW j \in Jobs, ReserveQuota(j)
    PROVE  IInv'
<1>1. Moved
  BY ReserveMoved DEF IInv, Books
<1>2. /\ decision[j] = "none" /\ decision' = [decision EXCEPT ![j] = "accepted"]
      /\ lease' = [p \in Leases |-> IF p \in Of(j) THEN Reserved(Units[j]) ELSE lease[p]]
      /\ UNCHANGED <<usage, rows, fence, doubt, recovery, grant>>
  BY DEF ReserveQuota
<1>3. \A p \in Leases \ Of(j) : lease'[p] = lease[p]
  BY <1>2
<1>4. \A p \in Of(j) : lease'[p] = IF "accepted" = "accepted" THEN Reserved(Units[j]) ELSE lease[p]
  BY <1>2, LeaseFacts
<1> QED
  BY <1>1, <1>2, <1>3, <1>4, ReservationInvariant

(* A charge of all the leases of one dimension, or of the only one.        *)
Together(j, S) ==
    \A p, q \in Of(j) : Dimension[p[2]] = Dimension[q[2]] => (p \in S <=> q \in S)

LEMMA ChargeBatchInvariant ==
    ASSUME IInv, NEW j \in Jobs, NEW S, S \subseteq Of(j), Together(j, S), NEW e \in Events,
           ChargeBatch(j, S, e), UNCHANGED <<decision, fence, doubt, recovery, grant>>
    PROVE  IInv'
<1> DEFINE Fresh == ChargeFresh(S, e)
<1>1. TypeOK
  BY DEF IInv, Books
<1>2. Moved
  BY <1>1, ChargeBatchMoved
<1>3. Fresh \subseteq Of(j) /\ Fresh \subseteq Leases
  BY LeaseFacts DEF ChargeFresh
<1>4. CASE Overdue(Fresh) # {}
  <2>1. ObservesExpiry(Fresh)
    BY <1>4 DEF ChargeBatch
  <2> QED
    BY <2>1, ObservesExpiryInvariant
<1>5. CASE Overdue(Fresh) = {}
  <2>1. /\ lease' = [p \in Leases |->
               IF p \in Fresh THEN [lease[p] EXCEPT !.consumed = lease[p].consumed + Cost[e]]
               ELSE lease[p]]
        /\ usage' = [p \in Leases |-> IF p \in Fresh THEN usage[p] \cup {e} ELSE usage[p]]
        /\ UNCHANGED rows
    BY <1>5 DEF ChargeBatch
  <2>2. \A p \in Leases : /\ lease'[p].state = lease[p].state
                          /\ lease'[p].consumed =
                                IF p \in Fresh THEN lease[p].consumed + Cost[e] ELSE lease[p].consumed
                          /\ usage'[p] = IF p \in Fresh THEN usage[p] \cup {e} ELSE usage[p]
    BY <1>1, <2>1 DEF TypeOK, Lease
  <2>3. NoReservation
    BY <2>2 DEF NoReservation
  <2>4. \A p \in Leases \ Of(j) : QuietFor(p)
    BY <1>3, <2>1, <2>2 DEF QuietFor
  <2>5. ASSUME NEW p \in Of(j), NEW q \in Of(j)
        PROVE  HalvesOK(p, q)'
    <3>1. HalvesOK(p, q) /\ p \in Leases /\ q \in Leases
      BY LeaseFacts DEF IInv, PairsOK
    <3>2. Dimension[p[2]] = Dimension[q[2]] => (p \in Fresh <=> q \in Fresh)
      BY <3>1 DEF Together, HalvesOK, ChargeFresh
    <3> HIDE DEF Fresh
    <3>3. Dimension[p[2]] = Dimension[q[2]] =>
              lease'[p].consumed = lease'[q].consumed /\ usage'[p] = usage'[q]
      <4> SUFFICES ASSUME Dimension[p[2]] = Dimension[q[2]]
                   PROVE  lease'[p].consumed = lease'[q].consumed /\ usage'[p] = usage'[q]
        OBVIOUS
      <4>1. lease[p].consumed = lease[q].consumed /\ usage[p] = usage[q]
        BY <3>1 DEF HalvesOK
      <4>2. CASE p \in Fresh
        <5>1. /\ lease'[p].consumed = lease[p].consumed + Cost[e]
              /\ lease'[q].consumed = lease[q].consumed + Cost[e]
              /\ usage'[p] = usage[p] \cup {e} /\ usage'[q] = usage[q] \cup {e}
          BY <2>2, <3>1, <3>2, <4>2
        <5> QED
          BY <4>1, <5>1
      <4>3. CASE p \notin Fresh
        <5>1. /\ lease'[p].consumed = lease[p].consumed /\ lease'[q].consumed = lease[q].consumed
              /\ usage'[p] = usage[p] /\ usage'[q] = usage[q]
          BY <2>2, <3>1, <3>2, <4>3
        <5> QED
          BY <4>1, <5>1
      <4> QED
        BY <4>2, <4>3
    <3>4. /\ lease'[p].state = "settled" => lease'[q].state = "settled"
          /\ rows'[p] \cap Closing = rows'[q] \cap Closing
      BY <2>1, <2>2, <3>1 DEF HalvesOK
    <3> QED
      BY <3>3, <3>4 DEF HalvesOK
  <2>6. PairsOK'
    BY <2>4, <2>5, OtherPairsStay DEF IInv
  <2>7. rows' \in [Leases -> SUBSET Keys]
    BY <1>1, <2>1 DEF TypeOK
  <2> QED
    BY <1>2, <2>3, <2>6, <2>7, LedgerInvariant
<1> QED
  BY <1>4, <1>5

LEMMA HeartbeatBatchInvariant ==
    ASSUME IInv, NEW j \in Jobs, NEW S, S \subseteq Of(j), HeartbeatBatch(S),
           UNCHANGED <<decision, fence, doubt, recovery, grant>>
    PROVE  IInv'
<1>1. TypeOK
  BY DEF IInv, Books
<1>2. Moved
  BY <1>1, HeartbeatBatchMoved
<1>3. CASE Overdue(S) # {}
  BY <1>3, ObservesExpiryInvariant DEF HeartbeatBatch
<1>4. CASE Overdue(S) = {}
  <2>1. /\ lease' = [p \in Leases |-> IF p \in S THEN [lease[p] EXCEPT !.left = TTL] ELSE lease[p]]
        /\ UNCHANGED <<usage, rows>>
    BY <1>4 DEF HeartbeatBatch
  <2>2. \A p \in Leases : lease'[p].state = lease[p].state /\ lease'[p].consumed = lease[p].consumed
    BY <1>1, <2>1 DEF TypeOK, Lease
  <2>3. NoReservation /\ \A p \in Leases : QuietFor(p)
    BY <2>1, <2>2 DEF NoReservation, QuietFor
  <2>4. PairsOK'
    BY <2>3, PairsStay DEF IInv
  <2>5. rows' \in [Leases -> SUBSET Keys]
    BY <1>1, <2>1 DEF TypeOK
  <2> QED
    BY <1>2, <2>3, <2>4, <2>5, LedgerInvariant
<1> QED
  BY <1>3, <1>4

(* What a settlement does to a lease that is not settled yet.              *)
LEMMA ClosedFields ==
    ASSUME TypeOK, LeasesOK, NEW p \in Leases, NEW key \in Keys, Acceptable(p, key)
    PROVE  /\ Closed(p, key).state = IF key \in UncertainKeys THEN "uncertain" ELSE "settled"
           /\ Closed(p, key).consumed =
                 IF key \notin UncertainKeys /\ Policy[p[1]] = "never" THEN Units[p[1]]
                 ELSE lease[p].consumed
           /\ lease[p].state # "none" /\ lease[p].state # "settled"
<1>1. lease[p] \in Lease /\ LeaseOK(p) /\ p[1] \in Jobs
  BY LeaseTyped, LeaseFacts DEF LeasesOK
<1>2. lease[p].state # "none" /\ lease[p].state # "settled"
  BY DEF Acceptable
<1>3. lease[p].consumed + Remaining(p) = Units[p[1]]
  BY <1>1, <1>2, Constants DEF LeaseOK, Lease, Remaining
<1>4. CASE key \in UncertainKeys
  BY <1>1, <1>2, <1>4 DEF Closed, Lease
<1>5. CASE key \notin UncertainKeys /\ Policy[p[1]] = "never"
  <2>1. Closed(p, key) = [lease[p] EXCEPT !.state = "settled", !.left = 0,
                                          !.consumed = lease[p].consumed + Remaining(p)]
    BY <1>5 DEF Closed
  <2>2. Closed(p, key).state = "settled" /\ Closed(p, key).consumed = lease[p].consumed + Remaining(p)
    BY <1>1, <2>1 DEF Lease
  <2> QED
    BY <1>2, <1>3, <1>5, <2>2
<1>6. CASE key \notin UncertainKeys /\ Policy[p[1]] # "never"
  <2>1. Closed(p, key) = [lease[p] EXCEPT !.state = "settled", !.left = 0,
                                          !.released = lease[p].released + Remaining(p)]
    BY <1>6 DEF Closed
  <2>2. Closed(p, key).state = "settled" /\ Closed(p, key).consumed = lease[p].consumed
    BY <1>1, <2>1 DEF Lease
  <2> QED
    BY <1>2, <1>6, <2>2
<1> QED
  BY <1>4, <1>5, <1>6

(* A settlement of some leases as uncertain, or of all of a job for good.  *)
LEMMA SettleBatchPairs ==
    ASSUME IInv, NEW j \in Jobs, NEW S, S \subseteq Of(j), NEW key \in Keys,
           key \in Closing => S = Of(j),
           ~Refused(S, key), SettleBatch(j, S, key)
    PROVE  NoReservation /\ PairsOK' /\ rows' \in [Leases -> SUBSET Keys]
<1> DEFINE Fresh == SettleFresh(S, key)
<1>1. TypeOK /\ LeasesOK
  BY DEF IInv, Books
<1>2. Fresh \subseteq S /\ Fresh \subseteq Leases /\ S \subseteq Leases
  BY LeaseFacts DEF SettleFresh
<1>3. \A p \in Fresh : Acceptable(p, key)
  BY DEF Refused
<1>4. CASE key \in DirectKeys /\ Overdue(Fresh) # {}
  <2>1. ObservesExpiry(Fresh)
    BY <1>4 DEF SettleBatch
  <2>2. NoReservation /\ rows' = rows /\ \A p \in Leases : QuietFor(p)
    BY <1>1, <2>1, ObservesExpiryQuiet
  <2>3. PairsOK'
    BY <2>2, PairsStay DEF IInv
  <2> QED
    BY <1>1, <2>2, <2>3 DEF TypeOK
<1>5. CASE ~(key \in DirectKeys /\ Overdue(Fresh) # {})
  <2>1. /\ lease' = [p \in Leases |-> IF p \in Fresh THEN Closed(p, key) ELSE lease[p]]
        /\ rows' = [p \in Leases |-> IF p \in S THEN rows[p] \cup {key} ELSE rows[p]]
        /\ UNCHANGED usage
    BY <1>5 DEF SettleBatch
  <2>2. rows' \in [Leases -> SUBSET Keys]
    BY <1>1, <2>1 DEF TypeOK
  <2>3. \A p \in Fresh : /\ lease'[p].state = IF key \in UncertainKeys THEN "uncertain" ELSE "settled"
                         /\ lease'[p].consumed =
                               IF key \notin UncertainKeys /\ Policy[p[1]] = "never" THEN Units[p[1]]
                               ELSE lease[p].consumed
                         /\ lease[p].state # "none" /\ lease[p].state # "settled"
    BY <1>1, <1>2, <1>3, <2>1, ClosedFields
  <2>4. \A p \in Leases \ Fresh : lease'[p] = lease[p]
    BY <2>1
  <2>5. NoReservation
    BY <2>3, <2>4 DEF NoReservation
  <2>6. CASE key \in UncertainKeys
    <3>1. \A p \in Leases : rows'[p] \cap Closing = rows[p] \cap Closing
      BY <2>1, <2>6 DEF Closing
    <3>2. \A p \in Leases : QuietFor(p)
      BY <2>1, <2>3, <2>4, <2>6, <3>1 DEF QuietFor
    <3> QED
      BY <2>2, <2>5, <3>2, PairsStay DEF IInv
  <2>7. CASE key \notin UncertainKeys
    <3>1. S = Of(j) /\ key \in Closing
      BY <2>7 DEF Closing
    <3>2. \A p \in Leases \ Of(j) : QuietFor(p)
      BY <1>2, <2>1, <2>4, <3>1 DEF QuietFor
    <3>3. ASSUME NEW p \in Of(j), NEW q \in Of(j)
          PROVE  HalvesOK(p, q)'
      <4>1. HalvesOK(p, q) /\ p \in Leases /\ q \in Leases /\ p[1] = j /\ q[1] = j
        BY LeaseFacts DEF IInv, PairsOK
      <4>2. p \in Fresh <=> q \in Fresh
        BY <3>1, <4>1 DEF HalvesOK, SettleFresh
      <4>3. rows'[p] \cap Closing = rows'[q] \cap Closing
        BY <2>1, <3>1, <4>1 DEF HalvesOK
      <4>4. usage'[p] = usage[p] /\ usage'[q] = usage[q]
        BY <2>1
      <4> HIDE DEF Fresh
      <4>5. CASE p \in Fresh
        BY <2>3, <2>7, <4>1, <4>2, <4>3, <4>4, <4>5 DEF HalvesOK
      <4>6. CASE p \notin Fresh
        BY <2>4, <4>1, <4>2, <4>3, <4>4, <4>6 DEF HalvesOK
      <4> QED
        BY <4>5, <4>6
    <3> QED
      BY <2>2, <2>5, <3>2, <3>3, OtherPairsStay DEF IInv
  <2> QED
    BY <2>6, <2>7
<1> QED
  BY <1>4, <1>5

LEMMA RecordInvariant ==
    ASSUME IInv, NEW j \in Jobs, NEW e \in Events, RecordQuotaUsages(j, e) \/ RecordQuotaUsage(j, e)
    PROVE  IInv'
<1>1. CASE RecordQuotaUsages(j, e)
  <2>1. PICK d \in {Dimension[a] : a \in Claims[j]} :
            ChargeBatch(j, {p \in Of(j) : Dimension[p[2]] = d}, e)
    BY <1>1 DEF RecordQuotaUsages
  <2> DEFINE S == {p \in Of(j) : Dimension[p[2]] = d}
  <2>2. S \subseteq Of(j) /\ Together(j, S)
    BY DEF Together
  <2>3. ChargeBatch(j, S, e) /\ UNCHANGED <<decision, fence, doubt, recovery, grant>>
    BY <1>1, <2>1 DEF RecordQuotaUsages
  <2> HIDE DEF S
  <2> QED
    BY <2>2, <2>3, ChargeBatchInvariant
<1>2. CASE RecordQuotaUsage(j, e)
  <2>1. /\ j \in Direct
        /\ \E p \in Of(j) : ChargeBatch(j, {p}, e)
        /\ UNCHANGED <<decision, fence, doubt, recovery, grant>>
    BY <1>2 DEF RecordQuotaUsage
  <2>2. PICK p \in Of(j) : ChargeBatch(j, {p}, e)
    BY <2>1
  <2>3. {p} \subseteq Of(j) /\ Together(j, {p})
    BY <2>1, SingleLease DEF Together
  <2> QED
    BY <2>1, <2>2, <2>3, ChargeBatchInvariant
<1> QED
  BY <1>1, <1>2

LEMMA HeartbeatInvariant ==
    ASSUME IInv, NEW j \in Jobs, HeartbeatQuotaLeases(j) \/ HeartbeatQuotaLease(j)
    PROVE  IInv'
<1>1. PICK S : /\ S \subseteq Of(j) /\ HeartbeatBatch(S)
               /\ UNCHANGED <<decision, fence, doubt, recovery, grant>>
  <2>1. CASE HeartbeatQuotaLeases(j)
    BY <2>1 DEF HeartbeatQuotaLeases
  <2>2. CASE HeartbeatQuotaLease(j)
    <3>1. PICK p \in Of(j) : HeartbeatBatch({p})
      BY <2>2 DEF HeartbeatQuotaLease
    <3> QED
      BY <2>2, <3>1 DEF HeartbeatQuotaLease
  <2> QED
    BY <2>1, <2>2
<1> QED
  BY <1>1, HeartbeatBatchInvariant

LEMMA SettleInvariant ==
    ASSUME IInv, NEW j \in Jobs, NEW key \in Keys, SettleQuotaLeases(j, key) \/ SettleQuotaLease(j, key)
    PROVE  IInv'
<1>1. PICK S : /\ S = Of(j) /\ ~Refused(S, key) /\ SettleBatch(j, S, key)
               /\ UNCHANGED <<decision, fence, doubt, recovery, grant>>
  <2>1. CASE SettleQuotaLeases(j, key)
    BY <2>1 DEF SettleQuotaLeases
  <2>2. CASE SettleQuotaLease(j, key)
    <3>1. PICK p \in Of(j) : ~Refused({p}, key) /\ SettleBatch(j, {p}, key)
      BY <2>2 DEF SettleQuotaLease
    <3>2. j \in Direct /\ UNCHANGED <<decision, fence, doubt, recovery, grant>>
      BY <2>2 DEF SettleQuotaLease
    <3>3. {p} = Of(j)
      BY <3>2, SingleLease
    <3> QED
      BY <3>1, <3>2, <3>3
  <2> QED
    BY <2>1, <2>2
<1>2. Moved
  BY <1>1, SettleBatchMoved DEF IInv, Books
<1>3. NoReservation /\ PairsOK' /\ rows' \in [Leases -> SUBSET Keys]
  BY <1>1, SettleBatchPairs
<1> QED
  BY <1>1, <1>2, <1>3, LedgerInvariant

(* A step of a recoverer, with whatever it does to the books.              *)
LEMMA RecovererStep ==
    ASSUME IInv, Moved, NoReservation, PairsOK', rows' \in [Leases -> SUBSET Keys],
           UNCHANGED <<decision, fence, doubt, grant>>,
           NEW r \in Recoverers, NEW next \in Recovery,
           recovery' = [recovery EXCEPT ![r] = next], RecoveryOK(r)'
    PROVE  IInv'
<1>1. TypeOK
  BY DEF IInv, Books
<1>2. OtherTypes'
  <2>1. recovery' \in [Recoverers -> Recovery]
    BY <1>1 DEF TypeOK
  <2> QED
    BY <1>1, <2>1 DEF TypeOK, OtherTypes, Leases, Keys, Recovery
<1>3. Books'
  BY <1>2, TypesTogether DEF IInv
<1>4. DecisionsOK'
  BY DecisionsStay DEF IInv
<1>5. RecoveriesOK'
  <2> SUFFICES ASSUME NEW s \in Recoverers, s # r
               PROVE  RecoveryOK(s)'
    BY DEF RecoveriesOK
  <2>1. recovery'[s] = recovery[s] /\ RecoveryOK(s)
    BY <1>1 DEF TypeOK, IInv, RecoveriesOK
  <2>2. \A j \in Jobs : Of(j)' = Of(j) /\ Of(j) \subseteq Leases
    BY DEF Of, Leases
  <2>3. \A p \in Leases : lease[p].state \in Past => lease'[p].state \in Past
    BY MovedKeeps DEF IInv
  <2> QED
    BY <2>1, <2>2, <2>3 DEF RecoveryOK
<1>6. GrantsOK'
  BY <1>1, MovedKeeps, GrantsStay DEF IInv
<1> QED
  BY <1>3, <1>4, <1>5, <1>6 DEF IInv

LEMMA RecovererReads ==
    ASSUME IInv, UNCHANGED <<account, lease, usage, rows, decision, fence, doubt, grant>>,
           NEW r \in Recoverers, NEW next \in Recovery,
           recovery' = [recovery EXCEPT ![r] = next], RecoveryOK(r)'
    PROVE  IInv'
<1>1. TypeOK
  BY DEF IInv, Books
<1>2. Moved
  BY <1>1, StillMoved
<1>3. NoReservation
  BY DEF NoReservation
<1>4. PairsOK'
  BY PairsStay DEF IInv, QuietFor
<1>5. rows' \in [Leases -> SUBSET Keys]
  BY <1>1 DEF TypeOK
<1> QED
  BY <1>2, <1>3, <1>4, <1>5, RecovererStep

LEMMA RecovererRests ==
    ASSUME IInv, UNCHANGED <<account, lease, usage, rows, decision, fence, doubt, grant>>,
           NEW r \in Recoverers, recovery' = [recovery EXCEPT ![r] = Idle]
    PROVE  IInv'
<1>1. Idle \in Recovery
  BY DEF Idle, Recovery
<1>2. recovery'[r] = Idle
  BY DEF IInv, Books, TypeOK
<1>3. RecoveryOK(r)'
  BY <1>2 DEF RecoveryOK, Idle
<1> QED
  BY <1>1, <1>3, RecovererReads

LEMMA BeginInvariant ==
    ASSUME IInv, NEW r \in Recoverers, NEW j \in Jobs, BeginRecovery(r, j)
    PROVE  IInv'
<1> DEFINE next == [job |-> j, step |-> "read", batch |-> {}]
<1>1. /\ UNCHANGED <<account, lease, usage, rows, decision, fence, doubt, grant>>
      /\ fence[j] = "lost" /\ recovery' = [recovery EXCEPT ![r] = next]
  BY DEF BeginRecovery
<1>2. next \in Recovery /\ next.job = j /\ next.step = "read" /\ next.batch = {}
  BY DEF Recovery
<1> HIDE DEF next
<1>3. recovery'[r] = next
  BY <1>1 DEF IInv, Books, TypeOK
<1>4. RecoveryOK(r)'
  BY <1>1, <1>2, <1>3 DEF RecoveryOK, Gone
<1> QED
  BY <1>1, <1>2, <1>4, RecovererReads

(* When no lease of a lost job is active and one is not settled, none is.  *)
LEMMA UnsettledIsWhole ==
    ASSUME IInv, NEW j \in Jobs, Active(j) = {}, Unsettled(j) # {}
    PROVE  Unsettled(j) = Of(j)
<1>1. PICK p \in Of(j) : lease[p].state \in {"expired", "uncertain"}
  BY DEF Unsettled
<1>2. TypeOK /\ DecisionsOK /\ PairsOK
  BY DEF IInv, Books
<1>3. ASSUME NEW q \in Of(j)
      PROVE  lease[q].state \in {"expired", "uncertain"}
  <2>1. p \in Leases /\ q \in Leases /\ p[1] = j /\ q[1] = j
    BY LeaseFacts
  <2>2. lease[q].state \in LeaseState /\ lease[q].state # "active"
    BY <1>2, <2>1 DEF TypeOK, Lease, Active
  <2>3. lease[q].state # "none"
    BY <1>1, <1>2, <2>1 DEF DecisionsOK, DecisionOK
  <2>4. lease[q].state # "settled"
    BY <1>1, <1>2 DEF PairsOK, HalvesOK
  <2> QED
    BY <2>2, <2>3, <2>4 DEF LeaseState
<1> QED
  BY <1>3 DEF Unsettled

LEMMA ReadInvariant ==
    ASSUME IInv, NEW r \in Recoverers, ReadLeases(r)
    PROVE  IInv'
<1> DEFINE j == recovery[r].job
           next == NextRead(j)
<1>1. /\ UNCHANGED <<account, lease, usage, rows, decision, fence, doubt, grant>>
      /\ recovery[r].step = "read" /\ recovery' = [recovery EXCEPT ![r] = next]
  BY DEF ReadLeases
<1>2. TypeOK /\ RecoveryOK(r)
  BY DEF IInv, Books, RecoveriesOK
<1>3. j \in Jobs /\ fence[j] \in Gone
  BY <1>1, <1>2 DEF RecoveryOK, Idle
<1>4. Of(j) \subseteq Leases
  BY DEF Of
<1>5. recovery'[r] = next
  BY <1>1, <1>2 DEF TypeOK
<1>6. CASE next = Idle
  <2>1. recovery' = [recovery EXCEPT ![r] = Idle]
    BY <1>1, <1>6
  <2> QED
    BY <1>1, <2>1, RecovererRests
<1>7. CASE next # Idle /\ Active(j) # {}
  <2>1. next = [job |-> j, step |-> "mark", batch |-> Active(j)]
    BY <1>7 DEF NextRead
  <2>2. Active(j) \subseteq Of(j)
    BY DEF Active
  <2> HIDE DEF j, next
  <2>3. next \in Recovery /\ next.job = j /\ next.step = "mark" /\ next.batch = Active(j)
    BY <1>3, <1>4, <2>1, <2>2 DEF Recovery
  <2>4. RecoveryOK(r)'
    BY <1>1, <1>3, <1>5, <2>2, <2>3 DEF RecoveryOK
  <2> QED
    BY <1>1, <2>3, <2>4, RecovererReads
<1>8. CASE next # Idle /\ Active(j) = {}
  <2>1. next = [job |-> j, step |-> "close", batch |-> Unsettled(j)] /\ Unsettled(j) # {}
    BY <1>8 DEF NextRead
  <2>2. Unsettled(j) = Of(j)
    BY <1>3, <1>8, <2>1, UnsettledIsWhole
  <2>3. \A p \in Of(j) : lease[p].state \in Past
    BY <2>2 DEF Unsettled, Past
  <2> HIDE DEF j, next
  <2>4. next \in Recovery /\ next.job = j /\ next.step = "close" /\ next.batch = Of(j)
    BY <1>3, <1>4, <2>1, <2>2 DEF Recovery
  <2>5. RecoveryOK(r)'
    BY <1>1, <1>3, <1>5, <2>3, <2>4 DEF RecoveryOK
  <2> QED
    BY <1>1, <2>4, <2>5, RecovererReads
<1> QED
  BY <1>6, <1>7, <1>8

LEMMA MarkInvariant ==
    ASSUME IInv, NEW r \in Recoverers, MarkUncertain(r)
    PROVE  IInv'
<1> DEFINE j == recovery[r].job
           S == recovery[r].batch
           next == [recovery[r] EXCEPT !.step = "read", !.batch = {}]
<1>1. TypeOK /\ RecoveryOK(r) /\ recovery[r] \in Recovery
  BY DEF IInv, Books, RecoveriesOK, TypeOK
<1>2. recovery[r].step = "mark" /\ UNCHANGED <<decision, fence, doubt, grant>>
  BY DEF MarkUncertain
<1>3. CASE Refused(S, "loss_uncertain")
  <2>1. recovery' = [recovery EXCEPT ![r] = Idle] /\ UNCHANGED <<account, lease, usage, rows>>
    BY <1>3 DEF MarkUncertain
  <2> QED
    BY <1>2, <2>1, RecovererRests
<1>4. CASE ~Refused(S, "loss_uncertain")
  <2>1. SettleBatch(j, S, "loss_uncertain") /\ recovery' = [recovery EXCEPT ![r] = next]
    BY <1>1, <1>4 DEF MarkUncertain, TypeOK
  <2>2. j \in Jobs /\ S \subseteq Of(j) /\ fence[j] \in Gone
    BY <1>1, <1>2 DEF RecoveryOK, Idle
  <2>3. "loss_uncertain" \in Keys /\ "loss_uncertain" \notin Closing
    BY DEF Keys, DirectKeys, UncertainKeys, Closing
  <2>4. next \in Recovery /\ next.job = j /\ next.step = "read" /\ next.batch = {}
    BY <1>1 DEF Recovery
  <2>5. recovery'[r] = next
    BY <1>1, <2>1 DEF TypeOK
  <2> HIDE DEF j, S, next
  <2>6. Moved
    BY <1>1, <1>4, <2>1, <2>2, <2>3, SettleBatchMoved
  <2>7. NoReservation /\ PairsOK' /\ rows' \in [Leases -> SUBSET Keys]
    BY <1>4, <2>1, <2>2, <2>3, SettleBatchPairs
  <2>8. RecoveryOK(r)'
    BY <1>2, <2>2, <2>4, <2>5 DEF RecoveryOK
  <2> QED
    BY <1>2, <2>1, <2>4, <2>6, <2>7, <2>8, RecovererStep
<1> QED
  BY <1>3, <1>4

LEMMA CloseInvariant ==
    ASSUME IInv, NEW r \in Recoverers, CloseCanceled(r)
    PROVE  IInv'
<1> DEFINE j == recovery[r].job
           S == recovery[r].batch
<1>1. TypeOK /\ RecoveryOK(r)
  BY DEF IInv, Books, RecoveriesOK
<1>2. /\ recovery[r].step = "close" /\ UNCHANGED <<decision, fence, doubt, grant>>
      /\ recovery' = [recovery EXCEPT ![r] = Idle]
  BY DEF CloseCanceled
<1>3. CASE Refused(S, "loss_canceled")
  <2>1. UNCHANGED <<account, lease, usage, rows>>
    BY <1>3 DEF CloseCanceled
  <2> QED
    BY <1>2, <2>1, RecovererRests
<1>4. CASE ~Refused(S, "loss_canceled")
  <2>1. SettleBatch(j, S, "loss_canceled")
    BY <1>4 DEF CloseCanceled
  <2>2. j \in Jobs /\ S = Of(j)
    BY <1>1, <1>2 DEF RecoveryOK, Idle
  <2>3. "loss_canceled" \in Keys
    BY DEF Keys
  <2> HIDE DEF j, S
  <2>4. Moved
    BY <1>1, <1>4, <2>1, <2>2, <2>3, SettleBatchMoved
  <2>5. NoReservation /\ PairsOK' /\ rows' \in [Leases -> SUBSET Keys]
    BY <1>4, <2>1, <2>2, <2>3, SettleBatchPairs
  <2>6. Idle \in Recovery
    BY DEF Idle, Recovery
  <2>7. recovery'[r] = Idle
    BY <1>1, <1>2 DEF TypeOK
  <2>8. RecoveryOK(r)'
    BY <2>7 DEF RecoveryOK, Idle
  <2> QED
    BY <1>2, <2>4, <2>5, <2>6, <2>8, RecovererStep
<1> QED
  BY <1>3, <1>4

LEMMA DiesInvariant ==
    ASSUME IInv, NEW r \in Recoverers, RecovererDies(r)
    PROVE  IInv'
BY RecovererRests DEF RecovererDies

LEMMA InitInvariant == Init => IInv
<1> SUFFICES ASSUME Init PROVE IInv
  OBVIOUS
<1> DEFINE closed == [exists |-> FALSE, limit |-> 0, initial |-> 0,
                      consumed |-> 0, reserved |-> 0, version |-> 0]
<1>1. /\ \A a \in Accounts : account[a] = closed
      /\ \A p \in Leases : lease[p] = NoLease /\ usage[p] = {} /\ rows[p] = {}
      /\ \A j \in Jobs : decision[j] = "none"
      /\ \A r \in Recoverers : recovery[r] = Idle
      /\ \A g \in Grants : grant[g].account = NoAccount
  BY DEF Init
<1>2. closed \in Account /\ NoLease \in Lease /\ Idle \in Recovery
  BY DEF Account, NoLease, Lease, LeaseState, Idle, Recovery
<1>3. TypeOK
  <2>1. account \in [Accounts -> Account] /\ lease \in [Leases -> Lease]
    BY <1>2 DEF Init
  <2>2. recovery \in [Recoverers -> Recovery]
    BY <1>2 DEF Init
  <2>3. usage \in [Leases -> SUBSET Events] /\ rows \in [Leases -> SUBSET Keys]
    BY DEF Init
  <2>4. /\ decision \in [Jobs -> {"none", "accepted", "quota_exhausted"}]
        /\ fence \in [Jobs -> {"held", "delivered", "lost", "withheld"}]
        /\ doubt \in [Jobs -> BOOLEAN]
    BY DEF Init
  <2>5. grant \in [Grants -> [account : Accounts \cup {NoAccount}, expected : Nat, applied : BOOLEAN]]
    BY DEF Init
  <2> QED
    BY <2>1, <2>2, <2>3, <2>4, <2>5 DEF TypeOK
<1>4. WithinLimit /\ AccountsOK
  BY <1>1 DEF WithinLimit, AccountsOK, AccountOK
<1>5. LeasesOK
  BY <1>1 DEF LeasesOK, LeaseOK, NoLease
<1>6. ProjectionsAreSums
  <2> SUFFICES ASSUME NEW a \in Accounts
               PROVE  account[a].consumed = Sum(Consumption, In(a))
                      /\ account[a].reserved = Sum(Holding, In(a))
    BY DEF ProjectionsAreSums, Sum
  <2>1. \A p \in In(a) : Consumption[p] = 0 /\ Holding[p] = 0
    BY <1>1, LeaseFacts DEF Consumption, Holding, Remaining, NoLease
  <2>2. Sum(Consumption, In(a)) = 0 /\ Sum(Holding, In(a)) = 0
    BY <2>1, LeasesOfAccountFinite, SumOfZeros
  <2> QED
    BY <1>1, <2>2
<1>7. DecisionsOK
  BY <1>1, LeaseFacts DEF DecisionsOK, DecisionOK, NoLease
<1>8. PairsOK
  <2>1. NoLease.state = "none" /\ NoLease.consumed = 0
    BY DEF NoLease
  <2> SUFFICES ASSUME NEW j \in Jobs, NEW p \in Of(j), NEW q \in Of(j)
               PROVE  HalvesOK(p, q)
    BY DEF PairsOK
  <2>2. p \in Leases /\ q \in Leases
    BY LeaseFacts
  <2>3. lease[p] = NoLease /\ lease[q] = NoLease /\ usage[p] = usage[q] /\ rows[p] = rows[q]
    BY <1>1, <2>2
  <2> QED
    BY <2>1, <2>3 DEF HalvesOK
<1>9. RecoveriesOK /\ GrantsOK
  BY <1>1 DEF RecoveriesOK, RecoveryOK, GrantsOK, GrantOK
<1> QED
  BY <1>3, <1>4, <1>5, <1>6, <1>7, <1>8, <1>9 DEF IInv, Books

LEMMA StutterInvariant ==
    ASSUME IInv, UNCHANGED vars
    PROVE  IInv'
<1>1. UNCHANGED <<account, lease, usage, rows, decision, fence, doubt, recovery, grant>>
  BY DEF vars
<1>2. OtherTypes'
  BY <1>1 DEF IInv, Books, TypeOK, OtherTypes, Leases, Keys, Recovery
<1>3. RecoveriesOK' /\ GrantsOK'
  BY <1>1, RecoveriesStay, GrantsStay DEF IInv, Books
<1> QED
  BY <1>1, <1>2, <1>3, StillInvariant

LEMMA NextInvariant == IInv /\ [Next]_vars => IInv'
<1> SUFFICES ASSUME IInv, [Next]_vars PROVE IInv'
  OBVIOUS
<1>1. CASE UNCHANGED vars
  BY <1>1, StutterInvariant
<1>2. CASE \E a \in Accounts, n \in Opening : CreateQuotaAccount(a, n)
  BY <1>2, CreateInvariant
<1>3. ASSUME NEW j \in Jobs, AdmitTaskActorQuota(j) \/ ReserveQuota(j)
      PROVE  IInv'
  BY <1>3, AdmitInvariant, ReserveInvariant
<1>4. ASSUME NEW j \in Jobs, NEW e \in Events, RecordQuotaUsages(j, e) \/ RecordQuotaUsage(j, e)
      PROVE  IInv'
  BY <1>4, RecordInvariant
<1>5. ASSUME NEW j \in Jobs, HeartbeatQuotaLeases(j) \/ HeartbeatQuotaLease(j)
      PROVE  IInv'
  BY <1>5, HeartbeatInvariant
<1>6. ASSUME NEW j \in Jobs, NEW key \in Keys, SettleQuotaLeases(j, key) \/ SettleQuotaLease(j, key)
      PROVE  IInv'
  BY <1>6, SettleInvariant
<1>7. ASSUME NEW j \in Jobs, Deliver(j) \/ (\E unknown \in BOOLEAN : Lose(j, unknown))
                               \/ Withhold(j) \/ ResolveEffect(j)
      PROVE  IInv'
  BY <1>7, DeliverInvariant, LoseInvariant, WithholdInvariant, ResolveInvariant
<1>8. CASE \E S \in Scopes : ExpireQuotaLeases(S)
  BY <1>8, ExpireInvariant
<1>9. ASSUME NEW r \in Recoverers, Recover(r) \/ RecovererDies(r)
      PROVE  IInv'
  BY <1>9, ReadInvariant, MarkInvariant, CloseInvariant, BeginInvariant, DiesInvariant DEF Recover
<1>10. ASSUME NEW g \in Grants, GrantQuota(g) \/ \E a \in Accounts : AskForGrant(g, a)
       PROVE  IInv'
  BY <1>10, GrantInvariant, AskInvariant
<1>11. CASE Tick
  BY <1>11, TickInvariant
<1> QED
  BY <1>1, <1>2, <1>3, <1>4, <1>5, <1>6, <1>7, <1>8, <1>9, <1>10, <1>11 DEF Next

LEMMA InvariantHolds == Spec => []IInv
BY InitInvariant, NextInvariant, PTL DEF Spec

-----------------------------------------------------------------------------
(* What the ledger promises.                                               *)

(* Every row is one the code can read back: no unit count is negative or    *)
(* beyond the width of its column, whatever is granted, charged, retried or *)
(* settled late (quota batches and settlements, v5_quota_batch.go).         *)
THEOREM QuotaLedgerTypes == Spec => []TypeOK
BY InvariantHolds, PTL DEF IInv, Books

(* No order of admissions, charges, losses, settlements and grants spends   *)
(* or promises more than the limit of an account.                           *)
THEOREM QuotaWithinLimit == Spec => []WithinLimit
BY InvariantHolds, PTL DEF IInv, Books

(* What an account says it has consumed and reserved is what its leases add *)
(* up to, and the task half and the actor half of a job agree, through      *)
(* replays, deferred expiry, lost executions and their recovery.            *)
THEOREM QuotaAccountMatchesLeases == Spec => []AccountMatchesLeases
<1>1. IInv => AccountMatchesLeases
  BY DEF IInv, Books, PairsOK, HalvesOK, AccountMatchesLeases, HalvesAgree
<1> QED
  BY <1>1, InvariantHolds, PTL

(* The errors `account projection is invalid' of the charge and of the      *)
(* settlement cannot occur: an account always reserves at least what any    *)
(* one of its leases still holds.                                           *)
ReservationIsCovered == \A p \in Leases : Remaining(p) <= account[p[2]].reserved

(* No account reserves less than one of its leases still holds.            *)
THEOREM QuotaReservationIsCovered == Spec => []ReservationIsCovered
<1>1. IInv => ReservationIsCovered
  <2> SUFFICES ASSUME IInv, NEW p \in Leases PROVE Remaining(p) <= account[p[2]].reserved
    BY DEF ReservationIsCovered
  <2>1. p[2] \in Accounts /\ p \in In(p[2]) /\ \A q \in In(p[2]) : q \in Leases
    BY LeaseFacts
  <2>2. \A q \in In(p[2]) : Holding[q] \in Nat
    <3> SUFFICES ASSUME NEW q \in Leases PROVE Holding[q] \in Nat
      BY <2>1
    <3>1. lease[q] \in Lease /\ LeaseOK(q)
      BY LeaseTyped DEF IInv, Books, LeasesOK
    <3> QED
      BY <3>1, Constants DEF LeaseOK, Lease, Holding, Remaining
  <2>3. Holding[p] <= Sum(Holding, In(p[2]))
    BY <2>1, <2>2, LeasesOfAccountFinite, SumAtLeast
  <2>4. account[p[2]].reserved = Sum(Holding, In(p[2]))
    BY <2>1 DEF IInv, Books, ProjectionsAreSums, Sum
  <2> QED
    BY <2>3, <2>4 DEF Holding
<1> QED
  BY <1>1, InvariantHolds, PTL

-----------------------------------------------------------------------------
(* Every account behaves as a bucket of the in-memory manager: each of the  *)
(* things a step may do to an account is a call of the manager or, where    *)
(* the manager has expired a lease before the ledger noticed, nothing.      *)

(* The manager's view of a row.                                            *)
Viewed(row, policy) ==
    [status |-> IF row.state = "active" /\ row.left = 0 THEN "expired" ELSE row.state,
     policy |-> IF row.state = "none" THEN "reclaim_unused" ELSE policy,
     left |-> row.left, reserved |-> row.reserved,
     consumed |-> row.consumed, released |-> row.released]
View(a) == [p \in In(a) |-> Row(p)]
Seen(a) == [p \in In(a) |-> usage[p]]

ViewRow(status, policy, left, reserved, consumed, released) ==
    [status |-> status, policy |-> policy, left |-> left, reserved |-> reserved,
     consumed |-> consumed, released |-> released]

LEMMA ViewDated ==
    ASSUME NEW row,
           row = ViewRow(row.status, row.policy, row.left, row.reserved, row.consumed, row.released),
           NEW m
    PROVE  [row EXCEPT !.left = m] =
               ViewRow(row.status, row.policy, m, row.reserved, row.consumed, row.released)
BY DEF ViewRow

LEMMA ViewMarked ==
    ASSUME NEW row,
           row = ViewRow(row.status, row.policy, row.left, row.reserved, row.consumed, row.released),
           NEW t, NEW m
    PROVE  [row EXCEPT !.status = t, !.left = m] =
               ViewRow(t, row.policy, m, row.reserved, row.consumed, row.released)
<1>1. PICK mid : mid = [row EXCEPT !.status = t]
  OBVIOUS
<1>2. mid = ViewRow(t, row.policy, row.left, row.reserved, row.consumed, row.released)
  BY <1>1 DEF ViewRow
<1>3. [mid EXCEPT !.left = m] =
          ViewRow(t, row.policy, m, row.reserved, row.consumed, row.released)
  BY <1>2 DEF ViewRow
<1> QED
  BY <1>1, <1>3

LEMMA ViewConsumed ==
    ASSUME NEW row,
           row = ViewRow(row.status, row.policy, row.left, row.reserved, row.consumed, row.released),
           NEW t, NEW m, NEW v
    PROVE  [row EXCEPT !.status = t, !.left = m, !.consumed = v] =
               ViewRow(t, row.policy, m, row.reserved, v, row.released)
<1>1. PICK mid : mid = [row EXCEPT !.status = t, !.left = m]
  OBVIOUS
<1>2. mid = ViewRow(t, row.policy, m, row.reserved, row.consumed, row.released)
  BY <1>1, ViewMarked
<1>3. [mid EXCEPT !.consumed = v] = ViewRow(t, row.policy, m, row.reserved, v, row.released)
  BY <1>2 DEF ViewRow
<1> QED
  BY <1>1, <1>3

LEMMA ViewReleased ==
    ASSUME NEW row,
           row = ViewRow(row.status, row.policy, row.left, row.reserved, row.consumed, row.released),
           NEW t, NEW m, NEW v
    PROVE  [row EXCEPT !.status = t, !.left = m, !.released = v] =
               ViewRow(t, row.policy, m, row.reserved, row.consumed, v)
<1>1. PICK mid : mid = [row EXCEPT !.status = t, !.left = m]
  OBVIOUS
<1>2. mid = ViewRow(t, row.policy, m, row.reserved, row.consumed, row.released)
  BY <1>1, ViewMarked
<1>3. [mid EXCEPT !.released = v] = ViewRow(t, row.policy, m, row.reserved, row.consumed, v)
  BY <1>2 DEF ViewRow
<1> QED
  BY <1>1, <1>3

LEMMA RowIsViewed ==
    \A p \in Leases : /\ Row(p) = Viewed(lease[p], Policy[p[1]])
                      /\ Row(p)' = Viewed(lease'[p], Policy[p[1]])
BY DEF Row, Viewed, Lapsed

LEMMA ViewValue ==
    \A a \in Accounts :
        /\ View(a)' = [p \in In(a) |-> Row(p)'] /\ Seen(a)' = [p \in In(a) |-> usage'[p]]
        /\ Bucket(a)' = [limit |-> account'[a].limit, consumed |-> account'[a].consumed,
                         reserved |-> account'[a].reserved, version |-> account'[a].version]
BY DEF View, Seen, Bucket, In, Leases

LEMMA OthersSeenSame ==
    ASSUME NEW a \in Accounts, NEW p \in In(a), SameLeases(In(a) \ {p})
    PROVE  /\ View(a)' = [View(a) EXCEPT ![p] = Row(p)']
           /\ Seen(a)' = [Seen(a) EXCEPT ![p] = usage'[p]]
<1>1. \A q \in In(a) : q \in Leases
  BY LeaseFacts
<1>2. \A q \in In(a) \ {p} : Row(q)' = Row(q) /\ usage'[q] = usage[q]
  BY <1>1, RowIsViewed DEF SameLeases
<1> QED
  BY <1>2, ViewValue DEF View, Seen

Implements(a) == [Manager(a)!Next]_(Manager(a)!vars)

LEMMA NothingSeen ==
    ASSUME NEW a \in Accounts, UNCHANGED <<Bucket(a), View(a), Seen(a)>>
    PROVE  Implements(a)
BY DEF Implements, Manager!vars, View, Seen

LEMMA MarksImplement ==
    ASSUME TypeOK, NEW a \in Accounts, Marks(a)
    PROVE  Implements(a)
<1>1. \A p \in In(a) : p \in Leases /\ lease[p] \in Lease
  BY LeaseTyped, LeaseFacts
<1>2. \A p \in In(a) : Row(p)' = Row(p)
  <2> SUFFICES ASSUME NEW p \in In(a), lease'[p] # lease[p]
               PROVE  Row(p)' = Row(p)
    BY <1>1, RowIsViewed
  <2>1. Lapsed(p) /\ lease'[p] = [lease[p] EXCEPT !.state = "expired"]
    BY DEF Marks
  <2> QED
    BY <1>1, <2>1, RowIsViewed DEF Viewed, Lease, Lapsed
<1>3. UNCHANGED <<Bucket(a), View(a), Seen(a)>>
  BY <1>2, ViewValue DEF Marks, View, Seen, Bucket
<1> QED
  BY <1>3, NothingSeen

LEMMA AgesImplement ==
    ASSUME TypeOK, LeasesOK, NEW a \in Accounts, Ages(a)
    PROVE  Implements(a)
<1>1. \A p \in In(a) : p \in Leases /\ lease[p] \in Lease /\ LeaseOK(p)
  BY LeaseTyped, LeaseFacts DEF LeasesOK
<1>2. \A p \in In(a) :
         Row(p)' = IF Row(p).status # "active" THEN Row(p)
                   ELSE IF Row(p).left <= 1 THEN [Row(p) EXCEPT !.status = "expired", !.left = 0]
                   ELSE [Row(p) EXCEPT !.left = @ - 1]
  <2> SUFFICES ASSUME NEW p \in In(a)
               PROVE  Row(p)' = IF Row(p).status # "active" THEN Row(p)
                   ELSE IF Row(p).left <= 1 THEN [Row(p) EXCEPT !.status = "expired", !.left = 0]
                   ELSE [Row(p) EXCEPT !.left = @ - 1]
    OBVIOUS
  <2>1. lease'[p] = IF lease[p].left > 0 THEN [lease[p] EXCEPT !.left = @ - 1] ELSE lease[p]
    BY DEF Ages
  <2>2. CASE lease[p].left > 0
    <3>1. lease[p].state = "active" /\ lease'[p] = [lease[p] EXCEPT !.left = lease[p].left - 1]
      BY <1>1, <2>1, <2>2 DEF LeaseOK
    <3>2. Row(p) = ViewRow("active", Policy[p[1]], lease[p].left, lease[p].reserved,
                           lease[p].consumed, lease[p].released)
      BY <1>1, <2>2, <3>1, RowIsViewed DEF Viewed, ViewRow
    <3>3. lease[p].left \in Int
      BY <1>1 DEF Lease
    <3>4. lease'[p] = [state |-> "active", left |-> lease[p].left - 1,
                       reserved |-> lease[p].reserved, consumed |-> lease[p].consumed,
                       released |-> lease[p].released]
      BY <1>1, <3>1 DEF Lease
    <3>5. Row(p)' = ViewRow(IF lease[p].left <= 1 THEN "expired" ELSE "active", Policy[p[1]],
                            lease[p].left - 1, lease[p].reserved, lease[p].consumed,
                            lease[p].released)
      BY <1>1, <2>2, <3>3, <3>4, RowIsViewed DEF Viewed, ViewRow
    <3>6. PICK row : row = Row(p)
      OBVIOUS
    <3>7. /\ row.status = "active" /\ row.policy = Policy[p[1]] /\ row.left = lease[p].left
          /\ row.reserved = lease[p].reserved /\ row.consumed = lease[p].consumed
          /\ row.released = lease[p].released
          /\ row = ViewRow(row.status, row.policy, row.left, row.reserved, row.consumed,
                           row.released)
      BY <3>2, <3>6 DEF ViewRow
    <3>8. CASE lease[p].left <= 1
      <4>1. [row EXCEPT !.status = "expired", !.left = 0] =
                ViewRow("expired", row.policy, 0, row.reserved, row.consumed, row.released)
        BY <3>7, ViewMarked
      <4>2. lease[p].left - 1 = 0
        BY <2>2, <3>3, <3>8
      <4> QED
        BY <3>5, <3>6, <3>7, <3>8, <4>1, <4>2
    <3>9. CASE ~(lease[p].left <= 1)
      <4>1. [row EXCEPT !.left = lease[p].left - 1] =
                ViewRow(row.status, row.policy, lease[p].left - 1, row.reserved, row.consumed,
                        row.released)
        BY <3>7, ViewDated
      <4> QED
        BY <3>5, <3>6, <3>7, <3>9, <4>1
    <3> QED
      BY <3>8, <3>9
  <2>3. CASE ~(lease[p].left > 0)
    <3>1. lease'[p] = lease[p] /\ lease[p].left = 0
      BY <1>1, <2>1, <2>3 DEF Lease
    <3> QED
      BY <1>1, <3>1, RowIsViewed DEF Viewed
  <2> QED
    BY <2>2, <2>3
<1>3. Bucket(a)' = Bucket(a) /\ Seen(a)' = Seen(a)
  BY ViewValue DEF Ages, Seen, Bucket
<1>4. View(a)' = [p \in In(a) |->
                     IF View(a)[p].status # "active" THEN View(a)[p]
                     ELSE IF View(a)[p].left <= 1
                          THEN [View(a)[p] EXCEPT !.status = "expired", !.left = 0]
                     ELSE [View(a)[p] EXCEPT !.left = @ - 1]]
  BY <1>2, ViewValue DEF View
<1>5. Manager(a)!Tick
  BY <1>3, <1>4 DEF Manager!Tick, View, Seen
<1> QED
  BY <1>5 DEF Implements, Manager!Next

(* The manager's view of a bucket.                                         *)
BucketRow(limit, consumed, reserved, version) ==
    [limit |-> limit, consumed |-> consumed, reserved |-> reserved, version |-> version]

LEMMA BucketRaised ==
    ASSUME NEW row, row = BucketRow(row.limit, row.consumed, row.reserved, row.version),
           NEW n, NEW v
    PROVE  [row EXCEPT !.limit = n, !.version = v] = BucketRow(n, row.consumed, row.reserved, v)
<1>1. PICK mid : mid = [row EXCEPT !.limit = n]
  OBVIOUS
<1>2. mid = BucketRow(n, row.consumed, row.reserved, row.version)
  BY <1>1 DEF BucketRow
<1>3. [mid EXCEPT !.version = v] = BucketRow(n, row.consumed, row.reserved, v)
  BY <1>2 DEF BucketRow
<1> QED
  BY <1>1, <1>3

LEMMA BucketReturned ==
    ASSUME NEW row, row = BucketRow(row.limit, row.consumed, row.reserved, row.version),
           NEW r, NEW v
    PROVE  [row EXCEPT !.reserved = r, !.version = v] = BucketRow(row.limit, row.consumed, r, v)
<1>1. PICK mid : mid = [row EXCEPT !.reserved = r]
  OBVIOUS
<1>2. mid = BucketRow(row.limit, row.consumed, r, row.version)
  BY <1>1 DEF BucketRow
<1>3. [mid EXCEPT !.version = v] = BucketRow(row.limit, row.consumed, r, v)
  BY <1>2 DEF BucketRow
<1> QED
  BY <1>1, <1>3

LEMMA BucketSpent ==
    ASSUME NEW row, row = BucketRow(row.limit, row.consumed, row.reserved, row.version),
           NEW r, NEW c, NEW v
    PROVE  [row EXCEPT !.reserved = r, !.consumed = c, !.version = v] =
               BucketRow(row.limit, c, r, v)
<1>1. PICK mid : mid = [row EXCEPT !.reserved = r]
  OBVIOUS
<1>2. mid = BucketRow(row.limit, row.consumed, r, row.version)
  BY <1>1 DEF BucketRow
<1>3. PICK both : both = [mid EXCEPT !.consumed = c]
  OBVIOUS
<1>4. both = BucketRow(row.limit, c, r, row.version)
  BY <1>2, <1>3 DEF BucketRow
<1>5. [both EXCEPT !.version = v] = BucketRow(row.limit, c, r, v)
  BY <1>4 DEF BucketRow
<1> QED
  BY <1>1, <1>3, <1>5

LEMMA BucketFields ==
    ASSUME NEW a \in Accounts
    PROVE  /\ Bucket(a) = BucketRow(Bucket(a).limit, Bucket(a).consumed,
                                    Bucket(a).reserved, Bucket(a).version)
           /\ Bucket(a).limit = account[a].limit /\ Bucket(a).consumed = account[a].consumed
           /\ Bucket(a).reserved = account[a].reserved /\ Bucket(a).version = account[a].version
           /\ Bucket(a)' = BucketRow(account'[a].limit, account'[a].consumed,
                                     account'[a].reserved, account'[a].version)
BY DEF Bucket, BucketRow

LEMMA OpensImplement ==
    ASSUME AccountsOK, NEW a \in Accounts, Opens(a)
    PROVE  Implements(a)
<1>1. PICK limit \in 0 .. MaxUnits, initial \in 0 .. MaxUnits : account'[a] = Opened(limit, initial)
  BY DEF Opens
<1>2. Bucket(a)' = BucketRow(limit, 0, 0, 1)
  BY <1>1, BucketFields DEF Opened, BucketRow
<1>3. Bucket(a) = BucketRow(0, 0, 0, 0)
  BY DEF AccountsOK, AccountOK, Opens, Bucket, BucketRow
<1>4. Bucket(a)' = Manager(a)!Installed(limit)
  <2>1. PICK b : b = Bucket(a)
    OBVIOUS
  <2>2. /\ b.limit = 0 /\ b.consumed = 0 /\ b.reserved = 0 /\ b.version = 0
        /\ b = BucketRow(b.limit, b.consumed, b.reserved, b.version)
    BY <1>3, <2>1 DEF BucketRow
  <2>3. \A n, v : [b EXCEPT !.limit = n, !.version = v] = BucketRow(n, 0, 0, v)
    BY <2>2, BucketRaised
  <2> QED
    BY <1>2, <2>1, <2>2, <2>3 DEF Manager!Installed
<1>5. View(a)' = View(a) /\ Seen(a)' = Seen(a)
  BY ViewValue, RowIsViewed, LeaseFacts DEF Opens, SameLeases, View, Seen
<1>6. Manager(a)!Install(limit)
  BY <1>4, <1>5 DEF Manager!Install, View, Seen
<1> QED
  BY <1>6 DEF Implements, Manager!Next

LEMMA BindsImplement ==
    ASSUME TypeOK, NEW a \in Accounts, Binds(a)
    PROVE  Implements(a)
<1>1. View(a)' = View(a) /\ Seen(a)' = Seen(a)
  BY ViewValue, RowIsViewed, LeaseFacts DEF Binds, SameLeases, View, Seen
<1>2. PICK initial : account'[a] = [account[a] EXCEPT !.initial = initial]
  BY DEF Binds
<1>3. Bucket(a)' = Bucket(a)
  BY <1>2 DEF Bucket, TypeOK, Account
<1> QED
  BY <1>1, <1>3, NothingSeen

LEMMA RaisesImplement ==
    ASSUME TypeOK, AccountsOK, NEW a \in Accounts, Raises(a)
    PROVE  Implements(a)
<1>1. account[a] \in Account /\ account[a].version > 0 /\ account[a].limit <= MaxUnits - Delta
  BY DEF TypeOK, AccountsOK, AccountOK, Raises
<1>2. View(a)' = View(a) /\ Seen(a)' = Seen(a)
  BY ViewValue, RowIsViewed, LeaseFacts DEF Raises, SameLeases, View, Seen
<1>3. PICK b : b = Bucket(a)
  OBVIOUS
<1>4. /\ b = BucketRow(b.limit, b.consumed, b.reserved, b.version)
      /\ b.limit = account[a].limit /\ b.consumed = account[a].consumed
      /\ b.reserved = account[a].reserved /\ b.version = account[a].version
  BY <1>3, BucketFields
<1>5. Bucket(a)' = BucketRow(b.limit + Delta, b.consumed, b.reserved, b.version + 1)
  <2>1. PICK row : row = account[a]
    OBVIOUS
  <2>2. PICK mid : mid = [row EXCEPT !.limit = row.limit + Delta]
    OBVIOUS
  <2>3. account'[a] = [mid EXCEPT !.version = row.version + 1]
    BY <2>1, <2>2 DEF Raises
  <2>4. mid = [exists |-> row.exists, limit |-> row.limit + Delta, initial |-> row.initial,
               consumed |-> row.consumed, reserved |-> row.reserved, version |-> row.version]
    BY <1>1, <2>1, <2>2 DEF Account
  <2>5. /\ account'[a].limit = row.limit + Delta /\ account'[a].consumed = row.consumed
        /\ account'[a].reserved = row.reserved /\ account'[a].version = row.version + 1
    BY <2>3, <2>4
  <2> QED
    BY <1>4, <2>1, <2>5, BucketFields
<1>6. \A n, v : [b EXCEPT !.limit = n, !.version = v] = BucketRow(n, b.consumed, b.reserved, v)
  BY <1>4, BucketRaised
<1>7. Bucket(a)' = [Bucket(a) EXCEPT !.limit = @ + Delta, !.version = @ + 1]
  BY <1>3, <1>5, <1>6
<1>8. Manager(a)!Grant(Delta)
  BY <1>1, <1>2, <1>3, <1>4, <1>7 DEF Manager!Grant, Manager!canAdd, View, Seen
<1> QED
  BY <1>8, QuotaAssumption DEF Implements, Manager!Next

(* One lease of a view changes.                                            *)
LEMMA PointStatus ==
    ASSUME NEW D, NEW L, L = [q \in D |-> L[q]], NEW p \in D, NEW row, row = L[p], NEW t, NEW m
    PROVE  [L EXCEPT ![p].status = t, ![p].left = m] =
               [L EXCEPT ![p] = [row EXCEPT !.status = t, !.left = m]]
OBVIOUS

LEMMA BucketSame == \A a \in Accounts : account'[a] = account[a] => Bucket(a)' = Bucket(a)
BY DEF Bucket

LEMMA UsageSame ==
    ASSUME NEW a \in Accounts, NEW p \in In(a), SameLeases(In(a) \ {p}), usage'[p] = usage[p]
    PROVE  Seen(a)' = Seen(a)
BY ViewValue DEF Seen, SameLeases

LEMMA RenewsImplement ==
    ASSUME TypeOK, NEW a \in Accounts, NEW p \in In(a), Renews(p), SameLeases(In(a) \ {p})
    PROVE  Implements(a)
<1>1. p \in Leases /\ p[2] = a /\ lease[p] \in Lease
  BY LeaseFacts, LeaseTyped
<1>2. Running(p) /\ account'[a] = account[a] /\ usage'[p] = usage[p]
      /\ lease'[p] = [lease[p] EXCEPT !.left = TTL]
  BY <1>1 DEF Renews
<1>3. PICK row : row = Row(p)
  OBVIOUS
<1>4. row = ViewRow("active", Policy[p[1]], lease[p].left, lease[p].reserved,
                    lease[p].consumed, lease[p].released)
  BY <1>1, <1>2, <1>3, RowIsViewed DEF Running, Viewed, ViewRow
<1>5. Row(p)' = ViewRow("active", Policy[p[1]], TTL, lease[p].reserved,
                        lease[p].consumed, lease[p].released)
  BY <1>1, <1>2, RowIsViewed, Constants DEF Running, Viewed, ViewRow, Lease
<1>6. Row(p)' = [row EXCEPT !.left = TTL]
  BY <1>4, <1>5 DEF ViewRow
<1>7. View(a)' = [View(a) EXCEPT ![p].left = TTL]
  <2>1. View(a)' = [View(a) EXCEPT ![p] = Row(p)'] /\ View(a)[p] = row
    BY <1>3, OthersSeenSame DEF View
  <2> QED
    BY <1>6, <2>1 DEF View
<1>8. Bucket(a)' = Bucket(a) /\ Seen(a)' = Seen(a)
  BY <1>2, BucketSame, UsageSame
<1>9. View(a)[p].status = "active"
  <2>1. View(a)[p] = row
    BY <1>3 DEF View
  <2>2. row.status = "active"
    BY <1>4 DEF ViewRow
  <2> QED
    BY <2>1, <2>2
<1>10. Manager(a)!Heartbeat(p)
  BY <1>7, <1>8, <1>9 DEF Manager!Heartbeat, View, Seen
<1> QED
  BY <1>10 DEF Implements, Manager!Next

LEMMA ViewPoint ==
    ASSUME NEW a \in Accounts, NEW p \in In(a), SameLeases(In(a) \ {p})
    PROVE  /\ View(a) = [q \in In(a) |-> View(a)[q]] /\ View(a)[p] = Row(p)
           /\ View(a)' = [View(a) EXCEPT ![p] = Row(p)']
BY OthersSeenSame DEF View

(* A row that is not "none", and its fields.                               *)
Status(row) == IF row.state = "active" /\ row.left = 0 THEN "expired" ELSE row.state

LEMMA RowFields ==
    ASSUME NEW p \in Leases, lease[p].state # "none", NEW row, row = Row(p)
    PROVE  /\ row.status = Status(lease[p]) /\ row.policy = Policy[p[1]]
           /\ row.left = lease[p].left /\ row.reserved = lease[p].reserved
           /\ row.consumed = lease[p].consumed /\ row.released = lease[p].released
           /\ row = ViewRow(row.status, row.policy, row.left, row.reserved, row.consumed, row.released)
<1>1. row = ViewRow(Status(lease[p]), Policy[p[1]], lease[p].left, lease[p].reserved,
                    lease[p].consumed, lease[p].released)
  BY RowIsViewed DEF Viewed, ViewRow, Status
<1> QED
  BY <1>1 DEF ViewRow

LEMMA NextRow ==
    ASSUME NEW p \in Leases, NEW state, NEW left, NEW reserved, NEW consumed, NEW released,
           state # "none", ~(state = "active" /\ left = 0),
           lease'[p] = [state |-> state, left |-> left, reserved |-> reserved,
                        consumed |-> consumed, released |-> released]
    PROVE  Row(p)' = ViewRow(state, Policy[p[1]], left, reserved, consumed, released)
BY RowIsViewed DEF Viewed, ViewRow

LEMMA DoubtsImplement ==
    ASSUME TypeOK, NEW a \in Accounts, NEW p \in In(a), Doubts(p), SameLeases(In(a) \ {p})
    PROVE  Implements(a)
<1>1. p \in Leases /\ p[2] = a /\ lease[p] \in Lease
  BY LeaseFacts, LeaseTyped
<1>2. Running(p) /\ account'[a] = account[a] /\ usage'[p] = usage[p]
      /\ lease'[p] = [lease[p] EXCEPT !.state = "uncertain", !.left = 0]
  BY <1>1 DEF Doubts
<1>3. PICK row : row = Row(p)
  OBVIOUS
<1>4. /\ row.status = "active" /\ row.policy = Policy[p[1]]
      /\ row.reserved = lease[p].reserved
      /\ row.consumed = lease[p].consumed /\ row.released = lease[p].released
      /\ row = ViewRow(row.status, row.policy, row.left, row.reserved, row.consumed, row.released)
  BY <1>1, <1>2, <1>3, RowFields DEF Running, Status, Lease
<1>5. lease'[p] = [state |-> "uncertain", left |-> 0, reserved |-> row.reserved,
                   consumed |-> row.consumed, released |-> row.released]
  BY <1>1, <1>2, <1>4 DEF Lease
<1>6. Row(p)' = ViewRow("uncertain", row.policy, 0, row.reserved, row.consumed, row.released)
  BY <1>1, <1>4, <1>5, NextRow
<1>7. Row(p)' = [row EXCEPT !.status = "uncertain", !.left = 0]
  BY <1>4, <1>6, ViewMarked
<1>8. PICK L : L = View(a)
  OBVIOUS
<1>9. L = [q \in In(a) |-> L[q]] /\ L[p] = row /\ View(a)' = [L EXCEPT ![p] = Row(p)']
  BY <1>3, <1>8, ViewPoint
<1>10. View(a)' = [L EXCEPT ![p].status = "uncertain", ![p].left = 0]
  <2>1. \A t, m : [L EXCEPT ![p].status = t, ![p].left = m] =
                     [L EXCEPT ![p] = [row EXCEPT !.status = t, !.left = m]]
    BY <1>9, PointStatus
  <2> QED
    BY <1>7, <1>9, <2>1
<1>11. Bucket(a)' = Bucket(a) /\ Seen(a)' = Seen(a)
  BY <1>2, BucketSame, UsageSame
<1>12. L[p].status = "active"
  BY <1>4, <1>9
<1>13. Manager(a)!SettleUncertain(p)
  BY <1>8, <1>10, <1>11, <1>12 DEF Manager!SettleUncertain, View, Seen
<1> QED
  BY <1>13 DEF Implements, Manager!Next

LEMMA SpentFields ==
    ASSUME NEW row \in Account, NEW u
    PROVE  /\ Spent(row, u).limit = row.limit /\ Spent(row, u).consumed = row.consumed + u
           /\ Spent(row, u).reserved = row.reserved - u /\ Spent(row, u).version = row.version + 1
<1>1. Spent(row, u) = [row EXCEPT !.reserved = row.reserved - u, !.consumed = row.consumed + u,
                                  !.version = row.version + 1]
  BY DEF Spent
<1>2. \A r, c, v : [row EXCEPT !.reserved = r, !.consumed = c, !.version = v] =
          [exists |-> row.exists, limit |-> row.limit, initial |-> row.initial,
           consumed |-> c, reserved |-> r, version |-> v]
  BY AccountUpdate
<1>3. Spent(row, u) = [exists |-> row.exists, limit |-> row.limit, initial |-> row.initial,
                       consumed |-> row.consumed + u, reserved |-> row.reserved - u,
                       version |-> row.version + 1]
  BY <1>1, <1>2
<1> QED
  BY <1>3

LEMMA ChargesImplement ==
    ASSUME TypeOK, WithinLimit, NEW a \in Accounts, NEW p \in In(a), NEW e \in Events,
           Charges(p, e), SameLeases(In(a) \ {p})
    PROVE  Implements(a)
<1>1. p \in Leases /\ p[2] = a /\ lease[p] \in Lease /\ account[a] \in Account
  BY LeaseFacts, LeaseTyped DEF TypeOK
<1>2. /\ Running(p) /\ e \notin usage[p] /\ Cost[e] <= Remaining(p)
      /\ account'[a] = Spent(account[a], Cost[e]) /\ Cost[e] <= account[a].reserved
      /\ lease'[p] = [lease[p] EXCEPT !.consumed = @ + Cost[e]]
      /\ usage'[p] = usage[p] \cup {e}
  BY <1>1 DEF Charges
<1>3. PICK row : row = Row(p)
  OBVIOUS
<1>4. /\ row.status = "active" /\ row.policy = Policy[p[1]] /\ row.left = lease[p].left
      /\ row.reserved = lease[p].reserved
      /\ row.consumed = lease[p].consumed /\ row.released = lease[p].released
      /\ row = ViewRow(row.status, row.policy, row.left, row.reserved, row.consumed, row.released)
      /\ ~(row.left = 0)
  BY <1>1, <1>2, <1>3, RowFields DEF Running, Status, Lease
<1>5. lease'[p] = [state |-> "active", left |-> row.left, reserved |-> row.reserved,
                   consumed |-> row.consumed + Cost[e], released |-> row.released]
  BY <1>1, <1>2, <1>4 DEF Lease, Running
<1>6. Row(p)' = ViewRow(row.status, row.policy, row.left, row.reserved,
                        row.consumed + Cost[e], row.released)
  BY <1>1, <1>4, <1>5, NextRow
<1>7. Row(p)' = [row EXCEPT !.consumed = row.consumed + Cost[e]]
  BY <1>4, <1>6 DEF ViewRow
<1>8. PICK L : L = View(a)
  OBVIOUS
<1>9. L = [q \in In(a) |-> L[q]] /\ L[p] = row /\ View(a)' = [L EXCEPT ![p] = Row(p)']
  BY <1>3, <1>8, ViewPoint
<1>10. View(a)' = [L EXCEPT ![p].consumed = @ + Cost[e]]
  BY <1>7, <1>9
<1>11. PICK b : b = Bucket(a)
  OBVIOUS
<1>12. /\ b = BucketRow(b.limit, b.consumed, b.reserved, b.version)
       /\ b.limit = account[a].limit /\ b.consumed = account[a].consumed
       /\ b.reserved = account[a].reserved /\ b.version = account[a].version
  BY <1>11, BucketFields
<1>13. Bucket(a)' = BucketRow(b.limit, b.consumed + Cost[e], b.reserved - Cost[e], b.version + 1)
  <2>1. /\ account'[a].limit = account[a].limit
        /\ account'[a].consumed = account[a].consumed + Cost[e]
        /\ account'[a].reserved = account[a].reserved - Cost[e]
        /\ account'[a].version = account[a].version + 1
    BY <1>1, <1>2, SpentFields
  <2> QED
    BY <1>12, <2>1, BucketFields
<1>14. \A r, c, v : [b EXCEPT !.reserved = r, !.consumed = c, !.version = v] =
                        BucketRow(b.limit, c, r, v)
  BY <1>12, BucketSpent
<1>15. Bucket(a)' = [b EXCEPT !.reserved = @ - Cost[e], !.consumed = @ + Cost[e], !.version = @ + 1]
  BY <1>13, <1>14
<1>16. b.consumed <= MaxUnits - Cost[e]
  BY <1>1, <1>2, <1>12, Constants DEF WithinLimit, Account
<1>17. Seen(a)' = [Seen(a) EXCEPT ![p] = @ \cup {e}] /\ e \notin Seen(a)[p]
  <2>1. Seen(a)' = [Seen(a) EXCEPT ![p] = usage'[p]] /\ Seen(a)[p] = usage[p]
    BY OthersSeenSame DEF Seen
  <2> QED
    BY <1>2, <2>1
<1>18. L[p].status = "active" /\ Cost[e] <= L[p].reserved - L[p].consumed - L[p].released
  BY <1>2, <1>4, <1>9 DEF Remaining
<1>19. Manager(a)!Charge(p, e, Cost[e])
  BY <1>8, <1>10, <1>11, <1>15, <1>16, <1>17, <1>18
     DEF Manager!Charge, Manager!remaining, Manager!canAdd, View, Seen
<1> QED
  BY <1>19, QuotaAssumption DEF Implements, Manager!Next

LEMMA ClosedRow ==
    ASSUME TypeOK, NEW p \in Leases, NEW key \in Closing
    PROVE  Closed(p, key) =
               IF Policy[p[1]] = "never"
               THEN [state |-> "settled", left |-> 0, reserved |-> lease[p].reserved,
                     consumed |-> lease[p].consumed + Remaining(p), released |-> lease[p].released]
               ELSE [state |-> "settled", left |-> 0, reserved |-> lease[p].reserved,
                     consumed |-> lease[p].consumed, released |-> lease[p].released + Remaining(p)]
<1> DEFINE rest == Remaining(p)
<1>1. PICK l : l = lease[p]
  OBVIOUS
<1>2. l \in Lease /\ key \notin UncertainKeys
  BY <1>1, LeaseTyped DEF Closing
<1> HIDE DEF rest
<1>3. CASE Policy[p[1]] = "never"
  <2>1. Closed(p, key) = [l EXCEPT !.state = "settled", !.left = 0, !.consumed = l.consumed + rest]
    BY <1>1, <1>2, <1>3 DEF Closed, rest
  <2>2. \A s, n : [l EXCEPT !.state = s, !.left = 0, !.consumed = n] =
            [state |-> s, left |-> 0, reserved |-> l.reserved, consumed |-> n,
             released |-> l.released]
    BY <1>2, LeaseUpdate
  <2>3. Closed(p, key) = [state |-> "settled", left |-> 0, reserved |-> l.reserved,
                          consumed |-> l.consumed + rest, released |-> l.released]
    BY <2>1, <2>2
  <2> QED
    BY <1>1, <1>3, <2>3 DEF rest
<1>4. CASE Policy[p[1]] # "never"
  <2>1. Closed(p, key) = [l EXCEPT !.state = "settled", !.left = 0, !.released = l.released + rest]
    BY <1>1, <1>2, <1>4 DEF Closed, rest
  <2>2. Closed(p, key) = [state |-> "settled", left |-> 0, reserved |-> l.reserved,
                          consumed |-> l.consumed, released |-> l.released + rest]
    BY <1>2, <2>1, LeaseUpdate
  <2> QED
    BY <1>1, <1>4, <2>2 DEF rest
<1> QED
  BY <1>3, <1>4

LEMMA BalancedFields ==
    ASSUME NEW p \in Leases, NEW key \in Closing, account[p[2]] \in Account,
           NEW a, a = p[2], NEW rest, rest = Remaining(p)
    PROVE  /\ Balanced(p, key).limit = account[a].limit
           /\ Balanced(p, key).reserved = account[a].reserved - rest
           /\ Balanced(p, key).consumed =
                 IF Policy[p[1]] = "never" THEN account[a].consumed + rest ELSE account[a].consumed
           /\ Balanced(p, key).version = account[a].version + 1
<1>1. PICK row : row = account[a]
  OBVIOUS
<1>2. row \in Account /\ key \notin UncertainKeys
  BY <1>1 DEF Closing
<1>3. PICK spent : spent = IF Policy[p[1]] = "never" THEN row.consumed + rest ELSE row.consumed
  OBVIOUS
<1>4. Balanced(p, key) = [row EXCEPT !.reserved = row.reserved - rest, !.consumed = spent,
                                     !.version = row.version + 1]
  BY <1>1, <1>2, <1>3 DEF Balanced
<1>5. \A r, c, v : [row EXCEPT !.reserved = r, !.consumed = c, !.version = v] =
          [exists |-> row.exists, limit |-> row.limit, initial |-> row.initial,
           consumed |-> c, reserved |-> r, version |-> v]
  BY <1>2, AccountUpdate
<1>6. Balanced(p, key) = [exists |-> row.exists, limit |-> row.limit, initial |-> row.initial,
                          consumed |-> spent, reserved |-> row.reserved - rest,
                          version |-> row.version + 1]
  BY <1>4, <1>5
<1> QED
  BY <1>1, <1>3, <1>6

LEMMA SettlesImplement ==
    ASSUME TypeOK, WithinLimit, LeasesOK, NEW a \in Accounts, NEW p \in In(a), NEW key \in Keys,
           Settles(p, key), SameLeases(In(a) \ {p})
    PROVE  Implements(a)
<1>1. p \in Leases /\ p[2] = a /\ lease[p] \in Lease /\ account[a] \in Account /\ LeaseOK(p)
  BY LeaseFacts, LeaseTyped DEF TypeOK, LeasesOK
<1>2. /\ Running(p) \/ lease[p].state \in {"expired", "uncertain"}
      /\ key \in Closing /\ Remaining(p) <= account[a].reserved
      /\ account'[a] = Balanced(p, key) /\ lease'[p] = Closed(p, key) /\ usage'[p] = usage[p]
  BY <1>1 DEF Settles
<1>3. PICK row : row = Row(p)
  OBVIOUS
<1>4. /\ row.status = Status(lease[p]) /\ row.policy = Policy[p[1]]
      /\ row.reserved = lease[p].reserved
      /\ row.consumed = lease[p].consumed /\ row.released = lease[p].released
      /\ row = ViewRow(row.status, row.policy, row.left, row.reserved, row.consumed, row.released)
  BY <1>1, <1>2, <1>3, RowFields DEF Running
<1>5. row.status \in {"active", "expired", "uncertain"}
  BY <1>1, <1>2, <1>4 DEF Status, Running, Lease
<1>6. PICK rest : rest = Remaining(p)
  OBVIOUS
<1>7. rest = row.reserved - row.consumed - row.released /\ rest \in Nat
  BY <1>1, <1>4, <1>6 DEF Remaining, LeaseOK, Lease
<1>8. PICK L : L = View(a)
  OBVIOUS
<1>9. L = [q \in In(a) |-> L[q]] /\ L[p] = row /\ View(a)' = [L EXCEPT ![p] = Row(p)']
  BY <1>3, <1>8, ViewPoint
<1>10. PICK b : b = Bucket(a)
  OBVIOUS
<1>11. /\ b = BucketRow(b.limit, b.consumed, b.reserved, b.version)
       /\ b.limit = account[a].limit /\ b.consumed = account[a].consumed
       /\ b.reserved = account[a].reserved /\ b.version = account[a].version
  BY <1>10, BucketFields
<1>12. /\ Bucket(a)' = BucketRow(b.limit, account'[a].consumed, b.reserved - rest, b.version + 1)
       /\ account'[a].consumed = IF row.policy = "never" THEN b.consumed + rest ELSE b.consumed
  BY <1>1, <1>2, <1>4, <1>6, <1>11, BalancedFields, BucketFields
<1>13. Seen(a)' = Seen(a)
  BY <1>2, UsageSame
<1>14. rest = L[p].reserved - L[p].consumed - L[p].released
       /\ L[p].status \in {"active", "expired", "uncertain"} /\ L[p].policy = row.policy
  BY <1>5, <1>7, <1>9
<1>15. CASE row.policy = "never"
  <2>1. lease'[p] = [state |-> "settled", left |-> 0, reserved |-> row.reserved,
                     consumed |-> row.consumed + rest, released |-> row.released]
    BY <1>1, <1>2, <1>4, <1>6, <1>15, ClosedRow
  <2>2. Row(p)' = ViewRow("settled", row.policy, 0, row.reserved, row.consumed + rest, row.released)
    BY <1>1, <1>4, <2>1, NextRow
  <2>3. \A t, m, v : [row EXCEPT !.status = t, !.left = m, !.consumed = v] =
                         ViewRow(t, row.policy, m, row.reserved, v, row.released)
    BY <1>4, ViewConsumed
  <2>4. Row(p)' = [row EXCEPT !.status = "settled", !.left = 0, !.consumed = row.consumed + rest]
    BY <2>2, <2>3
  <2>5. ASSUME NEW v
        PROVE  [L EXCEPT ![p].status = "settled", ![p].left = 0, ![p].consumed = v] =
                   [L EXCEPT ![p] = [row EXCEPT !.status = "settled", !.left = 0, !.consumed = v]]
    BY <1>9
  <2>6. View(a)' = [L EXCEPT ![p].status = "settled", ![p].left = 0, ![p].consumed = row.consumed + rest]
    BY <1>9, <2>4, <2>5
  <2>7. View(a)' = [L EXCEPT ![p].status = "settled", ![p].left = 0, ![p].consumed = @ + rest]
    BY <1>9, <2>6
  <2>8. \A r, c, v : [b EXCEPT !.reserved = r, !.consumed = c, !.version = v] =
                         BucketRow(b.limit, c, r, v)
    BY <1>11, BucketSpent
  <2>9. Bucket(a)' = [b EXCEPT !.reserved = @ - rest, !.consumed = @ + rest, !.version = @ + 1]
    <3>1. Bucket(a)' = BucketRow(b.limit, b.consumed + rest, b.reserved - rest, b.version + 1)
      BY <1>12, <1>15
    <3> QED
      BY <2>8, <3>1
  <2>10. b.consumed <= MaxUnits - rest
    BY <1>1, <1>2, <1>6, <1>7, <1>11, Constants DEF WithinLimit, Account
  <2>11. Manager(a)!SettleKnown(p)
    BY <1>8, <1>10, <1>13, <1>14, <1>15, <2>7, <2>9, <2>10
       DEF Manager!SettleKnown, Manager!remaining, Manager!canAdd, View, Seen
  <2> QED
    BY <2>11 DEF Implements, Manager!Next
<1>16. CASE row.policy # "never"
  <2>1. lease'[p] = [state |-> "settled", left |-> 0, reserved |-> row.reserved,
                     consumed |-> row.consumed, released |-> row.released + rest]
    BY <1>1, <1>2, <1>4, <1>6, <1>16, ClosedRow
  <2>2. Row(p)' = ViewRow("settled", row.policy, 0, row.reserved, row.consumed, row.released + rest)
    BY <1>1, <1>4, <2>1, NextRow
  <2>3. \A t, m, v : [row EXCEPT !.status = t, !.left = m, !.released = v] =
                         ViewRow(t, row.policy, m, row.reserved, row.consumed, v)
    BY <1>4, ViewReleased
  <2>4. Row(p)' = [row EXCEPT !.status = "settled", !.left = 0, !.released = row.released + rest]
    BY <2>2, <2>3
  <2>5. ASSUME NEW v
        PROVE  [L EXCEPT ![p].status = "settled", ![p].left = 0, ![p].released = v] =
                   [L EXCEPT ![p] = [row EXCEPT !.status = "settled", !.left = 0, !.released = v]]
    BY <1>9
  <2>6. View(a)' = [L EXCEPT ![p].status = "settled", ![p].left = 0, ![p].released = row.released + rest]
    BY <1>9, <2>4, <2>5
  <2>7. View(a)' = [L EXCEPT ![p].status = "settled", ![p].left = 0, ![p].released = @ + rest]
    BY <1>9, <2>6
  <2>8. \A r, v : [b EXCEPT !.reserved = r, !.version = v] = BucketRow(b.limit, b.consumed, r, v)
    BY <1>11, BucketReturned
  <2>9. Bucket(a)' = [b EXCEPT !.reserved = @ - rest, !.version = @ + 1]
    BY <1>12, <1>16, <2>8
  <2>10. Manager(a)!SettleKnown(p)
    BY <1>8, <1>10, <1>13, <1>14, <1>16, <2>7, <2>9
       DEF Manager!SettleKnown, Manager!remaining, View, Seen
  <2> QED
    BY <2>10 DEF Implements, Manager!Next
<1> QED
  BY <1>15, <1>16

(* A reservation in an account whose bucket is, or is first installed as, b. *)
LEMMA ReservationImplements ==
    ASSUME TypeOK, LeasesOK, NEW a \in Accounts, NEW p \in In(a), lease[p].state = "none",
           NEW limit \in 0 .. MaxUnits, NEW row \in Account,
           NEW b, b = Manager(a)!Installed(limit),
           b = BucketRow(row.limit, row.consumed, row.reserved, row.version),
           row.consumed + row.reserved <= row.limit, Available(row) >= Units[p[1]],
           row.reserved = account[a].reserved,
           account'[a] = Charged(row, Units[p[1]]),
           lease'[p] = Reserved(Units[p[1]]), usage'[p] = usage[p],
           SameLeases(In(a) \ {p})
    PROVE  Implements(a)
<1> DEFINE u == Units[p[1]]
<1>1. p \in Leases /\ p[2] = a /\ p[1] \in Jobs /\ lease[p] = NoLease
  BY LeaseFacts DEF LeasesOK, LeaseOK
<1>2. u \in 1 .. MaxUnits /\ Policy[p[1]] \in {"reclaim_unused", "never"}
  BY <1>1, Constants DEF Policies
<1>3. row.limit \in 0 .. MaxUnits /\ row.consumed \in 0 .. MaxUnits /\ row.reserved \in 0 .. MaxUnits
  BY DEF Account
<1>4. /\ b.limit = row.limit /\ b.consumed = row.consumed /\ b.reserved = row.reserved
      /\ b.version = row.version /\ b = BucketRow(b.limit, b.consumed, b.reserved, b.version)
  BY DEF BucketRow
<1>5. PICK L : L = View(a)
  OBVIOUS
<1>6. L = [q \in In(a) |-> L[q]] /\ L[p] = Row(p) /\ View(a)' = [L EXCEPT ![p] = Row(p)']
  BY <1>5, ViewPoint
<1>7. L[p].status = "none"
  BY <1>1, <1>6, RowIsViewed DEF Viewed, NoLease
<1>8. Row(p)' = ViewRow("active", Policy[p[1]], TTL, u, 0, 0)
  <2>1. lease'[p] = [state |-> "active", left |-> TTL, reserved |-> u, consumed |-> 0, released |-> 0]
    BY DEF Reserved, NoLease
  <2> HIDE DEF u
  <2> QED
    BY <1>1, <2>1, NextRow, Constants
<1>9. Row(p)' = [Manager(a)!Absent EXCEPT !.status = "active", !.policy = Policy[p[1]],
                                          !.left = TTL, !.reserved = u]
  <2> HIDE DEF u
  <2>1. PICK old : old = Manager(a)!Absent
    OBVIOUS
  <2>2. old = ViewRow("none", "reclaim_unused", 0, 0, 0, 0)
    BY <2>1 DEF Manager!Absent, ViewRow
  <2>3. PICK y : y = Policy[p[1]]
    OBVIOUS
  <2>4. PICK one : one = [old EXCEPT !.status = "active"]
    OBVIOUS
  <2>5. one = ViewRow("active", "reclaim_unused", 0, 0, 0, 0)
    BY <2>2, <2>4 DEF ViewRow
  <2>6. PICK two : two = [one EXCEPT !.policy = y]
    OBVIOUS
  <2>7. two = ViewRow("active", y, 0, 0, 0, 0)
    BY <2>5, <2>6 DEF ViewRow
  <2>8. PICK three : three = [two EXCEPT !.left = TTL]
    OBVIOUS
  <2>9. three = ViewRow("active", y, TTL, 0, 0, 0)
    BY <2>7, <2>8 DEF ViewRow
  <2>10. [three EXCEPT !.reserved = u] = ViewRow("active", y, TTL, u, 0, 0)
    BY <2>9 DEF ViewRow
  <2>11. [old EXCEPT !.status = "active", !.policy = y, !.left = TTL, !.reserved = u] =
             [three EXCEPT !.reserved = u]
    BY <2>4, <2>6, <2>8
  <2> QED
    BY <1>8, <2>1, <2>3, <2>10, <2>11
<1>10. Bucket(a)' = BucketRow(b.limit, b.consumed, b.reserved + u, b.version + 1)
  <2>1. account'[a] = [exists |-> row.exists, limit |-> row.limit, initial |-> row.initial,
                       consumed |-> row.consumed, reserved |-> row.reserved + u,
                       version |-> row.version + 1]
    BY DEF Charged, Account
  <2> QED
    BY <1>4, <2>1, BucketFields
<1>11. \A r, v : [b EXCEPT !.reserved = r, !.version = v] = BucketRow(b.limit, b.consumed, r, v)
  BY <1>4, BucketReturned
<1> HIDE DEF u
<1>12. Bucket(a)' = [b EXCEPT !.reserved = @ + u, !.version = @ + 1]
  BY <1>10, <1>11
<1>13. u <= b.limit - b.consumed - b.reserved /\ Bucket(a).reserved <= MaxUnits - u
  <2>1. u <= row.limit - row.consumed - row.reserved
    BY <1>2, <1>3 DEF Available, u
  <2> QED
    BY <1>2, <1>3, <1>4, <2>1, BucketFields, Constants
<1>14. Seen(a)' = Seen(a)
  BY UsageSame
<1>15. Manager(a)!Reserve(p, u, Policy[p[1]], limit)
  BY <1>5, <1>6, <1>7, <1>9, <1>12, <1>13, <1>14
     DEF Manager!Reserve, Manager!available, Manager!canAdd, View, Seen
<1> QED
  BY <1>2, <1>15 DEF Implements, Manager!Next, Manager!Policies

LEMMA InstalledBucket ==
    ASSUME NEW a \in Accounts, account[a].exists, account[a].version > 0, NEW limit
    PROVE  Manager(a)!Installed(limit) = BucketRow(account[a].limit, account[a].consumed,
                                                   account[a].reserved, account[a].version)
BY BucketFields DEF Manager!Installed

LEMMA TakesImplement ==
    ASSUME TypeOK, WithinLimit, AccountsOK, LeasesOK, NEW a \in Accounts, NEW p \in In(a),
           Takes(p), SameLeases(In(a) \ {p})
    PROVE  Implements(a)
<1>1. p[2] = a
  BY LeaseFacts
<1>2. /\ account[a] \in Account /\ account[a].version > 0
      /\ account[a].consumed + account[a].reserved <= account[a].limit
  BY <1>1 DEF TypeOK, WithinLimit, AccountsOK, AccountOK, Takes
<1>3. PICK b : b = Manager(a)!Installed(0)
  OBVIOUS
<1>4. b = BucketRow(account[a].limit, account[a].consumed, account[a].reserved, account[a].version)
  BY <1>1, <1>2, <1>3, InstalledBucket DEF Takes
<1>5. 0 \in 0 .. MaxUnits
  BY Constants
<1>6. /\ lease[p].state = "none" /\ Available(account[a]) >= Units[p[1]]
      /\ account'[a] = Charged(account[a], Units[p[1]])
      /\ lease'[p] = Reserved(Units[p[1]]) /\ usage'[p] = usage[p]
  BY <1>1 DEF Takes
<1> QED
  BY <1>2, <1>3, <1>4, <1>5, <1>6, ReservationImplements

LEMMA ReservesImplement ==
    ASSUME TypeOK, WithinLimit, AccountsOK, LeasesOK, NEW a \in Accounts, NEW p \in In(a),
           NEW limit \in 1 .. MaxUnits, Reserves(p, limit), SameLeases(In(a) \ {p})
    PROVE  Implements(a)
<1>1. p[2] = a /\ account[a] \in Account /\ AccountOK(a)
  BY LeaseFacts DEF TypeOK, AccountsOK
<1>2. PICK row : row = Ensured(a, limit)
  OBVIOUS
<1>3. /\ row \in Account /\ row.consumed + row.reserved <= row.limit
      /\ row.reserved = account[a].reserved
  BY <1>1, <1>2, EnsuredFits DEF RowOK
<1>4. PICK b : b = Manager(a)!Installed(limit)
  OBVIOUS
<1>5. b = BucketRow(row.limit, row.consumed, row.reserved, row.version)
  <2>1. CASE ~account[a].exists
    <3>1. row = Opened(limit, limit)
      BY <1>2, <2>1 DEF Ensured
    <3>2. Bucket(a) = BucketRow(0, 0, 0, 0)
      BY <1>1, <2>1 DEF AccountOK, Bucket, BucketRow
    <3>3. PICK old : old = Bucket(a)
      OBVIOUS
    <3>4. /\ old.limit = 0 /\ old.consumed = 0 /\ old.reserved = 0 /\ old.version = 0
          /\ old = BucketRow(old.limit, old.consumed, old.reserved, old.version)
      BY <3>2, <3>3 DEF BucketRow
    <3>5. \A n, v : [old EXCEPT !.limit = n, !.version = v] = BucketRow(n, 0, 0, v)
      BY <3>4, BucketRaised
    <3>6. b = BucketRow(limit, 0, 0, 1)
      BY <1>4, <3>3, <3>4, <3>5 DEF Manager!Installed
    <3> QED
      BY <3>1, <3>6 DEF Opened
  <2>2. CASE account[a].exists
    <3>1. b = BucketRow(account[a].limit, account[a].consumed, account[a].reserved,
                        account[a].version)
      BY <1>1, <1>4, <2>2, InstalledBucket DEF AccountOK
    <3>2. row = account[a] \/ row = [account[a] EXCEPT !.initial = limit]
      BY <1>2, <2>2 DEF Ensured
    <3>3. /\ row.limit = account[a].limit /\ row.consumed = account[a].consumed
          /\ row.reserved = account[a].reserved /\ row.version = account[a].version
      BY <1>1, <3>2 DEF Account
    <3> QED
      BY <3>1, <3>3
  <2> QED
    BY <2>1, <2>2
<1>6. limit \in 0 .. MaxUnits
  BY Constants
<1>7. /\ lease[p].state = "none" /\ Available(row) >= Units[p[1]]
      /\ account'[a] = Charged(row, Units[p[1]])
      /\ lease'[p] = Reserved(Units[p[1]]) /\ usage'[p] = usage[p]
  BY <1>1, <1>2 DEF Reserves
<1> QED
  BY <1>3, <1>4, <1>5, <1>6, <1>7, ReservationImplements

LEMMA AccountStepImplements ==
    ASSUME Books, NEW a \in Accounts, AccountStep(a)
    PROVE  Implements(a)
<1>1. TypeOK /\ WithinLimit /\ AccountsOK /\ LeasesOK
  BY DEF Books
<1>2. CASE Marks(a) \/ Ages(a) \/ Opens(a) \/ Binds(a) \/ Raises(a)
  BY <1>1, <1>2, MarksImplement, AgesImplement, OpensImplement, BindsImplement, RaisesImplement
<1>3. ASSUME NEW p \in In(a), Moves(p), SameLeases(In(a) \ {p})
      PROVE  Implements(a)
  BY <1>1, <1>3, ReservesImplement, TakesImplement, ChargesImplement, RenewsImplement,
     DoubtsImplement, SettlesImplement DEF Moves
<1> QED
  BY <1>2, <1>3 DEF AccountStep

(* Every step of the ledger does one of the known things to every account. *)
LEMMA NextMoved ==
    ASSUME IInv, [Next]_vars
    PROVE  Moved
<1>1. TypeOK /\ DecisionsOK /\ GrantsOK
  BY DEF IInv, Books
<1>2. CASE UNCHANGED <<account, lease, usage>>
  BY <1>1, <1>2, StillMoved
<1>3. CASE UNCHANGED vars
  BY <1>2, <1>3 DEF vars
<1>4. CASE \E a \in Accounts, n \in Opening : CreateQuotaAccount(a, n)
  BY <1>1, <1>4, CreateMoved
<1>5. ASSUME NEW j \in Jobs, AdmitTaskActorQuota(j) \/ ReserveQuota(j)
      PROVE  Moved
  BY <1>1, <1>5, AdmitMoved, ReserveMoved
<1>6. ASSUME NEW j \in Jobs, NEW e \in Events, RecordQuotaUsages(j, e) \/ RecordQuotaUsage(j, e)
      PROVE  Moved
  <2>1. PICK S : S \subseteq Of(j) /\ ChargeBatch(j, S, e)
    <3>1. CASE RecordQuotaUsages(j, e)
      <4>1. PICK d \in {Dimension[a] : a \in Claims[j]} :
                ChargeBatch(j, {p \in Of(j) : Dimension[p[2]] = d}, e)
        BY <3>1 DEF RecordQuotaUsages
      <4>2. {p \in Of(j) : Dimension[p[2]] = d} \subseteq Of(j)
        OBVIOUS
      <4> QED
        BY <4>1, <4>2
    <3>2. CASE RecordQuotaUsage(j, e)
      <4>1. PICK p \in Of(j) : ChargeBatch(j, {p}, e)
        BY <3>2 DEF RecordQuotaUsage
      <4> QED
        BY <4>1
    <3> QED
      BY <1>6, <3>1, <3>2
  <2> QED
    BY <1>1, <2>1, ChargeBatchMoved
<1>7. ASSUME NEW j \in Jobs, HeartbeatQuotaLeases(j) \/ HeartbeatQuotaLease(j)
      PROVE  Moved
  <2>1. PICK S : S \subseteq Of(j) /\ HeartbeatBatch(S)
    <3>1. CASE HeartbeatQuotaLeases(j)
      BY <3>1 DEF HeartbeatQuotaLeases
    <3>2. CASE HeartbeatQuotaLease(j)
      <4>1. PICK p \in Of(j) : HeartbeatBatch({p})
        BY <3>2 DEF HeartbeatQuotaLease
      <4> QED
        BY <4>1
    <3> QED
      BY <1>7, <3>1, <3>2
  <2> QED
    BY <1>1, <2>1, HeartbeatBatchMoved
<1>8. ASSUME NEW j \in Jobs, NEW key \in Keys, SettleQuotaLeases(j, key) \/ SettleQuotaLease(j, key)
      PROVE  Moved
  <2>1. PICK S : S \subseteq Of(j) /\ ~Refused(S, key) /\ SettleBatch(j, S, key)
    <3>1. CASE SettleQuotaLeases(j, key)
      BY <3>1 DEF SettleQuotaLeases
    <3>2. CASE SettleQuotaLease(j, key)
      <4>1. PICK p \in Of(j) : ~Refused({p}, key) /\ SettleBatch(j, {p}, key)
        BY <3>2 DEF SettleQuotaLease
      <4> QED
        BY <4>1
    <3> QED
      BY <1>8, <3>1, <3>2
  <2> QED
    BY <1>1, <2>1, SettleBatchMoved
<1>9. ASSUME NEW j \in Jobs, Deliver(j) \/ (\E unknown \in BOOLEAN : Lose(j, unknown))
                               \/ Withhold(j) \/ ResolveEffect(j)
      PROVE  Moved
  BY <1>2, <1>9 DEF Deliver, Lose, Withhold, ResolveEffect
<1>10. CASE \E S \in Scopes : ExpireQuotaLeases(S)
  BY <1>1, <1>10, ExpireMoved
<1>11. ASSUME NEW r \in Recoverers, Recover(r) \/ RecovererDies(r)
       PROVE  Moved
  <2>1. RecoveryOK(r) /\ "loss_uncertain" \in Keys /\ "loss_canceled" \in Keys
    BY DEF IInv, RecoveriesOK, Keys, DirectKeys
  <2>2. CASE MarkUncertain(r) \/ CloseCanceled(r)
    <3>1. recovery[r].job \in Jobs /\ recovery[r].batch \subseteq Of(recovery[r].job)
      BY <2>1, <2>2 DEF RecoveryOK, Idle, MarkUncertain, CloseCanceled
    <3>2. \/ UNCHANGED <<account, lease, usage>>
          \/ \E key \in Keys : /\ ~Refused(recovery[r].batch, key)
                               /\ SettleBatch(recovery[r].job, recovery[r].batch, key)
      BY <2>1, <2>2 DEF MarkUncertain, CloseCanceled
    <3> QED
      BY <1>1, <1>2, <3>1, <3>2, SettleBatchMoved
  <2>3. CASE ReadLeases(r) \/ (\E j \in Jobs : BeginRecovery(r, j)) \/ RecovererDies(r)
    BY <1>2, <2>3 DEF ReadLeases, BeginRecovery, RecovererDies
  <2> QED
    BY <1>11, <2>2, <2>3 DEF Recover
<1>12. ASSUME NEW g \in Grants, GrantQuota(g) \/ \E a \in Accounts : AskForGrant(g, a)
       PROVE  Moved
  BY <1>1, <1>2, <1>12, GrantMoved DEF AskForGrant
<1>13. CASE Tick
  BY <1>1, <1>13, TickMoved
<1> QED
  BY <1>3, <1>4, <1>5, <1>6, <1>7, <1>8, <1>9, <1>10, <1>11, <1>12, <1>13 DEF Next

(* Every account of the SQL ledger implements a bucket of the in-memory     *)
(* manager (pkg/workflowkit/quota.go): batches over two accounts, replays,  *)
(* the expiry that is noticed late and the recovery of lost executions add  *)
(* nothing to its rules.                                                    *)
THEOREM QuotaImplementsManager == Spec => ImplementsManager
<1>1. Init => \A a \in Accounts : Manager(a)!Init
  BY DEF Init, Manager!Init, Manager!Absent, Bucket, Row, NoLease, In, Lapsed, Leases
<1>2. IInv /\ [Next]_vars => [\A a \in Accounts : [Manager(a)!Next]_(Manager(a)!vars)]_vars
  <2> SUFFICES ASSUME IInv, [Next]_vars, NEW a \in Accounts
               PROVE  [Manager(a)!Next]_(Manager(a)!vars)
    OBVIOUS
  <2>1. Implements(a)
    BY NextMoved, AccountStepImplements DEF IInv, Moved
  <2> QED
    BY <2>1 DEF Implements
<1> QED
  BY <1>1, <1>2, InvariantHolds, PTL DEF ImplementsManager, Spec

(* No step, of an executor, of a recoverer or of the clock, writes a lease  *)
(* that is settled, or records usage in it.                                 *)
THEOREM QuotaSettledIsFinal == Spec => SettledIsFinal
<1>1. IInv /\ [Next]_vars =>
          [\A p \in Leases : lease[p].state = "settled" => lease'[p] = lease[p] /\ usage'[p] = usage[p]]_vars
  <2> SUFFICES ASSUME IInv, [Next]_vars, NEW p \in Leases, lease[p].state = "settled"
               PROVE  lease'[p] = lease[p] /\ usage'[p] = usage[p]
    OBVIOUS
  <2>1. p[2] \in Accounts /\ p \in In(p[2]) /\ LeaseOK(p) /\ lease[p] \in Lease
    BY LeaseFacts, LeaseTyped DEF IInv, Books, LeasesOK
  <2>2. ~(lease[p].left > 0) /\ ~Lapsed(p) /\ ~Running(p)
    BY <2>1 DEF LeaseOK, Lapsed, Running
  <2>3. AccountStep(p[2])
    BY <2>1, NextMoved DEF Moved
  <2>4. CASE Marks(p[2]) \/ Ages(p[2])
    BY <2>1, <2>2, <2>4 DEF Marks, Ages
  <2>5. CASE Opens(p[2]) \/ Binds(p[2]) \/ Raises(p[2])
    BY <2>1, <2>5 DEF Opens, Binds, Raises, SameLeases
  <2>6. ASSUME NEW q \in In(p[2]), Moves(q), SameLeases(In(p[2]) \ {q})
        PROVE  lease'[p] = lease[p] /\ usage'[p] = usage[p]
    <3>1. ~Moves(p)
      BY <2>2 DEF Moves, Reserves, Takes, Charges, Renews, Doubts, Settles
    <3> QED
      BY <2>1, <2>6, <3>1 DEF SameLeases
  <2> QED
    BY <2>3, <2>4, <2>5, <2>6 DEF AccountStep
<1> QED
  BY <1>1, InvariantHolds, PTL DEF SettledIsFinal, Spec
=============================================================================
