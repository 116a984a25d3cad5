------------------------------ MODULE NatSets ------------------------------
(***************************************************************************)
(* Least and greatest elements of sets of natural numbers, sums over       *)
(* finite sets, powers of two.                                             *)
(***************************************************************************)
EXTENDS Integers, FiniteSetsExt, FiniteSetTheorems, WellFoundedInduction, TLAPS

\* A non-empty set of natural numbers has a least element.
LEMMA MinNat ==
  ASSUME NEW S \in SUBSET Nat, S # {}
  PROVE  /\ Min(S) \in S
         /\ \A n \in S : Min(S) <= n
<1>1. \E x \in S : \A y \in S : ~ (<<y, x>> \in OpToRel(<, Nat))
  BY WFMin, NatLessThanWellFounded, Zenon
<1>2. PICK x \in S : \A y \in S : ~ (<<y, x>> \in OpToRel(<, Nat))
  BY <1>1
<1>3. \A y \in S : ~ (y < x)
  BY <1>2, Zenon DEF OpToRel
<1>4. \A y \in S : x =< y
  BY <1>3
<1> QED
  BY <1>4 DEF Min

\* A non-empty set of natural numbers with a bound has a greatest element.
LEMMA MaxNat ==
  ASSUME NEW S \in SUBSET Nat, S # {}, NEW bound \in Nat, \A n \in S : n <= bound
  PROVE  /\ Max(S) \in S
         /\ \A n \in S : n <= Max(S)
<1> DEFINE Slack == {bound - n : n \in S}
<1>1. Slack \in SUBSET Nat /\ Slack # {}
  <2>1. \A n \in S : bound - n \in Nat
    OBVIOUS
  <2>2. PICK n \in S : TRUE
    OBVIOUS
  <2>3. bound - n \in Slack
    BY <2>2
  <2> QED
    BY <2>1, <2>3
<1>2. Min(Slack) \in Slack /\ \A s \in Slack : Min(Slack) <= s
  BY <1>1, MinNat
<1>3. PICK x \in S : Min(Slack) = bound - x
  BY <1>2
<1>4. ASSUME NEW y \in S PROVE x >= y
  <2>1. Min(Slack) <= bound - y
    BY <1>2
  <2> QED
    BY <1>3, <2>1
<1> QED
  BY <1>4 DEF Max

(***************************************************************************)
(* Sums over a finite set, as the number of units that are counted.        *)
(***************************************************************************)

\* cost[x] units for every x in S.
Units(cost, S) == UNION {{x} \X (1 .. cost[x]) : x \in S}

\* F adds up cost over the subsets of S the way MapThenSumSet does it.
IsSum(F, cost, S) ==
  F = [s \in SUBSET S |-> IF s = {} THEN 0
                          ELSE LET x == CHOOSE y \in s : TRUE IN cost[x] + F[s \ {x}]]

\* The units of finitely many elements can be counted, one element first.
LEMMA UnitsSplit ==
  ASSUME NEW S, IsFiniteSet(S), NEW cost, \A x \in S : cost[x] \in Nat
  PROVE  /\ IsFiniteSet(Units(cost, S))
         /\ Cardinality(Units(cost, S)) \in Nat
         /\ \A x \in S : Cardinality(Units(cost, S)) = cost[x] + Cardinality(Units(cost, S \ {x}))
<1>1. ASSUME NEW x \in S
      PROVE  IsFiniteSet({x} \X (1 .. cost[x])) /\ Cardinality({x} \X (1 .. cost[x])) = cost[x]
  <2>1. IsFiniteSet({x}) /\ Cardinality({x}) = 1
    BY FS_Singleton
  <2>2. IsFiniteSet(1 .. cost[x]) /\ Cardinality(1 .. cost[x]) = cost[x]
    BY FS_Interval
  <2>3. /\ IsFiniteSet({x} \X (1 .. cost[x]))
        /\ Cardinality({x} \X (1 .. cost[x])) = Cardinality({x}) * Cardinality(1 .. cost[x])
    BY <2>1, <2>2, FS_Product
  <2> QED
    BY <2>1, <2>2, <2>3
<1>2. ASSUME NEW s \in SUBSET S
      PROVE  IsFiniteSet(Units(cost, s))
  <2>1. IsFiniteSet(s)
    BY FS_Subset
  <2>2. IsFiniteSet({{x} \X (1 .. cost[x]) : x \in s})
    <3> DEFINE f == [x \in s |-> {x} \X (1 .. cost[x])]
               T == {{x} \X (1 .. cost[x]) : x \in s}
    <3>1. f \in Surjection(s, T)
      BY DEF Surjection
    <3> QED
      BY <2>1, <3>1, FS_Surjection DEF ExistsSurjection
  <2>3. \A T \in {{x} \X (1 .. cost[x]) : x \in s} : IsFiniteSet(T)
    BY <1>1
  <2> QED
    BY <2>2, <2>3, FS_UNION DEF Units
<1>3. ASSUME NEW x \in S
      PROVE  Cardinality(Units(cost, S)) = cost[x] + Cardinality(Units(cost, S \ {x}))
  <2> DEFINE own == {x} \X (1 .. cost[x])
             rest == Units(cost, S \ {x})
  <2>1. Units(cost, S) = own \cup rest
    BY DEF Units
  <2>2. own \cap rest = {}
    BY DEF Units
  <2>3. IsFiniteSet(own) /\ Cardinality(own) = cost[x]
    BY <1>1
  <2>4. IsFiniteSet(rest)
    BY <1>2
  <2> HIDE DEF own, rest
  <2>5. Cardinality(own \cup rest) = Cardinality(own) + Cardinality(rest) - Cardinality(own \cap rest)
    BY <2>3, <2>4, FS_Union
  <2>6. Cardinality(own \cap rest) = 0 /\ Cardinality(rest) \in Nat
    BY <2>2, <2>4, FS_EmptySet, FS_CardinalityType
  <2>7. Cardinality(own \cup rest) = cost[x] + Cardinality(rest)
    BY <2>3, <2>5, <2>6
  <2> QED
    BY <2>1, <2>7 DEF rest
<1> QED
  BY <1>2, <1>3, FS_CardinalityType

\* Counting units is a sum, and the only one.
LEMMA SumIsUnits ==
  ASSUME NEW S, IsFiniteSet(S), NEW cost, \A x \in S : cost[x] \in Nat
  PROVE  LET count == [s \in SUBSET S |-> Cardinality(Units(cost, s))]
         IN  /\ IsSum(count, cost, S)
             /\ \A F : IsSum(F, cost, S) => F = count
<1> DEFINE count == [s \in SUBSET S |-> Cardinality(Units(cost, s))]
<1>1. ASSUME NEW s \in SUBSET S PROVE IsFiniteSet(s)
  BY FS_Subset
<1>2. count[{}] = 0
  <2>1. Units(cost, {}) = {}
    BY DEF Units
  <2> QED
    BY <2>1, FS_EmptySet
<1>3. ASSUME NEW s \in SUBSET S, NEW x \in s
      PROVE  count[s] = cost[x] + count[s \ {x}]
  BY <1>1, UnitsSplit
<1>4. IsSum(count, cost, S)
  <2>1. ASSUME NEW s \in SUBSET S
        PROVE  count[s] = IF s = {} THEN 0
                          ELSE LET x == CHOOSE y \in s : TRUE IN cost[x] + count[s \ {x}]
    <3>1. CASE s = {}
      BY <1>2, <3>1
    <3>2. CASE s # {}
      <4>1. (CHOOSE y \in s : TRUE) \in s
        BY <3>2
      <4>2. count[s] = cost[CHOOSE y \in s : TRUE] + count[s \ {CHOOSE y \in s : TRUE}]
        BY <1>3, <4>1
      <4> QED
        BY <3>2, <4>2
    <3> QED
      BY <3>1, <3>2
  <2>2. count = [s \in SUBSET S |-> count[s]]
    OBVIOUS
  <2> HIDE DEF count
  <2> QED
    BY <2>1, <2>2 DEF IsSum
<1>5. ASSUME NEW F, IsSum(F, cost, S), NEW t \in SUBSET S, F[t] # count[t]
      PROVE  FALSE
  <2> HIDE DEF count
  <2> DEFINE Wrong == {n \in Nat : \E s \in SUBSET S : Cardinality(s) = n /\ F[s] # count[s]}
  <2>1. Cardinality(t) \in Wrong
    BY <1>1, <1>5, FS_CardinalityType
  <2>2. Min(Wrong) \in Wrong /\ \A n \in Wrong : Min(Wrong) <= n
    BY <2>1, MinNat
  <2>3. PICK s \in SUBSET S : Cardinality(s) = Min(Wrong) /\ F[s] # count[s]
    BY <2>2
  <2>4. CASE s = {}
    BY <1>2, <1>5, <2>3, <2>4 DEF IsSum
  <2>5. CASE s # {}
    <3>1. PICK x : x = CHOOSE y \in s : TRUE
      OBVIOUS
    <3>2. x \in s
      BY <2>5, <3>1
    <3>3. F[s] = cost[x] + F[s \ {x}]
      BY <1>5, <2>5, <3>1 DEF IsSum
    <3>4. count[s] = cost[x] + count[s \ {x}]
      BY <1>3, <3>2
    <3>5. F[s \ {x}] # count[s \ {x}]
      BY <2>3, <3>3, <3>4
    <3>6. Cardinality(s \ {x}) = Cardinality(s) - 1 /\ Cardinality(s \ {x}) \in Nat
      BY <1>1, <3>2, FS_RemoveElement, FS_CardinalityType
    <3>7. s \ {x} \in SUBSET S
      OBVIOUS
    <3>8. Cardinality(s \ {x}) \in Wrong
      BY <3>5, <3>6, <3>7
    <3> HIDE DEF Wrong
    <3> QED
      BY <2>2, <2>3, <3>6, <3>8, <1>1, FS_CardinalityType
  <2> QED
    BY <2>4, <2>5
<1>6. ASSUME NEW F, IsSum(F, cost, S) PROVE F = count
  <2>1. F = [s \in SUBSET S |-> F[s]]
    BY <1>6 DEF IsSum
  <2>2. \A s \in SUBSET S : F[s] = count[s]
    BY <1>5, <1>6
  <2>3. count = [s \in SUBSET S |-> count[s]]
    OBVIOUS
  <2> HIDE DEF count
  <2> QED
    BY <2>1, <2>2, <2>3
<1> QED
  BY <1>4, <1>6

(***************************************************************************)
(* Powers of two, as numbers of subsets.                                   *)
(***************************************************************************)

\* 2^n is the number of subsets of n elements; one element more doubles it.
LEMMA PowerStep ==
  ASSUME NEW n \in Nat
  PROVE  2^n \in Nat \ {0} /\ 2^(n + 1) = 2 * 2^n
<1> DEFINE A == SUBSET (1 .. n)
           B == {s \cup {n + 1} : s \in A}
<1>1. \A m \in Nat : /\ IsFiniteSet(SUBSET (1 .. m))
                     /\ Cardinality(SUBSET (1 .. m)) = 2^m
  <2> TAKE m \in Nat
  <2>1. IsFiniteSet(1 .. m) /\ Cardinality(1 .. m) = m
    BY FS_Interval
  <2>2. IsFiniteSet(SUBSET (1 .. m)) /\ Cardinality(SUBSET (1 .. m)) = 2^Cardinality(1 .. m)
    BY <2>1, FS_SUBSET
  <2> QED
    BY <2>1, <2>2
<1>2. IsFiniteSet(A) /\ Cardinality(A) = 2^n /\ 2^n \in Nat
  BY <1>1, FS_CardinalityType
<1>3. A # {}
  OBVIOUS
<1>4. 2^n # 0
  BY <1>2, <1>3, FS_EmptySet
<1>5. IsFiniteSet(B) /\ Cardinality(B) = Cardinality(A)
  <2> DEFINE f == [s \in A |-> s \cup {n + 1}]
  <2>1. \A s, r \in A : s \cup {n + 1} = r \cup {n + 1} => s = r
    <3> SUFFICES ASSUME NEW s \in A, NEW r \in A, s \cup {n + 1} = r \cup {n + 1}
                 PROVE  s = r
      OBVIOUS
    <3>1. n + 1 \notin s /\ n + 1 \notin r
      OBVIOUS
    <3> QED
      BY <3>1
  <2>2. f \in Injection(A, B)
    <3> HIDE DEF A
    <3>1. f \in [A -> B] /\ \A s, r \in A : f[s] = f[r] => s = r
      BY <2>1
    <3> HIDE DEF f, B
    <3> QED
      BY <3>1 DEF Injection, IsInjective
  <2>3. f \in Surjection(A, B)
    <3> HIDE DEF A
    <3> QED
      BY DEF Surjection
  <2>4. f \in Bijection(A, B)
    BY <2>2, <2>3 DEF Bijection
  <2>5. ExistsBijection(A, B)
    BY <2>4 DEF ExistsBijection
  <2> QED
    BY <1>2, <2>5, FS_Bijection
<1>6. SUBSET (1 .. n + 1) = A \cup B
  <2>1. ASSUME NEW s \in SUBSET (1 .. n + 1) PROVE s \in A \cup B
    <3>1. CASE n + 1 \in s
      <4>1. s \ {n + 1} \in A /\ s = (s \ {n + 1}) \cup {n + 1}
        BY <3>1
      <4> QED
        BY <4>1
    <3>2. CASE n + 1 \notin s
      BY <3>2
    <3> QED
      BY <3>1, <3>2
  <2>2. ASSUME NEW s \in A \cup B PROVE s \in SUBSET (1 .. n + 1)
    OBVIOUS
  <2> QED
    BY <2>1, <2>2
<1>7. A \cap B = {}
  OBVIOUS
<1>8. Cardinality(A \cup B) = Cardinality(A) + Cardinality(B)
  <2> HIDE DEF A, B
  <2>1. Cardinality(A \cup B) = Cardinality(A) + Cardinality(B) - Cardinality(A \cap B)
    BY <1>2, <1>5, FS_Union
  <2> QED
    BY <1>2, <1>5, <1>7, <2>1, FS_EmptySet
<1>9. 2^(n + 1) = Cardinality(SUBSET (1 .. n + 1))
  <2>1. n + 1 \in Nat
    OBVIOUS
  <2> QED
    BY <1>1, <2>1
<1>10. 2^(n + 1) = Cardinality(A \cup B)
  BY <1>6, <1>9
<1> HIDE DEF A, B
<1> QED
  BY <1>2, <1>4, <1>5, <1>8, <1>10

\* No element, one subset.
LEMMA PowerZero == 2^0 = 1
OBVIOUS

\* A power of two is a multiple of every smaller one.
LEMMA PowerMultiple ==
  ASSUME NEW b \in Nat, NEW m \in Nat, b <= m
  PROVE  \E k \in Nat : 2^m = k * 2^b
<1> DEFINE Odd == {n \in Nat : b <= n /\ ~ \E k \in Nat : 2^n = k * 2^b}
<1> SUFFICES ASSUME m \in Odd PROVE FALSE
  OBVIOUS
<1>1. Min(Odd) \in Odd /\ \A n \in Odd : Min(Odd) <= n
  BY MinNat
<1> DEFINE n == Min(Odd)
<1>2. n # b
  <2>1. 2^b = 1 * 2^b
    BY PowerStep
  <2> QED
    BY <1>1, <2>1
<1>3. n - 1 \in Nat /\ b <= n - 1 /\ n - 1 \notin Odd
  <2>1. n \in Nat /\ b <= n /\ \A x \in Odd : n <= x
    BY <1>1
  <2> HIDE DEF n, Odd
  <2> QED
    BY <1>2, <2>1
<1>4. PICK k \in Nat : 2^(n - 1) = k * 2^b
  BY <1>3
<1>5. 2^n = 2 * 2^(n - 1)
  <2>1. (n - 1) + 1 = n
    BY <1>1
  <2> QED
    BY <1>3, <2>1, PowerStep
<1>6. 2^n = (2 * k) * 2^b /\ 2 * k \in Nat
  <2> HIDE DEF n
  <2>1. 2^b \in Nat
    BY PowerStep
  <2>2. \A p \in Nat : 2 * (k * p) = (2 * k) * p
    OBVIOUS
  <2> QED
    BY <1>4, <1>5, <2>1, <2>2
<1> QED
  BY <1>1, <1>6

\* Division with remainder has one result.
LEMMA Division ==
  ASSUME NEW p \in Nat \ {0}, NEW q \in Nat, NEW low \in Nat, low < p
  PROVE  (low + q * p) \div p = q /\ (low + q * p) % p = low
<1> DEFINE n == low + q * p
           d == n \div p
           r == n % p
<1>1. n \in Nat
  OBVIOUS
<1>2. n = p * d + r /\ r \in 0 .. p - 1 /\ d \in Int
  BY <1>1
<1> HIDE DEF n, d, r
<1>3. low + q * p = p * d + r
  BY <1>2 DEF n
<1>4. ~ (d >= q + 1)
  <2> SUFFICES ASSUME d >= q + 1 PROVE FALSE
    OBVIOUS
  <2>1. p * d >= p * (q + 1)
    BY <1>2
  <2>2. p * (q + 1) = q * p + p
    OBVIOUS
  <2> QED
    BY <1>2, <1>3, <2>1, <2>2
<1>5. ~ (d + 1 <= q)
  <2> SUFFICES ASSUME d + 1 <= q PROVE FALSE
    OBVIOUS
  <2>1. p * q >= p * (d + 1)
    BY <1>2
  <2>2. p * (d + 1) = p * d + p /\ p * q = q * p
    BY <1>2
  <2> QED
    BY <1>2, <1>3, <2>1, <2>2
<1>6. d = q
  BY <1>2, <1>4, <1>5
<1>7. r = low
  BY <1>2, <1>3, <1>6
<1> QED
  BY <1>6, <1>7 DEF n, d, r

\* What holds at first and stays holds at every turn.
LEMMA TurnByTurn ==
  ASSUME NEW P, NEW most \in Nat, 0 \in P, \A n \in 1 .. most : n - 1 \in P => n \in P
  PROVE  0 .. most \subseteq P
<1> DEFINE Bad == {n \in 0 .. most : n \notin P}
<1> SUFFICES ASSUME Bad # {} PROVE FALSE
  OBVIOUS
<1>1. Min(Bad) \in Bad /\ \A n \in Bad : Min(Bad) <= n
  <2>1. Bad \in SUBSET Nat
    OBVIOUS
  <2> HIDE DEF Bad
  <2> QED
    BY <2>1, MinNat
<1> DEFINE m == Min(Bad)
<1>2. m \in 0 .. most /\ m \notin P /\ \A n \in Bad : m <= n
  BY <1>1
<1> HIDE DEF m
<1>3. m # 0 /\ m \in 1 .. most /\ m - 1 \in 0 .. most /\ ~(m <= m - 1)
  BY <1>2
<1> QED
  BY <1>2, <1>3

LEMMA LoopEnds ==
  ASSUME NEW S, NEW most \in Nat, NEW turn, turn[0] \in S,
         \A n \in 1 .. most : turn[n - 1] \in S => turn[n] \in S
  PROVE  turn[most] \in S
<1> DEFINE P == {n \in 0 .. most : turn[n] \in S}
<1>1. 0 \in P
  OBVIOUS
<1>2. \A n \in 1 .. most : n - 1 \in P => n \in P
  OBVIOUS
<1>3. 0 .. most \subseteq P
  <2> HIDE DEF P
  <2> QED
    BY <1>1, <1>2, TurnByTurn
<1> QED
  BY <1>3

\* A loop over a set that it does not leave has its turns.
HasTurns(S, most, first, g) ==
  \E f \in [0 .. most -> S] : f[0] = first /\ \A n \in 1 .. most : f[n] = g[f[n - 1]]

LEMMA LoopRuns ==
  ASSUME NEW S, NEW most \in Nat, NEW first \in S, NEW g \in [S -> S]
  PROVE  HasTurns(S, most, first, g)
<1> DEFINE Runs(f, m) == /\ f \in [0 .. m -> S]
                         /\ \A n \in 0 .. m : f[n] = IF n = 0 THEN first ELSE g[f[n - 1]]
           P == {m \in 0 .. most : \E f : Runs(f, m)}
<1>1. 0 \in P
  <2> DEFINE f == [n \in 0 .. 0 |-> first]
  <2>1. Runs(f, 0) /\ 0 \in 0 .. most
    OBVIOUS
  <2> HIDE DEF f, Runs
  <2> QED
    BY <2>1
<1>2. ASSUME NEW m \in 1 .. most, m - 1 \in P PROVE m \in P
  <2>1. PICK h : Runs(h, m - 1)
    BY <1>2
  <2> DEFINE f == [n \in 0 .. m |-> IF n = m THEN g[h[m - 1]] ELSE h[n]]
  <2>2. \A n \in 0 .. m : n = m \/ n \in 0 .. m - 1
    OBVIOUS
  <2>3. m - 1 \in 0 .. m - 1 /\ h[m - 1] \in S
    BY <2>1
  <2>4. f \in [0 .. m -> S]
    BY <2>1, <2>2, <2>3
  <2>5. ASSUME NEW n \in 0 .. m PROVE f[n] = IF n = 0 THEN first ELSE g[f[n - 1]]
    <3>1. CASE n = m
      <4>1. n # 0 /\ n - 1 \in 0 .. m /\ n - 1 # m
        BY <3>1
      <4> QED
        BY <3>1, <4>1
    <3>2. CASE n # m
      <4>1. n \in 0 .. m - 1 /\ f[n] = h[n]
        BY <3>2
      <4>2. h[n] = IF n = 0 THEN first ELSE g[h[n - 1]]
        BY <2>1, <4>1
      <4>3. n # 0 => f[n - 1] = h[n - 1]
        OBVIOUS
      <4> QED
        BY <4>1, <4>2, <4>3
    <3> QED
      BY <3>1, <3>2
  <2> HIDE DEF f
  <2>6. Runs(f, m)
    BY <2>4, <2>5
  <2> QED
    BY <2>6
<1>3. most \in P
  <2> HIDE DEF P
  <2>1. 0 .. most \subseteq P
    BY <1>1, <1>2, TurnByTurn
  <2> QED
    BY <2>1
<1> QED
  BY <1>3 DEF HasTurns
=============================================================================
