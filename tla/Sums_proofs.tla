---------------------------- MODULE Sums_proofs ------------------------------
(***************************************************************************)
(* What may be relied on of a sum: it is there for every finite set, the *)
(* order of adding does not matter, and it follows its summands.           *)
(*                                                                         *)
(* A fold is a function on the subsets of its set that is defined by       *)
(* recursion. That there is one, and only one, is shown by a smallest set  *)
(* (or number) for which it fails; so is everything else here.             *)
(***************************************************************************)
EXTENDS Sums, FiniteSetTheorems, WellFoundedInduction, TLAPS

\* Among any subsets of a finite set there is one that holds none of the others.
LEMMA SmallestSubset ==
    ASSUME NEW S, IsFiniteSet(S), NEW T, T \subseteq SUBSET S, T # {}
    PROVE  \E s \in T : \A u \in T : u \subseteq s => u = s
<1> DEFINE R == StrictSubsetOrdering(S)
<1>1. IsWellFoundedOn(R, SUBSET S)
      BY FS_FiniteSubsetsOfFinite, FS_StrictSubsetOrderingWellFounded
<1>2. \E s \in T : \A u \in T : ~(<<u, s>> \in R)
      <2> HIDE DEF R
      <2> QED BY <1>1, WFMin
<1> QED BY <1>2 DEF StrictSubsetOrdering

\* Among any natural numbers there is a smallest.
LEMMA SmallestNumber ==
    ASSUME NEW T, T \subseteq Nat, T # {}
    PROVE  \E n \in T : \A m \in T : n <= m
<1>1. PICK k \in T : TRUE
      OBVIOUS
<1> DEFINE Below == {1..n : n \in {m \in T : m <= k}}
           S == 1..k
<1>2. IsFiniteSet(S)
      BY <1>1, FS_Interval
<1>3. Below \subseteq SUBSET S /\ Below # {}
      BY <1>1
<1>4. PICK s \in Below : \A u \in Below : u \subseteq s => u = s
      <2> HIDE DEF Below, S
      <2> QED BY <1>2, <1>3, SmallestSubset
<1>5. PICK n \in T : n <= k /\ s = 1..n
      BY <1>4
<1>6. ASSUME NEW m \in T, m < n PROVE FALSE
  <2>1. 1..m \in Below /\ 1..m \subseteq s
        BY <1>5, <1>6
  <2>2. n \in 1..n /\ n \notin 1..m
        BY <1>6
  <2> QED BY <1>4, <1>5, <2>1, <2>2
<1> QED BY <1>5, <1>6

-----------------------------------------------------------------------------
\* The fold takes out the members of a set as CHOOSE does.
Chosen(s) == CHOOSE x \in s : TRUE
TallyStep(f, g, s) == IF s = {} THEN 0 ELSE f[Chosen(s)] + g[s \ {Chosen(s)}]
IsTally(f, S, g) == \A s \in SUBSET S : g[s] = TallyStep(f, g, s)

IntsOn(f, S) == \A x \in S : f[x] \in Int
NatsOn(f, S) == \A x \in S : f[x] \in Nat
Tallies(f, S, g) ==
    /\ g \in [SUBSET S -> Int] /\ IsTally(f, S, g)
    /\ \A T \in SUBSET S : SumOf(f, T) = g[T]

\* The member taken out is a member.
LEMMA ChosenIn == ASSUME NEW s, s # {} PROVE Chosen(s) \in s
BY DEF Chosen

\* A sum is the fold's value for the whole set.
LEMMA SumDef ==
  ASSUME NEW f, NEW S
  PROVE SumOf(f,S) = (CHOOSE g : g = [s \in SUBSET S |-> TallyStep(f, g, s)])[S]
BY DEF SumOf, MapThenSumSet, MapThenFoldSet, TallyStep, Chosen

\* Integers can be tallied: by the size of the subsets.
LEMMA TallyExists ==
    ASSUME NEW S, IsFiniteSet(S), NEW f, IntsOn(f, S)
    PROVE  \E g \in [SUBSET S -> Int] : IsTally(f, S, g)
<1> DEFINE Upto(k, g) == \A s \in SUBSET S : Cardinality(s) <= k => g[s] = TallyStep(f, g, s)
           Fails == {k \in Nat : ~ \E g \in [SUBSET S -> Int] : Upto(k, g)}
<1>0. \A s \in SUBSET S : IsFiniteSet(s) /\ Cardinality(s) \in Nat /\ Cardinality(s) <= Cardinality(S)
      BY FS_Subset, FS_CardinalityType
<1>1. ASSUME NEW s \in SUBSET S, s # {}
      PROVE  /\ Chosen(s) \in S /\ s \ {Chosen(s)} \in SUBSET S
             /\ Cardinality(s \ {Chosen(s)}) = Cardinality(s) - 1
      BY <1>0, <1>1, ChosenIn, FS_RemoveElement
<1>2. Fails = {}
  <2>1. SUFFICES ASSUME Fails # {} PROVE FALSE
        OBVIOUS
  <2>2. PICK n \in Fails : \A m \in Fails : n <= m
        <3>1. Fails \subseteq Nat
              OBVIOUS
        <3> HIDE DEF Fails
        <3> QED BY <2>1, <3>1, SmallestNumber
  <2>3. n # 0
    <3> DEFINE g == [s \in SUBSET S |-> 0]
    <3>1. \A s \in SUBSET S : Cardinality(s) <= 0 => s = {}
          BY <1>0, FS_EmptySet
    <3>2. g \in [SUBSET S -> Int] /\ Upto(0, g)
          BY <3>1 DEF TallyStep
    <3> QED BY <3>2
  <2>4. PICK h \in [SUBSET S -> Int] : Upto(n - 1, h)
    <3>1. n - 1 \in Nat /\ n - 1 \notin Fails
          <4>1. n \in Nat
                OBVIOUS
          <4> HIDE DEF Fails
          <4> QED BY <4>1, <2>2, <2>3
    <3> QED BY <3>1
  <2> DEFINE g == [s \in SUBSET S |-> TallyStep(f, h, s)]
  <2>5. ASSUME NEW s \in SUBSET S PROVE TallyStep(f, h, s) \in Int
    <3>1. CASE s = {}
          BY <3>1 DEF TallyStep
    <3>2. CASE s # {}
      <4>1. f[Chosen(s)] \in Int /\ h[s \ {Chosen(s)}] \in Int
            BY <1>1, <3>2 DEF IntsOn
      <4> QED BY <3>2, <4>1 DEF TallyStep
    <3> QED BY <3>1, <3>2
  <2>6. g \in [SUBSET S -> Int]
        BY <2>5
  <2>7. \A s \in SUBSET S : Cardinality(s) <= n - 1 => g[s] = h[s]
        BY <2>4
  <2>8. Upto(n, g)
    <3> SUFFICES ASSUME NEW s \in SUBSET S, Cardinality(s) <= n PROVE TallyStep(f, h, s) = TallyStep(f, g, s)
        OBVIOUS
    <3>1. CASE s = {}
          BY <3>1 DEF TallyStep
    <3>2. CASE s # {}
      <4>1. s \ {Chosen(s)} \in SUBSET S /\ Cardinality(s \ {Chosen(s)}) <= n - 1
            BY <3>2, <1>0, <1>1, <2>2
      <4>2. g[s \ {Chosen(s)}] = h[s \ {Chosen(s)}]
            <5> HIDE DEF g
            <5> QED BY <4>1, <2>7
      <4> HIDE DEF g
      <4> QED BY <3>2, <4>2 DEF TallyStep
    <3> QED BY <3>1, <3>2
  <2> QED BY <2>2, <2>6, <2>8
<1>3. PICK g \in [SUBSET S -> Int] : Upto(Cardinality(S), g)
  <2>1. Cardinality(S) \in Nat
        BY FS_CardinalityType
  <2>2. Cardinality(S) \notin Fails
        BY <1>2
  <2> QED BY <2>1, <2>2
<1> QED BY <1>0, <1>3 DEF IsTally

\* There is one way to tally them.
LEMMA TallyUnique ==
    ASSUME NEW S, IsFiniteSet(S), NEW f, NEW g, NEW h, IsTally(f, S, g), IsTally(f, S, h)
    PROVE  \A s \in SUBSET S : g[s] = h[s]
<1> DEFINE Differ == {s \in SUBSET S : g[s] # h[s]}
<1> SUFFICES ASSUME Differ # {} PROVE FALSE
    OBVIOUS
<1>1. PICK s \in Differ : \A u \in Differ : u \subseteq s => u = s
  <2>1. Differ \subseteq SUBSET S
        OBVIOUS
  <2> HIDE DEF Differ
  <2> QED BY <2>1, SmallestSubset
<1>2. s # {}
      BY DEF IsTally, TallyStep
<1>3. Chosen(s) \in s /\ s \ {Chosen(s)} \in SUBSET S
      BY <1>2, ChosenIn
<1>4. g[s \ {Chosen(s)}] = h[s \ {Chosen(s)}]
      BY <1>1, <1>3
<1> QED BY <1>1, <1>2, <1>4 DEF IsTally, TallyStep

\* One tally serves a set and all its subsets.
LEMMA SumTally ==
    ASSUME NEW S, IsFiniteSet(S), NEW f, IntsOn(f, S)
    PROVE  \E g : Tallies(f, S, g)
<1>1. PICK g \in [SUBSET S -> Int] : IsTally(f, S, g)
      BY TallyExists
<1>2. ASSUME NEW T \in SUBSET S PROVE SumOf(f, T) = g[T]
  <2> DEFINE c == CHOOSE h : h = [s \in SUBSET T |-> TallyStep(f, h, s)]
  <2>1. IsFiniteSet(T)
        BY FS_Subset
  <2>2. IntsOn(f, T)
        BY DEF IntsOn
  <2>3. PICK h \in [SUBSET T -> Int] : IsTally(f, T, h)
        BY <2>1, <2>2, TallyExists
  <2>4. h = [s \in SUBSET T |-> TallyStep(f, h, s)]
        BY <2>3 DEF IsTally
  <2>5. c = [s \in SUBSET T |-> TallyStep(f, c, s)]
        BY <2>4
  <2> HIDE DEF c
  <2>6. IsTally(f, T, c)
    <3> SUFFICES ASSUME NEW s \in SUBSET T PROVE c[s] = TallyStep(f, c, s)
        BY DEF IsTally
    <3>1. [u \in SUBSET T |-> TallyStep(f, c, u)][s] = TallyStep(f, c, s)
          OBVIOUS
    <3> QED BY <2>5, <3>1
  <2>7. IsTally(f, T, g)
        BY <1>1 DEF IsTally
  <2>8. c[T] = g[T]
        BY <2>1, <2>6, <2>7, TallyUnique
  <2> QED BY <2>8, SumDef DEF c
<1> QED BY <1>1, <1>2 DEF Tallies

\* A sum of integers is one.
LEMMA SumType ==
    ASSUME NEW S, IsFiniteSet(S), NEW f, IntsOn(f, S)
    PROVE  SumOf(f, S) \in Int
<1>1. PICK g : Tallies(f, S, g)
      BY SumTally
<1> QED BY <1>1 DEF Tallies

\* Nothing adds up to 0.
LEMMA SumEmpty == ASSUME NEW f PROVE SumOf(f, {}) = 0
<1>1. IsFiniteSet({}) /\ IntsOn(f, {})
      BY FS_EmptySet DEF IntsOn
<1>2. PICK g : Tallies(f, {}, g)
      BY <1>1, SumTally
<1> QED BY <1>2 DEF Tallies, IsTally, TallyStep

\* Whichever member is taken out first.
LEMMA SumRemove ==
    ASSUME NEW S, IsFiniteSet(S), NEW f, IntsOn(f, S), NEW a \in S
    PROVE  SumOf(f, S) = f[a] + SumOf(f, S \ {a})
<1>1. PICK g : Tallies(f, S, g)
      BY SumTally
<1> DEFINE Wrong == {s \in SUBSET S : \E x \in s : g[s] # f[x] + g[s \ {x}]}
<1>2. Wrong = {}
  <2> SUFFICES ASSUME Wrong # {} PROVE FALSE
      OBVIOUS
  <2>1. PICK s \in Wrong : \A u \in Wrong : u \subseteq s => u = s
    <3>1. Wrong \subseteq SUBSET S
          OBVIOUS
    <3> HIDE DEF Wrong
    <3> QED BY <3>1, SmallestSubset
  <2>2. PICK x \in s : g[s] # f[x] + g[s \ {x}]
        OBVIOUS
  <2> DEFINE y == Chosen(s)
  <2>3. y \in s
        BY <2>2, ChosenIn
  <2> HIDE DEF y
  <2>4. g[s] = f[y] + g[s \ {y}]
        BY <1>1, <2>2 DEF Tallies, IsTally, TallyStep, y
  <2>5. x # y
        BY <2>2, <2>4
  <2>6. /\ s \ {y} \in SUBSET S /\ s \ {x} \in SUBSET S /\ s \in SUBSET S
        /\ s \ {y} # s /\ s \ {x} # s /\ x \in s \ {y} /\ y \in s \ {x}
        BY <2>3, <2>5
  <2>7. s \ {y} \notin Wrong /\ s \ {x} \notin Wrong
    <3> HIDE DEF Wrong
    <3> QED BY <2>1, <2>6
  <2>8. /\ g[s \ {y}] = f[x] + g[(s \ {y}) \ {x}]
        /\ g[s \ {x}] = f[y] + g[(s \ {x}) \ {y}]
        BY <2>6, <2>7
  <2>9. (s \ {y}) \ {x} = (s \ {x}) \ {y}
        OBVIOUS
  <2>10. f[x] \in Int /\ f[y] \in Int /\ g[(s \ {x}) \ {y}] \in Int
    <3>1. (s \ {x}) \ {y} \in SUBSET S /\ x \in S /\ y \in S
          BY <2>3
    <3> QED BY <3>1, <1>1 DEF IntsOn, Tallies
  <2> DEFINE p == f[x]
             q == f[y]
             r == g[(s \ {x}) \ {y}]
  <2>11. /\ g[s] # p + g[s \ {x}] /\ g[s] = q + g[s \ {y}]
         /\ g[s \ {y}] = p + r /\ g[s \ {x}] = q + r
         /\ p \in Int /\ q \in Int /\ r \in Int
        BY <2>2, <2>4, <2>8, <2>9, <2>10
  <2>12. q + (p + r) = p + (q + r)
    <3> HIDE DEF p, q, r
    <3> QED BY <2>11
  <2> HIDE DEF Wrong, p, q, r
  <2> QED BY <2>11, <2>12
<1>3. S \in SUBSET S /\ S \ {a} \in SUBSET S
      OBVIOUS
<1>4. g[S] = f[a] + g[S \ {a}]
      BY <1>2, <1>3
<1> QED BY <1>1, <1>3, <1>4 DEF Tallies

\* A member that joins adds its number.
LEMMA SumAdd ==
    ASSUME NEW S, IsFiniteSet(S), NEW f, NEW a, a \notin S, IntsOn(f, S \cup {a})
    PROVE  SumOf(f, S \cup {a}) = f[a] + SumOf(f, S)
<1> DEFINE U == S \cup {a}
<1>1. IsFiniteSet(U) /\ a \in U /\ U \ {a} = S
      BY FS_AddElement
<1> HIDE DEF U
<1>2. IntsOn(f, U) => SumOf(f, U) = f[a] + SumOf(f, U \ {a})
      BY <1>1, SumRemove
<1> QED BY <1>1, <1>2 DEF U

\* Equal numbers have equal sums.
LEMMA SumSame ==
    ASSUME NEW S, IsFiniteSet(S), NEW f, NEW h, IntsOn(f, S), \A x \in S : h[x] = f[x]
    PROVE  SumOf(h, S) = SumOf(f, S)
<1>1. IntsOn(h, S)
      BY DEF IntsOn
<1>2. PICK g : Tallies(f, S, g)
      BY SumTally
<1>3. PICK k : Tallies(h, S, k)
      BY <1>1, SumTally
<1>4. IsTally(h, S, g)
      BY <1>2, ChosenIn DEF Tallies, IsTally, TallyStep
<1>5. g[S] = k[S]
      BY <1>3, <1>4, TallyUnique DEF Tallies
<1> QED BY <1>2, <1>3, <1>5 DEF Tallies

\* Only one number changes.
LEMMA SumChanged ==
    ASSUME NEW S, IsFiniteSet(S), NEW f, NEW h, NEW a \in S, IntsOn(f, S), IntsOn(h, S),
           \A x \in S \ {a} : h[x] = f[x]
    PROVE  SumOf(h, S) = SumOf(f, S) - f[a] + h[a]
<1> DEFINE R == S \ {a}
<1>1. IsFiniteSet(R) /\ IntsOn(f, R) /\ \A x \in R : h[x] = f[x]
      BY FS_RemoveElement DEF IntsOn
<1>2. SumOf(f, S) = f[a] + SumOf(f, R) /\ SumOf(h, S) = h[a] + SumOf(h, R)
      BY SumRemove
<1> HIDE DEF R
<1>3. SumOf(h, R) = SumOf(f, R) /\ SumOf(f, R) \in Int
      BY <1>1, SumSame, SumType
<1>4. f[a] \in Int /\ h[a] \in Int
      BY DEF IntsOn
<1> QED BY <1>2, <1>3, <1>4

\* Larger numbers have a larger sum.
LEMMA SumLeq ==
    ASSUME NEW S, IsFiniteSet(S), NEW f, NEW h, IntsOn(f, S), IntsOn(h, S), \A x \in S : f[x] <= h[x]
    PROVE  SumOf(f, S) <= SumOf(h, S)
<1> DEFINE Wrong == {s \in SUBSET S : ~(SumOf(f, s) <= SumOf(h, s))}
<1> SUFFICES ASSUME Wrong # {} PROVE FALSE
    OBVIOUS
<1>1. PICK s \in Wrong : \A u \in Wrong : u \subseteq s => u = s
  <2>1. Wrong \subseteq SUBSET S
        OBVIOUS
  <2> HIDE DEF Wrong
  <2> QED BY <2>1, SmallestSubset
<1>2. IsFiniteSet(s) /\ IntsOn(f, s) /\ IntsOn(h, s)
      BY FS_Subset DEF IntsOn
<1>3. CASE s = {}
  <2>1. SumOf(f, s) = 0 /\ SumOf(h, s) = 0
        BY <1>3, SumEmpty
  <2> QED BY <2>1
<1>4. CASE s # {}
  <2>1. PICK a \in s : TRUE
        BY <1>4
  <2> DEFINE r == s \ {a}
  <2>2. r \in SUBSET S /\ r # s /\ r \subseteq s /\ IsFiniteSet(r) /\ IntsOn(f, r) /\ IntsOn(h, r)
        BY <1>2, FS_RemoveElement DEF IntsOn
  <2>3. SumOf(f, r) <= SumOf(h, r)
    <3>1. r \notin Wrong
      <4> HIDE DEF Wrong, r
      <4> QED BY <1>1, <2>2
    <3> HIDE DEF r
    <3> QED BY <2>2, <3>1
  <2>4. SumOf(f, s) = f[a] + SumOf(f, r) /\ SumOf(h, s) = h[a] + SumOf(h, r)
        BY <1>2, SumRemove
  <2>5. f[a] \in Int /\ h[a] \in Int /\ f[a] <= h[a]
        BY DEF IntsOn
  <2>6. SumOf(f, r) \in Int /\ SumOf(h, r) \in Int
    <3> HIDE DEF r
    <3> QED BY <2>2, SumType
  <2>7. SumOf(f, s) <= SumOf(h, s)
    <3> HIDE DEF r
    <3> QED BY <2>3, <2>4, <2>5, <2>6
  <2> QED BY <2>7
<1> QED BY <1>3, <1>4

\* Zeros add up to 0.
LEMMA SumZero ==
    ASSUME NEW S, IsFiniteSet(S), NEW f, \A x \in S : f[x] = 0
    PROVE  SumOf(f, S) = 0
<1> SUFFICES \A s \in SUBSET S : SumOf(f, s) = 0
    OBVIOUS
<1> DEFINE Wrong == {s \in SUBSET S : ~(SumOf(f, s) = 0)}
<1> SUFFICES ASSUME Wrong # {} PROVE FALSE
    OBVIOUS
<1>1. PICK s \in Wrong : \A u \in Wrong : u \subseteq s => u = s
  <2>1. Wrong \subseteq SUBSET S
        OBVIOUS
  <2> HIDE DEF Wrong
  <2> QED BY <2>1, SmallestSubset
<1>2. IsFiniteSet(s) /\ IntsOn(f, s)
      BY FS_Subset DEF IntsOn
<1>3. s # {}
      BY SumEmpty
<1>4. PICK a \in s : TRUE
      BY <1>3
<1> DEFINE r == s \ {a}
<1>5. SumOf(f, s) = f[a] + SumOf(f, r) /\ f[a] = 0
      BY <1>2, SumRemove
<1>6. r \notin Wrong
  <2>1. r # s /\ r \subseteq s
        OBVIOUS
  <2> HIDE DEF Wrong
  <2> QED BY <1>1, <2>1
<1> QED BY <1>5, <1>6

\* Natural numbers add up to one.
LEMMA SumNat ==
    ASSUME NEW S, IsFiniteSet(S), NEW f, NatsOn(f, S)
    PROVE  SumOf(f, S) \in Nat
<1> DEFINE zero == [x \in S |-> 0]
<1>1. IntsOn(f, S) /\ IntsOn(zero, S) /\ \A x \in S : zero[x] = 0 /\ zero[x] <= f[x]
      BY DEF IntsOn, NatsOn
<1> HIDE DEF zero
<1>2. SumOf(zero, S) = 0 /\ SumOf(zero, S) <= SumOf(f, S)
      BY <1>1, SumZero, SumLeq
<1>3. SumOf(f, S) \in Int
      BY <1>1, SumType
<1> QED BY <1>2, <1>3

\* What is added number by number is added in sum.
LEMMA SumPlus ==
    ASSUME NEW S, IsFiniteSet(S), NEW f, NEW g, NEW h, IntsOn(f, S), IntsOn(g, S),
           \A x \in S : h[x] = f[x] + g[x]
    PROVE  SumOf(h, S) = SumOf(f, S) + SumOf(g, S)
<1> DEFINE Wrong == {s \in SUBSET S : ~(SumOf(h, s) = SumOf(f, s) + SumOf(g, s))}
<1> SUFFICES ASSUME Wrong # {} PROVE FALSE
    OBVIOUS
<1>1. PICK s \in Wrong : \A u \in Wrong : u \subseteq s => u = s
  <2>1. Wrong \subseteq SUBSET S
        OBVIOUS
  <2> HIDE DEF Wrong
  <2> QED BY <2>1, SmallestSubset
<1>2. IsFiniteSet(s) /\ IntsOn(f, s) /\ IntsOn(g, s) /\ IntsOn(h, s)
      BY FS_Subset DEF IntsOn
<1>3. s # {}
  <2>1. SumOf(h, {}) = 0 /\ SumOf(f, {}) = 0 /\ SumOf(g, {}) = 0
        BY SumEmpty
  <2> QED BY <2>1
<1>4. PICK a \in s : TRUE
      BY <1>3
<1> DEFINE r == s \ {a}
<1>5. /\ SumOf(f, s) = f[a] + SumOf(f, r) /\ SumOf(g, s) = g[a] + SumOf(g, r)
      /\ SumOf(h, s) = h[a] + SumOf(h, r) /\ h[a] = f[a] + g[a]
      BY <1>2, SumRemove
<1>6. SumOf(h, r) = SumOf(f, r) + SumOf(g, r)
  <2>1. r \notin Wrong
    <3>1. r # s /\ r \subseteq s
          OBVIOUS
    <3> HIDE DEF Wrong
    <3> QED BY <1>1, <3>1
  <2> QED BY <2>1
<1>7. IsFiniteSet(r) /\ IntsOn(f, r) /\ IntsOn(g, r)
      BY <1>2, FS_RemoveElement DEF IntsOn
<1>8. f[a] \in Int /\ g[a] \in Int
      BY DEF IntsOn
<1> HIDE DEF r
<1>9. SumOf(f, r) \in Int /\ SumOf(g, r) \in Int
      BY <1>7, SumType
<1>10. SumOf(h, s) = SumOf(f, s) + SumOf(g, s)
  <2> HIDE DEF Wrong
  <2> QED BY <1>5, <1>6, <1>8, <1>9
<1> QED BY <1>10

\* A set may be summed in two parts.
LEMMA SumSplit ==
    ASSUME NEW S, IsFiniteSet(S), NEW f, IntsOn(f, S), NEW T \in SUBSET S
    PROVE  SumOf(f, S) = SumOf(f, T) + SumOf(f, S \ T)
<1> DEFINE Wrong == {s \in SUBSET S : ~(SumOf(f, S) = SumOf(f, s) + SumOf(f, S \ s))}
<1> SUFFICES ASSUME Wrong # {} PROVE FALSE
    OBVIOUS
<1>1. PICK s \in Wrong : \A u \in Wrong : u \subseteq s => u = s
  <2>1. Wrong \subseteq SUBSET S
        OBVIOUS
  <2> HIDE DEF Wrong
  <2> QED BY <2>1, SmallestSubset
<1>2. IsFiniteSet(s) /\ IntsOn(f, s)
      BY FS_Subset DEF IntsOn
<1>3. SumOf(f, S) \in Int
      BY SumType
<1>4. ASSUME s = {} PROVE FALSE
  <2>1. S \ s = S /\ SumOf(f, s) = 0
        BY <1>4, SumEmpty
  <2>2. SumOf(f, S) = SumOf(f, s) + SumOf(f, S \ s)
    <3> HIDE DEF Wrong
    <3> QED BY <2>1, <1>3
  <2> QED BY <2>2
<1>5. PICK a \in s : TRUE
      BY <1>4
<1> DEFINE r == s \ {a}
           U == S \ r
<1>6. SumOf(f, S) = SumOf(f, r) + SumOf(f, U)
  <2>1. r \notin Wrong
    <3>1. r # s /\ r \subseteq s
          OBVIOUS
    <3> HIDE DEF Wrong
    <3> QED BY <1>1, <3>1
  <2> QED BY <2>1
<1>7. SumOf(f, s) = f[a] + SumOf(f, r)
      BY <1>2, SumRemove
<1>8. IsFiniteSet(U) /\ IntsOn(f, U) /\ a \in U /\ U \ {a} = S \ s
      BY FS_Subset DEF IntsOn
<1>9. IsFiniteSet(r) /\ IntsOn(f, r) /\ f[a] \in Int
      BY <1>2, FS_RemoveElement DEF IntsOn
<1> HIDE DEF r, U
<1>10. SumOf(f, U) = f[a] + SumOf(f, S \ s)
  <2>1. SumOf(f, U) = f[a] + SumOf(f, U \ {a})
        BY <1>8, SumRemove
  <2> QED BY <1>8, <2>1
<1>11. SumOf(f, r) \in Int /\ SumOf(f, U) \in Int
      BY <1>8, <1>9, SumType
<1>12. SumOf(f, S) = SumOf(f, s) + SumOf(f, S \ s)
  <2>1. IsFiniteSet(S \ s) /\ IntsOn(f, S \ s)
        BY FS_Subset DEF IntsOn
  <2>2. SumOf(f, S \ s) \in Int
        BY <2>1, SumType
  <2> HIDE DEF Wrong
  <2> QED BY <1>3, <1>6, <1>7, <1>9, <1>10, <1>11, <2>2
<1> QED BY <1>12

\* More natural numbers have a larger sum.
LEMMA SumMonotone ==
    ASSUME NEW S, IsFiniteSet(S), NEW f, NatsOn(f, S), NEW T \in SUBSET S
    PROVE  SumOf(f, T) \in Nat /\ SumOf(f, S) \in Nat /\ SumOf(f, T) <= SumOf(f, S)
<1> DEFINE U == S \ T
<1>1. IntsOn(f, S) /\ IsFiniteSet(T) /\ NatsOn(f, T) /\ IsFiniteSet(U) /\ NatsOn(f, U)
      BY FS_Subset DEF IntsOn, NatsOn
<1>2. SumOf(f, S) = SumOf(f, T) + SumOf(f, U)
      BY <1>1, SumSplit
<1> HIDE DEF U
<1>3. SumOf(f, T) \in Nat /\ SumOf(f, U) \in Nat
      BY <1>1, SumNat
<1> QED BY <1>2, <1>3

\* None of the natural numbers of a sum is larger than it.
LEMMA SumMember ==
    ASSUME NEW S, IsFiniteSet(S), NEW f, NatsOn(f, S), NEW a \in S
    PROVE  f[a] <= SumOf(f, S) /\ SumOf(f, S \ {a}) \in Nat /\ SumOf(f, S) = f[a] + SumOf(f, S \ {a})
<1> DEFINE U == S \ {a}
<1>1. IntsOn(f, S) /\ IsFiniteSet(U) /\ NatsOn(f, U) /\ f[a] \in Nat
      BY FS_RemoveElement DEF IntsOn, NatsOn
<1>2. SumOf(f, S) = f[a] + SumOf(f, U)
      BY <1>1, SumRemove
<1> HIDE DEF U
<1>3. SumOf(f, U) \in Nat
      BY <1>1, SumNat
<1> QED BY <1>1, <1>2, <1>3 DEF U

\* Fewer natural numbers, otherwise the same, have no larger sum.
LEMMA SumShrinks ==
    ASSUME NEW S, IsFiniteSet(S), NEW f, NatsOn(f, S), NEW T \in SUBSET S, NEW g, \A x \in T : g[x] = f[x]
    PROVE  SumOf(g, T) \in Nat /\ SumOf(g, T) <= SumOf(f, S)
<1>1. IsFiniteSet(T) /\ IntsOn(f, T)
      BY FS_Subset DEF IntsOn, NatsOn
<1>2. SumOf(g, T) = SumOf(f, T)
      BY <1>1, SumSame
<1> QED BY <1>2, SumMonotone

\* One more natural number at most, otherwise the same ones or fewer.
LEMMA SumGrowsBy ==
    ASSUME NEW S, IsFiniteSet(S), NEW f, NatsOn(f, S), NEW a, NEW T \in SUBSET (S \cup {a}),
           NEW g, NatsOn(g, T), \A x \in T \ {a} : g[x] = f[x], NEW n \in Nat, a \in T => g[a] = n
    PROVE  SumOf(g, T) \in Nat /\ SumOf(g, T) <= SumOf(f, S) + n
<1> DEFINE R == T \ {a}
<1>1. IsFiniteSet(T)
      BY FS_AddElement, FS_Subset
<1>2. R \in SUBSET S /\ \A x \in R : g[x] = f[x]
      OBVIOUS
<1>3. a \in T => SumOf(g, T) = g[a] + SumOf(g, R)
      BY <1>1, SumMember
<1>4. a \notin T => R = T
      OBVIOUS
<1> HIDE DEF R
<1>5. SumOf(g, R) \in Nat /\ SumOf(g, R) <= SumOf(f, S) /\ SumOf(f, S) \in Nat
      BY <1>2, SumShrinks, SumNat
<1> QED BY <1>3, <1>4, <1>5

\* What the first k members of a list add up to.
LEMMA SumPrefix ==
    ASSUME NEW N \in Nat, NEW f, NatsOn(f, 1..N), NEW k \in 1..N
    PROVE  /\ SumOf(f, 1..k) = SumOf(f, 1..(k-1)) + f[k]
           /\ SumOf(f, 1..(k-1)) \in Nat /\ SumOf(f, 1..k) \in Nat /\ f[k] \in Nat
<1> DEFINE S == 1..(k-1)
           T == 1..k
<1>1. T = S \cup {k} /\ k \notin S
      OBVIOUS
<1>0. IsFiniteSet(S) /\ IsFiniteSet(T)
      BY FS_Interval, k - 1 \in Int, k \in Int, 1 \in Int
<1>2. NatsOn(f, T) /\ NatsOn(f, S) /\ IntsOn(f, T) /\ f[k] \in Nat
      BY DEF NatsOn, IntsOn
<1> HIDE DEF S, T
<1>3. SumOf(f, T) = f[k] + SumOf(f, S)
      BY <1>0, <1>1, <1>2, SumAdd
<1>4. SumOf(f, S) \in Nat /\ SumOf(f, T) \in Nat
      BY <1>0, <1>2, SumNat
<1> QED BY <1>2, <1>3, <1>4 DEF S, T

\* Summands that are none of them larger, and add up to as much, are the same.
LEMMA SumEqual ==
    ASSUME NEW S, IsFiniteSet(S), NEW f, NEW g, NatsOn(f, S), NatsOn(g, S),
           \A x \in S : f[x] <= g[x], SumOf(f, S) = SumOf(g, S)
    PROVE  \A x \in S : f[x] = g[x]
<1> SUFFICES ASSUME NEW a \in S PROVE f[a] = g[a]
    OBVIOUS
<1> DEFINE R == S \ {a}
<1>1. IsFiniteSet(R) /\ IntsOn(f, R) /\ IntsOn(g, R) /\ NatsOn(f, R) /\ NatsOn(g, R) /\ \A x \in R : f[x] <= g[x]
      BY FS_RemoveElement DEF NatsOn, IntsOn
<1>2. /\ SumOf(f, S) = f[a] + SumOf(f, R) /\ SumOf(g, S) = g[a] + SumOf(g, R)
      /\ f[a] \in Nat /\ g[a] \in Nat /\ f[a] <= g[a]
      BY SumMember DEF NatsOn
<1> HIDE DEF R
<1>3. SumOf(f, R) \in Nat /\ SumOf(g, R) \in Nat /\ SumOf(f, R) <= SumOf(g, R)
      BY <1>1, SumNat, SumLeq
<1>4. \A x, y, u, v \in Nat : x <= y /\ u <= v /\ x + u = y + v => x = y
      OBVIOUS
<1>5. f[a] + SumOf(f, R) = g[a] + SumOf(g, R)
      BY <1>2
<1> QED BY <1>2, <1>3, <1>4, <1>5

\* Only one summand counts.
LEMMA SumOnly ==
    ASSUME NEW S, IsFiniteSet(S), NEW f, IntsOn(f, S), NEW a \in S, \A x \in S \ {a} : f[x] = 0
    PROVE  SumOf(f, S) = f[a]
<1> DEFINE R == S \ {a}
<1>1. IsFiniteSet(R) /\ SumOf(f, S) = f[a] + SumOf(f, R) /\ f[a] \in Int
      BY FS_RemoveElement, SumRemove DEF IntsOn
<1>2. SumOf(f, R) = 0
      BY <1>1, SumZero
<1> QED BY <1>1, <1>2

\* Sums and multiples, number by number.
Added(h, f, g, S) == \A x \in S : h[x] = f[x] + g[x]
Multiplied(h, c, f, S) == \A x \in S : h[x] = c * f[x]

\* Line by line, then in sum.
LEMMA SumAdded ==
    ASSUME NEW S, IsFiniteSet(S), NEW f, NEW g, NEW h, IntsOn(f, S), IntsOn(g, S), Added(h, f, g, S)
    PROVE  SumOf(h, S) = SumOf(f, S) + SumOf(g, S)
BY SumPlus DEF Added

\* Multiples add up to the multiple.
LEMMA SumScale ==
    ASSUME NEW S, IsFiniteSet(S), NEW c \in Int, NEW f, NEW h, IntsOn(f, S), Multiplied(h, c, f, S)
    PROVE  SumOf(h, S) = c * SumOf(f, S)
<1> DEFINE Wrong == {s \in SUBSET S : ~(SumOf(h, s) = c * SumOf(f, s))}
<1> SUFFICES ASSUME Wrong # {} PROVE FALSE
    OBVIOUS
<1>1. PICK s \in Wrong : \A u \in Wrong : u \subseteq s => u = s
  <2>1. Wrong \subseteq SUBSET S
        OBVIOUS
  <2> HIDE DEF Wrong
  <2> QED BY <2>1, SmallestSubset
<1>0. IntsOn(h, S)
  <2> SUFFICES ASSUME NEW x \in S PROVE h[x] \in Int
      BY DEF IntsOn
  <2>1. f[x] \in Int /\ h[x] = c * f[x]
        BY DEF IntsOn, Multiplied
  <2>2. c * f[x] \in Int
        BY <2>1
  <2> QED BY <2>1, <2>2
<1>2. IsFiniteSet(s) /\ IntsOn(f, s) /\ IntsOn(h, s)
      BY <1>0, FS_Subset DEF IntsOn
<1>3. s # {}
  <2>1. SumOf(h, {}) = 0 /\ SumOf(f, {}) = 0
        BY SumEmpty
  <2>2. c * 0 = 0
        OBVIOUS
  <2> QED BY <2>1, <2>2
<1>4. PICK a \in s : TRUE
      BY <1>3
<1> DEFINE r == s \ {a}
<1>5. SumOf(f, s) = f[a] + SumOf(f, r) /\ SumOf(h, s) = h[a] + SumOf(h, r) /\ h[a] = c * f[a]
      BY <1>2, SumRemove DEF Multiplied
<1>6. SumOf(h, r) = c * SumOf(f, r)
  <2>1. r \notin Wrong
    <3>1. r # s /\ r \subseteq s
          OBVIOUS
    <3> HIDE DEF Wrong
    <3> QED BY <1>1, <3>1
  <2> QED BY <2>1
<1>7. IsFiniteSet(r) /\ IntsOn(f, r)
      BY <1>2, FS_RemoveElement DEF IntsOn
<1>8. f[a] \in Int
      BY DEF IntsOn
<1> HIDE DEF r
<1>9. SumOf(f, r) \in Int
      BY <1>7, SumType
<1>10. SumOf(h, s) = c * SumOf(f, s)
  <2>1. \A x, y \in Int : c * (x + y) = c * x + c * y
        OBVIOUS
  <2> HIDE DEF Wrong
  <2> QED BY <1>5, <1>6, <1>8, <1>9, <2>1
<1> QED BY <1>10

\* Ones are counted.
LEMMA SumOnes ==
    ASSUME NEW S, IsFiniteSet(S), NEW T \in SUBSET S, NEW f, \A x \in S : f[x] = IF x \in T THEN 1 ELSE 0
    PROVE  SumOf(f, S) = Cardinality(T) /\ Cardinality(T) \in Nat
<1>0. IntsOn(f, S) /\ IsFiniteSet(T) /\ IsFiniteSet(S \ T)
      BY FS_Subset DEF IntsOn
<1>1. SumOf(f, T) = Cardinality(T)
  <2> DEFINE Wrong == {s \in SUBSET T : ~(SumOf(f, s) = Cardinality(s))}
  <2> SUFFICES ASSUME Wrong # {} PROVE FALSE
      OBVIOUS
  <2>1. PICK s \in Wrong : \A u \in Wrong : u \subseteq s => u = s
    <3>1. Wrong \subseteq SUBSET T
          OBVIOUS
    <3> HIDE DEF Wrong
    <3> QED BY <1>0, <3>1, SmallestSubset
  <2>2. IsFiniteSet(s) /\ IntsOn(f, s)
        BY <1>0, FS_Subset DEF IntsOn
  <2>3. s # {}
    <3>1. SumOf(f, {}) = 0 /\ Cardinality({}) = 0
          BY SumEmpty, FS_EmptySet
    <3> QED BY <3>1
  <2>4. PICK a \in s : TRUE
        BY <2>3
  <2> DEFINE r == s \ {a}
  <2>5. SumOf(f, s) = f[a] + SumOf(f, r) /\ f[a] = 1
        BY <2>2, SumRemove
  <2>6. SumOf(f, r) = Cardinality(r)
    <3>1. r \notin Wrong
      <4>1. r # s /\ r \subseteq s
            OBVIOUS
      <4> HIDE DEF Wrong
      <4> QED BY <2>1, <4>1
    <3> QED BY <3>1
  <2>7. Cardinality(r) = Cardinality(s) - 1 /\ Cardinality(s) \in Nat
        BY <2>2, FS_RemoveElement, FS_CardinalityType
  <2> HIDE DEF r
  <2>8. SumOf(f, s) = Cardinality(s)
    <3> HIDE DEF Wrong
    <3> QED BY <2>5, <2>6, <2>7
  <2> QED BY <2>8
<1>2. SumOf(f, S \ T) = 0
      BY <1>0, SumZero
<1>3. SumOf(f, S) = SumOf(f, T) + SumOf(f, S \ T)
      BY <1>0, SumSplit
<1>4. Cardinality(T) \in Nat
      BY <1>0, FS_CardinalityType
<1> QED BY <1>1, <1>2, <1>3, <1>4

\* One number grows.
LEMMA SumMore ==
    ASSUME NEW S, IsFiniteSet(S), NEW f, NEW h, NEW a \in S, NEW d \in Int, IntsOn(f, S), IntsOn(h, S),
           h[a] = f[a] + d, \A x \in S \ {a} : h[x] = f[x]
    PROVE  SumOf(h, S) = SumOf(f, S) + d
<1>1. SumOf(h, S) = SumOf(f, S) - f[a] + h[a]
      BY SumChanged
<1>2. SumOf(f, S) \in Int /\ f[a] \in Int
      BY SumType DEF IntsOn
<1> QED BY <1>1, <1>2

\* One number is added to another.
LEMMA SumMoved ==
    ASSUME NEW S, IsFiniteSet(S), NEW a \in S, NEW b \in S, a # b, NEW f \in [S -> Nat], NEW g \in [S -> Nat],
           g[a] = f[a] + f[b], g[b] = 0, \A x \in S : x # a /\ x # b => g[x] = f[x]
    PROVE  SumOf(g, S) = SumOf(f, S)
<1>1. PICK mid \in [S -> Nat] : mid[b] = 0 /\ \A x \in S : x # b => mid[x] = f[x]
  <2>1. [f EXCEPT ![b] = 0] \in [S -> Nat]
        OBVIOUS
  <2> QED BY <2>1
<1>2. IntsOn(f, S) /\ IntsOn(g, S) /\ IntsOn(mid, S)
      BY DEF IntsOn
<1>3. f[b] \in Int /\ -f[b] \in Int
      OBVIOUS
<1>4. SumOf(mid, S) = SumOf(f, S) + (-f[b])
  <2>1. mid[b] = f[b] + (-f[b]) /\ \A x \in S \ {b} : mid[x] = f[x]
        BY <1>1, <1>3
  <2> QED BY <1>2, <1>3, <2>1, SumMore
<1>5. SumOf(g, S) = SumOf(mid, S) + f[b]
  <2>1. g[a] = mid[a] + f[b] /\ \A x \in S \ {a} : g[x] = mid[x]
        BY <1>1
  <2> QED BY <1>2, <1>3, <2>1, SumMore
<1>6. SumOf(f, S) \in Int
      BY <1>2, SumType
<1> QED BY <1>3, <1>4, <1>5, <1>6

\* Some numbers are dropped: what they were, or less, goes with them.
LEMMA SumDropped ==
    ASSUME NEW S, IsFiniteSet(S), NEW T \in SUBSET S, NEW f, NEW g, NEW h, IntsOn(f, S), IntsOn(g, S), IntsOn(h, T),
           \A x \in T : g[x] = 0 /\ h[x] <= f[x], \A x \in S \ T : g[x] = f[x]
    PROVE  SumOf(g, S) + SumOf(h, T) <= SumOf(f, S)
<1>1. IsFiniteSet(T) /\ IsFiniteSet(S \ T)
      BY FS_Subset
<1>2. IntsOn(f, T) /\ IntsOn(f, S \ T)
      BY DEF IntsOn
<1>3. SumOf(f, S) = SumOf(f, T) + SumOf(f, S \ T) /\ SumOf(g, S) = SumOf(g, T) + SumOf(g, S \ T)
      BY SumSplit
<1>4. SumOf(g, T) = 0 /\ SumOf(g, S \ T) = SumOf(f, S \ T) /\ SumOf(h, T) <= SumOf(f, T)
  <2>1. SumOf(g, T) = 0
        BY <1>1, SumZero
  <2>2. SumOf(g, S \ T) = SumOf(f, S \ T)
        BY <1>1, <1>2, SumSame
  <2>3. SumOf(h, T) <= SumOf(f, T)
        BY <1>1, <1>2, SumLeq
  <2> QED BY <2>1, <2>2, <2>3
<1>5. SumOf(f, T) \in Int /\ SumOf(f, S \ T) \in Int /\ SumOf(h, T) \in Int
      BY <1>1, <1>2, SumType
<1> QED BY <1>3, <1>4, <1>5

\* Each number taken back once by its opposite: together they come to nothing.
LEMMA SumMirrored ==
    ASSUME NEW S, IsFiniteSet(S), NEW f, IntsOn(f, S), NEW T, IsFiniteSet(T), NEW g, IntsOn(g, T), NEW m,
           \A x \in S : m[x] \in T /\ f[x] = -g[m[x]], \A x, y \in S : m[x] = m[y] => x = y,
           \A z \in T : \E x \in S : m[x] = z
    PROVE  SumOf(f, S) + SumOf(g, T) = 0
<1> DEFINE Image(s) == {m[x] : x \in s}
           Wrong == {s \in SUBSET S : ~(SumOf(f, s) + SumOf(g, Image(s)) = 0)}
<1>1. Wrong = {}
  <2> SUFFICES ASSUME Wrong # {} PROVE FALSE
      OBVIOUS
  <2>1. PICK s \in Wrong : \A u \in Wrong : u \subseteq s => u = s
    <3>1. Wrong \subseteq SUBSET S
          OBVIOUS
    <3> HIDE DEF Wrong
    <3> QED BY <3>1, SmallestSubset
  <2>2. s \in SUBSET S /\ Image(s) \in SUBSET T /\ ~(SumOf(f, s) + SumOf(g, Image(s)) = 0)
        OBVIOUS
  <2>3. IsFiniteSet(s) /\ IntsOn(f, s) /\ IsFiniteSet(Image(s)) /\ IntsOn(g, Image(s))
        BY <2>2, FS_Subset DEF IntsOn
  <2>4. s # {}
    <3>1. Image({}) = {}
          OBVIOUS
    <3> HIDE DEF Image
    <3> QED BY <2>2, <3>1, SumEmpty
  <2>5. PICK a \in s : TRUE
        BY <2>4
  <2> DEFINE r == s \ {a}
  <2>6. Image(r) = Image(s) \ {m[a]} /\ m[a] \in Image(s) /\ a \in S
        BY <2>2
  <2>7. r \in SUBSET S /\ r \subseteq s /\ r # s
        BY <2>2
  <2>8. SumOf(f, r) + SumOf(g, Image(r)) = 0
    <3>1. r \notin Wrong
      <4> HIDE DEF Wrong, r
      <4> QED BY <2>1, <2>7
    <3> QED BY <2>7, <3>1
  <2> HIDE DEF Wrong, Image, r
  <2>9. SumOf(f, s) = f[a] + SumOf(f, r) /\ SumOf(g, Image(s)) = g[m[a]] + SumOf(g, Image(r))
        BY <2>3, <2>6, SumRemove DEF r
  <2>10. IsFiniteSet(r) /\ IntsOn(f, r) /\ IsFiniteSet(Image(r)) /\ IntsOn(g, Image(r))
         BY <2>3, <2>6, FS_Subset DEF IntsOn, r
  <2>11. SumOf(f, r) \in Int /\ SumOf(g, Image(r)) \in Int
         BY <2>10, SumType
  <2>12. f[a] = -g[m[a]] /\ g[m[a]] \in Int
         BY <2>6 DEF IntsOn
  <2> QED BY <2>2, <2>8, <2>9, <2>11, <2>12
<1>2. Image(S) = T
      OBVIOUS
<1>3. S \notin Wrong
  <2> HIDE DEF Wrong
  <2> QED BY <1>1
<1> QED BY <1>2, <1>3

=============================================================================
