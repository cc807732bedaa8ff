---------------------------- MODULE SumTheorems ----------------------------
(***************************************************************************)
(* Sums over finite sets (the community modules' SumFunctionOnSet): how a   *)
(* sum is taken apart, compared, and changed at one member.  Ledger and     *)
(* auction are both proved to conserve with them.                           *)
(***************************************************************************)
EXTENDS Integers, FiniteSets, Functions, FiniteSetTheorems, WellFoundedInduction, TLAPS

-----------------------------------------------------------------------------
(* The sum is the one function its recursion defines *)

ChosenOf(s) == CHOOSE x \in s : TRUE

SumEq(g, f, S) == g = [s \in SUBSET S |-> IF s = {} THEN 0 ELSE f[ChosenOf(s)] + g[s \ {ChosenOf(s)}]]

\* Among sets of subsets of a finite set there is one to whose smaller sets the
\* argument can go back.
LEMMA SmallestSet ==
  ASSUME NEW S, IsFiniteSet(S), NEW D, D \subseteq SUBSET S, D # {}
  PROVE  \E m \in D : \A x \in m : m \ {x} \notin D
PROOF
<1>1. D \subseteq FiniteSubsetsOf(S)
  BY FS_FiniteSubsetsOfFinite
<1>2. \E m \in D : \A y \in D : <<y, m>> \notin StrictSubsetOrdering(S)
  BY <1>1, WFMin, FS_StrictSubsetOrderingWellFounded
<1>3. PICK m \in D : \A y \in D : ~ (y \subseteq m /\ y # m)
  BY <1>2 DEF StrictSubsetOrdering
<1>4. ASSUME NEW x \in m PROVE m \ {x} \notin D
  <2>1. m \ {x} \subseteq m /\ m \ {x} # m
    OBVIOUS
  <2> QED BY <1>3, <2>1
<1> QED BY <1>4

LEMMA ChosenIn ==
  ASSUME NEW s, s # {}
  PROVE  ChosenOf(s) \in s
  BY DEF ChosenOf

LEMMA SumForm ==
  ASSUME NEW f, NEW S
  PROVE  SumFunctionOnSet(f, S) = (CHOOSE g : SumEq(g, f, S))[S]
  BY DEF SumFunctionOnSet, FoldFunctionOnSet, MapThenFoldSet, SumEq, ChosenOf

LEMMA SumUnique ==
  ASSUME NEW f, NEW S, IsFiniteSet(S), NEW T, T \subseteq S, NEW g, SumEq(g, f, S), NEW h, SumEq(h, f, T), NEW s \in SUBSET T
  PROVE  g[s] = h[s]
PROOF
<1> DEFINE D == {x \in SUBSET T : g[x] # h[x]}
<1>1. ASSUME D # {} PROVE FALSE
  <2>0. IsFiniteSet(T) /\ D \subseteq SUBSET T
    BY FS_Subset
  <2>1. PICK m \in D : \A x \in m : m \ {x} \notin D
    <3> HIDE DEF D
    <3> QED BY <1>1, <2>0, SmallestSet
  <2>2. m \in SUBSET T /\ m \in SUBSET S /\ g[m] # h[m]
    BY <2>1
  <2>3. g[m] = (IF m = {} THEN 0 ELSE f[ChosenOf(m)] + g[m \ {ChosenOf(m)}])
    BY <2>2, Zenon DEF SumEq
  <2>4. h[m] = (IF m = {} THEN 0 ELSE f[ChosenOf(m)] + h[m \ {ChosenOf(m)}])
    BY <2>2, Zenon DEF SumEq
  <2>5. CASE m # {}
    <3>1. ChosenOf(m) \in m
      BY <2>5, ChosenIn
    <3>2. m \ {ChosenOf(m)} \notin D /\ m \ {ChosenOf(m)} \in SUBSET T
      BY <2>1, <2>2, <3>1
    <3>3. g[m \ {ChosenOf(m)}] = h[m \ {ChosenOf(m)}]
      BY <3>2
    <3> QED BY <2>2, <2>3, <2>4, <2>5, <3>3
  <2> QED BY <2>2, <2>3, <2>4, <2>5
<1> QED BY <1>1

LEMMA SumExists ==
  ASSUME NEW f, NEW S, IsFiniteSet(S)
  PROVE  \E g : SumEq(g, f, S)
PROOF
<1> DEFINE D == {T \in SUBSET S : ~ \E g : SumEq(g, f, T)}
<1>1. ASSUME D # {} PROVE FALSE
  <2>0. D \subseteq SUBSET S
    OBVIOUS
  <2>1. PICK m \in D : \A x \in m : m \ {x} \notin D
    <3> HIDE DEF D
    <3> QED BY <1>1, <2>0, SmallestSet
  <2>2. m \in SUBSET S /\ (~ \E g : SumEq(g, f, m)) /\ IsFiniteSet(m)
    BY <2>1, FS_Subset
  <2>3. \A x \in m : \E g : SumEq(g, f, m \ {x})
    BY <2>1, <2>2
  <2> DEFINE below(x) == CHOOSE g : SumEq(g, f, m \ {x})
             val(s) == IF s = {} THEN 0 ELSE f[ChosenOf(s)] + below(ChosenOf(s))[s \ {ChosenOf(s)}]
             h == [s \in SUBSET m |-> val(s)]
  <2>4. \A x \in m : SumEq(below(x), f, m \ {x})
    BY <2>3, Zenon
  <2>5. ASSUME NEW s \in SUBSET m
        PROVE  h[s] = IF s = {} THEN 0 ELSE f[ChosenOf(s)] + h[s \ {ChosenOf(s)}]
    <3>1. CASE s # {}
      <4> DEFINE x == ChosenOf(s)
                 r == s \ {x}
      <4>1. x \in s /\ r \in SUBSET m /\ x \in m /\ r \in SUBSET (m \ {x})
        BY <3>1, ChosenIn
      <4>2. h[s] = f[x] + below(x)[r]
        BY <3>1, Zenon
      <4>3. h[r] = val(r)
        BY <4>1, Zenon
      <4>4. below(x)[r] = val(r)
        <5>0. PICK gx : gx = below(x)
          OBVIOUS
        <5>a. SumEq(gx, f, m \ {x})
          BY <2>4, <4>1, <5>0
        <5>b. gx[r] = IF r = {} THEN 0 ELSE f[ChosenOf(r)] + gx[r \ {ChosenOf(r)}]
          <6> HIDE DEF r, x
          <6> QED BY <4>1, <5>a, Zenon DEF SumEq
        <5>1. CASE r = {}
          <6>1. below(x)[r] = 0
            BY <5>0, <5>b, <5>1
          <6> QED BY <5>1, <6>1
        <5>2. CASE r # {}
          <6> DEFINE y == ChosenOf(r)
                     q == r \ {y}
          <6>1. y \in r /\ y \in m /\ q \in SUBSET (m \ {x}) /\ q \in SUBSET (m \ {y})
            BY <4>1, <5>2, ChosenIn
          <6>2. below(x)[r] = f[y] + below(x)[q]
            BY <5>0, <5>b, <5>2
          <6>3. below(x)[q] = below(y)[q]
            <7> DEFINE gy == below(y)
                       both == m \ {x, y}
                       k == [s2 \in SUBSET both |-> gy[s2]]
            <7>1. SumEq(gx, f, m \ {x}) /\ SumEq(gy, f, m \ {y})
              BY <2>4, <5>a, <6>1
            <7>2. SumEq(k, f, both)
              <8>1. ASSUME NEW s2 \in SUBSET both
                    PROVE  k[s2] = IF s2 = {} THEN 0 ELSE f[ChosenOf(s2)] + k[s2 \ {ChosenOf(s2)}]
                <9>1. s2 \in SUBSET (m \ {y}) /\ s2 \ {ChosenOf(s2)} \in SUBSET both
                  OBVIOUS
                <9>2. gy[s2] = IF s2 = {} THEN 0 ELSE f[ChosenOf(s2)] + gy[s2 \ {ChosenOf(s2)}]
                  BY <7>1, <9>1, Zenon DEF SumEq
                <9>3. k[s2] = gy[s2] /\ k[s2 \ {ChosenOf(s2)}] = gy[s2 \ {ChosenOf(s2)}]
                  BY <9>1, Zenon
                <9> HIDE DEF gy, k
                <9> QED BY <9>2, <9>3, Zenon
              <8> HIDE DEF gy
              <8> QED BY <8>1, Zenon DEF SumEq
            <7> HIDE DEF k, gy
            <7>3. IsFiniteSet(m \ {x}) /\ IsFiniteSet(m \ {y}) /\ both \subseteq m \ {x} /\ both \subseteq m \ {y} /\ q \in SUBSET both
              <8>1. q \in SUBSET both
                BY <6>1
              <8> QED BY <2>2, <8>1, FS_Subset
            <7>4. gx[q] = k[q]
              <8> HIDE DEF both, q, x
              <8> QED BY <7>1, <7>2, <7>3, SumUnique
            <7>5. gy[q] = k[q]
              <8> HIDE DEF both, q, y
              <8> QED BY <7>1, <7>2, <7>3, SumUnique
            <7> QED BY <5>0, <7>4, <7>5 DEF gy
          <6> HIDE DEF below
          <6> QED BY <5>2, <6>2, <6>3, Zenon
        <5> QED BY <5>1, <5>2
      <4> HIDE DEF h, below, val
      <4> QED BY <3>1, <4>2, <4>3, <4>4, Zenon
    <3>2. CASE s = {}
      BY <3>2
    <3> QED BY <3>1, <3>2
  <2> HIDE DEF h
  <2>6. SumEq(h, f, m)
    <3>1. h = [s \in SUBSET m |-> h[s]]
      BY DEF h
    <3> QED BY <2>5, <3>1, Zenon DEF SumEq
  <2> QED BY <2>2, <2>6
<1>2. S \notin D
  BY <1>1
<1> QED BY <1>2

LEMMA SumUnfold ==
  ASSUME NEW f, NEW S, IsFiniteSet(S)
  PROVE  /\ SumFunctionOnSet(f, {}) = 0
         /\ S # {} => SumFunctionOnSet(f, S) = f[ChosenOf(S)] + SumFunctionOnSet(f, S \ {ChosenOf(S)})
PROOF
<1>1. ASSUME NEW T, IsFiniteSet(T)
      PROVE  \E g : SumEq(g, f, T) /\ SumFunctionOnSet(f, T) = g[T]
  <2>1. PICK g : g = CHOOSE h : SumEq(h, f, T)
    OBVIOUS
  <2>2. SumEq(g, f, T)
    BY <1>1, <2>1, SumExists
  <2> QED BY <2>1, <2>2, SumForm
<1>2. SumFunctionOnSet(f, {}) = 0
  <2>1. PICK g : SumEq(g, f, {}) /\ SumFunctionOnSet(f, {}) = g[{}]
    BY <1>1, FS_EmptySet
  <2>2. {} \in SUBSET {}
    OBVIOUS
  <2>3. g[{}] = 0
    BY <2>1, <2>2, Zenon DEF SumEq
  <2> QED BY <2>1, <2>3
<1>3. ASSUME S # {}
      PROVE  SumFunctionOnSet(f, S) = f[ChosenOf(S)] + SumFunctionOnSet(f, S \ {ChosenOf(S)})
  <2> DEFINE T == S \ {ChosenOf(S)}
  <2>1. T \subseteq S /\ IsFiniteSet(T)
    BY FS_Subset
  <2> HIDE DEF T
  <2>2. PICK g : SumEq(g, f, S) /\ SumFunctionOnSet(f, S) = g[S]
    BY <1>1
  <2>3. PICK h : SumEq(h, f, T) /\ SumFunctionOnSet(f, T) = h[T]
    BY <1>1, <2>1
  <2>4. g[T] = h[T]
    <3>1. T \in SUBSET T
      OBVIOUS
    <3> QED BY <2>1, <2>2, <2>3, <3>1, SumUnique
  <2>5. g[S] = f[ChosenOf(S)] + g[S \ {ChosenOf(S)}]
    <3>1. S \in SUBSET S
      OBVIOUS
    <3> QED BY <1>3, <2>2, <3>1, Zenon DEF SumEq
  <2>6. g[S] = f[ChosenOf(S)] + g[T]
    BY <2>5 DEF T
  <2>7. SumFunctionOnSet(f, S) = f[ChosenOf(S)] + SumFunctionOnSet(f, T)
    BY <2>2, <2>3, <2>4, <2>6
  <2> QED BY <2>7 DEF T
<1> QED BY <1>2, <1>3

\* Induction over a finite set: what holds of the empty set, and of a set whenever
\* it holds without one of its members, holds of every finite set.
LEMMA SetInduction ==
  ASSUME NEW S, IsFiniteSet(S), NEW G, {} \in G,
         \A T \in SUBSET S : \A x \in T : T \ {x} \in G => T \in G
  PROVE  S \in G
PROOF
<1> DEFINE D == (SUBSET S) \ G
<1>1. ASSUME D # {} PROVE FALSE
  <2>1. D \subseteq SUBSET S
    OBVIOUS
  <2>2. PICK m \in D : \A x \in m : m \ {x} \notin D
    <3> HIDE DEF D
    <3> QED BY <1>1, <2>1, SmallestSet
  <2>3. m \in SUBSET S /\ m \notin G
    BY <2>2
  <2>4. m # {}
    BY <2>3
  <2>5. PICK x \in m : TRUE
    BY <2>4
  <2>6. m \ {x} \in G
    BY <2>2, <2>3, <2>5
  <2> QED BY <2>3, <2>5, <2>6
<1> QED BY <1>1

\* A sum of integers, taken apart at any of its members.
LEMMA SumSplit ==
  ASSUME NEW S, IsFiniteSet(S), NEW f, \A i \in S : f[i] \in Int
  PROVE  /\ SumFunctionOnSet(f, S) \in Int /\ SumFunctionOnSet(f, {}) = 0
         /\ \A x \in S : SumFunctionOnSet(f, S) = f[x] + SumFunctionOnSet(f, S \ {x})
PROOF
<1> DEFINE P(T) == /\ SumFunctionOnSet(f, T) \in Int
                   /\ \A x \in T : SumFunctionOnSet(f, T) = f[x] + SumFunctionOnSet(f, T \ {x})
           D == {T \in SUBSET S : ~ P(T)}
<1>0. SumFunctionOnSet(f, {}) = 0
  BY SumUnfold
<1>a. \A T \in SUBSET S : SumFunctionOnSet(f, T) \in Int
  <2> DEFINE E == {T \in SUBSET S : SumFunctionOnSet(f, T) \notin Int}
  <2>1. ASSUME E # {} PROVE FALSE
    <3>0. E \subseteq SUBSET S
      OBVIOUS
    <3>1. PICK m \in E : \A x \in m : m \ {x} \notin E
      <4> HIDE DEF E
      <4> QED BY <2>1, <3>0, SmallestSet
    <3>2. m \in SUBSET S /\ SumFunctionOnSet(f, m) \notin Int /\ IsFiniteSet(m)
      BY <3>1, FS_Subset
    <3>3. m # {}
      BY <1>0, <3>2
    <3>4. ChosenOf(m) \in m /\ SumFunctionOnSet(f, m) = f[ChosenOf(m)] + SumFunctionOnSet(f, m \ {ChosenOf(m)})
      BY <3>2, <3>3, ChosenIn, SumUnfold
    <3>5. SumFunctionOnSet(f, m \ {ChosenOf(m)}) \in Int
      BY <3>1, <3>2, <3>4
    <3> QED BY <3>2, <3>4, <3>5
  <2> QED BY <2>1
<1>1. ASSUME D # {} PROVE FALSE
  <2>0. D \subseteq SUBSET S
    OBVIOUS
  <2>1. PICK m \in D : \A x \in m : m \ {x} \notin D
    <3> HIDE DEF D
    <3> QED BY <1>1, <2>0, SmallestSet
  <2>2. m \in SUBSET S /\ ~ P(m) /\ IsFiniteSet(m)
    BY <2>1, FS_Subset
  <2>3. \A x \in m : P(m \ {x}) /\ f[x] \in Int
    BY <2>1, <2>2
  <2>4. m # {}
    <3>1. P({})
      BY <1>0
    <3> HIDE DEF P
    <3> QED BY <3>1, <2>2
  <2> DEFINE p == ChosenOf(m)
  <2>5. p \in m /\ SumFunctionOnSet(f, m) = f[p] + SumFunctionOnSet(f, m \ {p})
    BY <2>2, <2>4, ChosenIn, SumUnfold
  <2> HIDE DEF p
  <2>6. SumFunctionOnSet(f, m) \in Int
    BY <2>3, <2>5
  <2>7. ASSUME NEW x \in m, x # p
        PROVE  SumFunctionOnSet(f, m) = f[x] + SumFunctionOnSet(f, m \ {x})
    <3>1. x \in m \ {p} /\ p \in m \ {x} /\ (m \ {p}) \ {x} = (m \ {x}) \ {p}
      BY <2>5, <2>7
    <3> DEFINE both == (m \ {x}) \ {p}
    <3>2. SumFunctionOnSet(f, m \ {p}) = f[x] + SumFunctionOnSet(f, both)
      BY <2>3, <2>5, <3>1
    <3>3. SumFunctionOnSet(f, m \ {x}) = f[p] + SumFunctionOnSet(f, both)
      BY <2>3, <3>1
    <3>4. P(m \ {x})
      BY <2>3
    <3>5. SumFunctionOnSet(f, both) \in Int
      BY <2>2, <1>a
    <3> QED BY <2>3, <2>5, <3>2, <3>3, <3>5
  <2> QED BY <2>2, <2>5, <2>6, <2>7
<1>2. S \notin D
  BY <1>1
<1> QED BY <1>0, <1>2

\* Summing a bound that holds of every member, for any two factors.
LEMMA SumRatio ==
  ASSUME NEW S, IsFiniteSet(S), NEW f, NEW h, NEW w \in Int, NEW p \in Int,
         \A i \in S : f[i] \in Int /\ h[i] \in Int /\ w * f[i] <= p * h[i]
  PROVE  w * SumFunctionOnSet(f, S) <= p * SumFunctionOnSet(h, S)
PROOF
<1> DEFINE G == {T \in SUBSET S : w * SumFunctionOnSet(f, T) <= p * SumFunctionOnSet(h, T)}
<1>1. {} \in G
  <2>1. SumFunctionOnSet(f, {}) = 0 /\ SumFunctionOnSet(h, {}) = 0
    BY SumSplit
  <2> QED BY <2>1
<1>2. ASSUME NEW T \in SUBSET S, NEW x \in T, T \ {x} \in G
      PROVE  T \in G
  <2>1. IsFiniteSet(T) /\ IsFiniteSet(T \ {x}) /\ x \in S
    BY FS_Subset
  <2>2. PICK F \in Int, H \in Int : /\ F = SumFunctionOnSet(f, T \ {x}) /\ H = SumFunctionOnSet(h, T \ {x})
                                    /\ SumFunctionOnSet(f, T) = f[x] + F /\ SumFunctionOnSet(h, T) = h[x] + H
    <3>1. SumFunctionOnSet(f, T \ {x}) \in Int /\ SumFunctionOnSet(h, T \ {x}) \in Int
      BY <2>1, SumSplit
    <3>2. SumFunctionOnSet(f, T) = f[x] + SumFunctionOnSet(f, T \ {x})
      BY <2>1, SumSplit
    <3>3. SumFunctionOnSet(h, T) = h[x] + SumFunctionOnSet(h, T \ {x})
      BY <2>1, SumSplit
    <3> QED BY <3>1, <3>2, <3>3
  <2>3. w * F <= p * H
    BY <1>2, <2>2
  <2>4. PICK a \in Int, b \in Int : a = f[x] /\ b = h[x] /\ w * a <= p * b
    BY <2>1
  <2>5. w * (a + F) <= p * (b + H)
    <3>1. w * (a + F) = w * a + w * F /\ p * (b + H) = p * b + p * H
      OBVIOUS
    <3>2. w * a \in Int /\ w * F \in Int /\ p * b \in Int /\ p * H \in Int
      OBVIOUS
    <3> QED BY <2>3, <2>4, <3>1, <3>2
  <2> QED BY <2>2, <2>4, <2>5
<1>3. S \in G
  <2> HIDE DEF G
  <2> QED BY <1>1, <1>2, SetInduction
<1> QED BY <1>3

\* The same bound from the other side, rounded for every member.
LEMMA SumRounded ==
  ASSUME NEW S, IsFiniteSet(S), NEW f, NEW h, NEW w \in Int, NEW p \in Int, NEW e \in Int,
         \A i \in S : f[i] \in Int /\ h[i] \in Int /\ p * h[i] <= w * f[i] + e
  PROVE  p * SumFunctionOnSet(h, S) <= w * SumFunctionOnSet(f, S) + e * Cardinality(S)
PROOF
<1> DEFINE G == {T \in SUBSET S :
                    p * SumFunctionOnSet(h, T) <= w * SumFunctionOnSet(f, T) + e * Cardinality(T)}
<1>1. {} \in G
  <2>1. SumFunctionOnSet(f, {}) = 0 /\ SumFunctionOnSet(h, {}) = 0 /\ Cardinality({}) = 0
    BY SumSplit, FS_EmptySet
  <2> QED BY <2>1
<1>2. ASSUME NEW T \in SUBSET S, NEW x \in T, T \ {x} \in G
      PROVE  T \in G
  <2>1. IsFiniteSet(T) /\ IsFiniteSet(T \ {x}) /\ x \in S
    BY FS_Subset
  <2>2. PICK F \in Int, H \in Int : /\ F = SumFunctionOnSet(f, T \ {x}) /\ H = SumFunctionOnSet(h, T \ {x})
                                    /\ SumFunctionOnSet(f, T) = f[x] + F /\ SumFunctionOnSet(h, T) = h[x] + H
    <3>1. SumFunctionOnSet(f, T \ {x}) \in Int /\ SumFunctionOnSet(h, T \ {x}) \in Int
      BY <2>1, SumSplit
    <3>2. SumFunctionOnSet(f, T) = f[x] + SumFunctionOnSet(f, T \ {x})
      BY <2>1, SumSplit
    <3>3. SumFunctionOnSet(h, T) = h[x] + SumFunctionOnSet(h, T \ {x})
      BY <2>1, SumSplit
    <3> QED BY <3>1, <3>2, <3>3
  <2>3. PICK k \in Nat : k = Cardinality(T \ {x}) /\ Cardinality(T) = k + 1
    <3>1. Cardinality(T \ {x}) = Cardinality(T) - 1 /\ Cardinality(T \ {x}) \in Nat /\ Cardinality(T) \in Nat
      BY <2>1, FS_RemoveElement, FS_CardinalityType
    <3> QED BY <3>1
  <2>4. p * H <= w * F + e * k
    BY <1>2, <2>2, <2>3
  <2>5. PICK a \in Int, b \in Int : a = f[x] /\ b = h[x] /\ p * b <= w * a + e
    BY <2>1
  <2>6. p * (b + H) <= w * (a + F) + e * (k + 1)
    <3>1. w * (a + F) = w * a + w * F /\ p * (b + H) = p * b + p * H /\ e * (k + 1) = e * k + e
      OBVIOUS
    <3>2. w * a \in Int /\ w * F \in Int /\ p * b \in Int /\ p * H \in Int /\ e * k \in Int
      OBVIOUS
    <3> QED BY <2>4, <2>5, <3>1, <3>2
  <2> QED BY <2>2, <2>3, <2>5, <2>6
<1>3. S \in G
  <2> HIDE DEF G
  <2> QED BY <1>1, <1>2, SetInduction
<1> QED BY <1>3

LEMMA SumSame ==
  ASSUME NEW S, IsFiniteSet(S), NEW f, NEW h, \A i \in S : f[i] \in Int /\ h[i] = f[i]
  PROVE  SumFunctionOnSet(h, S) = SumFunctionOnSet(f, S)
PROOF
<1>1. \A i \in S : 1 * f[i] <= 1 * h[i] /\ 1 * h[i] <= 1 * f[i] /\ h[i] \in Int
  OBVIOUS
<1>2. 1 * SumFunctionOnSet(f, S) <= 1 * SumFunctionOnSet(h, S)
  BY <1>1, SumRatio
<1>3. 1 * SumFunctionOnSet(h, S) <= 1 * SumFunctionOnSet(f, S)
  BY <1>1, SumRatio
<1>4. SumFunctionOnSet(h, S) \in Int /\ SumFunctionOnSet(f, S) \in Int
  BY <1>1, SumSplit
<1> QED BY <1>2, <1>3, <1>4

LEMMA SumNat ==
  ASSUME NEW S, IsFiniteSet(S), NEW f, \A i \in S : f[i] \in Nat
  PROVE  SumFunctionOnSet(f, S) \in Nat
PROOF
<1>1. \A i \in S : f[i] \in Int /\ 0 * f[i] <= 1 * f[i]
  OBVIOUS
<1>2. 0 * SumFunctionOnSet(f, S) <= 1 * SumFunctionOnSet(f, S)
  BY <1>1, SumRatio
<1>3. SumFunctionOnSet(f, S) \in Int
  BY <1>1, SumSplit
<1> QED BY <1>2, <1>3

LEMMA SumZero ==
  ASSUME NEW S, IsFiniteSet(S), NEW f, \A i \in S : f[i] = 0
  PROVE  SumFunctionOnSet(f, S) = 0
PROOF
<1>1. \A i \in S : f[i] \in Int /\ 1 * f[i] <= 0 * f[i] /\ 0 * f[i] <= 1 * f[i]
  OBVIOUS
<1>2. 0 * SumFunctionOnSet(f, S) <= 1 * SumFunctionOnSet(f, S)
  BY <1>1, SumRatio
<1>3. 1 * SumFunctionOnSet(f, S) <= 0 * SumFunctionOnSet(f, S)
  BY <1>1, SumRatio
<1>4. SumFunctionOnSet(f, S) \in Int
  BY <1>1, SumSplit
<1> QED BY <1>2, <1>3, <1>4

\* The sum over two sets without a common member.
LEMMA SumUnion ==
  ASSUME NEW A, NEW B, IsFiniteSet(A), IsFiniteSet(B), A \cap B = {},
         NEW f, \A i \in A \cup B : f[i] \in Int
  PROVE  SumFunctionOnSet(f, A \cup B) = SumFunctionOnSet(f, A) + SumFunctionOnSet(f, B)
PROOF
<1> DEFINE G == {T \in SUBSET B : SumFunctionOnSet(f, A \cup T) = SumFunctionOnSet(f, A) + SumFunctionOnSet(f, T)}
<1>1. {} \in G
  <2>1. SumFunctionOnSet(f, {}) = 0 /\ SumFunctionOnSet(f, A) \in Int /\ A \cup {} = A
    BY SumSplit
  <2> QED BY <2>1
<1>2. ASSUME NEW T \in SUBSET B, NEW x \in T, T \ {x} \in G
      PROVE  T \in G
  <2>1. IsFiniteSet(T) /\ IsFiniteSet(T \ {x}) /\ IsFiniteSet(A \cup T)
    BY FS_Subset, FS_Union
  <2>2. (A \cup T) \ {x} = A \cup (T \ {x}) /\ x \in A \cup T
    OBVIOUS
  <2>3. SumFunctionOnSet(f, A \cup T) = f[x] + SumFunctionOnSet(f, A \cup (T \ {x}))
    <3>1. \A i \in A \cup T : f[i] \in Int
      OBVIOUS
    <3>2. SumFunctionOnSet(f, A \cup T) = f[x] + SumFunctionOnSet(f, (A \cup T) \ {x})
      BY <2>1, <2>2, <3>1, SumSplit
    <3> QED BY <2>2, <3>2
  <2>4. SumFunctionOnSet(f, T) = f[x] + SumFunctionOnSet(f, T \ {x})
    BY <2>1, SumSplit
  <2>5. SumFunctionOnSet(f, A) \in Int /\ SumFunctionOnSet(f, T \ {x}) \in Int /\ f[x] \in Int
    BY <2>1, SumSplit
  <2>6. SumFunctionOnSet(f, A \cup (T \ {x})) = SumFunctionOnSet(f, A) + SumFunctionOnSet(f, T \ {x})
    BY <1>2
  <2>7. SumFunctionOnSet(f, A \cup T) = SumFunctionOnSet(f, A) + SumFunctionOnSet(f, T)
    BY <2>3, <2>4, <2>5, <2>6
  <2> QED BY <2>7
<1>3. B \in G
  <2> HIDE DEF G
  <2> QED BY <1>1, <1>2, SetInduction
<1> QED BY <1>3

LEMMA SumPlus ==
  ASSUME NEW S, IsFiniteSet(S), NEW f, NEW g, NEW h,
         \A i \in S : f[i] \in Int /\ g[i] \in Int /\ h[i] = f[i] + g[i]
  PROVE  SumFunctionOnSet(h, S) = SumFunctionOnSet(f, S) + SumFunctionOnSet(g, S)
PROOF
<1> DEFINE G == {T \in SUBSET S : SumFunctionOnSet(h, T) = SumFunctionOnSet(f, T) + SumFunctionOnSet(g, T)}
<1>0. \A i \in S : f[i] \in Int /\ g[i] \in Int /\ h[i] \in Int
  OBVIOUS
<1>1. {} \in G
  <2>1. SumFunctionOnSet(f, {}) = 0 /\ SumFunctionOnSet(g, {}) = 0 /\ SumFunctionOnSet(h, {}) = 0
    BY SumSplit, <1>0
  <2> QED BY <2>1
<1>2. ASSUME NEW T \in SUBSET S, NEW x \in T, T \ {x} \in G
      PROVE  T \in G
  <2>1. IsFiniteSet(T) /\ IsFiniteSet(T \ {x}) /\ x \in S
    BY FS_Subset
  <2>2. SumFunctionOnSet(f, T) = f[x] + SumFunctionOnSet(f, T \ {x}) /\ SumFunctionOnSet(f, T \ {x}) \in Int
    BY <1>0, <2>1, SumSplit
  <2>3. SumFunctionOnSet(g, T) = g[x] + SumFunctionOnSet(g, T \ {x}) /\ SumFunctionOnSet(g, T \ {x}) \in Int
    BY <1>0, <2>1, SumSplit
  <2>4. SumFunctionOnSet(h, T) = h[x] + SumFunctionOnSet(h, T \ {x}) /\ SumFunctionOnSet(h, T \ {x}) \in Int
    BY <1>0, <2>1, SumSplit
  <2>5. SumFunctionOnSet(h, T) = SumFunctionOnSet(f, T) + SumFunctionOnSet(g, T)
    BY <1>0, <1>2, <2>1, <2>2, <2>3, <2>4
  <2> QED BY <2>5
<1>3. S \in G
  <2> HIDE DEF G
  <2> QED BY <1>1, <1>2, SetInduction
<1> QED BY <1>3

\* For every key of U, d adds up the q of the members of S that have it.
AddsUp(d, q, S, k, cell, U) ==
    \A t \in U : /\ cell[t] \in SUBSET S /\ d[t] = SumFunctionOnSet(q, cell[t])
                 /\ \A i \in S : i \in cell[t] <=> k[i] = t

WithKeyIn(all, S, k, U) == all \in SUBSET S /\ \A i \in S : i \in all <=> k[i] \in U

\* What is sorted by a key adds up to the whole.
LEMMA SumByKey ==
  ASSUME NEW S, IsFiniteSet(S), NEW q, \A i \in S : q[i] \in Int, NEW k, NEW U, IsFiniteSet(U), NEW d,
         NEW cell, AddsUp(d, q, S, k, cell, U), NEW all, WithKeyIn(all, S, k, U)
  PROVE  SumFunctionOnSet(d, U) = SumFunctionOnSet(q, all)
PROOF
<1> DEFINE with(T) == {i \in S : k[i] \in T}
           G == {T \in SUBSET U : SumFunctionOnSet(d, T) = SumFunctionOnSet(q, with(T))}
<1>0. \A T : IsFiniteSet(with(T)) /\ SumFunctionOnSet(q, with(T)) \in Int
  <2> TAKE T
  <2>1. with(T) \subseteq S
    OBVIOUS
  <2>2. IsFiniteSet(with(T)) /\ \A i \in with(T) : q[i] \in Int
    BY <2>1, FS_Subset
  <2> HIDE DEF with
  <2> QED BY <2>2, SumSplit
<1>a. \A t \in U : d[t] \in Int /\ d[t] = SumFunctionOnSet(q, with({t}))
  <2> TAKE t \in U
  <2>1. with({t}) = cell[t] /\ d[t] = SumFunctionOnSet(q, cell[t])
    BY DEF AddsUp
  <2> HIDE DEF with
  <2> QED BY <1>0, <2>1
<1>1. {} \in G
  <2>1. with({}) = {} /\ SumFunctionOnSet(d, {}) = 0 /\ SumFunctionOnSet(q, {}) = 0
    BY SumSplit, <1>a
  <2> QED BY <2>1
<1>2. ASSUME NEW T \in SUBSET U, NEW x \in T, T \ {x} \in G
      PROVE  T \in G
  <2>1. IsFiniteSet(T) /\ IsFiniteSet(T \ {x}) /\ x \in U
    BY FS_Subset
  <2>2. SumFunctionOnSet(d, T) = d[x] + SumFunctionOnSet(d, T \ {x})
    <3>1. \A t \in T : d[t] \in Int
      BY <1>a
    <3> HIDE DEF with, G
    <3>2. IsFiniteSet(T)
      BY <2>1
    <3>3. SumFunctionOnSet(d, T) \in Int /\ \A y \in T : SumFunctionOnSet(d, T) = d[y] + SumFunctionOnSet(d, T \ {y})
      BY <3>1, <3>2, SumSplit
    <3> QED BY <3>3
  <2>3. with(T) = with({x}) \cup with(T \ {x}) /\ with({x}) \cap with(T \ {x}) = {}
    OBVIOUS
  <2>4. \A i \in with({x}) \cup with(T \ {x}) : q[i] \in Int
    OBVIOUS
  <2>5. SumFunctionOnSet(d, T \ {x}) = SumFunctionOnSet(q, with(T \ {x}))
    BY <1>2
  <2>6. SumFunctionOnSet(q, with(T)) = SumFunctionOnSet(q, with({x})) + SumFunctionOnSet(q, with(T \ {x}))
    <3>1. PICK A, B : A = with({x}) /\ B = with(T \ {x})
      OBVIOUS
    <3> HIDE DEF with
    <3>2. IsFiniteSet(A) /\ IsFiniteSet(B) /\ A \cap B = {} /\ \A i \in A \cup B : q[i] \in Int
      BY <1>0, <2>3, <2>4, <3>1
    <3>3. SumFunctionOnSet(q, A \cup B) = SumFunctionOnSet(q, A) + SumFunctionOnSet(q, B)
      BY <3>2, SumUnion
    <3> QED BY <2>3, <3>1, <3>3
  <2>7. SumFunctionOnSet(d, T) = SumFunctionOnSet(q, with(T))
    <3> HIDE DEF with
    <3> QED BY <1>a, <2>1, <2>2, <2>5, <2>6
  <2> QED BY <2>7
<1>3. U \in G
  <2> HIDE DEF G
  <2> QED BY <1>1, <1>2, SetInduction
<1>4. all = with(U)
  BY DEF WithKeyIn
<1> QED BY <1>3, <1>4

\* A sum with one member more.
LEMMA SumAdds ==
  ASSUME NEW S, IsFiniteSet(S), NEW x, x \notin S, NEW f, NEW h,
         \A i \in S : f[i] \in Int /\ h[i] = f[i], h[x] \in Int
  PROVE  /\ SumFunctionOnSet(h, S \cup {x}) = SumFunctionOnSet(f, S) + h[x]
         /\ SumFunctionOnSet(f, S) \in Int
PROOF
<1>1. IsFiniteSet(S \cup {x}) /\ x \in S \cup {x} /\ (S \cup {x}) \ {x} = S
  BY FS_AddElement
<1>2. \A i \in S \cup {x} : h[i] \in Int
  OBVIOUS
<1>3. SumFunctionOnSet(h, S \cup {x}) = h[x] + SumFunctionOnSet(h, S)
  <2>1. SumFunctionOnSet(h, S \cup {x}) = h[x] + SumFunctionOnSet(h, (S \cup {x}) \ {x})
    BY <1>1, <1>2, SumSplit
  <2> QED BY <1>1, <2>1, Zenon
<1>4. SumFunctionOnSet(h, S) = SumFunctionOnSet(f, S)
  BY SumSame
<1>5. SumFunctionOnSet(f, S) \in Int
  BY SumSplit
<1> QED BY <1>3, <1>4, <1>5

\* A sum with one member less.
LEMMA SumDrops ==
  ASSUME NEW S, IsFiniteSet(S), NEW x \in S, NEW f, NEW h,
         \A i \in S : f[i] \in Int, \A i \in S \ {x} : h[i] = f[i]
  PROVE  /\ SumFunctionOnSet(h, S \ {x}) = SumFunctionOnSet(f, S) - f[x]
         /\ SumFunctionOnSet(f, S) \in Int
PROOF
<1>1. IsFiniteSet(S \ {x})
  BY FS_Subset
<1>2. SumFunctionOnSet(f, S) = f[x] + SumFunctionOnSet(f, S \ {x})
  BY SumSplit
<1>3. SumFunctionOnSet(h, S \ {x}) = SumFunctionOnSet(f, S \ {x})
  BY <1>1, SumSame
<1>4. SumFunctionOnSet(f, S \ {x}) \in Int
  BY <1>1, SumSplit
<1> QED BY <1>2, <1>3, <1>4

\* A sum of which one member changes.
LEMMA SumMoves ==
  ASSUME NEW S, IsFiniteSet(S), NEW x \in S, NEW f, NEW h,
         \A i \in S : f[i] \in Int, \A i \in S \ {x} : h[i] = f[i], h[x] \in Int
  PROVE  /\ SumFunctionOnSet(h, S) = SumFunctionOnSet(f, S) - f[x] + h[x]
         /\ SumFunctionOnSet(f, S) \in Int
PROOF
<1>1. \A i \in S : h[i] \in Int
  OBVIOUS
<1>2. SumFunctionOnSet(h, S) = h[x] + SumFunctionOnSet(h, S \ {x})
  BY <1>1, SumSplit
<1>3. /\ SumFunctionOnSet(h, S \ {x}) = SumFunctionOnSet(f, S) - f[x]
      /\ SumFunctionOnSet(f, S) \in Int
  BY SumDrops
<1> QED BY <1>2, <1>3

=============================================================================
