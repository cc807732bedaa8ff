---------------------------- MODULE AuctionProofs ----------------------------
(***************************************************************************)
(* Theorems about the auction, for any number of bids, ticks and units and *)
(* any configuration initialize accepts, and about its settler.            *)
(***************************************************************************)
EXTENDS AuctionSettler, ClearingScan, SumTheorems, FiniteSetTheorems, SequenceTheorems, TLAPS

-----------------------------------------------------------------------------
(* The arithmetic of the auction *)

LEMMA ProductLeq ==
  ASSUME NEW a \in Nat, NEW b \in Nat, NEW c \in Nat, NEW d \in Nat, a <= b, c <= d
  PROVE  a * c <= b * d
PROOF
<1>1. a * c <= b * c
  OBVIOUS
<1>2. b * c <= b * d
  OBVIOUS
<1>3. a * c \in Int /\ b * c \in Int /\ b * d \in Int
  OBVIOUS
<1> QED BY <1>1, <1>2, <1>3

\* What flooring does, whatever the divisor.
LEMMA Floor ==
  ASSUME NEW a \in Nat, NEW u \in Nat \ {0}
  PROVE  a \div u \in Nat /\ u * (a \div u) <= a /\ a < u * ((a \div u) + 1)
  OBVIOUS

LEMMA FloorAbove ==
  ASSUME NEW a \in Nat, NEW u \in Nat \ {0}, NEW x \in Int, u * x <= a
  PROVE  x <= a \div u
PROOF
<1>1. PICK d \in Nat : d = a \div u /\ u * x < u * (d + 1)
  <2>1. a \div u \in Nat /\ a < u * ((a \div u) + 1)
    BY Floor
  <2>2. PICK d \in Nat : d = a \div u
    BY <2>1
  <2>3. u * (d + 1) \in Int /\ u * x \in Int /\ a < u * (d + 1)
    BY <2>1, <2>2
  <2> QED BY <2>2, <2>3
<1>2. ASSUME x >= d + 1 PROVE FALSE
  <2>1. x \in Nat
    BY <1>2
  <2>2. u * (d + 1) <= u * x
    BY <1>2, <2>1, ProductLeq
  <2> QED BY <1>1, <2>2
<1> QED BY <1>1, <1>2

LEMMA FloorMonotone ==
  ASSUME NEW a \in Nat, NEW b \in Nat, NEW u \in Nat \ {0}, a <= b
  PROVE  a \div u <= b \div u
PROOF
<1>1. PICK x \in Nat : x = a \div u /\ u * x <= a
  BY Floor
<1>2. u * x <= b
  <2>1. u * x \in Int
    OBVIOUS
  <2> QED BY <1>1, <2>1
<1>3. x <= b \div u
  BY <1>2, FloorAbove
<1> QED BY <1>1, <1>3

\* A share of the marginal tick is no more than was asked for.
LEMMA ShareFits ==
  ASSUME NEW q \in Nat, NEW part \in Nat, NEW whole \in Nat \ {0}, part <= whole
  PROVE  /\ ShareOf(q, part, whole) \in Nat /\ ShareOf(q, part, whole) <= q
         /\ whole * ShareOf(q, part, whole) <= part * q
         /\ part * q <= whole * ShareOf(q, part, whole) + (whole - 1)
PROOF
<1>1. PICK n \in Nat : n = q * part /\ n <= whole * q /\ n = part * q
  <2>1. q * part <= q * whole
    BY ProductLeq
  <2>2. q * part \in Nat /\ q * whole = whole * q /\ q * part = part * q
    OBVIOUS
  <2> QED BY <2>1, <2>2
<1>2. PICK s \in Nat : s = n \div whole /\ whole * s <= n /\ n <= whole * s + (whole - 1)
  <2>1. PICK s \in Nat : s = n \div whole /\ whole * s <= n /\ n < whole * (s + 1)
    BY Floor
  <2>2. whole * (s + 1) = whole * s + whole /\ whole * s \in Int
    OBVIOUS
  <2> QED BY <2>1, <2>2
<1>3. s <= q
  <2>1. whole * s <= whole * q
    <3>1. whole * s \in Int /\ whole * q \in Int
      OBVIOUS
    <3> QED BY <1>1, <1>2, <3>1
  <2>2. ASSUME s >= q + 1 PROVE FALSE
    <3>1. whole * (q + 1) <= whole * s
      BY <2>2, ProductLeq
    <3>2. whole * (q + 1) = whole * q + whole /\ whole * q \in Int /\ whole * s \in Int
      OBVIOUS
    <3> QED BY <2>1, <3>1, <3>2
  <2> QED BY <2>2
<1> QED BY <1>1, <1>2, <1>3 DEF ShareOf

\* A payment is no more than the escrow of a bid for as much at a price as high.
LEMMA CostFits ==
  ASSUME NEW a \in Nat, NEW b \in Nat, NEW p \in Nat, NEW r \in Nat, NEW u \in Nat \ {0}, a <= b, p <= r
  PROVE  /\ CostFloor(a, p, u) \in Nat
         /\ CostFloor(a, p, u) <= CostFloor(b, r, u)
         /\ CostFloor(a, p, u) <= CostCeil(b, r, u)
PROOF
<1>1. a * p \in Nat /\ b * r \in Nat /\ b * r + u - 1 \in Nat
  OBVIOUS
<1>2. a * p <= b * r
  BY ProductLeq
<1>3. a * p <= b * r + u - 1
  BY <1>1, <1>2
<1>4. CostFloor(a, p, u) \in Nat
  BY <1>1, Floor DEF CostFloor
<1>5. CostFloor(a, p, u) <= CostFloor(b, r, u)
  BY <1>1, <1>2, FloorMonotone DEF CostFloor
<1>6. CostFloor(a, p, u) <= CostCeil(b, r, u)
  BY <1>1, <1>3, FloorMonotone DEF CostFloor, CostCeil
<1> QED BY <1>4, <1>5, <1>6

LEMMA MaxIn ==
  ASSUME NEW S, IsFiniteSet(S), S # {}, S \subseteq Int
  PROVE  Max(S) \in S /\ \A y \in S : y <= Max(S)
PROOF
<1> DEFINE G == {T \in SUBSET S : T # {} => \E x \in T : \A y \in T : x >= y}
<1>1. {} \in G
  OBVIOUS
<1>2. ASSUME NEW T \in SUBSET S, NEW x \in T, T \ {x} \in G
      PROVE  T \in G
  <2>1. CASE T \ {x} = {}
    <3>1. \A y \in T : x >= y
      BY <2>1
    <3> QED BY <3>1
  <2>2. CASE T \ {x} # {}
    <3>1. PICK z \in T \ {x} : \A y \in T \ {x} : z >= y
      BY <1>2, <2>2
    <3>2. x \in Int /\ z \in Int /\ z \in T /\ \A y \in T : y \in Int /\ (y = x \/ z >= y)
      BY <3>1
    <3>3. CASE x >= z
      <4>1. \A y \in T : x >= y
        BY <3>2, <3>3
      <4> QED BY <4>1
    <3>4. CASE ~ (x >= z)
      <4>1. \A y \in T : z >= y
        BY <3>2, <3>4
      <4> QED BY <3>2, <4>1
    <3> QED BY <3>3, <3>4
  <2> QED BY <2>1, <2>2
<1>3. S \in G
  <2> HIDE DEF G
  <2> QED BY <1>1, <1>2, SetInduction
<1>4. \E x \in S : \A y \in S : x >= y
  BY <1>3
<1>5. Max(S) \in S /\ \A y \in S : Max(S) >= y
  BY <1>4 DEF Max
<1> QED BY <1>5

LEMMA DemandStep ==
  ASSUME NEW n \in Nat \ {0}, NEW d \in [0 .. n - 1 -> Nat], NEW t \in 0 .. n - 1
  PROVE  /\ DemandFrom(d, t) = d[t] + DemandFrom(d, t + 1)
         /\ DemandFrom(d, t) \in Nat /\ DemandFrom(d, t + 1) \in Nat
         /\ t + 1 \notin 0 .. n - 1 => DemandFrom(d, t + 1) = 0
PROOF
<1> DEFINE from(x) == {y \in 0 .. n - 1 : y >= x}
<1>1. \A x : IsFiniteSet(from(x)) /\ \A y \in from(x) : d[y] \in Nat /\ d[y] \in Int
  <2> TAKE x
  <2>1. from(x) \subseteq 0 .. n - 1 /\ IsFiniteSet(0 .. n - 1)
    BY FS_Interval
  <2> QED BY <2>1, FS_Subset
<1>2. t \in from(t) /\ from(t) \ {t} = from(t + 1)
  OBVIOUS
<1>3. \A x : DemandFrom(d, x) = SumFunctionOnSet(d, from(x))
  BY DEF DemandFrom
<1>4. t + 1 \notin 0 .. n - 1 => from(t + 1) = {}
  OBVIOUS
<1> HIDE DEF from
<1>5. SumFunctionOnSet(d, from(t)) = d[t] + SumFunctionOnSet(d, from(t) \ {t})
  BY <1>1, <1>2, SumSplit
<1>6. SumFunctionOnSet(d, from(t)) \in Nat /\ SumFunctionOnSet(d, from(t + 1)) \in Nat
  BY <1>1, SumNat
<1>7. SumFunctionOnSet(d, {}) = 0
  BY SumUnfold, FS_EmptySet
<1> QED BY <1>2, <1>3, <1>4, <1>5, <1>6, <1>7

\* What a clearing sells: everything above the clearing tick and, of the clearing
\* tick, no more than was asked for there, the supply in all.
LEMMA Clears ==
  ASSUME NEW n \in Nat \ {0}, NEW d \in [0 .. n - 1 -> Nat], NEW offered \in Nat \ {0},
         NEW r, r = FindClearingTick(d, offered), r.cleared
  PROVE  /\ r.clearingTick \in 0 .. n - 1
         /\ r.demandAtClearingTick = d[r.clearingTick]
         /\ r.supplyForClearingTick \in 0 .. d[r.clearingTick]
         /\ r.supplySold = DemandFrom(d, r.clearingTick + 1) + r.supplyForClearingTick
         /\ r.supplySold \in 0 .. offered
PROOF
<1> DEFINE crossing == {t \in DOMAIN d : DemandFrom(d, t) >= offered}
<1>0. DOMAIN d = 0 .. n - 1 /\ 0 \in 0 .. n - 1
  OBVIOUS
<1>1. CASE crossing # {}
  <2>1. PICK c : c = Max(crossing)
    OBVIOUS
  <2>2. IsFiniteSet(crossing) /\ crossing \subseteq Int
    <3>1. crossing \subseteq 0 .. n - 1 /\ IsFiniteSet(0 .. n - 1)
      BY FS_Interval
    <3>2. crossing \subseteq Int
      BY <3>1
    <3> QED BY <3>1, <3>2, FS_Subset
  <2>3. c \in crossing /\ \A t \in crossing : t <= c
    <3> HIDE DEF crossing
    <3> QED BY <1>1, <2>1, <2>2, MaxIn
  <2>4. c \in 0 .. n - 1 /\ DemandFrom(d, c) >= offered
    BY <2>3
  <2>5. r = [cleared |-> TRUE, clearingTick |-> c, supplySold |-> offered,
             demandAtClearingTick |-> d[c], supplyForClearingTick |-> offered - DemandFrom(d, c + 1)]
    BY <1>1, <2>1, Zenon DEF FindClearingTick
  <2>6. PICK above \in Nat : above = DemandFrom(d, c + 1) /\ DemandFrom(d, c) = d[c] + above
    BY <2>4, DemandStep
  <2>7. above < offered
    <3>1. CASE c + 1 \in 0 .. n - 1
      <4>1. c + 1 \notin crossing
        BY <2>3, <2>4
      <4>2. ~ (DemandFrom(d, c + 1) >= offered)
        BY <3>1, <4>1
      <4> QED BY <2>6, <4>2
    <3>2. CASE c + 1 \notin 0 .. n - 1
      <4>1. above = 0
        BY <2>4, <2>6, <3>2, DemandStep
      <4> QED BY <4>1
    <3> QED BY <3>1, <3>2
  <2>8. d[c] \in Nat /\ d[c] + above >= offered
    BY <2>4, <2>6
  <2>9. offered - above \in 0 .. d[c] /\ offered = above + (offered - above)
    BY <2>7, <2>8
  <2> QED BY <2>4, <2>5, <2>6, <2>9
<1>2. CASE crossing = {}
  <2>1. DemandFrom(d, 0) # 0 /\ r = [cleared |-> TRUE, clearingTick |-> 0, supplySold |-> DemandFrom(d, 0),
                                     demandAtClearingTick |-> d[0], supplyForClearingTick |-> d[0]]
    BY <1>2 DEF FindClearingTick, NotCleared
  <2>2. PICK above \in Nat : above = DemandFrom(d, 0 + 1) /\ DemandFrom(d, 0) = d[0] + above
    BY <1>0, DemandStep
  <2>3. ~ (DemandFrom(d, 0) >= offered) /\ d[0] \in Nat
    BY <1>0, <1>2
  <2> QED BY <1>0, <2>1, <2>2, <2>3
<1> QED BY <1>1, <1>2


\* The bids of S, of quantity q[i] on tick k[i], are the demand d: what the clearing
\* allocates to them fits what it sells, and falls short of it by less than a unit a
\* bid of the clearing tick, whatever rounding does (allocationFor).
LEMMA AllocationsFitSale ==
  ASSUME NEW n \in Nat \ {0}, NEW d \in [0 .. n - 1 -> Nat], NEW offered \in Nat \ {0},
         NEW r, r = FindClearingTick(d, offered), r.cleared,
         NEW S, IsFiniteSet(S), NEW q, NEW k, NEW a,
         \A i \in S : q[i] \in Nat /\ k[i] \in 0 .. n - 1 /\ a[i] = AllocationFor(r, q[i], k[i]),
         NEW cell, AddsUp(d, q, S, k, cell, 0 .. n - 1)
  PROVE  /\ \A i \in S : a[i] \in Nat /\ a[i] <= q[i]
         /\ SumFunctionOnSet(a, S) \in Int /\ SumFunctionOnSet(a, S) <= r.supplySold
         /\ \/ SumFunctionOnSet(a, S) = r.supplySold
            \/ r.supplySold - SumFunctionOnSet(a, S) < Cardinality(cell[r.clearingTick])
PROOF
<1>1. PICK c \in 0 .. n - 1, part \in Nat, whole \in Nat, above \in Nat :
          /\ c = r.clearingTick /\ part = r.supplyForClearingTick /\ whole = r.demandAtClearingTick
          /\ whole = d[c] /\ part <= whole
          /\ above = DemandFrom(d, c + 1) /\ r.supplySold = above + part
  <2>1. /\ r.clearingTick \in 0 .. n - 1 /\ r.demandAtClearingTick = d[r.clearingTick]
        /\ r.supplyForClearingTick \in 0 .. d[r.clearingTick]
        /\ r.supplySold = DemandFrom(d, r.clearingTick + 1) + r.supplyForClearingTick
    BY Clears
  <2>2. DemandFrom(d, r.clearingTick + 1) \in Nat
    BY <2>1, DemandStep
  <2>3. d[r.clearingTick] \in Nat
    BY <2>1
  <2> QED BY <2>1, <2>2, <2>3
<1> DEFINE Below == {i \in S : k[i] < c}
           At == {i \in S : k[i] = c}
           Above == {i \in S : k[i] >= c + 1}
<1>2. /\ IsFiniteSet(Below) /\ IsFiniteSet(At) /\ IsFiniteSet(Above)
      /\ S = (Below \cup At) \cup Above /\ Below \cap At = {} /\ (Below \cup At) \cap Above = {}
      /\ IsFiniteSet(Below \cup At)
  <2>1. IsFiniteSet(Below) /\ IsFiniteSet(At) /\ IsFiniteSet(Above)
    <3>1. Below \subseteq S /\ At \subseteq S /\ Above \subseteq S
      OBVIOUS
    <3> HIDE DEF Below, At, Above
    <3> QED BY <3>1, FS_Subset
  <2>2. S = (Below \cup At) \cup Above /\ Below \cap At = {} /\ (Below \cup At) \cap Above = {}
    <3>1. \A i \in S : k[i] \in Int /\ c \in Int
      OBVIOUS
    <3>2. \A i \in S : k[i] < c \/ k[i] = c \/ k[i] >= c + 1
      BY <3>1
    <3> QED BY <3>1, <3>2
  <2> HIDE DEF Below, At, Above
  <2> QED BY <2>1, <2>2, FS_Union
<1>3. \A i \in S : /\ i \in Below => a[i] = 0
                   /\ i \in Above => a[i] = q[i]
                   /\ i \in At /\ part = whole => a[i] = q[i]
                   /\ i \in At /\ part < whole => a[i] = ShareOf(q[i], part, whole)
  <2> TAKE i \in S
  <2>1. a[i] = IF k[i] < c THEN 0 ELSE IF k[i] > c \/ whole <= part THEN q[i]
               ELSE ShareOf(q[i], part, whole)
    BY <1>1 DEF AllocationFor
  <2>2. PICK t \in Int : t = k[i]
    OBVIOUS
  <2>3. c \in Int /\ part \in Int /\ whole \in Int
    OBVIOUS
  <2> QED BY <2>1, <2>2, <2>3
<1>4. \A i \in S : i \in At /\ part < whole =>
          ShareOf(q[i], part, whole) \in Nat /\ ShareOf(q[i], part, whole) <= q[i]
             /\ whole * ShareOf(q[i], part, whole) <= part * q[i]
             /\ part * q[i] <= whole * ShareOf(q[i], part, whole) + (whole - 1)
  <2> SUFFICES ASSUME NEW i \in S, part < whole
               PROVE  /\ ShareOf(q[i], part, whole) \in Nat /\ ShareOf(q[i], part, whole) <= q[i]
                      /\ whole * ShareOf(q[i], part, whole) <= part * q[i]
                      /\ part * q[i] <= whole * ShareOf(q[i], part, whole) + (whole - 1)
    OBVIOUS
  <2>1. whole \in Nat \ {0} /\ q[i] \in Nat
    OBVIOUS
  <2> QED BY <1>1, <2>1, ShareFits
<1>5. \A i \in S : q[i] \in Nat /\ a[i] \in Nat /\ a[i] <= q[i]
  <2> TAKE i \in S
  <2>1. i \in Below \/ i \in At \/ i \in Above
    BY <1>2
  <2>2. part = whole \/ part < whole
    BY <1>1
  <2> HIDE DEF Below, At, Above
  <2> QED BY <1>3, <1>4, <2>1, <2>2
<1>6. SumFunctionOnSet(a, S) = (SumFunctionOnSet(a, Below) + SumFunctionOnSet(a, At)) + SumFunctionOnSet(a, Above)
  <2> HIDE DEF Below, At, Above
  <2>1. \A i \in S : a[i] \in Int
    BY <1>5
  <2>2. SumFunctionOnSet(a, (Below \cup At) \cup Above) = SumFunctionOnSet(a, Below \cup At) + SumFunctionOnSet(a, Above)
    BY <1>2, <2>1, SumUnion
  <2>3. SumFunctionOnSet(a, Below \cup At) = SumFunctionOnSet(a, Below) + SumFunctionOnSet(a, At)
    BY <1>2, <2>1, SumUnion
  <2> QED BY <1>2, <2>2, <2>3
<1>7. SumFunctionOnSet(a, Below) = 0
  <2>1. \A i \in Below : a[i] = 0
    BY <1>3
  <2> HIDE DEF Below
  <2> QED BY <1>2, <2>1, SumZero
<1>8. SumFunctionOnSet(a, Above) = above
  <2>1. \A i \in Above : q[i] \in Int /\ a[i] = q[i]
    BY <1>3, <1>5
  <2>2. SumFunctionOnSet(a, Above) = SumFunctionOnSet(q, Above)
    <3> HIDE DEF Above
    <3> QED BY <1>2, <2>1, SumSame
  <2> DEFINE U == {t \in 0 .. n - 1 : t >= c + 1}
  <2>3. Above \in SUBSET S /\ \A i \in S : i \in Above <=> k[i] \in U
    OBVIOUS
  <2>4. U \subseteq 0 .. n - 1 /\ IsFiniteSet(0 .. n - 1) /\ IsFiniteSet(U)
    <3>1. U \subseteq 0 .. n - 1 /\ IsFiniteSet(0 .. n - 1)
      BY FS_Interval
    <3> HIDE DEF U
    <3> QED BY <3>1, FS_Subset
  <2>5. above = SumFunctionOnSet(d, U)
    BY <1>1 DEF DemandFrom
  <2>6. AddsUp(d, q, S, k, cell, U) /\ WithKeyIn(Above, S, k, U) /\ \A i \in S : q[i] \in Int
    BY <1>5, <2>3, <2>4 DEF AddsUp, WithKeyIn
  <2>7. SumFunctionOnSet(d, U) = SumFunctionOnSet(q, Above)
    <3> HIDE DEF U, Above
    <3> QED BY <2>4, <2>6, SumByKey
  <2> HIDE DEF U, Above
  <2> QED BY <2>2, <2>5, <2>7
<1>9. /\ SumFunctionOnSet(a, At) <= part
      /\ SumFunctionOnSet(a, At) = part \/ part - SumFunctionOnSet(a, At) < Cardinality(At)
  <2>1. SumFunctionOnSet(q, At) = whole
    <3>1. At = cell[c] /\ d[c] = SumFunctionOnSet(q, cell[c])
      BY DEF AddsUp
    <3> HIDE DEF At
    <3> QED BY <1>1, <3>1
  <2>2. \A i \in At : q[i] \in Int /\ a[i] \in Int
    BY <1>5
  <2>3. SumFunctionOnSet(a, At) \in Int
    <3> HIDE DEF At
    <3> QED BY <1>2, <2>2, SumSplit
  <2>4. CASE part = whole
    <3>1. \A i \in At : q[i] \in Int /\ a[i] = q[i]
      BY <1>3, <2>2, <2>4
    <3>2. SumFunctionOnSet(a, At) = SumFunctionOnSet(q, At)
      <4> HIDE DEF At
      <4> QED BY <1>2, <3>1, SumSame
    <3> QED BY <2>1, <2>4, <3>2
  <2>5. CASE part < whole
    <3>1. \A i \in At : whole * a[i] <= part * q[i]
      BY <1>3, <1>4, <2>5
    <3>2. whole * SumFunctionOnSet(a, At) <= part * SumFunctionOnSet(q, At)
      <4>1. whole \in Int /\ part \in Int
        OBVIOUS
      <4> HIDE DEF At
      <4> QED BY <1>2, <2>2, <3>1, <4>1, SumRatio
    <3>3. PICK s \in Int : s = SumFunctionOnSet(a, At) /\ whole * s <= part * whole
      BY <2>1, <2>3, <3>2
    <3>4. ASSUME s >= part + 1 PROVE FALSE
      <4>1. whole * (part + 1) <= whole * s
        <5>1. s \in Nat
          BY <3>4
        <5> QED BY <3>4, <5>1, ProductLeq
      <4>2. whole * (part + 1) = part * whole + whole /\ part * whole \in Int /\ whole * s \in Int /\ whole > 0
        BY <2>5
      <4> QED BY <3>3, <4>1, <4>2
    <3>5. PICK m \in Nat : m = Cardinality(At)
      <4> HIDE DEF At
      <4> QED BY <1>2, FS_CardinalityType
    <3>6. part * whole <= whole * s + (whole - 1) * m
      <4>1. \A i \in At : part * q[i] <= whole * a[i] + (whole - 1)
        BY <1>3, <1>4, <2>5
      <4>2. part * SumFunctionOnSet(q, At) <= whole * SumFunctionOnSet(a, At) + (whole - 1) * Cardinality(At)
        <5>1. whole \in Int /\ part \in Int /\ whole - 1 \in Int
          OBVIOUS
        <5> HIDE DEF At
        <5> QED BY <1>2, <2>2, <4>1, <5>1, SumRounded
      <4> QED BY <2>1, <3>3, <3>5, <4>2
    <3>7. ASSUME part - s >= m PROVE FALSE
      <4>1. whole \in Nat \ {0}
        BY <2>5
      <4>2. PICK gap \in Nat : part = s + m + gap
        <5>1. part - s - m \in Nat /\ part = s + m + (part - s - m)
          BY <3>7
        <5> QED BY <5>1
      <4>3. part * whole = whole * s + whole * m + whole * gap
        BY <4>2
      <4>4. (whole - 1) * m = whole * m - m
        OBVIOUS
      <4>5. whole * m \in Int /\ whole * s \in Int /\ whole * gap \in Nat
        OBVIOUS
      <4>6. m = 0
        BY <3>6, <4>3, <4>4, <4>5
      <4>7. At = {}
        <5> HIDE DEF At
        <5> QED BY <1>2, <3>5, <4>6, FS_EmptySet
      <4>8. whole = 0
        <5>1. SumFunctionOnSet(q, {}) = 0
          BY SumUnfold, FS_EmptySet
        <5> HIDE DEF At
        <5> QED BY <2>1, <4>7, <5>1
      <4> QED BY <4>1, <4>8
    <3>8. part - s < m
      BY <3>7
    <3> QED BY <3>3, <3>4, <3>5, <3>8
  <2> QED BY <1>1, <2>4, <2>5
<1>10. SumFunctionOnSet(a, At) \in Int
  <2>1. \A i \in At : a[i] \in Int
    BY <1>5
  <2> HIDE DEF At
  <2> QED BY <1>2, <2>1, SumSplit
<1>11. At = cell[r.clearingTick]
  BY <1>1 DEF AddsUp
<1> HIDE DEF Below, At, Above
<1>12. PICK s \in Int, m \in Nat : /\ s = SumFunctionOnSet(a, At) /\ m = Cardinality(At)
                                  /\ SumFunctionOnSet(a, S) = s + above
  <2>1. Cardinality(At) \in Nat
    BY <1>2, FS_CardinalityType
  <2>2. PICK s \in Int : s = SumFunctionOnSet(a, At)
    BY <1>10
  <2>3. SumFunctionOnSet(a, S) = s + above
    BY <1>6, <1>7, <1>8, <2>2
  <2> QED BY <2>1, <2>2, <2>3
<1>13. s <= part /\ (s = part \/ part - s < m)
  BY <1>9, <1>12
<1>14. PICK sold \in Int, total \in Int : /\ sold = r.supplySold /\ total = SumFunctionOnSet(a, S)
                                        /\ sold = above + part /\ total = s + above
  BY <1>1, <1>12
<1>15. total <= sold /\ (total = sold \/ sold - total < m)
  BY <1>13, <1>14
<1>16. m = Cardinality(cell[r.clearingTick])
  BY <1>11, <1>12
<1> QED BY <1>5, <1>14, <1>15, <1>16, Zenon

-----------------------------------------------------------------------------
(* The contract: types and the inductive invariant *)

LeafRecord == [quantity : Nat, tick : Nat]

BidRecord == [bidder : Bidders, commitment : Plaintexts \cup {Junk}, escrow : Nat,
              revealed : BOOLEAN, voided : BOOLEAN, claimed : BOOLEAN, quantity : Nat, tick : Nat]

States == {"Created", "Funded", "CommitOpen", "CommitClosed", "Revealing", "Settled", "Failed", "Cancelled"}

TypeOK ==
    /\ state \in States
    /\ bids \in Seq(BidRecord)
    /\ state = "Revealing" => \A i \in DOMAIN bids : root[i] \in LeafRecord \cup {None}
    /\ demand \in [Ticks -> Nat]
    /\ proceedsClaimed \in BOOLEAN /\ unsoldClaimed \in BOOLEAN
    /\ saleHeld \in Nat /\ quoteHeld \in Nat

\* Nothing is claimed before the end, nothing is bid before the opening.
Phases ==
    /\ state \in {"Created", "Funded", "Cancelled"} => bids = <<>>
    /\ state \notin {"Settled", "Failed"} =>
          /\ ~proceedsClaimed /\ ~unsoldClaimed
          /\ \A i \in DOMAIN bids : ~bids[i].claimed
          /\ saleHeld = IF state \in {"Created", "Cancelled"} THEN 0 ELSE TotalSupply

\* A bid that is in the demand says what its bidder committed to.
RevealsKept ==
    \A i \in DOMAIN bids :
        /\ bids[i].voided => bids[i].revealed
        /\ bids[i].revealed /\ ~bids[i].voided =>
              bids[i].commitment = [quantity |-> bids[i].quantity, tick |-> bids[i].tick] /\ bids[i].tick \in Ticks

Counted == {i \in DOMAIN bids : /\ bids[i].revealed /\ ~bids[i].voided
                                /\ Eligible(bids[i], bids[i].quantity, bids[i].tick)}
CountedAt == [t \in Ticks |-> {i \in Counted : bids[i].tick = t}]

TokensOf == [i \in DOMAIN bids |-> Tokens(bids[i])]
PaidOf == [i \in DOMAIN bids |-> Paid(bids[i])]
RefundOf == [i \in DOMAIN bids |-> Refund(bids[i])]
EscrowOf == [i \in DOMAIN bids |-> bids[i].escrow]
QuantityOf == [i \in DOMAIN bids |-> bids[i].quantity]
TickOf == [i \in DOMAIN bids |-> bids[i].tick]

DemandKept == \A t \in Ticks : demand[t] = SumFunctionOnSet(QuantityOf, CountedAt[t])

SaleKept ==
    state = "Settled" =>
        /\ AllAccountedFor
        /\ FindClearingTick(demand, TotalSupply).cleared
        /\ sale = Sale(FindClearingTick(demand, TotalSupply))

BookInv == TypeOK /\ Phases /\ RevealsKept /\ DemandKept /\ SaleKept

AuctionInv == BookInv /\ HoldingsCoverClaims

LEMMA Config ==
  /\ TotalSupply \in Nat \ {0} /\ NumTicks \in Nat \ {0} /\ Unit \in Nat \ {0}
  /\ ReservePrice \in Nat /\ TickSize \in Nat /\ Escrows \subseteq Nat
  /\ Plaintexts \subseteq LeafRecord
  /\ Ticks = 0 .. NumTicks - 1 /\ Ticks \subseteq Nat /\ IsFiniteSet(Ticks)
PROOF
<1>1. NumTicks \in Nat \ {0} /\ Ticks = 0 .. NumTicks - 1 /\ Ticks \subseteq Nat
  BY ConfigAssumption DEF Ticks
<1>2. IsFiniteSet(Ticks)
  BY <1>1, FS_Interval
<1> QED BY <1>1, <1>2, ConfigAssumption DEF LeafRecord

LEMMA BidsFinite ==
  ASSUME TypeOK
  PROVE  /\ IsFiniteSet(DOMAIN bids) /\ IsFiniteSet(Unclaimed) /\ IsFiniteSet(Counted)
         /\ Unclaimed \subseteq DOMAIN bids /\ Counted \subseteq DOMAIN bids
PROOF
<1>1. DOMAIN bids = 1 .. Len(bids) /\ Len(bids) \in Nat
  BY DEF TypeOK
<1>2. IsFiniteSet(DOMAIN bids)
  BY <1>1, FS_Interval
<1>3. Unclaimed \subseteq DOMAIN bids /\ Counted \subseteq DOMAIN bids
  BY DEF Unclaimed, Counted
<1> QED BY <1>2, <1>3, FS_Subset

LEMMA BidFields ==
  ASSUME TypeOK, NEW i \in DOMAIN bids
  PROVE  /\ bids[i].escrow \in Nat /\ bids[i].quantity \in Nat /\ bids[i].tick \in Nat
         /\ bids[i].revealed \in BOOLEAN /\ bids[i].voided \in BOOLEAN /\ bids[i].claimed \in BOOLEAN
         /\ bids[i].commitment \in Plaintexts \cup {Junk}
PROOF
<1>1. bids[i] \in BidRecord
  BY DEF TypeOK
<1> QED BY <1>1 DEF BidRecord

\* What the settlement gives and charges each bid, and that it adds up to no more
\* than what is sold and what the sale brings in.
LEMMA SettledSums ==
  ASSUME BookInv, state = "Settled"
  PROVE  /\ \A i \in DOMAIN bids :
               /\ Tokens(bids[i]) \in Nat /\ Paid(bids[i]) \in Nat /\ Paid(bids[i]) <= bids[i].escrow
               /\ Tokens(bids[i]) > 0 =>
                     Paid(bids[i]) <= EscrowFor(Tokens(bids[i]), ReservePrice, TickSize, bids[i].tick, Unit)
         /\ sale.clearing.supplySold \in 0 .. TotalSupply
         /\ sale.gross \in Nat
         /\ SumFunctionOnSet(TokensOf, DOMAIN bids) <= sale.clearing.supplySold
         /\ SumFunctionOnSet(PaidOf, DOMAIN bids) <= sale.gross
PROOF
<1>1. PICK r : /\ r = FindClearingTick(demand, TotalSupply) /\ r.cleared /\ sale = Sale(r)
  BY DEF BookInv, SaleKept
<1>2. sale.clearing = r /\ sale.price = PriceAt(ReservePrice, TickSize, r.clearingTick)
         /\ sale.gross = CostFloor(r.supplySold, sale.price, Unit)
  BY <1>1 DEF Sale
<1>3. demand \in [0 .. NumTicks - 1 -> Nat] /\ TypeOK
  BY Config DEF BookInv, TypeOK
<1>4. r.clearingTick \in 0 .. NumTicks - 1 /\ r.supplySold \in 0 .. TotalSupply
  BY <1>1, <1>3, Config, Clears
<1>5. PICK price \in Nat : price = sale.price /\ \A t \in Nat : t >= r.clearingTick =>
          PriceAt(ReservePrice, TickSize, t) \in Nat /\ price <= PriceAt(ReservePrice, TickSize, t)
  <2>1. PICK c \in Nat : c = r.clearingTick
    BY <1>4
  <2>2. ReservePrice + c * TickSize \in Nat
    BY Config
  <2>3. ASSUME NEW t \in Nat, t >= c
        PROVE  ReservePrice + t * TickSize \in Nat /\ ReservePrice + c * TickSize <= ReservePrice + t * TickSize
    <3>1. c * TickSize <= t * TickSize
      BY <2>3, Config, ProductLeq
    <3>2. c * TickSize \in Nat /\ t * TickSize \in Nat
      BY Config
    <3> QED BY <3>1, <3>2, Config
  <2> QED BY <1>2, <2>1, <2>2, <2>3 DEF PriceAt
<1> DEFINE a == [i \in DOMAIN bids |-> AllocationFor(r, bids[i].quantity, bids[i].tick)]
<1>6. /\ \A i \in Counted : a[i] \in Nat /\ a[i] <= bids[i].quantity
      /\ SumFunctionOnSet(a, Counted) <= r.supplySold
  <2>1. \A i \in Counted : /\ QuantityOf[i] \in Nat /\ TickOf[i] \in 0 .. NumTicks - 1
                           /\ a[i] = AllocationFor(r, QuantityOf[i], TickOf[i])
                           /\ QuantityOf[i] = bids[i].quantity
    BY <1>3, BidFields, Config DEF Counted, QuantityOf, TickOf, BookInv, RevealsKept
  <2>2. AddsUp(demand, QuantityOf, Counted, TickOf, CountedAt, 0 .. NumTicks - 1)
    BY Config DEF AddsUp, BookInv, DemandKept, CountedAt, TickOf, Counted
  <2> HIDE DEF a
  <2>3. IsFiniteSet(Counted) /\ NumTicks \in Nat \ {0} /\ TotalSupply \in Nat \ {0}
    BY <1>3, Config, BidsFinite
  <2>4. /\ \A i \in Counted : a[i] \in Nat /\ a[i] <= QuantityOf[i]
        /\ SumFunctionOnSet(a, Counted) <= r.supplySold
    <3>1. /\ \A i \in Counted : QuantityOf[i] \in Nat /\ TickOf[i] \in 0 .. NumTicks - 1
                                   /\ a[i] = AllocationFor(r, QuantityOf[i], TickOf[i])
      BY <2>1
    <3> QED BY <1>1, <1>3, <2>2, <2>3, <3>1, AllocationsFitSale, Zenon
  <2> QED BY <2>1, <2>4
<1>7. \A i \in DOMAIN bids : Tokens(bids[i]) = IF i \in Counted THEN a[i] ELSE 0
  BY <1>2 DEF Tokens, AllocationOf, Counted, BookInv, SaleKept
<1>8. \A i \in DOMAIN bids : Tokens(bids[i]) \in Nat /\ Tokens(bids[i]) <= bids[i].quantity
  <2> TAKE i \in DOMAIN bids
  <2>1. bids[i].quantity \in Nat
    BY <1>3, BidFields
  <2> HIDE DEF a
  <2> QED BY <1>6, <1>7, <2>1
<1>9. \A i \in DOMAIN bids : Paid(bids[i]) = CostFloor(Tokens(bids[i]), price, Unit)
  BY <1>5 DEF Paid, Tokens
<1>10. ASSUME NEW i \in DOMAIN bids
       PROVE  /\ Paid(bids[i]) \in Nat /\ Paid(bids[i]) <= bids[i].escrow
              /\ Unit * Paid(bids[i]) <= price * Tokens(bids[i])
              /\ Tokens(bids[i]) > 0 =>
                    Paid(bids[i]) <= EscrowFor(Tokens(bids[i]), ReservePrice, TickSize, bids[i].tick, Unit)
  <2>1. PICK n \in Nat, q \in Nat, e \in Nat, t \in Nat :
            n = Tokens(bids[i]) /\ q = bids[i].quantity /\ e = bids[i].escrow /\ t = bids[i].tick /\ n <= q
    BY <1>3, <1>8, BidFields
  <2>2. CostFloor(n, price, Unit) \in Nat /\ Unit * CostFloor(n, price, Unit) <= price * n
    <3>1. n * price \in Nat /\ n * price = price * n
      OBVIOUS
    <3>2. (n * price) \div Unit \in Nat /\ Unit * ((n * price) \div Unit) <= n * price
      BY <3>1, Config, Floor
    <3> QED BY <3>1, <3>2 DEF CostFloor
  <2>3. CASE n = 0
    <3>1. CostFloor(n, price, Unit) = 0
      <4>1. PICK d \in Nat : d = CostFloor(n, price, Unit) /\ Unit * d <= 0
        BY <2>2, <2>3
      <4>2. d = 0
        <5>1. ASSUME d >= 1 PROVE FALSE
          <6>1. 1 <= Unit /\ Unit \in Nat
            BY Config
          <6>2. Unit * (d - 1) \in Nat /\ Unit * d = Unit * (d - 1) + Unit
            BY <5>1, <6>1
          <6> QED BY <4>1, <6>1, <6>2
        <5> QED BY <5>1
      <4> QED BY <4>1, <4>2
    <3>2. Paid(bids[i]) = 0 /\ Tokens(bids[i]) = 0 /\ bids[i].escrow \in Nat
      BY <1>9, <2>1, <2>3, <3>1
    <3>3. Unit * 0 <= price * 0
      BY Config
    <3> QED BY <3>2, <3>3
  <2>4. CASE n # 0
    <3>1. i \in Counted /\ Eligible(bids[i], q, t)
      BY <1>7, <2>1, <2>4 DEF Counted
    <3>2. t >= r.clearingTick
      <4>1. AllocationFor(r, q, t) # 0
        BY <1>7, <2>1, <2>4, <3>1
      <4> QED BY <1>4, <2>1, <4>1 DEF AllocationFor
    <3>3. PICK own \in Nat : own = PriceAt(ReservePrice, TickSize, t) /\ price <= own
      BY <1>5, <3>2
    <3>4. CostFloor(n, price, Unit) <= CostCeil(q, own, Unit)
      BY <2>1, <3>3, Config, CostFits
    <3>5. CostFloor(n, price, Unit) <= CostCeil(n, own, Unit)
      BY <3>3, Config, CostFits
    <3>6. e >= CostCeil(q, own, Unit) /\ CostCeil(q, own, Unit) \in Nat
      <4>1. e >= CostCeil(q, own, Unit)
        BY <2>1, <3>1, <3>3 DEF Eligible, EscrowFor
      <4>2. q * own + Unit - 1 \in Nat
        <5>1. q * own \in Nat
          OBVIOUS
        <5> QED BY <5>1, Config
      <4> QED BY <4>1, <4>2, Config, Floor DEF CostCeil
    <3>7. CostFloor(n, price, Unit) <= e
      BY <2>2, <3>4, <3>6
    <3> QED BY <1>9, <2>1, <2>2, <3>3, <3>5, <3>7 DEF EscrowFor
  <2> QED BY <2>3, <2>4
<1>11. SumFunctionOnSet(TokensOf, DOMAIN bids) = SumFunctionOnSet(a, Counted)
  <2> DEFINE others == DOMAIN bids \ Counted
  <2>1. IsFiniteSet(others) /\ IsFiniteSet(Counted) /\ Counted \cap others = {} /\ Counted \cup others = DOMAIN bids
    BY <1>3, BidsFinite, FS_Subset
  <2>2. \A i \in DOMAIN bids : TokensOf[i] \in Int /\ TokensOf[i] = Tokens(bids[i])
    BY <1>8 DEF TokensOf
  <2>3. SumFunctionOnSet(TokensOf, Counted \cup others) = SumFunctionOnSet(TokensOf, Counted) + SumFunctionOnSet(TokensOf, others)
    <3> HIDE DEF others
    <3> QED BY <2>1, <2>2, SumUnion
  <2>4. SumFunctionOnSet(TokensOf, others) = 0
    <3>1. \A i \in others : TokensOf[i] = 0
      BY <1>7, <2>2
    <3> HIDE DEF others
    <3> QED BY <2>1, <3>1, SumZero
  <2>5. SumFunctionOnSet(TokensOf, Counted) = SumFunctionOnSet(a, Counted) /\ SumFunctionOnSet(a, Counted) \in Int
    <3>1. \A i \in Counted : a[i] \in Int /\ TokensOf[i] = a[i]
      BY <1>3, <1>6, <1>7, <2>2, BidsFinite
    <3> HIDE DEF a
    <3> QED BY <2>1, <3>1, SumSame, SumSplit
  <2> QED BY <2>1, <2>3, <2>4, <2>5
<1>12. SumFunctionOnSet(TokensOf, DOMAIN bids) <= r.supplySold
  BY <1>6, <1>11
<1>13. sale.gross \in Nat /\ SumFunctionOnSet(PaidOf, DOMAIN bids) <= sale.gross
  <2>1. \A i \in DOMAIN bids : /\ PaidOf[i] \in Int /\ TokensOf[i] \in Int
                               /\ PaidOf[i] \in Nat /\ TokensOf[i] \in Nat
                               /\ Unit * PaidOf[i] <= price * TokensOf[i]
    BY <1>8, <1>10 DEF PaidOf, TokensOf
  <2>2. IsFiniteSet(DOMAIN bids)
    BY <1>3, BidsFinite
  <2>3. PICK paid \in Nat, sold \in Nat : paid = SumFunctionOnSet(PaidOf, DOMAIN bids) /\ sold = SumFunctionOnSet(TokensOf, DOMAIN bids)
    BY <2>1, <2>2, SumNat
  <2>4. Unit * paid <= price * sold
    <3>1. Unit \in Int /\ price \in Int
      BY Config
    <3> QED BY <2>1, <2>2, <2>3, <3>1, SumRatio
  <2>5. PICK s \in Nat : s = r.supplySold /\ sold <= s
    BY <1>4, <1>12, <2>3
  <2>6. Unit * paid <= s * price /\ s * price \in Nat
    <3>1. price * sold <= price * s
      BY <2>5, ProductLeq
    <3>2. price * s = s * price /\ s * price \in Nat /\ price * sold \in Nat /\ Unit * paid \in Nat
      BY Config
    <3> QED BY <2>4, <3>1, <3>2
  <2>7. paid <= (s * price) \div Unit /\ (s * price) \div Unit \in Nat
    BY <2>6, Config, Floor, FloorAbove
  <2> QED BY <1>2, <1>5, <2>3, <2>5, <2>7 DEF CostFloor
<1> QED BY <1>2, <1>4, <1>8, <1>10, <1>12, <1>13


-----------------------------------------------------------------------------
(* The contract: its steps *)

\* A transaction that reveals the bids of C from their attested leaves, those of F
\* with the plaintext their bidder committed to.
Reveals(C, F) ==
    /\ state = "Revealing"
    /\ \A i \in C : ~bids[i].revealed /\ root[i] \in LeafRecord /\ root[i].tick \in Ticks
    /\ \A i \in F : bids[i].commitment = root[i]
    /\ bids' = [i \in DOMAIN bids |->
                  IF i \notin C THEN bids[i]
                  ELSE IF i \in F THEN [bids[i] EXCEPT !.revealed = TRUE, !.quantity = root[i].quantity,
                                                       !.tick = root[i].tick]
                  ELSE [bids[i] EXCEPT !.revealed = TRUE, !.voided = TRUE]]
    /\ demand' = [t \in Ticks |-> demand[t] +
                    SumFunctionOnSet([i \in C |-> root[i].quantity],
                        {i \in F : root[i].tick = t /\ Eligible(bids[i], root[i].quantity, t)})]
    /\ lastVoidAt' = IF C = F THEN lastVoidAt ELSE now
    /\ UNCHANGED <<state, now, root, sale, issuerClaims, held>>

AnyReveals == \E C \in SUBSET DOMAIN bids : \E F \in SUBSET C : Reveals(C, F)
AnyRoot == \E leaves : (\A i \in DOMAIN bids : leaves[i] \in LeafRecord \cup {None}) /\ registerRevealRoot(leaves)
AnyBid == \E a \in Bidders, c \in Plaintexts \cup {Junk}, e \in Escrows : commitBid(a, c, e)
AnyDispute == \E i \in DOMAIN bids : disputeVoid(i)
AnyClaim == \E i \in DOMAIN bids : claim(i)

\* Every step of the contract, one reveal a transaction or several.
AuctionStep ==
    \/ Tick \/ fund \/ openCommit \/ cancel \/ AnyBid \/ closeCommit \/ AnyRoot \/ AnyReveals \/ AnyDispute
    \/ finalize \/ failOnRevealTimeout \/ AnyClaim \/ claimProceeds \/ claimUnsold
    \/ UNCHANGED vars

LEMMA SumSingle ==
  ASSUME NEW i, NEW f, f[i] \in Int
  PROVE  SumFunctionOnSet(f, {i}) = f[i] /\ SumFunctionOnSet(f, {}) = 0
PROOF
<1>1. IsFiniteSet({i}) /\ \A j \in {i} : f[j] \in Int
  BY FS_Singleton
<1>2. SumFunctionOnSet(f, {}) = 0 /\ SumFunctionOnSet(f, {i}) = f[i] + SumFunctionOnSet(f, {i} \ {i})
  BY <1>1, SumSplit
<1>3. {i} \ {i} = {}
  OBVIOUS
<1>4. SumFunctionOnSet(f, {i} \ {i}) = 0
  BY <1>2, <1>3, Zenon
<1> QED BY <1>2, <1>4

\* processReveals with one entry.
LEMMA OneReveal ==
  ASSUME TypeOK, NEW i \in DOMAIN bids, NEW sameVersion \in BOOLEAN, processReveal(i, sameVersion)
  PROVE  AnyReveals
PROOF
<1>1. PICK leaf \in LeafRecord : leaf = root[i] /\ leaf.tick \in Ticks /\ state = "Revealing" /\ ~bids[i].revealed
  BY DEF processReveal, TypeOK
<1>2. demand \in [Ticks -> Nat] /\ leaf.quantity \in Nat /\ bids \in Seq(BidRecord)
  BY DEF TypeOK, LeafRecord
<1>3. \A j \in {i} : ~bids[j].revealed /\ root[j] \in LeafRecord /\ root[j].tick \in Ticks
  BY <1>1
<1>4. UNCHANGED <<state, now, root, sale, issuerClaims, held>>
  BY DEF processReveal
<1> DEFINE f == [j \in {i} |-> root[j].quantity]
           at(F, t) == {j \in F : root[j].tick = t /\ Eligible(bids[j], root[j].quantity, t)}
<1>5. f[i] = leaf.quantity /\ SumFunctionOnSet(f, {i}) = leaf.quantity /\ SumFunctionOnSet(f, {}) = 0
  <2>1. f[i] = leaf.quantity
    BY <1>1
  <2>2. f[i] \in Int
    BY <1>2, <2>1
  <2> HIDE DEF f
  <2>3. SumFunctionOnSet(f, {i}) = f[i] /\ SumFunctionOnSet(f, {}) = 0
    BY <2>2, SumSingle, Zenon
  <2> QED BY <2>1, <2>3
<1>6. CASE ~Matches(bids[i], leaf, sameVersion)
  <2>1. bids' = [bids EXCEPT ![i].revealed = TRUE, ![i].voided = TRUE] /\ demand' = demand /\ lastVoidAt' = now
    BY <1>1, <1>6 DEF processReveal
  <2>2. bids' = [j \in DOMAIN bids |->
                  IF j \notin {i} THEN bids[j]
                  ELSE IF j \in {} THEN [bids[j] EXCEPT !.revealed = TRUE, !.quantity = root[j].quantity,
                                                        !.tick = root[j].tick]
                  ELSE [bids[j] EXCEPT !.revealed = TRUE, !.voided = TRUE]]
    BY <1>2, <2>1
  <2>3. \A t : at({}, t) = {}
    OBVIOUS
  <2>4. demand' = [t \in Ticks |-> demand[t] + SumFunctionOnSet(f, at({}, t))]
    <3> HIDE DEF at, f
    <3>1. \A t \in Ticks : demand[t] = demand[t] + SumFunctionOnSet(f, at({}, t))
      <4> TAKE t \in Ticks
      <4>1. SumFunctionOnSet(f, at({}, t)) = 0
        BY <1>5, <2>3, Zenon
      <4> QED BY <1>2, <4>1
    <3>2. demand = [t \in Ticks |-> demand[t] + SumFunctionOnSet(f, at({}, t))]
      BY <1>2, <3>1
    <3> QED BY <2>1, <3>2
  <2>5. Reveals({i}, {})
    BY <1>1, <1>3, <1>4, <2>1, <2>2, <2>4 DEF Reveals
  <2> QED BY <2>5 DEF AnyReveals
<1>7. CASE Matches(bids[i], leaf, sameVersion)
  <2>1. /\ bids[i].commitment = leaf
        /\ bids' = [bids EXCEPT ![i].revealed = TRUE, ![i].quantity = leaf.quantity, ![i].tick = leaf.tick]
        /\ lastVoidAt' = lastVoidAt
        /\ demand' = IF Eligible(bids[i], leaf.quantity, leaf.tick)
                       THEN [demand EXCEPT ![leaf.tick] = @ + leaf.quantity] ELSE demand
    BY <1>1, <1>7 DEF processReveal, Matches
  <2>2. bids' = [j \in DOMAIN bids |->
                  IF j \notin {i} THEN bids[j]
                  ELSE IF j \in {i} THEN [bids[j] EXCEPT !.revealed = TRUE, !.quantity = root[j].quantity,
                                                         !.tick = root[j].tick]
                  ELSE [bids[j] EXCEPT !.revealed = TRUE, !.voided = TRUE]]
    BY <1>1, <1>2, <2>1
  <2>3. \A t : at({i}, t) = IF leaf.tick = t /\ Eligible(bids[i], leaf.quantity, t) THEN {i} ELSE {}
    BY <1>1
  <2>4. demand' = [t \in Ticks |-> demand[t] + SumFunctionOnSet(f, at({i}, t))]
    <3> HIDE DEF at, f
    <3>1. \A t \in Ticks : SumFunctionOnSet(f, at({i}, t)) =
              IF leaf.tick = t /\ Eligible(bids[i], leaf.quantity, leaf.tick) THEN leaf.quantity ELSE 0
      BY <1>5, <2>3
    <3>2. \A t \in Ticks : demand'[t] = demand[t] + SumFunctionOnSet(f, at({i}, t))
      <4> TAKE t \in Ticks
      <4>1. PICK n : n = SumFunctionOnSet(f, at({i}, t))
        OBVIOUS
      <4>2. n = IF leaf.tick = t /\ Eligible(bids[i], leaf.quantity, leaf.tick) THEN leaf.quantity ELSE 0
        BY <3>1, <4>1
      <4>3. demand'[t] = demand[t] + n
        BY <1>1, <1>2, <2>1, <4>2
      <4> QED BY <4>1, <4>3
    <3>3. demand' \in [Ticks -> Int]
      BY <1>1, <1>2, <2>1
    <3>4. DOMAIN demand' = Ticks /\ demand' = [t \in Ticks |-> demand'[t]]
      BY <3>3
    <3> QED BY <3>2, <3>4
  <2>5. Reveals({i}, {i})
    BY <1>1, <1>3, <1>4, <2>1, <2>2, <2>4 DEF Reveals
  <2> QED BY <2>5 DEF AnyReveals
<1> QED BY <1>6, <1>7

LEMMA NextIsStep ==
  ASSUME TypeOK, [Next]_vars
  PROVE  AuctionStep
PROOF
<1>1. ASSUME NEW leaves \in [DOMAIN bids -> Plaintexts \cup {None}], registerRevealRoot(leaves)
      PROVE  AnyRoot
  <2>1. \A i \in DOMAIN bids : leaves[i] \in LeafRecord \cup {None}
    BY Config
  <2> QED BY <1>1, <2>1 DEF AnyRoot
<1>2. ASSUME NEW i \in DOMAIN bids, NEW v \in BOOLEAN, processReveal(i, v)
      PROVE  AnyReveals
  BY <1>2, OneReveal
<1> QED BY <1>1, <1>2 DEF Next, AuctionStep, AnyBid, AnyDispute, AnyClaim


\* What is defined from the bids stays with them.
LEMMA BidsSame ==
  ASSUME bids' = bids
  PROVE  /\ Counted' = Counted /\ CountedAt' = CountedAt /\ Unclaimed' = Unclaimed
         /\ QuantityOf' = QuantityOf /\ EscrowOf' = EscrowOf
         /\ AllAccountedFor' = AllAccountedFor
         /\ state' = state /\ sale' = sale =>
               TokensOf' = TokensOf /\ PaidOf' = PaidOf /\ RefundOf' = RefundOf
PROOF
<1>1. Counted' = Counted
  BY DEF Counted, Eligible
<1>2. CountedAt' = CountedAt
  BY <1>1 DEF CountedAt
<1> QED BY <1>1, <1>2 DEF Unclaimed, QuantityOf, EscrowOf, AllAccountedFor, TokensOf, PaidOf, RefundOf,
                          Tokens, Paid, Refund, AllocationOf, Eligible

\* A claim changes nothing but its mark.
LEMMA ClaimSame ==
  ASSUME TypeOK, NEW i \in DOMAIN bids, bids' = [bids EXCEPT ![i].claimed = TRUE]
  PROVE  /\ DOMAIN bids' = DOMAIN bids /\ TypeOK => bids' \in Seq(BidRecord)
         /\ \A j \in DOMAIN bids :
               /\ bids'[j].bidder = bids[j].bidder /\ bids'[j].commitment = bids[j].commitment
               /\ bids'[j].escrow = bids[j].escrow /\ bids'[j].revealed = bids[j].revealed
               /\ bids'[j].voided = bids[j].voided /\ bids'[j].quantity = bids[j].quantity
               /\ bids'[j].tick = bids[j].tick
               /\ bids'[j].claimed = (bids[j].claimed \/ j = i)
         /\ CountedAt' = CountedAt /\ Unclaimed' = Unclaimed \ {i}
         /\ QuantityOf' = QuantityOf /\ EscrowOf' = EscrowOf
         /\ state' = state /\ sale' = sale =>
               TokensOf' = TokensOf /\ PaidOf' = PaidOf /\ RefundOf' = RefundOf
PROOF
<1>1. bids \in Seq(BidRecord) /\ bids[i] \in BidRecord
  BY DEF TypeOK
<1>2. PICK b : b = bids[i]
  OBVIOUS
<1>3. PICK c : c = [b EXCEPT !.claimed = TRUE]
  OBVIOUS
<1>4. c \in BidRecord
  BY <1>1, <1>2, <1>3 DEF BidRecord
<1>5. /\ c.bidder = b.bidder /\ c.commitment = b.commitment /\ c.escrow = b.escrow /\ c.revealed = b.revealed
      /\ c.voided = b.voided /\ c.quantity = b.quantity /\ c.tick = b.tick /\ c.claimed = TRUE
  BY <1>1, <1>2, <1>3 DEF BidRecord
<1>6. bids' = [bids EXCEPT ![i] = c]
  BY <1>2, <1>3
<1>7. bids' \in Seq(BidRecord) /\ DOMAIN bids' = DOMAIN bids
  <2>1. i \in 1 .. Len(bids) /\ DOMAIN bids = 1 .. Len(bids)
    BY <1>1
  <2>2. [bids EXCEPT ![i] = c] \in Seq(BidRecord)
    BY <1>1, <1>4, <2>1, ExceptSeq
  <2> QED BY <1>6, <2>2
<1>8. \A j \in DOMAIN bids :
               /\ bids'[j].bidder = bids[j].bidder /\ bids'[j].commitment = bids[j].commitment
               /\ bids'[j].escrow = bids[j].escrow /\ bids'[j].revealed = bids[j].revealed
               /\ bids'[j].voided = bids[j].voided /\ bids'[j].quantity = bids[j].quantity
               /\ bids'[j].tick = bids[j].tick
               /\ bids'[j].claimed = (bids[j].claimed \/ j = i)
  <2> TAKE j \in DOMAIN bids
  <2>1. CASE j = i
    BY <1>1, <1>2, <1>5, <1>6, <2>1
  <2>2. CASE j # i
    <3>1. bids'[j] = bids[j] /\ bids[j].claimed \in BOOLEAN
      BY <1>6, <2>2, BidFields
    <3> QED BY <2>2, <3>1
  <2> QED BY <2>1, <2>2
<1>9. Unclaimed' = Unclaimed \ {i}
  BY <1>7, <1>8 DEF Unclaimed
<1>10. \A j \in DOMAIN bids : \A q, t : Eligible(bids'[j], q, t) <=> Eligible(bids[j], q, t)
  BY <1>8, Zenon DEF Eligible
<1>11. Counted' = {j \in DOMAIN bids' : /\ bids'[j].revealed /\ ~bids'[j].voided
                                        /\ Eligible(bids'[j], bids'[j].quantity, bids'[j].tick)}
  BY DEF Counted, Eligible
<1>12. Counted' = Counted
  <2>1. \A j \in DOMAIN bids : Eligible(bids'[j], bids'[j].quantity, bids'[j].tick) <=> Eligible(bids[j], bids[j].quantity, bids[j].tick)
    <3> TAKE j \in DOMAIN bids
    <3>1. bids'[j].quantity = bids[j].quantity /\ bids'[j].tick = bids[j].tick
      BY <1>8
    <3> QED BY <1>10, <3>1, Zenon
  <2>2. \A j \in DOMAIN bids : j \in Counted' <=> j \in Counted
    <3> TAKE j \in DOMAIN bids
    <3>1. bids'[j].revealed = bids[j].revealed /\ bids'[j].voided = bids[j].voided
      BY <1>8
    <3> QED BY <1>7, <1>11, <2>1, <3>1, Zenon DEF Counted
  <2>3. Counted' \subseteq DOMAIN bids /\ Counted \subseteq DOMAIN bids
    BY <1>7, <1>11, Zenon DEF Counted
  <2> QED BY <2>2, <2>3
<1>13. CountedAt' = CountedAt
  <2>1. \A t \in Ticks : {j \in Counted' : bids'[j].tick = t} = {j \in Counted : bids[j].tick = t}
    <3>1. \A j \in Counted : j \in DOMAIN bids
      BY DEF Counted
    <3> QED BY <1>8, <1>12, <3>1
  <2>2. CountedAt' = [t \in Ticks |-> {j \in Counted' : bids'[j].tick = t}]
    BY DEF CountedAt
  <2> QED BY <2>1, <2>2, Zenon DEF CountedAt
<1>14. QuantityOf' = QuantityOf /\ EscrowOf' = EscrowOf
  BY <1>7, <1>8 DEF QuantityOf, EscrowOf
<1>15. ASSUME state' = state, sale' = sale
       PROVE  TokensOf' = TokensOf /\ PaidOf' = PaidOf /\ RefundOf' = RefundOf
  <2>1. \A j \in DOMAIN bids : AllocationOf(bids[j])' = AllocationOf(bids[j])
    <3> TAKE j \in DOMAIN bids
    <3>1. AllocationOf(bids[j])' =
              IF ~bids'[j].revealed \/ bids'[j].voided \/ ~Eligible(bids'[j], bids'[j].quantity, bids'[j].tick) THEN 0
              ELSE AllocationFor(sale'.clearing, bids'[j].quantity, bids'[j].tick)
      BY DEF AllocationOf, Eligible
    <3>2. /\ bids'[j].revealed = bids[j].revealed /\ bids'[j].voided = bids[j].voided
          /\ bids'[j].quantity = bids[j].quantity /\ bids'[j].tick = bids[j].tick
      BY <1>8
    <3>3. AllocationOf(bids[j]) =
              IF ~bids[j].revealed \/ bids[j].voided \/ ~Eligible(bids[j], bids[j].quantity, bids[j].tick) THEN 0
              ELSE AllocationFor(sale.clearing, bids[j].quantity, bids[j].tick)
      BY DEF AllocationOf
    <3>4. Eligible(bids'[j], bids'[j].quantity, bids'[j].tick) <=> Eligible(bids[j], bids[j].quantity, bids[j].tick)
      BY <1>10, <3>2, Zenon
    <3> QED BY <1>15, <3>1, <3>2, <3>3, <3>4
  <2>2. \A j \in DOMAIN bids : /\ Tokens(bids[j])' = Tokens(bids[j]) /\ Paid(bids[j])' = Paid(bids[j])
                               /\ Refund(bids[j])' = Refund(bids[j])
    BY <1>8, <1>15, <2>1 DEF Tokens, Paid, Refund
  <2> QED BY <1>7, <2>2 DEF TokensOf, PaidOf, RefundOf
<1> QED BY <1>7, <1>8, <1>9, <1>13, <1>14, <1>15


\* What a transaction of reveals does to each bid.
LEMMA RevealedBids ==
  ASSUME TypeOK, NEW C \in SUBSET DOMAIN bids, NEW F \in SUBSET C, Reveals(C, F)
  PROVE  /\ bids' \in Seq(BidRecord) /\ DOMAIN bids' = DOMAIN bids
         /\ \A j \in DOMAIN bids :
               /\ bids'[j].bidder = bids[j].bidder /\ bids'[j].commitment = bids[j].commitment
               /\ bids'[j].escrow = bids[j].escrow /\ bids'[j].claimed = bids[j].claimed
               /\ j \notin C => bids'[j] = bids[j]
               /\ j \in C => bids'[j].revealed /\ ~bids[j].revealed /\ root[j] \in LeafRecord /\ root[j].tick \in Ticks
               /\ j \in F => /\ bids'[j].quantity = root[j].quantity /\ bids'[j].tick = root[j].tick
                             /\ bids'[j].voided = bids[j].voided /\ bids[j].commitment = root[j]
               /\ j \in C \ F => bids'[j].voided
PROOF
<1>1. bids \in Seq(BidRecord) /\ DOMAIN bids = 1 .. Len(bids) /\ Len(bids) \in Nat
  BY DEF TypeOK
<1>2. \A j \in C : ~bids[j].revealed /\ root[j] \in LeafRecord /\ root[j].tick \in Ticks
  BY DEF Reveals
<1>3. \A j \in F : bids[j].commitment = root[j]
  BY DEF Reveals
<1>4. bids' = [j \in DOMAIN bids |->
                  IF j \notin C THEN bids[j]
                  ELSE IF j \in F THEN [bids[j] EXCEPT !.revealed = TRUE, !.quantity = root[j].quantity,
                                                       !.tick = root[j].tick]
                  ELSE [bids[j] EXCEPT !.revealed = TRUE, !.voided = TRUE]]
  BY DEF Reveals
<1>5. DOMAIN bids' = DOMAIN bids
  BY <1>4, Zenon
<1>6. ASSUME NEW j \in DOMAIN bids
      PROVE  /\ bids'[j] \in BidRecord
             /\ bids'[j].bidder = bids[j].bidder /\ bids'[j].commitment = bids[j].commitment
             /\ bids'[j].escrow = bids[j].escrow /\ bids'[j].claimed = bids[j].claimed
             /\ j \notin C => bids'[j] = bids[j]
             /\ j \in C => bids'[j].revealed
             /\ j \in F => /\ bids'[j].quantity = root[j].quantity /\ bids'[j].tick = root[j].tick
                           /\ bids'[j].voided = bids[j].voided
             /\ j \in C \ F => bids'[j].voided
  <2>1. PICK b \in BidRecord : b = bids[j]
    BY <1>1
  <2>2. bids'[j] = IF j \notin C THEN b
                  ELSE IF j \in F THEN [b EXCEPT !.revealed = TRUE, !.quantity = root[j].quantity,
                                                       !.tick = root[j].tick]
                  ELSE [b EXCEPT !.revealed = TRUE, !.voided = TRUE]
    BY <1>4, <2>1, Zenon
  <2>3. CASE j \notin C
    BY <2>1, <2>2, <2>3
  <2>4. CASE j \in F
    <3>1. PICK l \in LeafRecord : l = root[j] /\ l.quantity \in Nat /\ l.tick \in Nat
      BY <1>2, <2>4 DEF LeafRecord
    <3>2. bids'[j] = [b EXCEPT !.revealed = TRUE, !.quantity = l.quantity, !.tick = l.tick]
      BY <2>2, <2>4, <3>1
    <3> QED BY <2>1, <2>4, <3>1, <3>2 DEF BidRecord
  <2>5. CASE j \in C \ F
    <3>1. bids'[j] = [b EXCEPT !.revealed = TRUE, !.voided = TRUE]
      BY <2>2, <2>5
    <3> QED BY <2>1, <2>5, <3>1 DEF BidRecord
  <2> QED BY <2>3, <2>4, <2>5
<1>7. bids' \in Seq(BidRecord)
  <2>1. bids' \in [1 .. Len(bids) -> BidRecord]
    <3>1. bids' = [j \in 1 .. Len(bids) |-> bids'[j]]
      BY <1>1, <1>4, Zenon
    <3>2. \A j \in 1 .. Len(bids) : bids'[j] \in BidRecord
      BY <1>1, <1>6
    <3> QED BY <3>1, <3>2
  <2> QED BY <1>1, <2>1, SeqDef
<1> QED BY <1>2, <1>3, <1>5, <1>6, <1>7

LEMMA RevealsDemand ==
  ASSUME BookInv, NEW C \in SUBSET DOMAIN bids, NEW F \in SUBSET C, Reveals(C, F)
  PROVE  DemandKept'
PROOF
<1> TypeOK
  BY DEF BookInv
<1> USE RevealedBids
<1>1. ASSUME NEW t \in Ticks
      PROVE  demand'[t] = SumFunctionOnSet(QuantityOf', (CountedAt')[t])
  <2> DEFINE asked == [i \in C |-> root[i].quantity]
             added == {i \in F : root[i].tick = t /\ Eligible(bids[i], root[i].quantity, t)}
             old == CountedAt[t]
             new == (CountedAt')[t]
  <2>1. demand'[t] = demand[t] + SumFunctionOnSet(asked, added)
    BY Zenon DEF Reveals
  <2>2. demand[t] = SumFunctionOnSet(QuantityOf, old)
    BY DEF BookInv, DemandKept
  <2>3. \A i \in DOMAIN bids : i \in old <=>
            /\ bids[i].revealed /\ ~bids[i].voided /\ bids[i].tick = t
            /\ Eligible(bids[i], bids[i].quantity, bids[i].tick)
    BY DEF CountedAt, Counted
  <2>4. \A i \in DOMAIN bids : i \in new <=>
            /\ bids'[i].revealed /\ ~bids'[i].voided /\ bids'[i].tick = t
            /\ Eligible(bids'[i], bids'[i].quantity, bids'[i].tick)
    <3>1. Counted' = {i \in DOMAIN bids' : /\ bids'[i].revealed /\ ~bids'[i].voided
                                           /\ Eligible(bids'[i], bids'[i].quantity, bids'[i].tick)}
      BY DEF Counted, Eligible
    <3>2. new = {i \in Counted' : bids'[i].tick = t}
      BY DEF CountedAt
    <3>3. DOMAIN bids' = DOMAIN bids
      OBVIOUS
    <3> QED BY <3>1, <3>2, <3>3
  <2>5. old \subseteq DOMAIN bids /\ new \subseteq DOMAIN bids
    <3>1. DOMAIN bids' = DOMAIN bids
      OBVIOUS
    <3> QED BY <3>1 DEF CountedAt, Counted
  <2>6. \A i \in DOMAIN bids : \A q, x : Eligible(bids'[i], q, x) <=> Eligible(bids[i], q, x)
    <3>1. \A i \in DOMAIN bids : bids'[i].escrow = bids[i].escrow
      OBVIOUS
    <3> QED BY <3>1, Zenon DEF Eligible
  <2>7. ASSUME NEW i \in DOMAIN bids PROVE i \in new <=> i \in old \/ i \in added
    <3>1. bids[i].voided => bids[i].revealed
      BY DEF BookInv, RevealsKept
    <3>2. CASE i \notin C
      <4>1. bids'[i] = bids[i] /\ i \notin added
        BY <3>2
      <4> QED BY <2>3, <2>4, <2>6, <4>1
    <3>3. CASE i \in C \ F
      <4>1. bids'[i].voided /\ ~bids[i].revealed /\ i \notin added
        BY <3>3
      <4> QED BY <2>3, <2>4, <4>1
    <3>4. CASE i \in F
      <4>1. /\ bids'[i].revealed /\ ~bids[i].revealed /\ ~bids'[i].voided
            /\ bids'[i].quantity = root[i].quantity /\ bids'[i].tick = root[i].tick
        <5>1. bids[i].voided \in BOOLEAN /\ bids'[i].voided = bids[i].voided /\ ~bids[i].revealed
          BY <3>4, BidFields
        <5> QED BY <3>1, <3>4, <5>1
      <4>2. i \in new <=> /\ root[i].tick = t
                          /\ Eligible(bids'[i], root[i].quantity, root[i].tick)
        BY <2>4, <4>1
      <4>3. i \in added <=> root[i].tick = t /\ Eligible(bids[i], root[i].quantity, t)
        BY <3>4
      <4>4. Eligible(bids'[i], root[i].quantity, root[i].tick) <=> Eligible(bids[i], root[i].quantity, root[i].tick)
        BY <2>6
      <4>5. i \notin old
        BY <2>3, <4>1
      <4> QED BY <4>2, <4>3, <4>4, <4>5
    <3> QED BY <3>2, <3>3, <3>4
  <2>8. added \subseteq F /\ F \subseteq DOMAIN bids /\ \A i \in F : ~bids[i].revealed
    BY DEF Reveals
  <2>9. new = old \cup added /\ old \cap added = {}
    <3>1. \A i \in added : i \notin old /\ i \in DOMAIN bids
      BY <2>3, <2>8
    <3> HIDE DEF old, new, added
    <3>2. \A i : i \in new <=> i \in old \/ i \in added
      BY <2>5, <2>7, <3>1
    <3> QED BY <3>1, <3>2
  <2>10. IsFiniteSet(old) /\ IsFiniteSet(added)
    BY <2>5, <2>8, BidsFinite, FS_Subset
  <2>11. \A i \in DOMAIN bids : QuantityOf[i] = bids[i].quantity /\ QuantityOf'[i] = bids'[i].quantity
    <3>1. DOMAIN bids' = DOMAIN bids
      OBVIOUS
    <3> QED BY <3>1 DEF QuantityOf
  <2>12. \A i \in old : QuantityOf[i] \in Int /\ QuantityOf'[i] = QuantityOf[i] /\ QuantityOf'[i] \in Int
    <3> TAKE i \in old
    <3>1. i \in DOMAIN bids /\ bids[i].revealed
      BY <2>3, <2>5
    <3>2. i \notin C
      BY <3>1
    <3>3. bids'[i] = bids[i] /\ bids[i].quantity \in Nat
      BY <3>1, <3>2, BidFields
    <3> QED BY <2>11, <3>1, <3>3
  <2>13. \A i \in added : asked[i] \in Int /\ QuantityOf'[i] = asked[i] /\ QuantityOf'[i] \in Int
    <3> TAKE i \in added
    <3>1. i \in F /\ i \in DOMAIN bids /\ i \in C
      BY <2>8
    <3>2. asked[i] = root[i].quantity /\ root[i] \in LeafRecord /\ bids'[i].quantity = root[i].quantity
      BY <3>1
    <3> QED BY <2>11, <3>1, <3>2 DEF LeafRecord
  <2>14. PICK Q : Q = QuantityOf'
    OBVIOUS
  <2> HIDE DEF old, added, new, asked
  <2>15. SumFunctionOnSet(Q, old) = SumFunctionOnSet(QuantityOf, old)
    BY <2>10, <2>12, <2>14, SumSame
  <2>16. SumFunctionOnSet(Q, added) = SumFunctionOnSet(asked, added)
    BY <2>10, <2>13, <2>14, SumSame
  <2>17. SumFunctionOnSet(Q, old \cup added) = SumFunctionOnSet(Q, old) + SumFunctionOnSet(Q, added)
    <3>1. \A i \in old \cup added : Q[i] \in Int
      BY <2>12, <2>13, <2>14
    <3> QED BY <2>9, <2>10, <3>1, SumUnion
  <2>18. demand'[t] = SumFunctionOnSet(Q, new)
    BY <2>1, <2>2, <2>9, <2>15, <2>16, <2>17
  <2> QED BY <2>14, <2>18 DEF new
<1> QED BY <1>1 DEF DemandKept


\* A bid joins the book behind the others, unrevealed.
LEMMA BidAdded ==
  ASSUME TypeOK, NEW a \in Bidders, NEW c \in Plaintexts \cup {Junk}, NEW e \in Escrows, commitBid(a, c, e)
  PROVE  /\ bids' \in Seq(BidRecord)
         /\ DOMAIN bids' = DOMAIN bids \cup {Len(bids) + 1} /\ Len(bids) + 1 \notin DOMAIN bids
         /\ \A i \in DOMAIN bids : bids'[i] = bids[i]
         /\ ~bids'[Len(bids) + 1].revealed /\ ~bids'[Len(bids) + 1].voided /\ ~bids'[Len(bids) + 1].claimed
         /\ bids'[Len(bids) + 1].escrow = e /\ e \in Nat
         /\ Unclaimed' = Unclaimed \cup {Len(bids) + 1} /\ CountedAt' = CountedAt
PROOF
<1>1. PICK b : b = [bidder |-> a, commitment |-> c, escrow |-> e, revealed |-> FALSE, voided |-> FALSE,
                    claimed |-> FALSE, quantity |-> 0, tick |-> 0]
  OBVIOUS
<1>2. b \in BidRecord /\ ~b.revealed /\ ~b.voided /\ ~b.claimed /\ b.escrow = e /\ e \in Nat
  BY <1>1, Config DEF BidRecord
<1>3. bids \in Seq(BidRecord) /\ bids' = Append(bids, b)
  BY <1>1 DEF commitBid, TypeOK
<1>4. /\ bids' \in Seq(BidRecord)
      /\ DOMAIN bids' = DOMAIN bids \cup {Len(bids) + 1} /\ Len(bids) + 1 \notin DOMAIN bids
      /\ \A i \in DOMAIN bids : bids'[i] = bids[i]
      /\ bids'[Len(bids) + 1] = b
  BY <1>2, <1>3
<1>5. PICK n : n = Len(bids) + 1
  OBVIOUS
<1>6. DOMAIN bids' = DOMAIN bids \cup {n} /\ n \notin DOMAIN bids /\ bids'[n] = b
  BY <1>4, <1>5
<1>7. Unclaimed' = Unclaimed \cup {n}
  <2>1. Unclaimed' = {i \in DOMAIN bids' : ~bids'[i].claimed}
    BY DEF Unclaimed
  <2> QED BY <1>2, <1>4, <1>6, <2>1 DEF Unclaimed
<1>8. Counted' = Counted
  <2>1. Counted' = {i \in DOMAIN bids' : /\ bids'[i].revealed /\ ~bids'[i].voided
                                         /\ Eligible(bids'[i], bids'[i].quantity, bids'[i].tick)}
    BY DEF Counted, Eligible
  <2>2. \A i : i \in Counted' <=> i \in Counted
    <3> TAKE i
    <3>1. CASE i = n
      <4>1. ~bids'[i].revealed /\ i \notin DOMAIN bids
        BY <1>2, <1>6, <3>1
      <4> QED BY <2>1, <4>1, Zenon DEF Counted
    <3>2. CASE i # n
      <4>1. i \in DOMAIN bids' <=> i \in DOMAIN bids
        BY <1>6, <3>2
      <4>2. i \in DOMAIN bids => bids'[i] = bids[i]
        BY <1>4
      <4> QED BY <2>1, <4>1, <4>2, Zenon DEF Counted
    <3> QED BY <3>1, <3>2
  <2> QED BY <2>2
<1>9. CountedAt' = CountedAt
  <2>1. \A t \in Ticks : {i \in Counted' : bids'[i].tick = t} = {i \in Counted : bids[i].tick = t}
    <3>1. \A i \in Counted : bids'[i] = bids[i]
      BY <1>4 DEF Counted
    <3> QED BY <1>8, <3>1
  <2>2. CountedAt' = [t \in Ticks |-> {i \in Counted' : bids'[i].tick = t}]
    BY DEF CountedAt
  <2> QED BY <2>1, <2>2, Zenon DEF CountedAt
<1> QED BY <1>2, <1>4, <1>5, <1>6, <1>7, <1>9

LEMMA BookInit ==
  ASSUME Init
  PROVE  BookInv
PROOF
<1>1. DOMAIN bids = {} /\ bids \in Seq(BidRecord) /\ bids = <<>>
  <2>1. <<>> \in Seq(BidRecord)
    BY EmptySeq
  <2> QED BY <2>1 DEF Init
<1>2. TypeOK
  <2>1. demand \in [Ticks -> Nat]
    BY DEF Init
  <2> QED BY <1>1, <2>1 DEF Init, TypeOK, States
<1>3. Phases /\ RevealsKept /\ SaleKept
  BY <1>1 DEF Init, Phases, RevealsKept, SaleKept
<1>4. DemandKept
  <2>1. ASSUME NEW t \in Ticks PROVE demand[t] = SumFunctionOnSet(QuantityOf, CountedAt[t])
    <3>1. CountedAt[t] = {}
      BY <1>1 DEF CountedAt, Counted
    <3>2. SumFunctionOnSet(QuantityOf, {}) = 0
      BY SumUnfold, FS_EmptySet
    <3>3. demand[t] = 0
      BY DEF Init
    <3> QED BY <3>1, <3>2, <3>3
  <2> QED BY <2>1 DEF DemandKept
<1> QED BY <1>2, <1>3, <1>4 DEF BookInv

\* What the steps that leave the bids alone owe the invariant.
LEMMA BookQuiet ==
  ASSUME BookInv, bids' = bids, demand' = demand
  PROVE  /\ RevealsKept' /\ DemandKept'
         /\ state' = state /\ sale' = sale => SaleKept'
         /\ state' # "Settled" => SaleKept'
PROOF
<1>1. DemandKept'
  <2>1. CountedAt' = CountedAt /\ QuantityOf' = QuantityOf
    BY BidsSame
  <2> QED BY <2>1 DEF BookInv, DemandKept
<1>2. RevealsKept'
  BY DEF BookInv, RevealsKept
<1>3. ASSUME state' = state, sale' = sale
      PROVE  SaleKept'
  <2>1. AllAccountedFor' = AllAccountedFor
    BY BidsSame
  <2>2. FindClearingTick(demand, TotalSupply)' = FindClearingTick(demand, TotalSupply)
    OBVIOUS
  <2> QED BY <1>3, <2>1, <2>2 DEF BookInv, SaleKept, Sale
<1> QED BY <1>1, <1>2, <1>3 DEF SaleKept

LEMMA BookStep ==
  ASSUME BookInv, AuctionStep
  PROVE  BookInv'
PROOF
<1> TypeOK /\ Phases /\ RevealsKept /\ DemandKept /\ SaleKept
  BY DEF BookInv
<1> USE Config
<1>a. SUFFICES TypeOK' /\ Phases' /\ RevealsKept' /\ DemandKept' /\ SaleKept'
  BY DEF BookInv
<1>1. CASE Tick \/ UNCHANGED vars
  <2>1. UNCHANGED <<state, bids, root, demand, sale, proceedsClaimed, unsoldClaimed, saleHeld, quoteHeld>>
    BY <1>1 DEF Tick, vars, book, issuerClaims, held
  <2>2. TypeOK' /\ Phases'
    BY <2>1 DEF TypeOK, Phases
  <2> QED BY <2>1, <2>2, BookQuiet
<1>2. CASE fund
  <2>1. /\ UNCHANGED <<bids, root, demand, sale, proceedsClaimed, unsoldClaimed, quoteHeld>>
        /\ state = "Created" /\ state' = "Funded" /\ saleHeld' = saleHeld + TotalSupply
    BY <1>2 DEF fund, book, issuerClaims, held
  <2>2. TypeOK' /\ Phases'
    BY <2>1 DEF TypeOK, Phases, States
  <2> QED BY <2>1, <2>2, BookQuiet
<1>3. CASE openCommit
  <2>1. /\ UNCHANGED <<bids, root, demand, sale, proceedsClaimed, unsoldClaimed, saleHeld, quoteHeld>>
        /\ state = "Funded" /\ state' = "CommitOpen"
    BY <1>3 DEF openCommit, book, issuerClaims, held
  <2>2. TypeOK' /\ Phases'
    BY <2>1 DEF TypeOK, Phases, States
  <2> QED BY <2>1, <2>2, BookQuiet
<1>4. CASE cancel
  <2>1. /\ UNCHANGED <<bids, root, demand, sale, proceedsClaimed, unsoldClaimed, quoteHeld>>
        /\ state' = "Cancelled"
        /\ \/ state = "Created" /\ saleHeld' = saleHeld
           \/ MayCancel /\ saleHeld' = saleHeld - TotalSupply
    BY <1>4 DEF cancel, book, issuerClaims, held
  <2>2. bids = <<>> /\ saleHeld' = 0
    <3>1. Len(bids) = 0 => bids = <<>>
      BY DEF TypeOK
    <3> QED BY <2>1, <3>1 DEF MayCancel, Phases, TypeOK
  <2>3. TypeOK' /\ Phases'
    BY <2>1, <2>2 DEF TypeOK, Phases, States, MayCancel
  <2> QED BY <2>1, <2>3, BookQuiet
<1>5. CASE AnyBid
  <2>1. PICK a \in Bidders, c \in Plaintexts \cup {Junk}, e \in Escrows : commitBid(a, c, e)
    BY <1>5 DEF AnyBid
  <2>2. /\ UNCHANGED <<state, root, demand, sale, proceedsClaimed, unsoldClaimed, saleHeld>>
        /\ state = "CommitOpen" /\ quoteHeld' = quoteHeld + e
    BY <2>1 DEF commitBid, issuerClaims
  <2>3. PICK n : n = Len(bids) + 1
    OBVIOUS
  <2>4. /\ bids' \in Seq(BidRecord)
        /\ DOMAIN bids' = DOMAIN bids \cup {n} /\ n \notin DOMAIN bids
        /\ \A i \in DOMAIN bids : bids'[i] = bids[i]
        /\ ~bids'[n].revealed /\ ~bids'[n].voided /\ ~bids'[n].claimed
        /\ e \in Nat /\ CountedAt' = CountedAt
    BY <2>1, <2>3, BidAdded
  <2>5. TypeOK'
    BY <2>2, <2>4 DEF TypeOK
  <2>6. Phases'
    BY <2>2, <2>4 DEF Phases
  <2>7. RevealsKept'
    BY <2>4 DEF RevealsKept
  <2>8. DemandKept'
    <3>1. ASSUME NEW t \in Ticks
          PROVE  SumFunctionOnSet(QuantityOf', CountedAt[t]) = SumFunctionOnSet(QuantityOf, CountedAt[t])
      <4>1. CountedAt[t] \subseteq DOMAIN bids /\ IsFiniteSet(CountedAt[t])
        <5>1. CountedAt[t] \subseteq Counted /\ Counted \subseteq DOMAIN bids
          BY DEF CountedAt, Counted
        <5> QED BY <5>1, BidsFinite, FS_Subset
      <4>2. \A i \in CountedAt[t] : QuantityOf[i] \in Int /\ QuantityOf'[i] = QuantityOf[i]
        <5> TAKE i \in CountedAt[t]
        <5>1. i \in DOMAIN bids /\ i \in DOMAIN bids' /\ bids[i].quantity \in Nat
          BY <2>4, <4>1, BidFields
        <5> QED BY <2>4, <5>1 DEF QuantityOf
      <4>3. PICK T, Q : T = CountedAt[t] /\ Q = QuantityOf'
        OBVIOUS
      <4> QED BY <4>1, <4>2, <4>3, SumSame
    <3> QED BY <2>2, <2>4, <3>1 DEF DemandKept
  <2>9. SaleKept'
    BY <2>2 DEF SaleKept
  <2> QED BY <2>5, <2>6, <2>7, <2>8, <2>9
<1>6. CASE closeCommit
  <2>1. /\ UNCHANGED <<bids, root, demand, sale, proceedsClaimed, unsoldClaimed, saleHeld, quoteHeld>>
        /\ state = "CommitOpen" /\ state' \in {"Failed", "CommitClosed"}
    BY <1>6 DEF closeCommit, book, issuerClaims, held
  <2>2. TypeOK' /\ Phases'
    BY <2>1 DEF TypeOK, Phases, States
  <2> QED BY <2>1, <2>2, BookQuiet
<1>7. CASE AnyRoot
  <2>1. PICK leaves : (\A i \in DOMAIN bids : leaves[i] \in LeafRecord \cup {None}) /\ registerRevealRoot(leaves)
    BY <1>7 DEF AnyRoot
  <2>2. /\ UNCHANGED <<bids, demand, sale, proceedsClaimed, unsoldClaimed, saleHeld, quoteHeld>>
        /\ state = "CommitClosed" /\ state' = "Revealing" /\ root' = leaves
    BY <2>1 DEF registerRevealRoot, issuerClaims, held
  <2>3. TypeOK' /\ Phases'
    BY <2>1, <2>2 DEF TypeOK, Phases, States
  <2> QED BY <2>2, <2>3, BookQuiet
<1>8. CASE AnyReveals
  <2>1. PICK C \in SUBSET DOMAIN bids : \E F \in SUBSET C : Reveals(C, F)
    BY <1>8 DEF AnyReveals
  <2>3. PICK F \in SUBSET C : Reveals(C, F)
    BY <2>1
  <2>4. /\ UNCHANGED <<state, root, sale, proceedsClaimed, unsoldClaimed, saleHeld, quoteHeld>>
        /\ state = "Revealing"
    BY <2>3 DEF Reveals, issuerClaims, held
  <2>5. /\ bids' \in Seq(BidRecord) /\ DOMAIN bids' = DOMAIN bids
        /\ \A j \in DOMAIN bids :
               /\ bids'[j].commitment = bids[j].commitment /\ bids'[j].claimed = bids[j].claimed
               /\ j \notin C => bids'[j] = bids[j]
               /\ j \in C => bids'[j].revealed /\ ~bids[j].revealed /\ root[j] \in LeafRecord /\ root[j].tick \in Ticks
               /\ j \in F => /\ bids'[j].quantity = root[j].quantity /\ bids'[j].tick = root[j].tick
                             /\ bids'[j].voided = bids[j].voided /\ bids[j].commitment = root[j]
               /\ j \in C \ F => bids'[j].voided
    BY <2>3, RevealedBids
  <2>6. DemandKept'
    BY <2>3, RevealsDemand
  <2>7. demand' \in [Ticks -> Nat]
    <3>1. ASSUME NEW t \in Ticks PROVE demand'[t] \in Nat
      <4> DEFINE asked == [i \in C |-> root[i].quantity]
                 added == {i \in F : root[i].tick = t /\ Eligible(bids[i], root[i].quantity, t)}
      <4>1. demand'[t] = demand[t] + SumFunctionOnSet(asked, added)
        BY <2>3, Zenon DEF Reveals
      <4>2. \A i \in added : asked[i] \in Nat
        <5> TAKE i \in added
        <5>1. i \in C /\ i \in DOMAIN bids /\ root[i] \in LeafRecord
          BY <2>5
        <5> QED BY <5>1 DEF LeafRecord
      <4>3. added \subseteq DOMAIN bids /\ IsFiniteSet(added)
        <5>1. added \subseteq DOMAIN bids
          OBVIOUS
        <5> HIDE DEF added
        <5> QED BY <5>1, BidsFinite, FS_Subset
      <4>4. demand[t] \in Nat
        BY DEF TypeOK
      <4> HIDE DEF asked, added
      <4>5. SumFunctionOnSet(asked, added) \in Nat
        BY <4>2, <4>3, SumNat
      <4> QED BY <4>1, <4>4, <4>5
    <3>2. demand' = [t \in Ticks |-> demand'[t]]
      <4>1. DOMAIN demand' = Ticks
        BY <2>3, Zenon DEF Reveals
      <4>2. demand' = [t \in DOMAIN demand' |-> demand'[t]]
        BY <2>3, Zenon DEF Reveals
      <4> QED BY <4>1, <4>2
    <3> QED BY <3>1, <3>2
  <2>8. TypeOK'
    BY <2>4, <2>5, <2>7 DEF TypeOK
  <2>9. Phases'
    BY <2>4, <2>5 DEF Phases
  <2>10. RevealsKept'
    <3>1. ASSUME NEW j \in DOMAIN bids
          PROVE  /\ bids'[j].voided => bids'[j].revealed
                 /\ bids'[j].revealed /\ ~bids'[j].voided =>
                       bids'[j].commitment = [quantity |-> bids'[j].quantity, tick |-> bids'[j].tick] /\ bids'[j].tick \in Ticks
      <4>1. CASE j \notin C
        <5>1. bids'[j] = bids[j]
          BY <2>5, <4>1
        <5> QED BY <5>1 DEF RevealsKept
      <4>2. CASE j \in C \ F
        BY <2>5, <4>2
      <4>3. CASE j \in F
        <5>1. PICK l \in LeafRecord : l = root[j] /\ l.tick \in Ticks /\ l = [quantity |-> l.quantity, tick |-> l.tick]
          BY <2>5, <4>3 DEF LeafRecord
        <5> QED BY <2>5, <4>3, <5>1
      <4> QED BY <4>1, <4>2, <4>3
    <3> QED BY <2>5, <3>1 DEF RevealsKept
  <2>11. SaleKept'
    BY <2>4 DEF SaleKept
  <2> QED BY <2>6, <2>8, <2>9, <2>10, <2>11
<1>9. CASE AnyDispute
  <2>1. PICK i \in DOMAIN bids : disputeVoid(i)
    BY <1>9 DEF AnyDispute
  <2>2. /\ UNCHANGED <<bids, root, demand, sale, proceedsClaimed, unsoldClaimed, saleHeld, quoteHeld>>
        /\ state = "Revealing" /\ state' = "Failed"
    BY <2>1 DEF disputeVoid, book, issuerClaims, held
  <2>3. TypeOK' /\ Phases'
    BY <2>2 DEF TypeOK, Phases, States
  <2> QED BY <2>2, <2>3, BookQuiet
<1>10. CASE finalize
  <2>1. /\ UNCHANGED <<bids, root, demand, proceedsClaimed, unsoldClaimed, saleHeld, quoteHeld>>
        /\ state = "Revealing" /\ AllAccountedFor
        /\ \/ state' = "Failed"
           \/ /\ FindClearingTick(demand, TotalSupply).cleared /\ state' = "Settled"
              /\ sale' = Sale(FindClearingTick(demand, TotalSupply))
    BY <1>10 DEF finalize, book, issuerClaims, held
  <2>2. TypeOK' /\ Phases'
    BY <2>1 DEF TypeOK, Phases, States
  <2>3. SaleKept'
    <3>1. AllAccountedFor' = AllAccountedFor
      BY <2>1, BidsSame
    <3>2. FindClearingTick(demand, TotalSupply)' = FindClearingTick(demand, TotalSupply)
      BY <2>1
    <3> QED BY <2>1, <3>1, <3>2 DEF SaleKept, Sale
  <2> QED BY <2>1, <2>2, <2>3, BookQuiet
<1>11. CASE failOnRevealTimeout
  <2>1. /\ UNCHANGED <<bids, root, demand, sale, proceedsClaimed, unsoldClaimed, saleHeld, quoteHeld>>
        /\ state \in {"CommitClosed", "Revealing"} /\ state' = "Failed"
    BY <1>11 DEF failOnRevealTimeout, AwaitingReveals, book, issuerClaims, held
  <2>2. TypeOK' /\ Phases'
    BY <2>1 DEF TypeOK, Phases, States
  <2> QED BY <2>1, <2>2, BookQuiet
<1>12. CASE AnyClaim
  <2>1. PICK i \in DOMAIN bids : claim(i)
    BY <1>12 DEF AnyClaim
  <2>2. /\ UNCHANGED <<state, root, demand, sale, proceedsClaimed, unsoldClaimed>>
        /\ bids' = [bids EXCEPT ![i].claimed = TRUE]
        /\ state \in {"Settled", "Failed", "Cancelled"}
        /\ Tokens(bids[i]) <= saleHeld /\ Refund(bids[i]) \in 0 .. quoteHeld
        /\ saleHeld' = saleHeld - Tokens(bids[i]) /\ quoteHeld' = quoteHeld - Refund(bids[i])
    BY <2>1 DEF claim, MayClaim, issuerClaims
  <2>3. state # "Cancelled"
    BY <2>2 DEF Phases
  <2>4. /\ bids' \in Seq(BidRecord) /\ DOMAIN bids' = DOMAIN bids
        /\ \A j \in DOMAIN bids :
               /\ bids'[j].commitment = bids[j].commitment
               /\ bids'[j].revealed = bids[j].revealed
               /\ bids'[j].voided = bids[j].voided /\ bids'[j].quantity = bids[j].quantity
               /\ bids'[j].tick = bids[j].tick
        /\ CountedAt' = CountedAt /\ QuantityOf' = QuantityOf
    BY <2>2, ClaimSame
  <2>5. Tokens(bids[i]) \in Nat
    BY <2>2, SettledSums DEF Tokens
  <2>6. TypeOK'
    BY <2>2, <2>3, <2>4, <2>5 DEF TypeOK
  <2>7. Phases'
    BY <2>2, <2>3 DEF Phases
  <2>8. RevealsKept' /\ DemandKept'
    BY <2>2, <2>4 DEF RevealsKept, DemandKept
  <2>9. SaleKept'
    <3>1. AllAccountedFor' <=> AllAccountedFor
      BY <2>4 DEF AllAccountedFor
    <3>2. FindClearingTick(demand, TotalSupply)' = FindClearingTick(demand, TotalSupply)
      BY <2>2
    <3> QED BY <2>2, <3>1, <3>2 DEF SaleKept, Sale
  <2> QED BY <2>6, <2>7, <2>8, <2>9
<1>13. CASE claimProceeds \/ claimUnsold
  <2>1. /\ UNCHANGED <<state, bids, root, demand, sale>> /\ state \in {"Settled", "Failed"}
        /\ proceedsClaimed' \in BOOLEAN /\ unsoldClaimed' \in BOOLEAN
    BY <1>13 DEF claimProceeds, claimUnsold, book, TypeOK
  <2>2. saleHeld' \in Nat /\ quoteHeld' \in Nat
    <3>1. CASE claimProceeds
      <4>1. sale.gross \in Nat
        BY <3>1, SettledSums DEF claimProceeds
      <4> QED BY <3>1, <4>1 DEF claimProceeds, TypeOK
    <3>2. CASE claimUnsold
      <4>1. Unsold \in Nat
        BY <2>1, SettledSums DEF Unsold
      <4> QED BY <3>2, <4>1 DEF claimUnsold, TypeOK
    <3> QED BY <1>13, <3>1, <3>2
  <2>3. TypeOK' /\ Phases'
    BY <2>1, <2>2 DEF TypeOK, Phases
  <2> QED BY <2>1, <2>3, BookQuiet
<1> QED BY <1>1, <1>2, <1>3, <1>4, <1>5, <1>6, <1>7, <1>8, <1>9, <1>10, <1>11, <1>12, <1>13 DEF AuctionStep


-----------------------------------------------------------------------------
(* The contract: what it holds *)

\* The three parts of HoldingsCoverClaims over the named sums.
LEMMA HoldingsForm ==
  /\ SaleCovered <=>
        (state \in {"Settled", "Failed"} =>
            saleHeld >= SumFunctionOnSet(TokensOf, Unclaimed) + (IF unsoldClaimed THEN 0 ELSE Unsold))
  /\ EscrowKept <=>
        /\ state # "Settled" => quoteHeld = SumFunctionOnSet(EscrowOf, Unclaimed)
        /\ state = "Cancelled" => bids = <<>> /\ saleHeld = 0
  /\ QuoteAccounted <=>
        (state = "Settled" =>
            /\ SumFunctionOnSet(PaidOf, DOMAIN bids) <= sale.gross
            /\ quoteHeld + (sale.gross - SumFunctionOnSet(PaidOf, DOMAIN bids)) =
                  SumFunctionOnSet(RefundOf, Unclaimed) + (IF proceedsClaimed THEN 0 ELSE sale.gross))
  BY DEF SaleCovered, EscrowKept, QuoteAccounted, TokensOf, EscrowOf, PaidOf, RefundOf

\* The same of the next state.
LEMMA HoldingsNext ==
  /\ SaleCovered' <=>
        (state' \in {"Settled", "Failed"} =>
            saleHeld' >= SumFunctionOnSet(TokensOf', Unclaimed') + (IF unsoldClaimed' THEN 0 ELSE Unsold'))
  /\ EscrowKept' <=>
        /\ state' # "Settled" => quoteHeld' = SumFunctionOnSet(EscrowOf', Unclaimed')
        /\ state' = "Cancelled" => bids' = <<>> /\ saleHeld' = 0
  /\ QuoteAccounted' <=>
        (state' = "Settled" =>
            /\ SumFunctionOnSet(PaidOf', DOMAIN bids') <= sale'.gross
            /\ quoteHeld' + (sale'.gross - SumFunctionOnSet(PaidOf', DOMAIN bids')) =
                  SumFunctionOnSet(RefundOf', Unclaimed') + (IF proceedsClaimed' THEN 0 ELSE sale'.gross))
  BY DEF SaleCovered, EscrowKept, QuoteAccounted, TokensOf, EscrowOf, PaidOf, RefundOf

SettlementAddsUp ==
    /\ \A i \in DOMAIN bids : Tokens(bids[i]) \in Nat /\ Paid(bids[i]) \in Nat
    /\ sale.clearing.supplySold \in 0 .. TotalSupply
    /\ sale.gross \in Nat
    /\ SumFunctionOnSet(TokensOf, DOMAIN bids) <= sale.clearing.supplySold
    /\ SumFunctionOnSet(PaidOf, DOMAIN bids) <= sale.gross

LEMMA SettledNext == (BookInv /\ state = "Settled" => SettlementAddsUp)'
PROOF
<1>1. BookInv /\ state = "Settled" => SettlementAddsUp
  BY SettledSums DEF SettlementAddsUp
<1> QED BY <1>1, PTL

\* An auction that has just failed holds the whole supply and every escrow.
LEMMA FailedCovered ==
  ASSUME AuctionInv, BookInv', bids' = bids, state \notin {"Settled", "Failed"}, state' = "Failed",
         UNCHANGED <<saleHeld, quoteHeld, unsoldClaimed>>, state \notin {"Created", "Cancelled"}
  PROVE  HoldingsCoverClaims'
PROOF
<1>1. TypeOK /\ TypeOK' /\ saleHeld = TotalSupply /\ ~unsoldClaimed
  BY DEF AuctionInv, BookInv, Phases
<1>2. EscrowOf' = EscrowOf /\ Unclaimed' = Unclaimed
  BY BidsSame
<1>3. quoteHeld = SumFunctionOnSet(EscrowOf, Unclaimed)
  BY HoldingsForm DEF AuctionInv, HoldingsCoverClaims
<1>4. SumFunctionOnSet(TokensOf', Unclaimed') = 0
  <2>1. PICK T, U : T = TokensOf' /\ U = Unclaimed'
    OBVIOUS
  <2>2. IsFiniteSet(U)
    BY <1>1, <1>2, <2>1, BidsFinite
  <2>3. \A i \in U : T[i] = 0
    <3>1. T = [i \in DOMAIN bids |-> 0]
      BY <2>1 DEF TokensOf, Tokens
    <3>2. U \subseteq DOMAIN bids
      BY <1>1, <1>2, <2>1, BidsFinite
    <3> QED BY <3>1, <3>2
  <2>4. SumFunctionOnSet(T, U) = 0
    BY <2>2, <2>3, SumZero
  <2> QED BY <2>1, <2>4
<1>5. Unsold' = TotalSupply
  BY Config DEF Unsold
<1>6. SaleCovered'
  BY <1>1, <1>4, <1>5, Config, HoldingsNext
<1>7. EscrowKept' /\ QuoteAccounted'
  BY <1>2, <1>3, HoldingsNext
<1> QED BY <1>6, <1>7 DEF HoldingsCoverClaims

\* A settlement owes no more than it holds, but for what flooring the proceeds
\* once collects more than flooring every payment.
LEMMA SettledCovered ==
  ASSUME AuctionInv, BookInv', finalize, state' = "Settled"
  PROVE  HoldingsCoverClaims'
PROOF
<1>1. /\ TypeOK /\ TypeOK' /\ saleHeld = TotalSupply /\ ~unsoldClaimed /\ ~proceedsClaimed /\ state = "Revealing"
      /\ \A i \in DOMAIN bids : ~bids[i].claimed
      /\ UNCHANGED <<bids, saleHeld, quoteHeld, unsoldClaimed, proceedsClaimed>>
  BY DEF AuctionInv, BookInv, Phases, finalize, book, issuerClaims, held
<1>2. EscrowOf' = EscrowOf /\ Unclaimed' = Unclaimed /\ Unclaimed = DOMAIN bids
  BY <1>1, BidsSame DEF Unclaimed
<1>3. quoteHeld = SumFunctionOnSet(EscrowOf, DOMAIN bids)
  BY <1>1, <1>2, HoldingsForm DEF AuctionInv, HoldingsCoverClaims
<1>4. PICK D, T, P, R, E : /\ D = DOMAIN bids /\ D = DOMAIN bids' /\ T = TokensOf' /\ P = PaidOf' /\ R = RefundOf'
                           /\ E = EscrowOf' /\ E = EscrowOf
  BY <1>1, <1>2
<1>5. IsFiniteSet(D)
  BY <1>1, <1>4, BidsFinite
<1>6. /\ \A i \in D : Tokens(bids[i])' \in Nat /\ Paid(bids[i])' \in Nat
      /\ sale'.clearing.supplySold \in 0 .. TotalSupply /\ sale'.gross \in Nat
      /\ SumFunctionOnSet(T, D) <= sale'.clearing.supplySold
      /\ SumFunctionOnSet(P, D) <= sale'.gross
  BY <1>4, SettledNext DEF SettlementAddsUp
<1>7. \A i \in D : /\ T[i] \in Nat /\ P[i] \in Int /\ R[i] \in Int /\ E[i] \in Int /\ E[i] = R[i] + P[i]
  <2> TAKE i \in D
  <2>1. /\ T[i] = Tokens(bids[i])' /\ P[i] = Paid(bids[i])' /\ R[i] = Refund(bids[i])' /\ E[i] = bids[i].escrow
        /\ bids[i].escrow \in Nat /\ bids' = bids
    BY <1>1, <1>4, BidFields DEF TokensOf, PaidOf, RefundOf, EscrowOf
  <2>2. Refund(bids[i])' = bids[i].escrow - Paid(bids[i])'
    BY <2>1 DEF Refund
  <2> QED BY <1>6, <2>1, <2>2
<1>8. SumFunctionOnSet(E, D) = SumFunctionOnSet(R, D) + SumFunctionOnSet(P, D)
  BY <1>5, <1>7, SumPlus
<1>9. SumFunctionOnSet(T, D) \in Int /\ SumFunctionOnSet(P, D) \in Int /\ SumFunctionOnSet(R, D) \in Int
  BY <1>5, <1>7, SumSplit
<1>10. SaleCovered'
  <2>1. Unsold' = TotalSupply - sale'.clearing.supplySold
    BY DEF Unsold
  <2>2. saleHeld' >= SumFunctionOnSet(T, D) + (IF unsoldClaimed' THEN 0 ELSE Unsold')
    BY <1>1, <1>6, <1>9, <2>1, Config
  <2> QED BY <1>2, <1>4, <2>2, HoldingsNext
<1>11. EscrowKept'
  BY HoldingsNext
<1>12. QuoteAccounted'
  <2>1. quoteHeld' + (sale'.gross - SumFunctionOnSet(P, D)) =
            SumFunctionOnSet(R, D) + (IF proceedsClaimed' THEN 0 ELSE sale'.gross)
    BY <1>1, <1>3, <1>4, <1>6, <1>8, <1>9
  <2> QED BY <1>2, <1>4, <1>6, <2>1, HoldingsNext
<1> QED BY <1>10, <1>11, <1>12 DEF HoldingsCoverClaims

LEMMA ClaimCovered ==
  ASSUME AuctionInv, NEW i \in DOMAIN bids, claim(i)
  PROVE  HoldingsCoverClaims'
PROOF
<1>1. /\ UNCHANGED <<state, sale, proceedsClaimed, unsoldClaimed>>
      /\ bids' = [bids EXCEPT ![i].claimed = TRUE]
      /\ state \in {"Settled", "Failed", "Cancelled"} /\ ~bids[i].claimed
      /\ saleHeld' = saleHeld - Tokens(bids[i]) /\ quoteHeld' = quoteHeld - Refund(bids[i])
  BY DEF claim, MayClaim, issuerClaims
<1>2. TypeOK /\ BookInv /\ saleHeld \in Nat /\ quoteHeld \in Nat
  BY DEF AuctionInv, BookInv, TypeOK
<1>3. state \in {"Settled", "Failed"}
  BY <1>1 DEF AuctionInv, BookInv, Phases
<1>4. /\ DOMAIN bids' = DOMAIN bids /\ Unclaimed' = Unclaimed \ {i} /\ EscrowOf' = EscrowOf
      /\ TokensOf' = TokensOf /\ PaidOf' = PaidOf /\ RefundOf' = RefundOf
  BY <1>1, <1>2, ClaimSame
<1>5. i \in Unclaimed /\ Unclaimed \subseteq DOMAIN bids /\ IsFiniteSet(Unclaimed)
  BY <1>1, <1>2, BidsFinite DEF Unclaimed
<1>6. \A j \in DOMAIN bids : bids[j].escrow \in Nat /\ Tokens(bids[j]) \in Nat /\ Paid(bids[j]) \in Nat
  <2> TAKE j \in DOMAIN bids
  <2>1. bids[j].escrow \in Nat
    BY <1>2, BidFields
  <2>2. CASE state = "Settled"
    BY <1>2, <2>1, <2>2, SettledSums
  <2>3. CASE state # "Settled"
    BY <2>1, <2>3 DEF Tokens, Paid
  <2> QED BY <2>2, <2>3
<1>7. \A j \in Unclaimed : /\ TokensOf[j] \in Int /\ RefundOf[j] \in Int /\ EscrowOf[j] \in Int
                           /\ TokensOf[j] = Tokens(bids[j]) /\ RefundOf[j] = Refund(bids[j])
                           /\ EscrowOf[j] = bids[j].escrow
  <2> TAKE j \in Unclaimed
  <2>1. TokensOf[j] = Tokens(bids[j]) /\ RefundOf[j] = Refund(bids[j]) /\ EscrowOf[j] = bids[j].escrow
    BY <1>5 DEF TokensOf, RefundOf, EscrowOf
  <2>2. Refund(bids[j]) \in Int
    BY <1>5, <1>6 DEF Refund
  <2> QED BY <1>5, <1>6, <2>1, <2>2
<1>8. PICK tok \in Int, ref \in Int, esc \in Int :
        /\ tok = SumFunctionOnSet(TokensOf, Unclaimed \ {i})
        /\ ref = SumFunctionOnSet(RefundOf, Unclaimed \ {i})
        /\ esc = SumFunctionOnSet(EscrowOf, Unclaimed \ {i})
        /\ SumFunctionOnSet(TokensOf, Unclaimed) = Tokens(bids[i]) + tok
        /\ SumFunctionOnSet(RefundOf, Unclaimed) = Refund(bids[i]) + ref
        /\ SumFunctionOnSet(EscrowOf, Unclaimed) = bids[i].escrow + esc
  <2>1. IsFiniteSet(Unclaimed \ {i})
    BY <1>5, FS_Subset
  <2>2. SumFunctionOnSet(TokensOf, Unclaimed \ {i}) \in Int /\ SumFunctionOnSet(TokensOf, Unclaimed) = Tokens(bids[i]) + SumFunctionOnSet(TokensOf, Unclaimed \ {i})
    <3>1. \A j \in Unclaimed : TokensOf[j] \in Int
      BY <1>7
    <3>2. \A y \in Unclaimed : SumFunctionOnSet(TokensOf, Unclaimed) = TokensOf[y] + SumFunctionOnSet(TokensOf, Unclaimed \ {y})
      BY <1>5, <3>1, SumSplit
    <3>3. SumFunctionOnSet(TokensOf, Unclaimed \ {i}) \in Int
      BY <2>1, <3>1, SumSplit
    <3> QED BY <1>5, <1>7, <3>2, <3>3
  <2>3. SumFunctionOnSet(RefundOf, Unclaimed \ {i}) \in Int /\ SumFunctionOnSet(RefundOf, Unclaimed) = Refund(bids[i]) + SumFunctionOnSet(RefundOf, Unclaimed \ {i})
    <3>1. \A j \in Unclaimed : RefundOf[j] \in Int
      BY <1>7
    <3>2. \A y \in Unclaimed : SumFunctionOnSet(RefundOf, Unclaimed) = RefundOf[y] + SumFunctionOnSet(RefundOf, Unclaimed \ {y})
      BY <1>5, <3>1, SumSplit
    <3>3. SumFunctionOnSet(RefundOf, Unclaimed \ {i}) \in Int
      BY <2>1, <3>1, SumSplit
    <3> QED BY <1>5, <1>7, <3>2, <3>3
  <2>4. SumFunctionOnSet(EscrowOf, Unclaimed \ {i}) \in Int /\ SumFunctionOnSet(EscrowOf, Unclaimed) = bids[i].escrow + SumFunctionOnSet(EscrowOf, Unclaimed \ {i})
    <3>1. \A j \in Unclaimed : EscrowOf[j] \in Int
      BY <1>7
    <3>2. \A y \in Unclaimed : SumFunctionOnSet(EscrowOf, Unclaimed) = EscrowOf[y] + SumFunctionOnSet(EscrowOf, Unclaimed \ {y})
      BY <1>5, <3>1, SumSplit
    <3>3. SumFunctionOnSet(EscrowOf, Unclaimed \ {i}) \in Int
      BY <2>1, <3>1, SumSplit
    <3> QED BY <1>5, <1>7, <3>2, <3>3
  <2> QED BY <2>2, <2>3, <2>4
<1>9. PICK n \in Nat, e \in Nat, p \in Nat : n = Tokens(bids[i]) /\ e = bids[i].escrow /\ p = Paid(bids[i]) /\ Refund(bids[i]) = e - p
  BY <1>6 DEF Refund
<1>10. Unsold' = Unsold /\ Unsold \in Int
  <2>1. Unsold \in Int
    BY <1>2, SettledSums, Config DEF Unsold
  <2> QED BY <1>1, <2>1 DEF Unsold
<1>11. SaleCovered'
  <2>1. saleHeld >= (n + tok) + (IF unsoldClaimed THEN 0 ELSE Unsold)
    BY <1>3, <1>8, <1>9, HoldingsForm DEF AuctionInv, HoldingsCoverClaims
  <2>2. saleHeld - n >= tok + (IF unsoldClaimed THEN 0 ELSE Unsold)
    BY <1>2, <1>10, <2>1
  <2> QED BY <1>1, <1>4, <1>8, <1>9, <1>10, <2>2, HoldingsNext
<1>12. EscrowKept'
  <2>1. CASE state = "Settled"
    BY <1>1, <2>1, HoldingsNext
  <2>2. CASE state = "Failed"
    <3>1. p = 0
      BY <1>9, <2>2 DEF Paid
    <3>2. quoteHeld = e + esc
      BY <1>8, <1>9, <2>2, HoldingsForm DEF AuctionInv, HoldingsCoverClaims
    <3>3. quoteHeld' = esc
      BY <1>1, <1>9, <3>1, <3>2
    <3> QED BY <1>1, <1>4, <1>8, <2>2, <3>3, HoldingsNext
  <2> QED BY <1>3, <2>1, <2>2
<1>13. QuoteAccounted'
  <2>1. CASE state = "Settled"
    <3>1. PICK g \in Nat, paid \in Int : g = sale.gross /\ paid = SumFunctionOnSet(PaidOf, DOMAIN bids) /\ paid <= g
      <4>1. sale.gross \in Nat
        BY <1>2, <2>1, SettledSums
      <4>2. \A j \in DOMAIN bids : PaidOf[j] \in Int
        BY <1>6 DEF PaidOf
      <4>3. SumFunctionOnSet(PaidOf, DOMAIN bids) \in Int
        BY <1>2, <4>2, BidsFinite, SumSplit
      <4> QED BY <1>2, <2>1, <4>1, <4>3, SettledSums
    <3>2. quoteHeld + (g - paid) = ((e - p) + ref) + (IF proceedsClaimed THEN 0 ELSE g)
      BY <1>8, <1>9, <2>1, <3>1, HoldingsForm DEF AuctionInv, HoldingsCoverClaims
    <3>3. (quoteHeld - (e - p)) + (g - paid) = ref + (IF proceedsClaimed THEN 0 ELSE g)
      BY <1>2, <3>2
    <3> QED BY <1>1, <1>4, <1>8, <1>9, <2>1, <3>1, <3>3, HoldingsNext
  <2>2. CASE state # "Settled"
    BY <1>1, <2>2, HoldingsNext
  <2> QED BY <2>1, <2>2
<1> QED BY <1>11, <1>12, <1>13 DEF HoldingsCoverClaims


LEMMA HoldingsStep ==
  ASSUME AuctionInv, BookInv', AuctionStep
  PROVE  HoldingsCoverClaims'
PROOF
<1> TypeOK /\ TypeOK' /\ BookInv /\ Phases /\ Phases' /\ SaleCovered /\ EscrowKept /\ QuoteAccounted
  BY DEF AuctionInv, BookInv, HoldingsCoverClaims
<1>1. CASE Tick \/ UNCHANGED vars
  <2>1. UNCHANGED <<state, bids, sale, proceedsClaimed, unsoldClaimed, saleHeld, quoteHeld>>
    BY <1>1 DEF Tick, vars, book, issuerClaims, held
  <2>2. /\ EscrowOf' = EscrowOf /\ Unclaimed' = Unclaimed
        /\ TokensOf' = TokensOf /\ PaidOf' = PaidOf /\ RefundOf' = RefundOf
    BY <2>1, BidsSame
  <2>3. Unsold' = Unsold
    BY <2>1 DEF Unsold
  <2>4. SaleCovered'
    BY <2>1, <2>2, <2>3, HoldingsForm, HoldingsNext
  <2>5. EscrowKept'
    BY <2>1, <2>2, HoldingsForm, HoldingsNext
  <2>6. QuoteAccounted'
    BY <2>1, <2>2, HoldingsForm, HoldingsNext
  <2> QED BY <2>4, <2>5, <2>6 DEF HoldingsCoverClaims
<1>2. CASE fund \/ openCommit \/ cancel \/ AnyRoot
  <2>1. UNCHANGED <<bids, quoteHeld>> /\ state # "Settled" /\ state' \notin {"Settled", "Failed"}
    BY <1>2 DEF fund, openCommit, cancel, MayCancel, AnyRoot, registerRevealRoot, book, issuerClaims, held
  <2>2. EscrowOf' = EscrowOf /\ Unclaimed' = Unclaimed
    BY <2>1, BidsSame
  <2>3. state' = "Cancelled" => bids' = <<>> /\ saleHeld' = 0
    BY DEF Phases
  <2>4. EscrowKept'
    BY <2>1, <2>2, <2>3, HoldingsForm, HoldingsNext
  <2>5. SaleCovered' /\ QuoteAccounted'
    BY <2>1, HoldingsNext
  <2> QED BY <2>4, <2>5 DEF HoldingsCoverClaims
<1>3. CASE AnyBid
  <2>1. PICK a \in Bidders, c \in Plaintexts \cup {Junk}, e \in Escrows : commitBid(a, c, e)
    BY <1>3 DEF AnyBid
  <2>2. state = "CommitOpen" /\ state' = "CommitOpen" /\ quoteHeld' = quoteHeld + e
    BY <2>1 DEF commitBid
  <2>3. PICK n : n = Len(bids) + 1
    OBVIOUS
  <2>4. /\ DOMAIN bids' = DOMAIN bids \cup {n} /\ n \notin DOMAIN bids
        /\ \A i \in DOMAIN bids : bids'[i] = bids[i]
        /\ bids'[n].escrow = e /\ e \in Nat /\ Unclaimed' = Unclaimed \cup {n}
    BY <2>1, <2>3, BidAdded
  <2>5. PICK E, D : E = EscrowOf' /\ D = Unclaimed
    OBVIOUS
  <2>6. IsFiniteSet(D) /\ n \notin D /\ D \subseteq DOMAIN bids
    BY <2>4, <2>5, BidsFinite
  <2>7. \A i \in D : EscrowOf[i] \in Int /\ E[i] = EscrowOf[i]
    <3> TAKE i \in D
    <3>1. i \in DOMAIN bids /\ i \in DOMAIN bids' /\ bids[i].escrow \in Nat
      BY <2>4, <2>6, BidFields
    <3> QED BY <2>4, <2>5, <3>1 DEF EscrowOf
  <2>8. E[n] = e
    BY <2>4, <2>5 DEF EscrowOf
  <2>9. SumFunctionOnSet(E, D) = SumFunctionOnSet(EscrowOf, D)
    BY <2>6, <2>7, SumSame
  <2>10. SumFunctionOnSet(E, D \cup {n}) = SumFunctionOnSet(E, D) + e
    <3>1. IsFiniteSet({n}) /\ D \cap {n} = {} /\ \A i \in D \cup {n} : E[i] \in Int
      <4>1. \A i \in D : E[i] \in Int
        BY <2>7
      <4>2. E[n] \in Int
        BY <2>4, <2>8
      <4>3. IsFiniteSet({n})
        BY FS_Singleton
      <4> QED BY <2>6, <4>1, <4>2, <4>3
    <3>2. SumFunctionOnSet(E, D \cup {n}) = SumFunctionOnSet(E, D) + SumFunctionOnSet(E, {n})
      BY <2>6, <3>1, SumUnion
    <3>3. SumFunctionOnSet(E, {n}) = E[n]
      BY <2>4, <2>8, SumSingle
    <3> QED BY <2>8, <3>2, <3>3
  <2>11. quoteHeld = SumFunctionOnSet(EscrowOf, D)
    BY <2>2, <2>5, HoldingsForm
  <2>12. EscrowKept'
    BY <2>2, <2>4, <2>5, <2>9, <2>10, <2>11, HoldingsNext
  <2>13. SaleCovered' /\ QuoteAccounted'
    BY <2>2, HoldingsNext
  <2> QED BY <2>12, <2>13 DEF HoldingsCoverClaims
<1>4. CASE AnyReveals
  <2>1. PICK C \in SUBSET DOMAIN bids : \E F \in SUBSET C : Reveals(C, F)
    BY <1>4 DEF AnyReveals
  <2>3. PICK F \in SUBSET C : Reveals(C, F)
    BY <2>1
  <2>4. state = "Revealing" /\ state' = "Revealing" /\ quoteHeld' = quoteHeld
    BY <2>3 DEF Reveals, held
  <2>5. DOMAIN bids' = DOMAIN bids
           /\ \A j \in DOMAIN bids : bids'[j].escrow = bids[j].escrow /\ bids'[j].claimed = bids[j].claimed
    BY <2>3, RevealedBids
  <2>6. EscrowOf' = EscrowOf /\ Unclaimed' = Unclaimed
    BY <2>5 DEF EscrowOf, Unclaimed
  <2>7. EscrowKept'
    BY <2>4, <2>6, HoldingsForm, HoldingsNext
  <2>8. SaleCovered' /\ QuoteAccounted'
    BY <2>4, HoldingsNext
  <2> QED BY <2>7, <2>8 DEF HoldingsCoverClaims
<1>5. CASE closeCommit
  <2>1. bids' = bids /\ state = "CommitOpen" /\ UNCHANGED <<saleHeld, quoteHeld, unsoldClaimed>>
           /\ state' \in {"Failed", "CommitClosed"}
    BY <1>5 DEF closeCommit, book, issuerClaims, held
  <2>2. CASE state' = "Failed"
    BY <2>1, <2>2, FailedCovered
  <2>3. CASE state' = "CommitClosed"
    <3>1. EscrowOf' = EscrowOf /\ Unclaimed' = Unclaimed
      BY <2>1, BidsSame
    <3>2. EscrowKept'
      BY <2>1, <2>3, <3>1, HoldingsForm, HoldingsNext
    <3>3. SaleCovered' /\ QuoteAccounted'
      BY <2>3, HoldingsNext
    <3> QED BY <3>2, <3>3 DEF HoldingsCoverClaims
  <2> QED BY <2>1, <2>2, <2>3
<1>6. CASE AnyDispute \/ failOnRevealTimeout
  <2>1. bids' = bids /\ state \in {"CommitClosed", "Revealing"} /\ UNCHANGED <<saleHeld, quoteHeld, unsoldClaimed>>
           /\ state' = "Failed"
    BY <1>6 DEF AnyDispute, disputeVoid, failOnRevealTimeout, AwaitingReveals, book, issuerClaims, held
  <2> QED BY <2>1, FailedCovered
<1>7. CASE finalize
  <2>1. bids' = bids /\ state = "Revealing" /\ UNCHANGED <<saleHeld, quoteHeld, unsoldClaimed>>
           /\ state' \in {"Failed", "Settled"}
    BY <1>7 DEF finalize, book, issuerClaims, held
  <2>2. CASE state' = "Failed"
    BY <2>1, <2>2, FailedCovered
  <2>3. CASE state' = "Settled"
    BY <1>7, <2>3, SettledCovered
  <2> QED BY <2>1, <2>2, <2>3
<1>8. CASE AnyClaim
  BY <1>8, ClaimCovered DEF AnyClaim
<1>9. CASE claimProceeds
  <2>1. /\ UNCHANGED <<state, bids, sale, unsoldClaimed, saleHeld>> /\ state = "Settled"
        /\ ~proceedsClaimed /\ proceedsClaimed' = TRUE /\ quoteHeld' = quoteHeld - sale.gross
    BY <1>9 DEF claimProceeds, book
  <2>2. /\ EscrowOf' = EscrowOf /\ Unclaimed' = Unclaimed
        /\ TokensOf' = TokensOf /\ PaidOf' = PaidOf /\ RefundOf' = RefundOf
    BY <2>1, BidsSame
  <2>3. Unsold' = Unsold
    BY <2>1 DEF Unsold
  <2>4. SaleCovered'
    BY <2>1, <2>2, <2>3, HoldingsForm, HoldingsNext
  <2>5. EscrowKept'
    BY <2>1, HoldingsNext
  <2>6. PICK g \in Nat, paid \in Int, ref \in Int :
            /\ g = sale.gross /\ paid = SumFunctionOnSet(PaidOf, DOMAIN bids) /\ paid <= g
            /\ ref = SumFunctionOnSet(RefundOf, Unclaimed)
    <3>1. sale.gross \in Nat /\ SumFunctionOnSet(PaidOf, DOMAIN bids) <= sale.gross
      BY <2>1, SettledSums
    <3>2. \A j \in DOMAIN bids : PaidOf[j] \in Int /\ RefundOf[j] \in Int
      <4> TAKE j \in DOMAIN bids
      <4>1. Paid(bids[j]) \in Nat /\ bids[j].escrow \in Nat
        BY <2>1, SettledSums, BidFields
      <4> QED BY <4>1 DEF PaidOf, RefundOf, Refund
    <3>3. SumFunctionOnSet(PaidOf, DOMAIN bids) \in Int
      BY <3>2, BidsFinite, SumSplit
    <3>4. SumFunctionOnSet(RefundOf, Unclaimed) \in Int
      <4>1. \A j \in Unclaimed : RefundOf[j] \in Int
        BY <3>2, BidsFinite
      <4> QED BY <4>1, BidsFinite, SumSplit
    <3> QED BY <3>1, <3>3, <3>4
  <2>7. quoteHeld + (g - paid) = ref + g
    BY <2>1, <2>6, HoldingsForm
  <2>8. (quoteHeld - g) + (g - paid) = ref + 0
    <3>1. PICK h \in Int : h = quoteHeld
      BY DEF TypeOK
    <3>2. h + (g - paid) = ref + g
      BY <2>7, <3>1
    <3>3. (h - g) + (g - paid) = ref + 0
      BY <3>2
    <3> QED BY <3>1, <3>3
  <2>9. QuoteAccounted'
    BY <2>1, <2>2, <2>6, <2>8, HoldingsNext
  <2> QED BY <2>4, <2>5, <2>9 DEF HoldingsCoverClaims
<1>10. CASE claimUnsold
  <2>1. /\ UNCHANGED <<state, bids, sale, proceedsClaimed, quoteHeld>> /\ state \in {"Settled", "Failed"}
        /\ ~unsoldClaimed /\ unsoldClaimed' = TRUE /\ saleHeld' = saleHeld - Unsold
    BY <1>10 DEF claimUnsold, book
  <2>2. /\ EscrowOf' = EscrowOf /\ Unclaimed' = Unclaimed
        /\ TokensOf' = TokensOf /\ PaidOf' = PaidOf /\ RefundOf' = RefundOf
    BY <2>1, BidsSame
  <2>3. EscrowKept' /\ QuoteAccounted'
    BY <2>1, <2>2, HoldingsForm, HoldingsNext
  <2>4. Unsold \in Int
    BY <2>1, SettledSums, Config DEF Unsold
  <2>5. PICK tok \in Int : tok = SumFunctionOnSet(TokensOf, Unclaimed)
    <3>1. \A j \in Unclaimed : TokensOf[j] \in Int
      <4> TAKE j \in Unclaimed
      <4>1. j \in DOMAIN bids
        BY BidsFinite
      <4>2. Tokens(bids[j]) \in Int
        BY <4>1, SettledSums DEF Tokens
      <4> QED BY <4>1, <4>2 DEF TokensOf
    <3> QED BY <3>1, BidsFinite, SumSplit
  <2>6. saleHeld >= tok + Unsold
    BY <2>1, <2>5, HoldingsForm
  <2>7. saleHeld - Unsold >= tok + 0
    BY <2>4, <2>5, <2>6 DEF TypeOK
  <2>8. SaleCovered'
    BY <2>1, <2>2, <2>5, <2>7, HoldingsNext
  <2> QED BY <2>3, <2>8 DEF HoldingsCoverClaims
<1> QED BY <1>1, <1>2, <1>3, <1>4, <1>5, <1>6, <1>7, <1>8, <1>9, <1>10 DEF AuctionStep


LEMMA AuctionInit ==
  ASSUME Init
  PROVE  AuctionInv
PROOF
<1>1. BookInv
  BY BookInit
<1>2. state = "Created" /\ quoteHeld = 0 /\ Unclaimed = {}
  BY DEF Init, Unclaimed
<1>3. SumFunctionOnSet(EscrowOf, {}) = 0
  BY SumUnfold, FS_EmptySet
<1>4. SaleCovered /\ EscrowKept /\ QuoteAccounted
  BY <1>2, <1>3, HoldingsForm
<1> QED BY <1>1, <1>4 DEF AuctionInv, HoldingsCoverClaims

LEMMA AuctionInvStep ==
  ASSUME AuctionInv, AuctionStep
  PROVE  AuctionInv'
PROOF
<1>1. BookInv'
  BY BookStep DEF AuctionInv
<1>2. HoldingsCoverClaims'
  BY <1>1, HoldingsStep
<1> QED BY <1>1, <1>2 DEF AuctionInv

-----------------------------------------------------------------------------
(* The contract: theorems *)

\* The book, the phases, the demand and what the auction holds agree in every
\* reachable state.
THEOREM AuctionInvariance == Spec => []AuctionInv
PROOF
<1>1. Init => AuctionInv
  BY AuctionInit
<1>2. AuctionInv /\ [Next]_vars => AuctionInv'
  BY NextIsStep, AuctionInvStep DEF AuctionInv, BookInv
<1> QED BY <1>1, <1>2, PTL DEF Spec

\* Whatever is claimed in whatever order, the sale tokens are there, a failed
\* auction has every escrow, and a settled one holds what is still due less
\* exactly what flooring the proceeds once collects above the floored payments:
\* it may fall short by that, and by nothing else (claim, claimProceeds,
\* claimUnsold).
THEOREM HoldingsCovered == Spec => []HoldingsCoverClaims
PROOF
<1>1. AuctionInv => HoldingsCoverClaims
  BY DEF AuctionInv
<1> QED BY <1>1, AuctionInvariance, PTL

\* No settlement charges a bid more than its escrow, or than its own price for what
\* it gets (_isEligible, allocationOf, claim).
THEOREM NobodyOvercharged == Spec => []PaidWithinEscrow
PROOF
<1>1. AuctionInv => PaidWithinEscrow
  BY SettledSums DEF AuctionInv, PaidWithinEscrow
<1> QED BY <1>1, AuctionInvariance, PTL

\* A settlement is priced on every bid, and on what its bidder committed to unless it
\* was voided (processReveals, finalize).
THEOREM SettledFromCommitments == Spec => []SettledOnCommitments
PROOF
<1>1. ASSUME AuctionInv
      PROVE  SettledOnCommitments
  <2> SUFFICES ASSUME state = "Settled"
               PROVE  /\ \A i \in DOMAIN bids :
                            bids[i].revealed /\ (bids[i].voided \/ bids[i].commitment =
                                                    [quantity |-> bids[i].quantity, tick |-> bids[i].tick])
                      /\ \A t \in Ticks : demand[t] =
                            SumFunctionOnSet([i \in DOMAIN bids |-> bids[i].quantity],
                                {i \in DOMAIN bids : /\ ~bids[i].voided /\ bids[i].tick = t
                                                     /\ Eligible(bids[i], bids[i].quantity, t)})
    BY DEF SettledOnCommitments
  <2>1. \A i \in DOMAIN bids : bids[i].revealed
    BY <1>1 DEF AuctionInv, BookInv, SaleKept, AllAccountedFor
  <2>2. \A i \in DOMAIN bids : bids[i].voided \/ bids[i].commitment = [quantity |-> bids[i].quantity, tick |-> bids[i].tick]
    BY <1>1, <2>1 DEF AuctionInv, BookInv, RevealsKept
  <2>3. ASSUME NEW t \in Ticks
        PROVE  demand[t] = SumFunctionOnSet([i \in DOMAIN bids |-> bids[i].quantity],
                                {i \in DOMAIN bids : /\ ~bids[i].voided /\ bids[i].tick = t
                                                     /\ Eligible(bids[i], bids[i].quantity, t)})
    <3>1. CountedAt[t] = {i \in DOMAIN bids : /\ ~bids[i].voided /\ bids[i].tick = t
                                              /\ Eligible(bids[i], bids[i].quantity, t)}
      BY <2>1 DEF CountedAt, Counted
    <3>2. demand[t] = SumFunctionOnSet(QuantityOf, CountedAt[t])
      BY <1>1 DEF AuctionInv, BookInv, DemandKept
    <3> QED BY <3>1, <3>2, Zenon DEF QuantityOf
  <2> QED BY <2>1, <2>2, <2>3
<1> QED BY <1>1, AuctionInvariance, PTL


\* No step takes back an outcome, a commitment, an escrow, a root, a void or a
\* claim (every external call).
THEOREM OutcomesStand == Spec => OutcomeStands
PROOF
<1> DEFINE Stands ==
        /\ state \in Final => state' = state /\ sale' = sale
        /\ \A i \in DOMAIN bids :
              /\ bids'[i].commitment = bids[i].commitment /\ bids'[i].escrow = bids[i].escrow
              /\ bids[i].revealed => bids'[i].voided = bids[i].voided
              /\ bids[i].claimed => bids'[i].claimed
        /\ root # None => root' = root
<1>1. ASSUME TypeOK, AuctionStep
      PROVE  Stands
  <2>1. CASE Tick \/ fund \/ openCommit \/ cancel \/ closeCommit \/ AnyRoot \/ AnyDispute \/ finalize
             \/ failOnRevealTimeout \/ claimProceeds \/ claimUnsold \/ UNCHANGED vars
    <3>1. bids' = bids
      BY <2>1 DEF Tick, fund, openCommit, cancel, closeCommit, AnyRoot, registerRevealRoot, AnyDispute, disputeVoid,
                  finalize, failOnRevealTimeout, claimProceeds, claimUnsold, vars, book
    <3>2. root # None => root' = root
      BY <2>1 DEF Tick, fund, openCommit, cancel, closeCommit, AnyRoot, registerRevealRoot, AnyDispute, disputeVoid,
                  finalize, failOnRevealTimeout, claimProceeds, claimUnsold, vars, book
    <3>3. state \in Final => state' = state /\ sale' = sale
      BY <2>1 DEF Final, Tick, fund, openCommit, cancel, MayCancel, closeCommit, AnyRoot, registerRevealRoot, AnyDispute,
                  disputeVoid, finalize, failOnRevealTimeout, AwaitingReveals, claimProceeds, claimUnsold, vars
    <3> QED BY <3>1, <3>2, <3>3
  <2>2. CASE AnyBid
    <3>1. PICK a \in Bidders, c \in Plaintexts \cup {Junk}, e \in Escrows : commitBid(a, c, e)
      BY <2>2 DEF AnyBid
    <3>2. \A i \in DOMAIN bids : bids'[i] = bids[i]
      BY <1>1, <3>1, BidAdded
    <3>3. state = "CommitOpen" /\ root' = root
      BY <3>1 DEF commitBid
    <3> QED BY <3>2, <3>3 DEF Final
  <2>3. CASE AnyReveals
    <3>1. PICK C \in SUBSET DOMAIN bids : \E F \in SUBSET C : Reveals(C, F)
      BY <2>3 DEF AnyReveals
    <3>3. PICK F \in SUBSET C : Reveals(C, F)
      BY <3>1
    <3>4. state = "Revealing" /\ root' = root
      BY <3>3 DEF Reveals
    <3>5. \A i \in DOMAIN bids :
              /\ bids'[i].commitment = bids[i].commitment /\ bids'[i].escrow = bids[i].escrow
              /\ bids'[i].claimed = bids[i].claimed
              /\ i \notin C => bids'[i] = bids[i]
              /\ i \in C => ~bids[i].revealed
      BY <1>1, <3>3, RevealedBids
    <3> QED BY <3>4, <3>5 DEF Final
  <2>4. CASE AnyClaim
    <3>1. PICK i \in DOMAIN bids : claim(i)
      BY <2>4 DEF AnyClaim
    <3>2. bids' = [bids EXCEPT ![i].claimed = TRUE] /\ state' = state /\ sale' = sale /\ root' = root
      BY <3>1 DEF claim
    <3>3. \A j \in DOMAIN bids :
              /\ bids'[j].commitment = bids[j].commitment /\ bids'[j].escrow = bids[j].escrow
              /\ bids'[j].voided = bids[j].voided
              /\ bids'[j].claimed = (bids[j].claimed \/ j = i)
      BY <1>1, <3>2, ClaimSame
    <3> QED BY <3>2, <3>3
  <2> QED BY <1>1, <2>1, <2>2, <2>3, <2>4 DEF AuctionStep
<1>2. AuctionInv /\ [Next]_vars => [Stands]_vars
  BY <1>1, NextIsStep DEF AuctionInv, BookInv
<1>3. OutcomeStands <=> [][Stands]_vars
  BY DEF OutcomeStands
<1> HIDE DEF Stands
<1> QED BY <1>2, <1>3, AuctionInvariance, PTL DEF Spec


-----------------------------------------------------------------------------
(* The settler: its inductive invariant *)

Closed == state \notin {"Created", "Funded", "CommitOpen"}

WindowClosed == AllAccountedFor /\ DisputeWindowOver

\* What held when a write was sent still does.
CallHolds(c) ==
    /\ c.fn = "closeCommit" => now >= EndTime
    /\ c.fn = "failOnRevealTimeout" => now >= RevealDeadline
    /\ c.fn = "registerRevealRoot" => Closed /\ opened /\ c.leaves = Plan
    /\ c.fn = "processReveals" => c.chunk \subseteq DOMAIN bids
    /\ c.fn = "finalize" => state \in {"Revealing"} \cup Final /\ (state = "Revealing" => WindowClosed)

SettlerShape ==
    settler = [at |-> settler.at, now |-> settler.now, leaves |-> settler.leaves, todo |-> settler.todo,
               call |-> settler.call]

PassInv ==
    /\ SettlerShape /\ settler.now \in Nat /\ settler.now <= now /\ settler.todo \subseteq DOMAIN bids
    /\ settler.at = "register" => Closed /\ opened
    /\ \A c \in pool : CallHolds(c)

ChainInv ==
    /\ now \in Nat /\ lastVoidAt \in Nat
    /\ sealed \in Seq(BOOLEAN) /\ Len(sealed) = Len(bids)
    /\ \A i \in DOMAIN bids : sealed[i] => bids[i].commitment # Junk
    /\ root # None \/ state = "Revealing" => Closed /\ opened /\ root = Plan
    /\ \A i \in DOMAIN bids : bids[i].revealed /\ ~bids[i].voided => opened /\ sealed[i]

SettlerInv == BookInv /\ ChainInv /\ PassInv

LEMMA PlanLeaves ==
  ASSUME TypeOK, ChainInv
  PROVE  /\ DOMAIN Plan = DOMAIN bids
         /\ \A i \in DOMAIN bids : /\ Plan[i] = IF opened /\ sealed[i] THEN bids[i].commitment ELSE Placeholder
                                   /\ Plan[i] \in LeafRecord
         /\ Placeholder \notin Plaintexts \cup {Junk} /\ Placeholder \in LeafRecord
PROOF
<1>1. Placeholder \notin Plaintexts \cup {Junk}
  BY SettlerAssumption
<1>2. Placeholder \in LeafRecord
  BY DEF Placeholder, LeafRecord
<1>3. ASSUME NEW i \in DOMAIN bids
      PROVE  /\ Plan[i] = IF opened /\ sealed[i] THEN bids[i].commitment ELSE Placeholder
             /\ Plan[i] \in LeafRecord
  <2>1. Plan[i] = IF opened /\ sealed[i] THEN bids[i].commitment ELSE Placeholder
    BY DEF Plan, Leaf
  <2>2. bids[i].commitment \in Plaintexts \cup {Junk} /\ Plaintexts \subseteq LeafRecord
    BY BidFields, Config
  <2>3. sealed[i] => bids[i].commitment # Junk
    BY DEF ChainInv
  <2> QED BY <1>2, <2>1, <2>2, <2>3
<1> QED BY <1>1, <1>2, <1>3 DEF Plan

\* What no step of the contract undoes: the close, the bids and commitments once
\* closed, the passing of the window once every bid is accounted for.
LEMMA Lasting ==
  ASSUME BookInv, AuctionStep, now \in Nat, lastVoidAt \in Nat
  PROVE  /\ now' \in Nat /\ now' >= now /\ lastVoidAt' \in Nat
         /\ DOMAIN bids \subseteq DOMAIN bids'
         /\ Closed => /\ Closed' /\ DOMAIN bids' = DOMAIN bids
                      /\ \A i \in DOMAIN bids : bids'[i].commitment = bids[i].commitment
         /\ state \in {"Revealing"} \cup Final => state' \in {"Revealing"} \cup Final
         /\ state = "Revealing" /\ WindowClosed /\ state' = "Revealing" => WindowClosed'
         /\ root' = root \/ AnyRoot
         /\ ~AnyRoot => (state' = "Revealing" => state = "Revealing")
PROOF
<1> TypeOK /\ Phases
  BY DEF BookInv
<1>1. CASE Tick
  <2>1. UNCHANGED <<state, bids, root, lastVoidAt>> /\ now' = now + 1
    BY <1>1 DEF Tick, book
  <2>2. WindowClosed => WindowClosed'
    <3>1. Window \in Nat
      BY ConfigAssumption
    <3>2. now >= lastVoidAt + Window => now' >= lastVoidAt + Window
      BY <2>1, <3>1
    <3> QED BY <2>1, <3>2 DEF WindowClosed, AllAccountedFor, DisputeWindowOver
  <2> QED BY <2>1, <2>2 DEF Closed
<1>2. CASE fund \/ openCommit \/ cancel
  <2>1. UNCHANGED <<now, lastVoidAt, bids, root>> /\ state # "Revealing" /\ state' # "Revealing" /\ (Closed => Closed')
           /\ state \notin Final
    <3>1. CASE fund
      BY <3>1 DEF fund, book, Closed, Final
    <3>2. CASE openCommit
      BY <3>2 DEF openCommit, book, Closed, Final
    <3>3. CASE cancel
      BY <3>3 DEF cancel, MayCancel, book, Closed, Final
    <3> QED BY <1>2, <3>1, <3>2, <3>3
  <2> QED BY <2>1
<1>3. CASE AnyBid
  <2>1. PICK a \in Bidders, c \in Plaintexts \cup {Junk}, e \in Escrows : commitBid(a, c, e)
    BY <1>3 DEF AnyBid
  <2>2. state = "CommitOpen" /\ UNCHANGED <<state, now, root, lastVoidAt>>
    BY <2>1 DEF commitBid
  <2>3. DOMAIN bids' = DOMAIN bids \cup {Len(bids) + 1}
    BY <2>1, BidAdded
  <2> QED BY <2>2, <2>3 DEF Closed, Final
<1>4. CASE closeCommit \/ AnyDispute \/ finalize \/ failOnRevealTimeout
  <2>1. /\ UNCHANGED <<now, lastVoidAt, bids, root>> /\ state' \in {"CommitClosed", "Settled", "Failed"}
        /\ state \in {"CommitOpen", "CommitClosed", "Revealing"} /\ (state \in {"Revealing"} \cup Final => state' \in Final)
    BY <1>4 DEF closeCommit, AnyDispute, disputeVoid, finalize, failOnRevealTimeout, AwaitingReveals, book, Final
  <2> QED BY <2>1 DEF Closed
<1>5. CASE AnyRoot
  <2>1. UNCHANGED <<now, lastVoidAt, bids>> /\ state = "CommitClosed" /\ state' = "Revealing"
    BY <1>5 DEF AnyRoot, registerRevealRoot
  <2> QED BY <1>5, <2>1 DEF Closed, Final
<1>6. CASE AnyReveals
  <2>1. PICK C \in SUBSET DOMAIN bids : \E F \in SUBSET C : Reveals(C, F)
    BY <1>6 DEF AnyReveals
  <2>2. PICK F \in SUBSET C : Reveals(C, F)
    BY <2>1
  <2>3. UNCHANGED <<state, now, root>> /\ state = "Revealing" /\ lastVoidAt' = IF C = F THEN lastVoidAt ELSE now
    BY <2>2 DEF Reveals
  <2>7. DOMAIN bids' = DOMAIN bids
    BY <2>2, RevealedBids
  <2>4. \A i \in DOMAIN bids : /\ bids'[i].commitment = bids[i].commitment
                               /\ i \notin C => bids'[i] = bids[i]
    BY <2>2, RevealedBids
  <2>6. \A i \in C : ~bids[i].revealed
    BY <2>2 DEF Reveals
  <2>5. WindowClosed => WindowClosed'
    <3>1. ASSUME WindowClosed PROVE C = {}
      BY <2>6, <3>1 DEF WindowClosed, AllAccountedFor
    <3>2. CASE C = {}
      <4>1. lastVoidAt' = lastVoidAt /\ now' = now /\ DOMAIN bids' = DOMAIN bids /\ \A i \in DOMAIN bids : bids'[i] = bids[i]
        BY <2>3, <2>4, <2>7, <3>2
      <4> QED BY <4>1 DEF WindowClosed, AllAccountedFor, DisputeWindowOver
    <3> QED BY <3>1, <3>2
  <2> QED BY <2>3, <2>4, <2>5, <2>7 DEF Closed
<1>7. CASE AnyClaim
  <2>1. PICK i \in DOMAIN bids : claim(i)
    BY <1>7 DEF AnyClaim
  <2>2. UNCHANGED <<state, now, root, lastVoidAt>> /\ bids' = [bids EXCEPT ![i].claimed = TRUE] /\ state # "Revealing"
    BY <2>1 DEF claim, MayClaim
  <2>3. DOMAIN bids' = DOMAIN bids /\ \A j \in DOMAIN bids : bids'[j].commitment = bids[j].commitment
    BY <2>2, ClaimSame
  <2> QED BY <2>2, <2>3 DEF Closed
<1>8. CASE claimProceeds \/ claimUnsold
  <2>1. UNCHANGED <<state, now, root, lastVoidAt, bids>> /\ state # "Revealing"
    BY <1>8 DEF claimProceeds, claimUnsold, book
  <2> QED BY <2>1 DEF Closed
<1>9. CASE UNCHANGED vars
  <2>1. UNCHANGED <<state, now, root, lastVoidAt, bids>>
    BY <1>9 DEF vars, book
  <2> QED BY <2>1 DEF Closed, WindowClosed, AllAccountedFor, DisputeWindowOver
<1> QED BY <1>1, <1>2, <1>3, <1>4, <1>5, <1>6, <1>7, <1>8, <1>9 DEF AuctionStep


\* Another way to say what a block of reveals of planned leaves does.
LEMMA ChunkIsReveals ==
  ASSUME TypeOK, ChainInv, NEW leaves, NEW C \in SUBSET DOMAIN bids, processReveals(leaves, C)
  PROVE  AnyReveals
PROOF
<1>1. state = "Revealing" /\ \A i \in C : ~bids[i].revealed /\ leaves[i] = root[i] /\ leaves[i].tick \in Ticks
  BY DEF processReveals
<1>2. \A i \in C : root[i] \in LeafRecord
  BY <1>1, PlanLeaves DEF ChainInv
<1>3. PICK F \in SUBSET C : F = {i \in C : bids[i].commitment = root[i]}
  OBVIOUS
<1>4. \A i \in C : Matches(bids[i], leaves[i], TRUE) <=> i \in F
  BY <1>1, <1>3 DEF Matches
<1>5. bids' = [i \in DOMAIN bids |->
                  IF i \notin C THEN bids[i]
                  ELSE IF Matches(bids[i], leaves[i], TRUE)
                       THEN [bids[i] EXCEPT !.revealed = TRUE, !.quantity = leaves[i].quantity, !.tick = leaves[i].tick]
                  ELSE [bids[i] EXCEPT !.revealed = TRUE, !.voided = TRUE]]
  BY DEF processReveals
<1>6. bids' = [i \in DOMAIN bids |->
                  IF i \notin C THEN bids[i]
                  ELSE IF i \in F THEN [bids[i] EXCEPT !.revealed = TRUE, !.quantity = root[i].quantity,
                                                       !.tick = root[i].tick]
                  ELSE [bids[i] EXCEPT !.revealed = TRUE, !.voided = TRUE]]
  BY <1>1, <1>4, <1>5
<1>7. demand' = [t \in Ticks |-> demand[t] +
                    SumFunctionOnSet([i \in C |-> root[i].quantity],
                        {i \in F : root[i].tick = t /\ Eligible(bids[i], root[i].quantity, t)})]
  <2>1. demand' = [t \in Ticks |-> demand[t] +
                    SumFunctionOnSet([i \in C |-> leaves[i].quantity],
                        {i \in C : /\ Matches(bids[i], leaves[i], TRUE) /\ leaves[i].tick = t
                                   /\ Eligible(bids[i], leaves[i].quantity, t)})]
    BY DEF processReveals
  <2>2. [i \in C |-> leaves[i].quantity] = [i \in C |-> root[i].quantity]
    BY <1>1
  <2>3. \A t : {i \in C : /\ Matches(bids[i], leaves[i], TRUE) /\ leaves[i].tick = t
                          /\ Eligible(bids[i], leaves[i].quantity, t)}
               = {i \in F : root[i].tick = t /\ Eligible(bids[i], root[i].quantity, t)}
    BY <1>1, <1>4
  <2> QED BY <2>1, <2>2, <2>3, Zenon
<1>8. lastVoidAt' = IF C = F THEN lastVoidAt ELSE now
  <2>1. (\A i \in C : Matches(bids[i], leaves[i], TRUE)) <=> C = F
    BY <1>4
  <2>2. lastVoidAt' = IF \A i \in C : Matches(bids[i], leaves[i], TRUE) THEN lastVoidAt ELSE now
    BY DEF processReveals
  <2> QED BY <2>1, <2>2
<1>9. \A i \in F : bids[i].commitment = root[i]
  BY <1>3
<1>10. UNCHANGED <<state, now, root, sale, issuerClaims, held>>
  BY DEF processReveals
<1>11. \A i \in C : ~bids[i].revealed /\ root[i] \in LeafRecord /\ root[i].tick \in Ticks
  BY <1>1, <1>2
<1>12. Reveals(C, F)
  BY <1>1, <1>6, <1>7, <1>8, <1>9, <1>10, <1>11 DEF Reveals
<1> QED BY <1>12 DEF AnyReveals

\* The steps of the contract that the settler's specification has, bids aside:
\* the only root is the plan.
ChainStep ==
    \/ Tick \/ fund \/ openCommit \/ cancel \/ closeCommit
    \/ Closed /\ opened /\ registerRevealRoot(Plan)
    \/ AnyReveals \/ AnyDispute \/ finalize \/ failOnRevealTimeout
    \/ UNCHANGED vars

LEMMA ChainStepIsStep ==
  ASSUME TypeOK, ChainInv, ChainStep
  PROVE  /\ AuctionStep
         /\ AnyRoot => Closed /\ opened /\ registerRevealRoot(Plan)
         /\ bids' = bids \/ AnyReveals
PROOF
<1>1. CASE Closed /\ opened /\ registerRevealRoot(Plan)
  <2>1. \A i \in DOMAIN bids : Plan[i] \in LeafRecord \cup {None}
    BY PlanLeaves
  <2>2. bids' = bids
    BY <1>1 DEF registerRevealRoot
  <2> QED BY <1>1, <2>1, <2>2 DEF AnyRoot, AuctionStep
<1>2. AnyRoot => state' = "Revealing" /\ state = "CommitClosed"
  BY DEF AnyRoot, registerRevealRoot
<1>3. CASE AnyReveals
  <2>1. PICK C \in SUBSET DOMAIN bids : \E F \in SUBSET C : Reveals(C, F)
    BY <1>3 DEF AnyReveals
  <2>2. PICK F \in SUBSET C : Reveals(C, F)
    BY <2>1
  <2>3. state = "Revealing"
    BY <2>2 DEF Reveals
  <2> QED BY <1>2, <1>3, <2>3 DEF AuctionStep
<1>4. CASE Tick \/ fund \/ openCommit \/ cancel \/ closeCommit \/ AnyDispute \/ finalize \/ failOnRevealTimeout \/ UNCHANGED vars
  <2>1. bids' = bids
    BY <1>4 DEF Tick, fund, openCommit, cancel, closeCommit, AnyDispute, disputeVoid, finalize, failOnRevealTimeout,
                vars, book
  <2>2. ~(state' = "Revealing" /\ state = "CommitClosed")
    BY <1>4 DEF Tick, fund, openCommit, cancel, closeCommit, AnyDispute, disputeVoid, finalize, failOnRevealTimeout,
                vars
  <2> QED BY <1>2, <1>4, <2>1, <2>2 DEF AuctionStep
<1> QED BY <1>1, <1>3, <1>4 DEF ChainStep


\* A block of reveals opens what the plan says was opened.
LEMMA RevealsOpened ==
  ASSUME TypeOK, ChainInv, AnyReveals
  PROVE  /\ Len(bids') = Len(bids) /\ DOMAIN bids' = DOMAIN bids
         /\ \A i \in DOMAIN bids :
               /\ bids'[i].commitment = bids[i].commitment
               /\ bids'[i].revealed /\ ~bids'[i].voided => opened /\ sealed[i]
PROOF
<1>1. PICK C \in SUBSET DOMAIN bids : \E F \in SUBSET C : Reveals(C, F)
  BY DEF AnyReveals
<1>2. PICK F \in SUBSET C : Reveals(C, F)
  BY <1>1
<1>3. state = "Revealing"
  BY <1>2 DEF Reveals
<1>4. root = Plan
  BY <1>3 DEF ChainInv
<1>5. bids' \in Seq(BidRecord) /\ DOMAIN bids' = DOMAIN bids /\ bids \in Seq(BidRecord)
  BY <1>2, RevealedBids DEF TypeOK
<1>6. Len(bids') = Len(bids)
  BY <1>5
<1>8. \A j \in DOMAIN bids : /\ bids'[j].commitment = bids[j].commitment
                             /\ j \notin C => bids'[j] = bids[j]
                             /\ j \in F => bids[j].commitment = root[j]
                             /\ j \in C \ F => bids'[j].voided
  BY <1>2, RevealedBids
<1>7. ASSUME NEW i \in DOMAIN bids
      PROVE  /\ bids'[i].commitment = bids[i].commitment
             /\ bids'[i].revealed /\ ~bids'[i].voided => opened /\ sealed[i]
  <2>1. /\ bids'[i].commitment = bids[i].commitment
        /\ i \notin C => bids'[i] = bids[i]
        /\ i \in F => bids[i].commitment = root[i]
        /\ i \in C \ F => bids'[i].voided
    BY <1>8
  <2>2. CASE i \notin C
    BY <2>1, <2>2 DEF ChainInv
  <2>3. CASE i \in F
    <3>1. bids[i].commitment = Plan[i] /\ bids[i].commitment \in Plaintexts \cup {Junk}
      BY <1>4, <2>1, <2>3, BidFields
    <3>2. ~(opened /\ sealed[i]) => Plan[i] = Placeholder
      BY PlanLeaves
    <3> QED BY <2>1, <3>1, <3>2, PlanLeaves
  <2>4. CASE i \in C \ F
    BY <2>1, <2>4
  <2> QED BY <2>2, <2>3, <2>4
<1> QED BY <1>5, <1>6, <1>7

LEMMA PlanStays ==
  ASSUME TypeOK, ChainInv, DOMAIN bids' = DOMAIN bids,
         \A i \in DOMAIN bids : bids'[i].commitment = bids[i].commitment,
         UNCHANGED <<sealed, opened>>
  PROVE  Plan' = Plan
PROOF
<1>1. Plan' = [i \in DOMAIN bids' |-> IF opened' /\ sealed'[i] THEN bids'[i].commitment ELSE Placeholder]
  BY DEF Plan, Leaf, Placeholder
<1>2. Plan = [i \in DOMAIN bids |-> IF opened /\ sealed[i] THEN bids[i].commitment ELSE Placeholder]
  BY DEF Plan, Leaf
<1> QED BY <1>1, <1>2

\* What every step keeps for the pass and for the writes under way.
Keeps ==
    /\ BookInv' /\ ChainInv'
    /\ now' >= now /\ DOMAIN bids \subseteq DOMAIN bids'
    /\ Closed /\ opened => Closed' /\ opened'
    /\ \A c : CallHolds(c) => CallHolds(c)'

LEMMA CallsKept ==
  ASSUME BookInv, ChainInv, AuctionStep, AnyRoot => registerRevealRoot(Plan),
         Closed /\ opened => Plan' = Plan /\ opened'
  PROVE  \A c : CallHolds(c) => CallHolds(c)'
PROOF
<1> USE DEF BookInv
<1>1. now \in Nat /\ lastVoidAt \in Nat /\ EndTime \in Nat /\ RevealDeadline \in Nat
  BY ConfigAssumption DEF ChainInv
<1>2. /\ now' \in Nat /\ now' >= now
      /\ DOMAIN bids \subseteq DOMAIN bids'
      /\ Closed => Closed'
      /\ state \in {"Revealing"} \cup Final => state' \in {"Revealing"} \cup Final
      /\ state = "Revealing" /\ WindowClosed /\ state' = "Revealing" => WindowClosed'
      /\ ~AnyRoot => (state' = "Revealing" => state = "Revealing")
  BY <1>1, Lasting
<1>3. AnyRoot => state = "CommitClosed"
  BY DEF AnyRoot, registerRevealRoot
<1>4. "CommitClosed" \notin {"Revealing"} \cup Final
  BY DEF Final
<1>5. ASSUME NEW c, CallHolds(c) PROVE CallHolds(c)'
  <2>1. c.fn = "closeCommit" => now' >= EndTime
    BY <1>1, <1>2, <1>5 DEF CallHolds
  <2>2. c.fn = "failOnRevealTimeout" => now' >= RevealDeadline
    BY <1>1, <1>2, <1>5 DEF CallHolds
  <2>3. c.fn = "registerRevealRoot" => Closed' /\ opened' /\ c.leaves = Plan'
    BY <1>2, <1>5 DEF CallHolds
  <2>4. c.fn = "processReveals" => c.chunk \subseteq DOMAIN bids'
    BY <1>2, <1>5 DEF CallHolds
  <2>5. ASSUME c.fn = "finalize"
        PROVE  state' \in {"Revealing"} \cup Final /\ (state' = "Revealing" => WindowClosed')
    <3>1. state \in {"Revealing"} \cup Final /\ (state = "Revealing" => WindowClosed)
      BY <1>5, <2>5 DEF CallHolds
    <3>2. ~AnyRoot
      BY <1>3, <1>4, <3>1
    <3> QED BY <1>2, <3>1, <3>2
  <2> QED BY <2>1, <2>2, <2>3, <2>4, <2>5 DEF CallHolds, Final
<1> QED BY <1>5

LEMMA ChainKeeps ==
  ASSUME BookInv, ChainInv, ChainStep, UNCHANGED <<sealed, opened>>
  PROVE  Keeps
PROOF
<1>1. TypeOK /\ AuctionStep /\ (AnyRoot => Closed /\ opened /\ registerRevealRoot(Plan)) /\ (bids' = bids \/ AnyReveals)
  BY ChainStepIsStep DEF BookInv
<1>2. BookInv'
  BY <1>1, BookStep
<1>3. /\ Len(bids') = Len(bids) /\ DOMAIN bids' = DOMAIN bids
      /\ \A i \in DOMAIN bids :
            /\ bids'[i].commitment = bids[i].commitment
            /\ bids'[i].revealed /\ ~bids'[i].voided => opened /\ sealed[i]
  <2>1. CASE bids' = bids
    BY <2>1 DEF ChainInv
  <2>2. CASE AnyReveals
    BY <1>1, <2>2, RevealsOpened
  <2> QED BY <1>1, <2>1, <2>2
<1>4. Plan' = Plan
  BY <1>1, <1>3, PlanStays
<1>5. now \in Nat /\ lastVoidAt \in Nat
  BY DEF ChainInv
<1>6. /\ now' \in Nat /\ now' >= now /\ lastVoidAt' \in Nat
      /\ Closed => Closed'
      /\ root' = root \/ AnyRoot
      /\ ~AnyRoot => (state' = "Revealing" => state = "Revealing")
  BY <1>1, <1>5, Lasting
<1>7. root' # None \/ state' = "Revealing" => Closed' /\ opened' /\ root' = Plan'
  <2>1. CASE AnyRoot
    <3>1. Closed /\ opened /\ root' = Plan
      BY <1>1, <2>1 DEF registerRevealRoot
    <3> QED BY <1>4, <1>6, <3>1
  <2>2. CASE ~AnyRoot
    <3>1. root' = root /\ (state' = "Revealing" => state = "Revealing")
      BY <1>6, <2>2
    <3>2. root # None \/ state = "Revealing" => Closed /\ opened /\ root = Plan
      BY DEF ChainInv
    <3> QED BY <1>4, <1>6, <3>1, <3>2
  <2> QED BY <2>1, <2>2
<1>8. sealed' \in Seq(BOOLEAN) /\ Len(sealed') = Len(bids')
  BY <1>3 DEF ChainInv
<1>9. \A i \in DOMAIN bids' : /\ sealed'[i] => bids'[i].commitment # Junk
                              /\ bids'[i].revealed /\ ~bids'[i].voided => opened' /\ sealed'[i]
  BY <1>3 DEF ChainInv
<1>10. ChainInv'
  BY <1>6, <1>7, <1>8, <1>9 DEF ChainInv
<1>11. \A c : CallHolds(c) => CallHolds(c)'
  BY <1>1, <1>4, CallsKept
<1> QED BY <1>2, <1>3, <1>6, <1>10, <1>11 DEF Keeps


LEMMA RevealKeeps ==
  ASSUME BookInv, ChainInv, Reveal
  PROVE  Keeps
PROOF
<1>1. ~opened /\ opened' /\ UNCHANGED <<vars, sealed>>
  BY DEF Reveal
<1>2. now \in Nat /\ TypeOK
  BY DEF ChainInv, BookInv
<1>3. UNCHANGED <<state, bids, root, now, lastVoidAt, demand, sale>>
  BY <1>1 DEF vars
<1>4. AuctionStep
  BY <1>1 DEF AuctionStep
<1>5. BookInv'
  BY <1>4, BookStep
<1>6. ChainInv'
  BY <1>1, <1>3 DEF ChainInv
<1>7. ~AnyRoot
  <2>1. AnyRoot => state = "CommitClosed" /\ state' = "Revealing"
    BY DEF AnyRoot, registerRevealRoot
  <2> QED BY <1>3, <2>1
<1>8. \A c : CallHolds(c) => CallHolds(c)'
  BY <1>1, <1>4, <1>7, CallsKept
<1> QED BY <1>1, <1>2, <1>3, <1>5, <1>6, <1>8 DEF Keeps, Closed

LEMMA BidKeeps ==
  ASSUME BookInv, ChainInv, NEW a \in Bidders, NEW c \in Plaintexts \cup {Junk}, NEW e \in Escrows, NEW o \in BOOLEAN,
         BidSealed(a, c, e, o)
  PROVE  Keeps
PROOF
<1> TypeOK
  BY DEF BookInv
<1>1. commitBid(a, c, e) /\ (o => c # Junk) /\ sealed' = Append(sealed, o) /\ opened' = opened
  BY DEF BidSealed
<1>2. AuctionStep
  BY <1>1 DEF AuctionStep, AnyBid
<1>3. BookInv'
  BY <1>2, BookStep
<1>4. /\ state = "CommitOpen" /\ UNCHANGED <<state, now, root, lastVoidAt>>
      /\ bids' = Append(bids, [bidder |-> a, commitment |-> c, escrow |-> e, revealed |-> FALSE, voided |-> FALSE,
                               claimed |-> FALSE, quantity |-> 0, tick |-> 0])
  BY <1>1 DEF commitBid
<1>5. bids \in Seq(BidRecord) /\ bids' \in Seq(BidRecord) /\ sealed \in Seq(BOOLEAN) /\ Len(sealed) = Len(bids)
  BY <1>1, BidAdded DEF TypeOK, ChainInv
<1>6. /\ sealed' \in Seq(BOOLEAN) /\ Len(sealed') = Len(bids) + 1 /\ sealed'[Len(bids) + 1] = o
      /\ \A i \in DOMAIN bids : sealed'[i] = sealed[i]
  BY <1>1, <1>5
<1>7. Len(bids') = Len(bids) + 1
  BY <1>4, <1>5
<1>8. bids'[Len(bids) + 1].commitment = c /\ ~bids'[Len(bids) + 1].revealed
  <2>1. PICK b : b = [bidder |-> a, commitment |-> c, escrow |-> e, revealed |-> FALSE, voided |-> FALSE,
                      claimed |-> FALSE, quantity |-> 0, tick |-> 0]
    OBVIOUS
  <2>2. bids' = Append(bids, b)
    BY <1>4, <2>1
  <2>3. bids'[Len(bids) + 1] = b
    BY <1>5, <2>2
  <2> QED BY <2>1, <2>3
<1>9. /\ DOMAIN bids' = DOMAIN bids \cup {Len(bids) + 1}
      /\ \A i \in DOMAIN bids : bids'[i] = bids[i]
  BY <1>1, BidAdded
<1>10. /\ \A i \in DOMAIN bids : sealed[i] => bids[i].commitment # Junk
       /\ \A i \in DOMAIN bids : bids[i].revealed /\ ~bids[i].voided => opened /\ sealed[i]
       /\ root = None /\ now \in Nat /\ lastVoidAt \in Nat
  BY <1>4 DEF ChainInv, Closed
<1>11. \A i \in DOMAIN bids' : /\ sealed'[i] => bids'[i].commitment # Junk
                               /\ bids'[i].revealed /\ ~bids'[i].voided => opened' /\ sealed'[i]
  BY <1>1, <1>6, <1>8, <1>9, <1>10
<1>12. ChainInv'
  BY <1>4, <1>6, <1>7, <1>10, <1>11 DEF ChainInv
<1>13. ~AnyRoot /\ ~Closed
  BY <1>4 DEF AnyRoot, registerRevealRoot, Closed
<1>14. \A d : CallHolds(d) => CallHolds(d)'
  BY <1>2, <1>13, CallsKept
<1> QED BY <1>3, <1>4, <1>9, <1>10, <1>12, <1>13, <1>14 DEF Keeps

-----------------------------------------------------------------------------
(* The settler's pass *)

\* A write in the pool does what it was sent for or nothing.
LEMMA MinedIsChainStep ==
  ASSUME BookInv, ChainInv, NEW c, CallHolds(c), Executed(c)
  PROVE  ChainStep
PROOF
<1>1. CASE c.fn = "closeCommit" /\ closeCommit
  BY <1>1 DEF ChainStep
<1>2. CASE c.fn = "registerRevealRoot" /\ registerRevealRoot(c.leaves)
  BY <1>2 DEF CallHolds, ChainStep
<1>3. CASE c.fn = "processReveals" /\ processReveals(c.leaves, c.chunk)
  <2>1. PICK C : C = c.chunk
    OBVIOUS
  <2>2. PICK l : l = c.leaves
    OBVIOUS
  <2>3. C \in SUBSET DOMAIN bids /\ processReveals(l, C)
    BY <1>3, <2>1, <2>2 DEF CallHolds
  <2> QED BY <2>3, ChunkIsReveals DEF ChainStep, BookInv
<1>4. CASE c.fn = "finalize" /\ finalize
  BY <1>4 DEF ChainStep
<1>5. CASE c.fn = "failOnRevealTimeout" /\ failOnRevealTimeout
  BY <1>5 DEF ChainStep
<1> QED BY <1>1, <1>2, <1>3, <1>4, <1>5 DEF Executed

LEMMA OthersAreChainStep ==
  ASSUME BookInv, Others
  PROVE  ChainStep /\ UNCHANGED settling
PROOF
<1>1. ASSUME NEW i \in DOMAIN bids, NEW v \in BOOLEAN, processReveal(i, v)
      PROVE  AnyReveals
  BY <1>1, OneReveal DEF BookInv
<1> QED BY <1>1 DEF Others, ChainStep, AnyDispute


\* The settler keeps its invariant when what it holds is no newer than the chain
\* and what it sends is due.
LEMMA PassKept ==
  ASSUME ChainInv, PassInv, Keeps, SettlerShape',
         settler'.now \in Nat, settler'.now <= now, settler'.todo \subseteq DOMAIN bids,
         settler'.at = "register" => Closed /\ opened,
         \A c \in pool' : c \in pool \/ CallHolds(c)
  PROVE  PassInv'
PROOF
<1>1. \A c \in pool' : CallHolds(c)
  BY DEF PassInv
<1>2. \A c \in pool' : CallHolds(c)'
  BY <1>1 DEF Keeps
<1>3. now \in Nat /\ now' \in Nat /\ now' >= now
  BY DEF ChainInv, Keeps
<1>4. settler'.now <= now'
  BY <1>3
<1>5. settler'.todo \subseteq DOMAIN bids' /\ (settler'.at = "register" => Closed' /\ opened')
  BY DEF Keeps
<1> QED BY <1>2, <1>4, <1>5 DEF PassInv

GoesOn == \E s, l, d : s # "register" /\ settler' = [settler EXCEPT !.at = s, !.leaves = l, !.call = d]

\* A pass that starts over, stays or goes on to a later step is kept.
LEMMA PassQuiet ==
  ASSUME ChainInv, PassInv, Keeps, pool' \subseteq pool,
         \/ settler' = Idle
         \/ settler' = settler
         \/ GoesOn
  PROVE  PassInv'
PROOF
<1>1. /\ SettlerShape /\ settler.now \in Nat /\ settler.now <= now /\ settler.todo \subseteq DOMAIN bids
      /\ settler.at = "register" => Closed /\ opened
  BY DEF PassInv
<1>2. now \in Nat
  BY DEF ChainInv
<1>3. CASE settler' = Idle
  <2>1. PICK d : d = NoCall
    OBVIOUS
  <2>2. settler' = [at |-> "idle", now |-> 0, leaves |-> None, todo |-> {}, call |-> d]
    BY <1>3, <2>1 DEF Idle
  <2>3. SettlerShape' /\ settler'.now = 0 /\ settler'.todo = {} /\ settler'.at = "idle"
    BY <2>2 DEF SettlerShape
  <2>6. settler'.now = 0 /\ 0 <= now
    BY <1>2, <2>3
  <2>5. settler'.now \in Nat /\ settler'.now <= now
    BY <2>6
  <2>4. settler'.now \in Nat /\ settler'.now <= now /\ settler'.todo \subseteq DOMAIN bids /\ settler'.at # "register"
    BY <2>3, <2>5
  <2> QED BY <2>3, <2>4, PassKept
<1>4. CASE settler' = settler
  BY <1>1, <1>4, PassKept DEF SettlerShape
<1>5. ASSUME NEW s, NEW l, NEW d, s # "register", settler' = [settler EXCEPT !.at = s, !.leaves = l, !.call = d]
      PROVE  PassInv'
  <2>1. settler' = [at |-> s, now |-> settler.now, leaves |-> l, todo |-> settler.todo, call |-> d]
    BY <1>1, <1>5 DEF SettlerShape
  <2>2. SettlerShape' /\ settler'.now = settler.now /\ settler'.todo = settler.todo /\ settler'.at = s
    BY <2>1 DEF SettlerShape
  <2> QED BY <1>1, <1>5, <2>2, PassKept
<1> QED BY <1>3, <1>4, <1>5 DEF GoesOn

LEMMA SendKept ==
  ASSUME ChainInv, PassInv, Keeps, NEW c, CallHolds(c), send(c)
  PROVE  PassInv'
PROOF
<1>1. /\ SettlerShape /\ settler.now \in Nat /\ settler.now <= now /\ settler.todo \subseteq DOMAIN bids
  BY DEF PassInv
<1>2. pool' = pool \cup {c} /\ settler' = [settler EXCEPT !.at = "wait", !.call = c]
  BY DEF send
<1>3. settler' = [at |-> "wait", now |-> settler.now, leaves |-> settler.leaves, todo |-> settler.todo, call |-> c]
  BY <1>1, <1>2 DEF SettlerShape
<1>4. SettlerShape' /\ settler'.now = settler.now /\ settler'.todo = settler.todo /\ settler'.at = "wait"
  BY <1>3 DEF SettlerShape
<1> QED BY <1>1, <1>2, <1>4, PassKept

LEMMA CallFields ==
  ASSUME NEW fn
  PROVE  Call(fn).fn = fn
BY DEF Call, NoCall

LEMMA HandleKept ==
  ASSUME ChainInv, PassInv, Keeps, handle
  PROVE  PassInv'
PROOF
<1>1. /\ SettlerShape /\ settler.now \in Nat /\ settler.now <= now /\ settler.todo \subseteq DOMAIN bids
      /\ now \in Nat /\ EndTime \in Nat /\ RevealDeadline \in Nat
  BY ConfigAssumption DEF PassInv, ChainInv
<1>2. \/ goto("done")
      \/ settler.now >= EndTime /\ send(Call("closeCommit"))
      \/ settler.now >= RevealDeadline /\ send(Call("failOnRevealTimeout"))
      \/ state = "CommitClosed" /\ opened /\ goto("register")
      \/ goto("compare")
      \/ settler' = Idle /\ UNCHANGED pool
  BY DEF handle, MayPlan, PastDeadline, rest
<1>3. ASSUME NEW s, goto(s), s = "register" => Closed /\ opened
      PROVE  PassInv'
  <2>1. settler' = [settler EXCEPT !.at = s] /\ pool' = pool
    BY <1>3 DEF goto
  <2>2. settler' = [at |-> s, now |-> settler.now, leaves |-> settler.leaves, todo |-> settler.todo,
                    call |-> settler.call]
    BY <1>1, <2>1 DEF SettlerShape
  <2>3. SettlerShape' /\ settler'.now = settler.now /\ settler'.todo = settler.todo /\ settler'.at = s
    BY <2>2 DEF SettlerShape
  <2> QED BY <1>1, <1>3, <2>1, <2>3, PassKept
<1>4. CASE settler.now >= EndTime /\ send(Call("closeCommit"))
  <2>1. CallHolds(Call("closeCommit"))
    BY <1>1, <1>4, CallFields DEF CallHolds
  <2> QED BY <1>4, <2>1, SendKept
<1>5. CASE settler.now >= RevealDeadline /\ send(Call("failOnRevealTimeout"))
  <2>1. CallHolds(Call("failOnRevealTimeout"))
    BY <1>1, <1>5, CallFields DEF CallHolds
  <2> QED BY <1>5, <2>1, SendKept
<1>6. CASE settler' = Idle /\ UNCHANGED pool
  BY <1>6, PassQuiet
<1>7. state = "CommitClosed" => Closed
  BY DEF Closed
<1> QED BY <1>2, <1>3, <1>4, <1>5, <1>6, <1>7


LEMMA PassMoves ==
  ASSUME BookInv, ChainInv, PassInv, Pass
  PROVE  Keeps /\ PassInv'
PROOF
<1>1. UNCHANGED <<vars, sealed, opened>>
  BY DEF Pass, poll, handle, register, compare, processPending, sendChunk, finalizeIfReady
<1>2. Keeps
  BY <1>1, ChainKeeps DEF ChainStep
<1>3. /\ SettlerShape /\ settler.now \in Nat /\ settler.now <= now /\ settler.todo \subseteq DOMAIN bids
      /\ settler.at = "register" => Closed /\ opened
      /\ now \in Nat /\ lastVoidAt \in Nat /\ Window \in Nat
  BY ConfigAssumption DEF PassInv, ChainInv
<1>4. CASE poll
  <2>1. PICK d : d = NoCall
    OBVIOUS
  <2>2. settler' = [at |-> "handle", now |-> now, leaves |-> None, todo |-> {}, call |-> d] /\ pool' = pool
    BY <1>4, <2>1 DEF poll, Idle
  <2>3. SettlerShape' /\ settler'.now = now /\ settler'.todo = {} /\ settler'.at = "handle"
    BY <2>2 DEF SettlerShape
  <2>4. settler'.now \in Nat /\ settler'.now <= now /\ settler'.todo \subseteq DOMAIN bids /\ settler'.at # "register"
    BY <1>3, <2>3
  <2> QED BY <1>2, <2>2, <2>3, <2>4, PassKept
<1>5. CASE handle
  BY <1>2, <1>5, HandleKept
<1>6. CASE register
  <2>1. PICK c : c = [Call("registerRevealRoot") EXCEPT !.leaves = Plan]
    OBVIOUS
  <2>2. c.fn = "registerRevealRoot" /\ c.leaves = Plan
    BY <2>1 DEF Call, NoCall
  <2>3. CallHolds(c)
    BY <1>3, <1>6, <2>2 DEF CallHolds, register
  <2>4. pool' = pool \cup {c} /\ settler' = [settler EXCEPT !.at = "wait", !.call = c, !.leaves = Plan]
    BY <1>6, <2>1 DEF register
  <2>5. settler' = [at |-> "wait", now |-> settler.now, leaves |-> Plan, todo |-> settler.todo, call |-> c]
    BY <1>3, <2>4 DEF SettlerShape
  <2>6. SettlerShape' /\ settler'.now = settler.now /\ settler'.todo = settler.todo /\ settler'.at = "wait"
    BY <2>5 DEF SettlerShape
  <2> QED BY <1>2, <1>3, <2>3, <2>4, <2>6, PassKept
<1>7. CASE compare
  <2>1. PICK l : l = Plan
    OBVIOUS
  <2>2. pool' = pool /\ (settler' = [settler EXCEPT !.at = "pending", !.leaves = l] \/ settler' = Idle)
    BY <1>7, <2>1 DEF compare
  <2>3. CASE settler' = [settler EXCEPT !.at = "pending", !.leaves = l]
    <3>1. settler' = [at |-> "pending", now |-> settler.now, leaves |-> l, todo |-> settler.todo, call |-> settler.call]
      BY <1>3, <2>3 DEF SettlerShape
    <3>2. SettlerShape' /\ settler'.now = settler.now /\ settler'.todo = settler.todo /\ settler'.at = "pending"
      BY <3>1 DEF SettlerShape
    <3> QED BY <1>2, <1>3, <2>2, <3>2, PassKept
  <2> QED BY <1>2, <2>2, <2>3, PassQuiet
<1>8. CASE processPending
  <2>1. PICK T \in SUBSET DOMAIN bids : T = {i \in DOMAIN bids : ~ bids[i].revealed}
    OBVIOUS
  <2>2. pool' = pool /\ settler' = [settler EXCEPT !.at = "chunks", !.todo = T]
    BY <1>8, <2>1 DEF processPending
  <2>3. settler' = [at |-> "chunks", now |-> settler.now, leaves |-> settler.leaves, todo |-> T, call |-> settler.call]
    BY <1>3, <2>2 DEF SettlerShape
  <2>4. SettlerShape' /\ settler'.now = settler.now /\ settler'.todo = T /\ settler'.at = "chunks"
    BY <2>3 DEF SettlerShape
  <2> QED BY <1>2, <1>3, <2>2, <2>4, PassKept
<1>9. CASE sendChunk
  <2>1. CASE settler.todo = {}
    <3>1. pool' = pool /\ settler' = [settler EXCEPT !.at = "finish"]
      BY <1>9, <2>1 DEF sendChunk, goto
    <3>2. settler' = [at |-> "finish", now |-> settler.now, leaves |-> settler.leaves, todo |-> settler.todo,
                      call |-> settler.call]
      BY <1>3, <3>1 DEF SettlerShape
    <3>3. SettlerShape' /\ settler'.now = settler.now /\ settler'.todo = settler.todo /\ settler'.at = "finish"
      BY <3>2 DEF SettlerShape
    <3> QED BY <1>2, <1>3, <3>1, <3>3, PassKept
  <2>2. CASE settler.todo # {}
    <3>1. PICK c : c = [Call("processReveals") EXCEPT !.leaves = settler.leaves, !.chunk = FirstOf(settler.todo)]
      OBVIOUS
    <3>2. c.fn = "processReveals" /\ c.chunk = FirstOf(settler.todo)
      BY <3>1 DEF Call, NoCall
    <3>3. CallHolds(c)
      BY <1>3, <3>2 DEF CallHolds, FirstOf
    <3>4. pool' = pool \cup {c} /\ settler' = [settler EXCEPT !.at = "wait", !.call = c, !.todo = @ \ c.chunk]
      BY <1>9, <2>2, <3>1 DEF sendChunk
    <3>5. settler' = [at |-> "wait", now |-> settler.now, leaves |-> settler.leaves, todo |-> settler.todo \ c.chunk,
                      call |-> c]
      BY <1>3, <3>4 DEF SettlerShape
    <3>6. SettlerShape' /\ settler'.now = settler.now /\ settler'.todo = settler.todo \ c.chunk /\ settler'.at = "wait"
      BY <3>5 DEF SettlerShape
    <3>7. settler'.todo \subseteq DOMAIN bids
      BY <1>3, <3>6
    <3> QED BY <1>2, <1>3, <3>3, <3>4, <3>6, <3>7, PassKept
  <2> QED BY <2>1, <2>2
<1>10. CASE finalizeIfReady
  <2>1. CASE state = "Revealing" /\ AllAccountedFor /\ WindowOver(settler)
    <3>1. (\E i \in DOMAIN bids : bids[i].voided) => settler.now >= lastVoidAt + Window
      BY <2>1 DEF WindowOver
    <3>2. settler.now >= lastVoidAt + Window => now >= lastVoidAt + Window
      BY <1>3
    <3>3. WindowClosed
      BY <2>1, <3>1, <3>2 DEF WindowClosed, DisputeWindowOver
    <3>4. CallHolds(Call("finalize"))
      BY <2>1, <3>3, CallFields DEF CallHolds
    <3>5. send(Call("finalize"))
      BY <1>10, <2>1 DEF finalizeIfReady
    <3> QED BY <1>2, <3>4, <3>5, SendKept
  <2>2. CASE ~(state = "Revealing" /\ AllAccountedFor /\ WindowOver(settler))
    <3>1. settler' = Idle /\ pool' = pool
      BY <1>10, <2>2 DEF finalizeIfReady, rest
    <3> QED BY <1>2, <3>1, PassQuiet
  <2> QED BY <2>1, <2>2
<1> QED BY <1>2, <1>4, <1>5, <1>6, <1>7, <1>8, <1>9, <1>10 DEF Pass

LEMMA SettlerInvStep ==
  ASSUME SettlerInv, [SettlerNext]_allVars
  PROVE  SettlerInv'
PROOF
<1> BookInv /\ ChainInv /\ PassInv
  BY DEF SettlerInv
<1> SUFFICES Keeps /\ PassInv'
  BY DEF Keeps, SettlerInv
<1>1. CASE Pass
  BY <1>1, PassMoves
<1>2. ASSUME NEW c \in pool, Mine(c)
      PROVE  Keeps /\ PassInv'
  <2>1. /\ pool' = pool \ {c} /\ UNCHANGED <<sealed, opened>>
        /\ \/ Executed(c) /\ settler' = IF AwaitedBy(c) THEN Continue(c) ELSE settler
           \/ UNCHANGED vars /\ settler' = IF AwaitedBy(c) THEN Idle ELSE settler
    BY <1>2 DEF Mine
  <2>2. CallHolds(c)
    BY DEF PassInv
  <2>3. ChainStep
    <3>1. Executed(c) => ChainStep
      BY <2>2, MinedIsChainStep
    <3> QED BY <2>1, <3>1 DEF ChainStep
  <2>4. Keeps
    BY <2>1, <2>3, ChainKeeps
  <2>5. settler' = Idle \/ settler' = settler \/ GoesOn
    <3>1. ASSUME settler' = Continue(c), settler' # Idle
          PROVE  GoesOn
      <4>1. PICK s : s = IF c.fn = "registerRevealRoot" THEN "pending" ELSE "chunks"
        OBVIOUS
      <4>2. PICK d : d = NoCall
        OBVIOUS
      <4>3. settler' = [settler EXCEPT !.at = s, !.call = d]
        BY <3>1, <4>1, <4>2 DEF Continue
      <4>4. PICK l : l = settler.leaves
        OBVIOUS
      <4>5. settler' = [settler EXCEPT !.at = s, !.leaves = l, !.call = d]
        BY <4>3, <4>4 DEF PassInv, SettlerShape
      <4>6. s # "register"
        BY <4>1
      <4> QED BY <4>5, <4>6 DEF GoesOn
    <3> QED BY <2>1, <3>1
  <2> QED BY <2>1, <2>4, <2>5, PassQuiet
<1>3. ASSUME NEW c \in pool, Dropped(c)
      PROVE  Keeps /\ PassInv'
  <2>1. UNCHANGED <<vars, sealed, opened>> /\ pool' \subseteq pool /\ (settler' = Idle \/ settler' = settler)
    BY <1>3 DEF Dropped
  <2>2. Keeps
    BY <2>1, ChainKeeps DEF ChainStep
  <2> QED BY <2>1, <2>2, PassQuiet
<1>4. CASE Interrupted
  <2>1. UNCHANGED <<vars, sealed, opened>> /\ pool' \subseteq pool /\ settler' = Idle
    BY <1>4 DEF Interrupted
  <2>2. Keeps
    BY <2>1, ChainKeeps DEF ChainStep
  <2> QED BY <2>1, <2>2, PassQuiet
<1>5. CASE Others
  <2>1. ChainStep /\ sealed' = sealed /\ opened' = opened /\ settler' = settler /\ pool' = pool
    BY <1>5, OthersAreChainStep DEF settling
  <2>2. Keeps
    BY <2>1, ChainKeeps
  <2> QED BY <2>1, <2>2, PassQuiet
<1>6. CASE Reveal
  <2>1. Keeps /\ settler' = settler /\ pool' = pool
    BY <1>6, RevealKeeps DEF Reveal
  <2> QED BY <2>1, PassQuiet
<1>7. ASSUME NEW a \in Bidders, NEW c \in Plaintexts \cup {Junk}, NEW e \in Escrows, NEW o \in BOOLEAN,
             BidSealed(a, c, e, o)
      PROVE  Keeps /\ PassInv'
  <2>1. Keeps
    BY <1>7, BidKeeps
  <2>2. settler' = settler /\ pool' = pool
    BY <1>7 DEF BidSealed
  <2> QED BY <2>1, <2>2, PassQuiet
<1>8. CASE UNCHANGED allVars
  <2>1. UNCHANGED <<vars, sealed, opened>> /\ settler' = settler /\ pool' = pool
    BY <1>8 DEF allVars, settling
  <2>2. Keeps
    BY <2>1, ChainKeeps DEF ChainStep
  <2> QED BY <2>1, <2>2, PassQuiet
<1> QED BY <1>1, <1>2, <1>3, <1>4, <1>5, <1>6, <1>7, <1>8 DEF SettlerNext

LEMMA SettlerInitially ==
  ASSUME SettlerInit
  PROVE  SettlerInv
PROOF
<1>1. Init /\ sealed = <<>> /\ pool = {} /\ settler = Idle
  BY DEF SettlerInit
<1>2. BookInv
  BY <1>1, BookInit
<1>3. state = "Created" /\ now = 0 /\ bids = <<>> /\ root = None /\ lastVoidAt = 0
  BY <1>1 DEF Init
<1>4. ChainInv
  BY <1>1, <1>3 DEF ChainInv
<1>5. PassInv
  <2>1. PICK d : d = NoCall
    OBVIOUS
  <2>2. settler = [at |-> "idle", now |-> 0, leaves |-> None, todo |-> {}, call |-> d]
    BY <1>1, <2>1 DEF Idle
  <2>3. SettlerShape /\ settler.now = 0 /\ settler.todo = {} /\ settler.at = "idle"
    BY <2>2 DEF SettlerShape
  <2> QED BY <1>1, <1>3, <2>3 DEF PassInv
<1> QED BY <1>2, <1>4, <1>5 DEF SettlerInv

\* The invariant of the settler and the contract together: whatever others call,
\* and whenever a pass dies or a write is lost or late, a registered root is the
\* plan every later pass makes, and every write under way is still due.
THEOREM SettlerInvariance == SettlerSpec => []SettlerInv
PROOF
<1>1. SettlerInit => SettlerInv
  BY SettlerInitially
<1>2. SettlerInv /\ [SettlerNext]_allVars => SettlerInv'
  BY SettlerInvStep
<1> QED BY <1>1, <1>2, PTL DEF SettlerSpec

\* The root registered is the one planned again, and no settlement was priced on
\* a bid that did not open to what was committed (planReveal, processPending).
THEOREM RootPlannedAgain == SettlerSpec => []RootIsThePlan
PROOF
<1>1. SettlerInv => RootIsThePlan
  <2> SUFFICES ASSUME BookInv, ChainInv PROVE RootIsThePlan
    BY DEF SettlerInv
  <2>1. root # None => root = Plan
    BY DEF ChainInv
  <2>2. ASSUME state = "Settled", NEW i \in DOMAIN bids
        PROVE  bids[i].voided \/ (opened /\ sealed[i])
    <3>1. bids[i].revealed
      BY <2>2 DEF BookInv, SaleKept, AllAccountedFor
    <3> QED BY <3>1 DEF ChainInv
  <2> QED BY <2>1, <2>2 DEF RootIsThePlan
<1> QED BY <1>1, SettlerInvariance, PTL

\* No write of the settler reverts for being early (handle, finalizeIfReady).
THEOREM NoWriteEarly == SettlerSpec => []WritesAreDue
PROOF
<1>1. SettlerInv => WritesAreDue
  <2> SUFFICES ASSUME BookInv, ChainInv, PassInv PROVE WritesAreDue
    BY DEF SettlerInv
  <2>1. DOMAIN Plan = DOMAIN bids
    BY DEF Plan
  <2>2. \A c \in pool : CallHolds(c)
    BY DEF PassInv
  <2> QED BY <2>1, <2>2 DEF CallHolds, WritesAreDue, WindowClosed
<1> QED BY <1>1, SettlerInvariance, PTL

-----------------------------------------------------------------------------
(* The scan for the clearing tick *)

\* The first tick from above whose cumulative demand reaches the supply.
LEMMA Crosses ==
  ASSUME NEW n \in Nat \ {0}, NEW d \in [0 .. n - 1 -> Nat], NEW offered \in Nat \ {0}, NEW c \in 0 .. n - 1,
         DemandFrom(d, c) >= offered, \A t \in 0 .. n - 1 : t > c => DemandFrom(d, t) < offered
  PROVE  FindClearingTick(d, offered)
           = [cleared |-> TRUE, clearingTick |-> c, supplySold |-> offered,
              demandAtClearingTick |-> d[c], supplyForClearingTick |-> offered - DemandFrom(d, c + 1)]
PROOF
<1> DEFINE crossing == {t \in DOMAIN d : DemandFrom(d, t) >= offered}
<1>1. c \in crossing /\ crossing \subseteq 0 .. n - 1
  OBVIOUS
<1>2. \A t \in crossing : t <= c
  <2> TAKE t \in crossing
  <2>1. t \in 0 .. n - 1 /\ DemandFrom(d, t) >= offered
    OBVIOUS
  <2>2. DemandFrom(d, t) \in Nat
    BY <2>1, DemandStep
  <2> QED BY <2>1, <2>2
<1>3. Max(crossing) = c
  <2> HIDE DEF crossing
  <2>1. IsFiniteSet(crossing) /\ crossing # {} /\ crossing \subseteq Int
    <3>1. IsFiniteSet(0 .. n - 1) /\ 0 .. n - 1 \subseteq Int
      BY FS_Interval
    <3>2. IsFiniteSet(crossing)
      BY <1>1, <3>1, FS_Subset
    <3> QED BY <1>1, <3>1, <3>2
  <2>2. PICK m : m = Max(crossing)
    OBVIOUS
  <2>3. m \in crossing /\ c <= m
    BY <1>1, <2>1, <2>2, MaxIn
  <2>4. m \in Int /\ m <= c
    BY <1>2, <2>1, <2>3
  <2> QED BY <2>2, <2>3, <2>4
<1> QED BY <1>1, <1>3, Zenon DEF FindClearingTick

\* No tick reaches it.
LEMMA NeverCrosses ==
  ASSUME NEW n \in Nat \ {0}, NEW d \in [0 .. n - 1 -> Nat], NEW offered \in Nat \ {0},
         \A t \in 0 .. n - 1 : DemandFrom(d, t) < offered
  PROVE  FindClearingTick(d, offered)
           = IF DemandFrom(d, 0) = 0 THEN NotCleared
             ELSE [cleared |-> TRUE, clearingTick |-> 0, supplySold |-> DemandFrom(d, 0),
                   demandAtClearingTick |-> d[0], supplyForClearingTick |-> d[0]]
PROOF
<1> DEFINE crossing == {t \in DOMAIN d : DemandFrom(d, t) >= offered}
<1>1. crossing = {}
  <2>1. ASSUME NEW t \in crossing PROVE FALSE
    <3>1. t \in 0 .. n - 1 /\ DemandFrom(d, t) >= offered
      OBVIOUS
    <3>2. DemandFrom(d, t) \in Nat /\ DemandFrom(d, t) < offered
      BY <3>1, DemandStep
    <3> QED BY <3>1, <3>2
  <2> QED BY <2>1
<1> QED BY <1>1, Zenon DEF FindClearingTick

AskOf == [i \in DOMAIN eligible |-> eligible[i].quantity]
AskedTick == [i \in DOMAIN eligible |-> eligible[i].tick]
AskedAt == [t \in ScanTicks |-> BidsAt(t)]

ScanTyped ==
  /\ eligible \in [1 .. NumBids -> Bids]
  /\ supply \in Nat \ {0}
  /\ tick \in Int /\ tick + 1 \in 0 .. TickCount
  /\ returned \in BOOLEAN

\* What the ticks above ask for has been counted, and none of them reached the supply.
Scanned ==
  ~returned => /\ cumulative = DemandFrom(Demand, tick + 1)
               /\ \A t \in ScanTicks : t > tick => DemandFrom(Demand, t) < supply

ScanInv == ScanTyped /\ Scanned /\ ScanIsClearingRule

LEMMA EligibleDemand ==
  ASSUME ScanTyped
  PROVE  /\ Demand \in [0 .. TickCount - 1 -> Nat]
         /\ TickCount \in Nat \ {0} /\ ScanTicks = 0 .. TickCount - 1
         /\ IsFiniteSet(DOMAIN eligible)
         /\ \A i \in DOMAIN eligible : AskOf[i] \in Nat /\ AskedTick[i] \in 0 .. TickCount - 1
         /\ AddsUp(Demand, AskOf, DOMAIN eligible, AskedTick, AskedAt, 0 .. TickCount - 1)
PROOF
<1>1. DOMAIN eligible = 1 .. NumBids /\ IsFiniteSet(DOMAIN eligible)
  BY ScanAssumption, FS_Interval DEF ScanTyped
<1>2. \A i \in DOMAIN eligible : AskOf[i] \in Nat /\ AskedTick[i] \in ScanTicks /\ AskedTick[i] = eligible[i].tick
  BY ScanAssumption DEF ScanTyped, AskOf, AskedTick, Bids
<1>3. ASSUME NEW t \in ScanTicks
      PROVE  /\ BidsAt(t) \in SUBSET DOMAIN eligible /\ SumFunctionOnSet(AskOf, BidsAt(t)) \in Nat
             /\ \A i \in DOMAIN eligible : i \in BidsAt(t) <=> AskedTick[i] = t
  <2>1. BidsAt(t) \in SUBSET DOMAIN eligible /\ \A i \in DOMAIN eligible : i \in BidsAt(t) <=> AskedTick[i] = t
    BY <1>2 DEF BidsAt
  <2>2. IsFiniteSet(BidsAt(t)) /\ \A i \in BidsAt(t) : AskOf[i] \in Nat
    BY <1>1, <1>2, <2>1, FS_Subset
  <2> QED BY <2>1, <2>2, SumNat
<1>4. Demand = [t \in ScanTicks |-> SumFunctionOnSet(AskOf, BidsAt(t))]
  BY DEF Demand, AskOf
<1>5. TickCount \in Nat \ {0} /\ ScanTicks = 0 .. TickCount - 1
  BY ScanAssumption DEF ScanTicks
<1>6. Demand \in [ScanTicks -> Nat]
  BY <1>3, <1>4
<1>7. AddsUp(Demand, AskOf, DOMAIN eligible, AskedTick, AskedAt, ScanTicks)
  BY <1>3, <1>4 DEF AddsUp, AskedAt
<1> QED BY <1>1, <1>2, <1>5, <1>6, <1>7

LEMMA ScanStarts ==
  ASSUME ScanInit
  PROVE  ScanInv
PROOF
<1>1. ScanTyped
  <2>1. supply \in Nat \ {0}
    BY ScanAssumption DEF ScanInit
  <2>2. tick \in Int /\ tick + 1 \in 0 .. TickCount
    BY ScanAssumption DEF ScanInit
  <2> QED BY <2>1, <2>2 DEF ScanInit, ScanTyped
<1>2. PICK n, d : n = TickCount /\ d = Demand
  OBVIOUS
<1>3. n \in Nat \ {0} /\ d \in [0 .. n - 1 -> Nat] /\ ScanTicks = 0 .. n - 1
  BY <1>1, <1>2, EligibleDemand
<1>4. DemandFrom(d, (n - 1) + 1) = 0
  <2>1. n - 1 \in 0 .. n - 1 /\ (n - 1) + 1 \notin 0 .. n - 1
    BY <1>3
  <2> QED BY <1>3, <2>1, DemandStep
<1>5. Scanned
  BY <1>2, <1>3, <1>4 DEF ScanInit, Scanned
<1>6. ScanIsClearingRule
  BY DEF ScanInit, ScanIsClearingRule
<1> QED BY <1>1, <1>5, <1>6 DEF ScanInv

LEMMA ScanMoves ==
  ASSUME ScanInv, [ScanNext]_scanVars
  PROVE  ScanInv'
PROOF
<1>0. ScanTyped /\ Scanned /\ ScanIsClearingRule
  BY DEF ScanInv
<1>1. eligible' = eligible /\ supply' = supply /\ Demand' = Demand
  BY DEF ScanNext, Cross, NextTick, Exhaust, scanVars, Demand, BidsAt
<1>2. PICK n, d, c, offered : n = TickCount /\ d = Demand /\ c = tick /\ offered = supply
  OBVIOUS
<1>3. /\ n \in Nat \ {0} /\ d \in [0 .. n - 1 -> Nat] /\ ScanTicks = 0 .. n - 1
      /\ c \in Int /\ c + 1 \in 0 .. n /\ offered \in Nat \ {0}
  BY <1>0, <1>2, EligibleDemand DEF ScanTyped
<1>4. ASSUME ~ returned, tick >= 0
      PROVE  /\ c \in 0 .. n - 1 /\ DemandFrom(d, c) = cumulative + d[c] /\ cumulative = DemandFrom(d, c + 1)
             /\ cumulative \in Nat /\ \A t \in 0 .. n - 1 : t > c => DemandFrom(d, t) < offered
  <2>1. c \in 0 .. n - 1
    BY <1>2, <1>3, <1>4
  <2>2. cumulative = DemandFrom(d, c + 1) /\ \A t \in 0 .. n - 1 : t > c => DemandFrom(d, t) < offered
    BY <1>0, <1>2, <1>3, <1>4 DEF Scanned
  <2>3. DemandFrom(d, c) = d[c] + DemandFrom(d, c + 1) /\ DemandFrom(d, c + 1) \in Nat /\ d[c] \in Nat
    BY <1>3, <2>1, DemandStep
  <2> QED BY <2>1, <2>2, <2>3
<1>5. CASE Cross
  <2>1. ~ returned /\ tick >= 0 /\ cumulative + d[c] >= offered /\ returned' = TRUE /\ tick' = tick
    BY <1>2, <1>5 DEF Cross, Reaches
  <2>2. result' = [cleared |-> TRUE, clearingTick |-> c, supplySold |-> offered,
                   demandAtClearingTick |-> d[c], supplyForClearingTick |-> offered - cumulative]
    BY <1>2, <1>5 DEF Cross
  <2>3. FindClearingTick(d, offered)
          = [cleared |-> TRUE, clearingTick |-> c, supplySold |-> offered,
             demandAtClearingTick |-> d[c], supplyForClearingTick |-> offered - DemandFrom(d, c + 1)]
    BY <1>3, <1>4, <2>1, Crosses
  <2>4. result' = FindClearingTick(d, offered)
    BY <1>4, <2>1, <2>2, <2>3
  <2> QED BY <1>0, <1>1, <1>2, <2>1, <2>4 DEF ScanInv, ScanTyped, Scanned, ScanIsClearingRule
<1>6. CASE NextTick
  <2>1. /\ ~ returned /\ tick >= 0 /\ ~ (cumulative + d[c] >= offered) /\ returned' = returned
        /\ cumulative' = cumulative + d[c] /\ tick' = c - 1
    BY <1>2, <1>6 DEF NextTick, Reaches
  <2>2. /\ c \in 0 .. n - 1 /\ DemandFrom(d, c) = cumulative + d[c] /\ cumulative \in Nat /\ d[c] \in Nat
        /\ \A t \in 0 .. n - 1 : t > c => DemandFrom(d, t) < offered
    BY <1>3, <1>4, <2>1
  <2>3. tick' \in Int /\ tick' + 1 = c /\ c \in 0 .. n
    BY <1>3, <2>1, <2>2
  <2>4. ScanTyped'
    BY <1>0, <1>1, <1>2, <2>1, <2>3 DEF ScanTyped
  <2>5. cumulative' = DemandFrom(d, tick' + 1)
    BY <2>1, <2>2, <2>3
  <2>6. \A t \in 0 .. n - 1 : t > tick' => DemandFrom(d, t) < offered
    <3> SUFFICES ASSUME NEW t \in 0 .. n - 1, t > tick' PROVE DemandFrom(d, t) < offered
      OBVIOUS
    <3>1. CASE t = c
      BY <1>3, <2>1, <2>2, <3>1
    <3>2. CASE t # c
      BY <2>1, <2>2, <3>2
    <3> QED BY <3>1, <3>2
  <2>7. Scanned'
    BY <1>1, <1>2, <1>3, <2>5, <2>6 DEF Scanned, ScanTicks
  <2> QED BY <2>1, <2>4, <2>7 DEF ScanInv, ScanIsClearingRule
<1>7. CASE Exhaust
  <2>1. /\ ~ returned /\ tick < 0 /\ returned' = TRUE /\ tick' = tick
        /\ result' = IF cumulative = 0 THEN NotCleared
                     ELSE [cleared |-> TRUE, clearingTick |-> 0, supplySold |-> cumulative,
                           demandAtClearingTick |-> d[0], supplyForClearingTick |-> d[0]]
    BY <1>2, <1>7 DEF Exhaust, UndersubscribedTick
  <2>2. c + 1 = 0 /\ \A t \in 0 .. n - 1 : t > c
    BY <1>2, <1>3, <2>1
  <2>3. cumulative = DemandFrom(d, 0) /\ \A t \in 0 .. n - 1 : DemandFrom(d, t) < offered
    BY <1>0, <1>2, <1>3, <2>1, <2>2 DEF Scanned
  <2>4. result' = FindClearingTick(d, offered)
    <3>1. FindClearingTick(d, offered)
            = IF DemandFrom(d, 0) = 0 THEN NotCleared
              ELSE [cleared |-> TRUE, clearingTick |-> 0, supplySold |-> DemandFrom(d, 0),
                    demandAtClearingTick |-> d[0], supplyForClearingTick |-> d[0]]
      BY <1>3, <2>3, NeverCrosses
    <3> QED BY <2>1, <2>3, <3>1
  <2> QED BY <1>0, <1>1, <1>2, <2>1, <2>4 DEF ScanInv, ScanTyped, Scanned, ScanIsClearingRule
<1>8. CASE UNCHANGED scanVars
  BY <1>0, <1>1, <1>8 DEF ScanInv, ScanTyped, Scanned, ScanIsClearingRule, scanVars
<1> QED BY <1>5, <1>6, <1>7, <1>8 DEF ScanNext

LEMMA ScanInvariance == ScanSpec => []ScanInv
PROOF
<1>1. ScanInv /\ [ScanNext]_scanVars => ScanInv'
  BY ScanMoves
<1> QED BY <1>1, ScanStarts, PTL DEF ScanSpec

\* The scan from the highest tick down, whatever the demand, returns what the
\* clearing rule says (ClearingPrice.findClearingTick).
THEOREM ScanFindsClearingTick == ScanSpec => []ScanIsClearingRule
PROOF
<1>1. ScanInv => ScanIsClearingRule
  BY DEF ScanInv
<1> QED BY <1>1, ScanInvariance, PTL

\* The rule's outcome, case by case.
LEMMA RuleOutcome ==
  ASSUME NEW n \in Nat \ {0}, NEW d \in [0 .. n - 1 -> Nat], NEW offered \in Nat \ {0},
         NEW r, r = FindClearingTick(d, offered)
  PROVE  \/ r = NotCleared /\ DemandFrom(d, 0) = 0
         \/ r.cleared /\ r.supplySold = offered
         \/ r.cleared /\ r.clearingTick = 0 /\ r.demandAtClearingTick = r.supplyForClearingTick
  BY Zenon DEF FindClearingTick

\* Of two bids for as much, the one at the higher tick gets no less.
LEMMA AllocationOrdered ==
  ASSUME NEW n \in Nat \ {0}, NEW d \in [0 .. n - 1 -> Nat], NEW offered \in Nat \ {0},
         NEW r, r = FindClearingTick(d, offered), r.cleared,
         NEW q \in Nat, NEW low \in 0 .. n - 1, NEW high \in 0 .. n - 1, low <= high
  PROVE  AllocationFor(r, q, low) <= AllocationFor(r, q, high)
PROOF
<1>1. PICK c \in 0 .. n - 1, part \in Nat, whole \in Nat :
          c = r.clearingTick /\ part = r.supplyForClearingTick /\ whole = r.demandAtClearingTick /\ part <= whole
  <2>1. /\ r.clearingTick \in 0 .. n - 1 /\ r.demandAtClearingTick = d[r.clearingTick]
        /\ r.supplyForClearingTick \in 0 .. d[r.clearingTick]
    BY Clears
  <2>2. d[r.clearingTick] \in Nat
    BY <2>1
  <2> QED BY <2>1, <2>2
<1>2. PICK share : share = ShareOf(q, part, whole)
  OBVIOUS
<1>3. \A t : AllocationFor(r, q, t) = IF t < c THEN 0 ELSE IF t > c \/ whole <= part THEN q ELSE share
  BY <1>1, <1>2 DEF AllocationFor
<1>4. ~ (whole <= part) => share \in Nat /\ share <= q
  <2> SUFFICES ASSUME ~ (whole <= part) PROVE share \in Nat /\ share <= q
    OBVIOUS
  <2>1. whole \in Nat \ {0}
    OBVIOUS
  <2> QED BY <1>1, <1>2, <2>1, ShareFits
<1>5. AllocationFor(r, q, low) = IF low < c THEN 0 ELSE IF low > c \/ whole <= part THEN q ELSE share
  BY <1>3
<1>6. AllocationFor(r, q, high) = IF high < c THEN 0 ELSE IF high > c \/ whole <= part THEN q ELSE share
  BY <1>3
<1>7. PICK lo \in Int, hi \in Int : lo = low /\ hi = high
  OBVIOUS
<1>8. PICK A, B : A = AllocationFor(r, q, low) /\ B = AllocationFor(r, q, high)
  OBVIOUS
<1>9. CASE lo < c
  <2>1. A = 0 /\ B \in Nat
    BY <1>1, <1>4, <1>5, <1>6, <1>7, <1>8, <1>9
  <2> QED BY <1>8, <2>1
<1>10. CASE ~ (lo < c) /\ lo = hi
  <2>1. A = B /\ A \in Nat
    BY <1>1, <1>4, <1>5, <1>6, <1>7, <1>8, <1>10
  <2> QED BY <1>8, <2>1
<1>11. CASE ~ (lo < c) /\ lo /= hi
  <2>1. high > c /\ ~ (high < c) /\ ~ (low < c)
    BY <1>1, <1>7, <1>11
  <2>2. B = q
    BY <1>6, <1>8, <2>1
  <2>3. A \in Nat /\ A <= q
    BY <1>4, <1>5, <1>8, <2>1
  <2> QED BY <1>8, <2>2, <2>3
<1> QED BY <1>9, <1>10, <1>11

\* The allocations at the price fit the sale, lose less than a unit a marginal bid to
\* rounding, and are fair (ClearingPrice.allocationFor).
THEOREM AllocationsAlwaysHold == ScanSpec => []AllocationsHold
PROOF
<1>1. ScanInv => AllocationsHold
  <2> SUFFICES ASSUME ScanInv, returned PROVE AllocationsFit /\ AllocationsAreFair
    BY DEF AllocationsHold, AllocationsFit, AllocationsAreFair
  <2>1. PICK n, d, offered, r, S, q, k, cell :
            /\ n = TickCount /\ d = Demand /\ offered = supply /\ r = result /\ S = DOMAIN eligible
            /\ q = AskOf /\ k = AskedTick /\ cell = AskedAt
    OBVIOUS
  <2>2. /\ n \in Nat \ {0} /\ d \in [0 .. n - 1 -> Nat] /\ offered \in Nat \ {0}
        /\ r = FindClearingTick(d, offered) /\ IsFiniteSet(S) /\ ScanTicks = 0 .. n - 1
        /\ \A i \in S : q[i] \in Nat /\ k[i] \in 0 .. n - 1
        /\ AddsUp(d, q, S, k, cell, 0 .. n - 1)
    BY <2>1, EligibleDemand DEF ScanInv, ScanTyped, ScanIsClearingRule
  <2>3. \A i \in S : q[i] = eligible[i].quantity /\ k[i] = eligible[i].tick
    BY <2>1 DEF AskOf, AskedTick
  <2>4. PICK a : a = [i \in S |-> AllocationFor(r, q[i], k[i])]
    OBVIOUS
  <2>5. \A i \in S : a[i] = AllocationFor(r, q[i], k[i]) /\ Allocation(i) = a[i]
    BY <2>1, <2>3, <2>4 DEF Allocation
  <2>6. Allocated = SumFunctionOnSet(a, S)
    <3>1. [i \in DOMAIN eligible |-> Allocation(i)] = a
      BY <2>1, <2>4, <2>5
    <3>2. DOMAIN a = S
      BY <2>4
    <3> QED BY <3>1, <3>2, Zenon DEF Allocated, SumFunction
  <2>7. CASE ~ r.cleared
    <3>1. r = NotCleared /\ r.supplySold = 0
      BY <2>2, <2>7, RuleOutcome DEF NotCleared
    <3>2. \A i \in S : a[i] = 0
      BY <2>5, <2>7 DEF AllocationFor
    <3>3. Allocated = 0
      BY <2>2, <2>6, <3>2, SumZero
    <3>4. AllocationsFit
      BY <2>1, <2>2, <3>1, <3>3 DEF AllocationsFit
    <3>5. \A i \in S : Allocation(i) = 0 /\ eligible[i].quantity \in Nat
      BY <2>2, <2>3, <2>5, <3>2
    <3>6. AllocationsAreFair
      BY <2>1, <2>7, <3>5 DEF AllocationsAreFair
    <3> QED BY <3>4, <3>6
  <2>8. CASE r.cleared
    <3>1. /\ \A i \in S : a[i] \in Nat /\ a[i] <= q[i]
          /\ SumFunctionOnSet(a, S) \in Int /\ SumFunctionOnSet(a, S) <= r.supplySold
          /\ \/ SumFunctionOnSet(a, S) = r.supplySold
             \/ r.supplySold - SumFunctionOnSet(a, S) < Cardinality(cell[r.clearingTick])
      <4>1. \A i \in S : q[i] \in Nat /\ k[i] \in 0 .. n - 1 /\ a[i] = AllocationFor(r, q[i], k[i])
        BY <2>2, <2>5
      <4> QED BY <2>2, <2>8, <4>1, AllocationsFitSale, Zenon
    <3>2. /\ r.clearingTick \in 0 .. n - 1 /\ r.supplySold \in 0 .. offered
          /\ r.demandAtClearingTick = d[r.clearingTick]
      BY <2>2, <2>8, Clears
    <3>3. cell[r.clearingTick] = BidsAt(r.clearingTick)
      BY <2>1, <2>2, <3>2 DEF AskedAt
    <3>4. AllocationsFit
      BY <2>1, <2>2, <2>6, <3>1, <3>2, <3>3 DEF AllocationsFit
    <3>5. ASSUME NEW i \in S, NEW j \in S, eligible[i].quantity = eligible[j].quantity,
                 eligible[i].tick <= eligible[j].tick
          PROVE  Allocation(i) <= Allocation(j)
      <4>1. q[i] = q[j] /\ k[i] <= k[j] /\ q[i] \in Nat /\ k[i] \in 0 .. n - 1 /\ k[j] \in 0 .. n - 1
        BY <2>2, <2>3, <3>5
      <4>2. AllocationFor(r, q[i], k[i]) <= AllocationFor(r, q[i], k[j])
        BY <2>2, <2>8, <4>1, AllocationOrdered
      <4> QED BY <2>5, <4>1, <4>2
    <3>6. \A i \in S : Allocation(i) <= eligible[i].quantity
      BY <2>3, <2>5, <3>1
    <3>7. ASSUME r.supplySold < offered, NEW i \in S
          PROVE  Allocation(i) = eligible[i].quantity
      <4>1. r.clearingTick = 0 /\ r.demandAtClearingTick = r.supplyForClearingTick
        <5>1. r.supplySold # offered
          BY <2>2, <3>2, <3>7
        <5> QED BY <2>2, <2>8, <5>1, RuleOutcome DEF NotCleared
      <4>2. PICK t \in Nat, whole \in Nat : t = k[i] /\ whole = r.demandAtClearingTick
        <5>1. d[r.clearingTick] \in Nat
          BY <2>2, <3>2
        <5> QED BY <2>2, <3>2, <5>1
      <4>3. AllocationFor(r, q[i], k[i]) = q[i]
        BY <2>8, <4>1, <4>2 DEF AllocationFor
      <4> QED BY <2>3, <2>5, <4>3
    <3>8. AllocationsAreFair
      BY <2>1, <3>5, <3>6, <3>7 DEF AllocationsAreFair
    <3> QED BY <3>4, <3>8
  <2> QED BY <2>7, <2>8
<1> QED BY <1>1, ScanInvariance, PTL

=============================================================================
