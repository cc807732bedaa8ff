------------------------ MODULE LinksConsensusProofs ------------------------
(***************************************************************************)
(* Theorems about the validators of the links ledger, for any number of    *)
(* validators, any transactions and any length of the chain.               *)
(***************************************************************************)
EXTENDS LinksConsensus, FiniteSetTheorems, SequenceTheorems, WellFoundedInduction, TLAPS

-----------------------------------------------------------------------------
(* FoldLeft, transaction by transaction *)

\* FoldLeft takes the transactions of a block in order.
FoldEq(g, l, txs, m) ==
    g = [s \in SUBSET (1 .. m) |-> IF s = {} THEN l ELSE ApplyTx(g[s \ {Max(s)}], txs[Max(s)])]

\* The ledger after the first k transactions of txs on top of l.
Partial(l, txs, k) == (CHOOSE g : FoldEq(g, l, txs, Len(txs)))[1 .. k]

-----------------------------------------------------------------------------
(* The inductive invariant *)

BlockType == [parent : Nat, height : Nat, txs : Seq(Txs)]

Witnessed(t) == IsMint(t) => Cardinality({n \in Node : <<n, t>> \in confirmed}) >= Quorum

\* Every proposal stands on a notarized one before it, one height up.
BlocksOK ==
    /\ blocks \in Seq(BlockType)
    /\ \A v \in 1 .. Len(blocks) : /\ blocks[v].parent \in 0 .. v - 1
                                   /\ blocks[v].parent \in notarized
                                   /\ blocks[v].height = HeightOf(blocks[v].parent) + 1

\* A mint reaches a block through a mempool whose node confirmed it, and a
\* quorum of votes of nodes that did.
VotesOK ==
    /\ mempool \in [Node -> Seq(Txs)]
    /\ \A n \in Node : \A t \in Range(mempool[n]) : Confirms(n, t)
    /\ votes \subseteq Node
    /\ Len(blocks) > 0 => \A n \in votes : \A t \in TxsOf(Len(blocks)) : Confirms(n, t)
    /\ notarized \subseteq Views
    /\ \A v \in notarized \ {0} : \A t \in TxsOf(v) : Witnessed(t)

\* The finalized proposals are one chain, up to the highest of them.
FinalsOK ==
    /\ 0 \in finals /\ finals \subseteq notarized
    /\ Tip \in finals /\ \A b \in finals : b <= Tip
    /\ finals \subseteq Chain(Tip)

\* A node applies one finalized block at a time, on top of the head it stored.
AtWork(n, a) ==
    /\ a = [block |-> a.block, next |-> a.next, oks |-> a.oks, result |-> a.result]
    /\ a.block \in Chain(Tip) \ {0}
    /\ a.next \in 1 .. Len(blocks[a.block].txs) + 1
    /\ a.oks \in Seq(BOOLEAN) /\ Len(a.oks) = a.next - 1
    /\ a.result \in {None, "ok", "failed"}
    /\ a.result # None => a.next = Len(blocks[a.block].txs) + 1
    /\ IF a.result = "ok" THEN stored[n] = a.block
       ELSE blocks[a.block].parent = stored[n] /\ head[n] = stored[n]

\* What the ledger of an intact node holds between two attempts: the replay of
\* the stored head, or that and the first transactions of the next block, which
\* was interrupted.
Resting(n) ==
    \/ ledger[n] = Replay(stored[n])
    \/ \E b \in torn[n] :
         /\ blocks[b].parent = stored[n]
         /\ \E m \in 0 .. Len(blocks[b].txs) : ledger[n] = Partial(Replay(stored[n]), blocks[b].txs, m)

\* And during one: the replay and the transactions tried since, or more of them
\* where an earlier attempt got further.
InStep(n, a) ==
    IF a.result = "ok" THEN ledger[n] = Replay(stored[n])
    ELSE IF a.result = "failed" THEN Resting(n)
    ELSE /\ \E m \in 0 .. Len(blocks[a.block].txs) :
              /\ m >= a.next - 1 /\ ledger[n] = Partial(Replay(stored[n]), blocks[a.block].txs, m)
              /\ m = a.next - 1 \/ a.block \in torn[n]
         /\ a.block \in torn[n] \/ TRUE \in Range(a.oks) \/ ledger[n] = Replay(stored[n])

NodeOK(n) ==
    /\ stored[n] \in Chain(Tip) /\ head[n] \in Chain(Tip)
    /\ known[n] \subseteq Chain(Tip) /\ unknown[n] \subseteq Chain(Tip)
    /\ torn[n] \subseteq Chain(Tip) \ {0}
    /\ ledger[n] \in Seq(Txs) /\ Range(ledger[n]) \subseteq FinalTxs
    /\ IF applying[n] = None THEN head[n] = stored[n] /\ (Intact(n) => Resting(n))
       ELSE /\ AtWork(n, applying[n])
            /\ \A i \in DOMAIN applying[n].oks :
                 applying[n].oks[i] => blocks[applying[n].block].txs[i] \in Range(ledger[n])
            /\ Intact(n) => InStep(n, applying[n])

NodesOK ==
    /\ stored = [n \in Node |-> stored[n]] /\ head = [n \in Node |-> head[n]]
    /\ known = [n \in Node |-> known[n]] /\ unknown = [n \in Node |-> unknown[n]]
    /\ ledger = [n \in Node |-> ledger[n]] /\ applying = [n \in Node |-> applying[n]]
    /\ torn = [n \in Node |-> torn[n]] /\ skipped = [n \in Node |-> skipped[n]]
    /\ \A n \in Node : NodeOK(n)

AnswersOK == AnsweredIsFinal /\ \A p \in promised : p.node \in Node

IInv == BlocksOK /\ VotesOK /\ FinalsOK /\ NodesOK /\ AnswersOK

-----------------------------------------------------------------------------
(* Lemmas: recursion on views and over the transactions of a block *)

\* A set of naturals that is not empty has a least element.
LEMMA LeastNatural ==
  ASSUME NEW D, D \subseteq Nat, D # {}
  PROVE  \E n \in D : \A m \in D : n <= m
PROOF
<1>1. IsWellFoundedOn(OpToRel(<, Nat), Nat)
  BY NatLessThanWellFounded
<1>2. \E n \in D : \A m \in D : <<m, n>> \notin OpToRel(<, Nat)
  BY <1>1, WFMin
<1>3. OpToRel(<, Nat) = {ss \in Nat \X Nat : ss[1] < ss[2]}
  BY Zenon DEF OpToRel
<1> DEFINE R == {ss \in Nat \X Nat : ss[1] < ss[2]}
<1>4. PICK n \in D : \A m \in D : <<m, n>> \notin R
  BY <1>2, <1>3, Zenon
<1>5. \A m \in D : <<m, n>> \in R <=> m < n
  OBVIOUS
<1>6. \A m \in D : ~ (m < n)
  BY <1>4, <1>5, Zenon
<1> HIDE DEF R
<1> QED BY <1>6

\* Chain and Replay are solutions of their equations over a list of blocks.
ChainEq(g, bs, m) ==
    g = [v \in 0 .. m |-> IF v = 0 THEN {0} ELSE {v} \union g[bs[v].parent]]

ReplayEq(g, bs, m) ==
    g = [v \in 0 .. m |-> IF v = 0 THEN <<>> ELSE FoldLeft(ApplyTx, g[bs[v].parent], bs[v].txs)]

Parents(bs) == \A v \in 1 .. Len(bs) : bs[v].parent \in 0 .. v - 1

LEMMA RecursiveForm ==
  ASSUME NEW b
  PROVE  /\ Chain(b) = (CHOOSE g : ChainEq(g, blocks, Len(blocks)))[b]
         /\ Chain(b)' = (CHOOSE g : ChainEq(g, blocks', Len(blocks')))[b]
         /\ Replay(b) = (CHOOSE g : ReplayEq(g, blocks, Len(blocks)))[b]
         /\ Replay(b)' = (CHOOSE g : ReplayEq(g, blocks', Len(blocks')))[b]
  BY DEF Chain, ChainEq, Replay, ReplayEq, Views

LEMMA ChainExists ==
  ASSUME NEW bs, Len(bs) \in Nat, Parents(bs), NEW n \in 0 .. Len(bs)
  PROVE  \E g : ChainEq(g, bs, n)
PROOF
<1> DEFINE D == {m \in 0 .. Len(bs) : ~ \E g : ChainEq(g, bs, m)}
<1>1. ASSUME D # {} PROVE FALSE
  <2>0. D \subseteq Nat /\ D # {}
    BY <1>1
  <2> HIDE DEF D
  <2>1. PICK m \in D : \A k \in D : m <= k
    BY <2>0, LeastNatural
  <2> USE DEF D
  <2>2. m \in 0 .. Len(bs) /\ ~ \E g : ChainEq(g, bs, m)
    BY <2>1
  <2>3. m # 0
    <3>1. ChainEq([v \in 0 .. 0 |-> {0}], bs, 0)
      BY DEF ChainEq
    <3> QED BY <2>2, <3>1
  <2>4. m - 1 \in 0 .. Len(bs) /\ m - 1 \notin D
    BY <2>1, <2>2, <2>3
  <2>5. PICK g : ChainEq(g, bs, m - 1)
    BY <2>4
  <2> DEFINE h == [v \in 0 .. m |-> IF v = m THEN {m} \union g[bs[m].parent] ELSE g[v]]
  <2>6. ASSUME NEW v \in 0 .. m
        PROVE  h[v] = IF v = 0 THEN {0} ELSE {v} \union h[bs[v].parent]
    <3>1. CASE v = m
      <4>1. bs[m].parent \in 0 .. m - 1
        BY <2>2, <2>3 DEF Parents
      <4>2. bs[m].parent \in 0 .. m /\ bs[m].parent # m
        BY <2>2, <4>1
      <4> QED BY <2>3, <3>1, <4>2
    <3>2. CASE v # m
      <4>1. v \in 0 .. m - 1 /\ h[v] = g[v]
        BY <2>2, <3>2
      <4>2. g[v] = IF v = 0 THEN {0} ELSE {v} \union g[bs[v].parent]
        BY <2>5, <4>1 DEF ChainEq
      <4>3. ASSUME v # 0 PROVE h[bs[v].parent] = g[bs[v].parent]
        <5>1. bs[v].parent \in 0 .. v - 1
          BY <2>2, <4>1, <4>3 DEF Parents
        <5>2. bs[v].parent \in 0 .. m /\ bs[v].parent # m
          BY <2>2, <4>1, <5>1
        <5> QED BY <5>2
      <4> HIDE DEF h
      <4> QED BY <4>1, <4>2, <4>3
    <3> QED BY <3>1, <3>2
  <2>7. ChainEq(h, bs, m)
    BY <2>6 DEF ChainEq
  <2> QED BY <2>2, <2>7
<1> QED BY <1>1

LEMMA ChainUnique ==
  ASSUME NEW bs, NEW n \in Nat, \A v \in 1 .. n : bs[v].parent \in 0 .. v - 1,
         NEW f, ChainEq(f, bs, n), NEW g, ChainEq(g, bs, n)
  PROVE  f = g
PROOF
<1> DEFINE D == {v \in 0 .. n : f[v] # g[v]}
<1>1. ASSUME D # {} PROVE FALSE
  <2>0. D \subseteq Nat /\ D # {}
    BY <1>1
  <2> HIDE DEF D
  <2>1. PICK m \in D : \A k \in D : m <= k
    BY <2>0, LeastNatural
  <2> USE DEF D
  <2>2. m \in 0 .. n /\ f[m] # g[m]
    BY <2>1
  <2>3. m # 0
    BY <2>2 DEF ChainEq
  <2>4. bs[m].parent \in 0 .. m - 1
    BY <2>2, <2>3
  <2>5. bs[m].parent \in 0 .. n /\ bs[m].parent \notin D
    BY <2>1, <2>2, <2>4
  <2>6. f[m] = {m} \union f[bs[m].parent] /\ g[m] = {m} \union g[bs[m].parent]
    BY <2>2, <2>3 DEF ChainEq
  <2> QED BY <2>2, <2>5, <2>6
<1>2. \A v \in 0 .. n : f[v] = g[v]
  BY <1>1
<1> QED BY <1>2 DEF ChainEq

LEMMA ReplayExists ==
  ASSUME NEW bs, Len(bs) \in Nat, Parents(bs), NEW n \in 0 .. Len(bs)
  PROVE  \E g : ReplayEq(g, bs, n)
PROOF
<1> DEFINE D == {m \in 0 .. Len(bs) : ~ \E g : ReplayEq(g, bs, m)}
<1>1. ASSUME D # {} PROVE FALSE
  <2>0. D \subseteq Nat /\ D # {}
    BY <1>1
  <2> HIDE DEF D
  <2>1. PICK m \in D : \A k \in D : m <= k
    BY <2>0, LeastNatural
  <2> USE DEF D
  <2>2. m \in 0 .. Len(bs) /\ ~ \E g : ReplayEq(g, bs, m)
    BY <2>1
  <2>3. m # 0
    <3>1. ReplayEq([v \in 0 .. 0 |-> <<>>], bs, 0)
      BY DEF ReplayEq
    <3> QED BY <2>2, <3>1
  <2>4. m - 1 \in 0 .. Len(bs) /\ m - 1 \notin D
    BY <2>1, <2>2, <2>3
  <2>5. PICK g : ReplayEq(g, bs, m - 1)
    BY <2>4
  <2> DEFINE h == [v \in 0 .. m |-> IF v = m THEN FoldLeft(ApplyTx, g[bs[m].parent], bs[m].txs) ELSE g[v]]
  <2>6. ASSUME NEW v \in 0 .. m
        PROVE  h[v] = IF v = 0 THEN <<>> ELSE FoldLeft(ApplyTx, h[bs[v].parent], bs[v].txs)
    <3>1. CASE v = m
      <4>1. bs[m].parent \in 0 .. m - 1
        BY <2>2, <2>3 DEF Parents
      <4>2. h[bs[m].parent] = g[bs[m].parent]
        BY <2>2, <4>1
      <4>3. h[m] = FoldLeft(ApplyTx, g[bs[m].parent], bs[m].txs)
        <5>1. m \in 0 .. m
          BY <2>2
        <5> QED BY <5>1, Zenon
      <4> QED BY <2>3, <3>1, <4>2, <4>3, Zenon
    <3>2. CASE v # m
      <4>1. v \in 0 .. m - 1 /\ h[v] = g[v]
        BY <2>2, <3>2
      <4>2. g[v] = IF v = 0 THEN <<>> ELSE FoldLeft(ApplyTx, g[bs[v].parent], bs[v].txs)
        BY <2>5, <4>1, Zenon DEF ReplayEq
      <4>3. ASSUME v # 0 PROVE h[bs[v].parent] = g[bs[v].parent]
        <5>1. bs[v].parent \in 0 .. v - 1
          BY <2>2, <4>1, <4>3 DEF Parents
        <5>2. bs[v].parent \in 0 .. m /\ bs[v].parent # m
          BY <2>2, <4>1, <5>1
        <5> QED BY <5>2
      <4> HIDE DEF h
      <4> QED BY <4>1, <4>2, <4>3, Zenon
    <3> QED BY <3>1, <3>2, Zenon
  <2>7. ReplayEq(h, bs, m)
    BY <2>6, Zenon DEF ReplayEq
  <2> QED BY <2>2, <2>7
<1> QED BY <1>1

LEMMA ReplayUnique ==
  ASSUME NEW bs, NEW n \in Nat, \A v \in 1 .. n : bs[v].parent \in 0 .. v - 1,
         NEW f, ReplayEq(f, bs, n), NEW g, ReplayEq(g, bs, n)
  PROVE  f = g
PROOF
<1> DEFINE D == {v \in 0 .. n : f[v] # g[v]}
<1>1. ASSUME D # {} PROVE FALSE
  <2>0. D \subseteq Nat /\ D # {}
    BY <1>1
  <2> HIDE DEF D
  <2>1. PICK m \in D : \A k \in D : m <= k
    BY <2>0, LeastNatural
  <2> USE DEF D
  <2>2. m \in 0 .. n /\ f[m] # g[m]
    BY <2>1
  <2>3. m # 0
    BY <2>2 DEF ReplayEq
  <2>4. bs[m].parent \in 0 .. m - 1
    BY <2>2, <2>3
  <2>5. bs[m].parent \in 0 .. n /\ bs[m].parent \notin D
    BY <2>1, <2>2, <2>4
  <2>6. f[bs[m].parent] = g[bs[m].parent]
    BY <2>5
  <2>7. /\ f[m] = FoldLeft(ApplyTx, f[bs[m].parent], bs[m].txs)
        /\ g[m] = FoldLeft(ApplyTx, g[bs[m].parent], bs[m].txs)
    BY <2>2, <2>3, Zenon DEF ReplayEq
  <2> QED BY <2>2, <2>6, <2>7, Zenon
<1>2. \A v \in 0 .. n : f[v] = g[v]
  BY <1>1
<1> QED BY <1>2, Zenon DEF ReplayEq

LEMMA FoldForm ==
  ASSUME NEW l, NEW txs, DOMAIN txs = 1 .. Len(txs)
  PROVE  FoldLeft(ApplyTx, l, txs) = (CHOOSE g : FoldEq(g, l, txs, Len(txs)))[1 .. Len(txs)]
  BY DEF FoldLeft, MapThenFoldSet, FoldEq

LEMMA MaxIs ==
  ASSUME NEW s, NEW m \in s, s \subseteq Nat, \A x \in s : x <= m
  PROVE  Max(s) = m
PROOF
<1>1. \A y \in s : m >= y
  OBVIOUS
<1>2. Max(s) \in s /\ \A y \in s : Max(s) >= y
  BY <1>1 DEF Max
<1>3. m \in Nat /\ Max(s) \in Nat /\ m >= Max(s) /\ Max(s) >= m
  BY <1>1, <1>2
<1> QED BY <1>3

LEMMA MaxIsIn ==
  ASSUME NEW n \in Nat, NEW s \in SUBSET (1 .. n), s # {}
  PROVE  Max(s) \in s /\ \A x \in s : x <= Max(s)
PROOF
<1> DEFINE D == {u \in 0 .. n : \A x \in s : x <= u}
<1>1. D \subseteq Nat /\ D # {}
  <2>1. n \in D
    OBVIOUS
  <2> QED BY <2>1
<1> HIDE DEF D
<1>2. PICK u \in D : \A v \in D : u <= v
  BY <1>1, LeastNatural
<1> USE DEF D
<1>3. u \in 0 .. n /\ \A x \in s : x <= u
  BY <1>2
<1>4. u \in s
  <2>1. ASSUME u \notin s PROVE FALSE
    <3>1. PICK x \in s : TRUE
      OBVIOUS
    <3>2. \A y \in s : y <= u - 1
      BY <1>3, <2>1
    <3>3. u - 1 \in D
      BY <1>3, <3>1, <3>2
    <3> QED BY <1>2, <1>3, <3>3
  <2> QED BY <2>1
<1>5. Max(s) = u
  <2>1. s \subseteq Nat
    OBVIOUS
  <2> QED BY <1>3, <1>4, <2>1, MaxIs
<1> QED BY <1>3, <1>4, <1>5

LEMMA FoldExists ==
  ASSUME NEW l, NEW txs, NEW n \in Nat
  PROVE  \E g : FoldEq(g, l, txs, n)
PROOF
<1> DEFINE D == {m \in Nat : ~ \E g : FoldEq(g, l, txs, m)}
<1>1. ASSUME D # {} PROVE FALSE
  <2>0. D \subseteq Nat /\ D # {}
    BY <1>1
  <2> HIDE DEF D
  <2>1. PICK m \in D : \A k \in D : m <= k
    BY <2>0, LeastNatural
  <2> USE DEF D
  <2>2. m \in Nat /\ ~ \E g : FoldEq(g, l, txs, m)
    BY <2>1
  <2>3. m # 0
    <3>1. \A s \in SUBSET (1 .. 0) : s = {}
      OBVIOUS
    <3>2. FoldEq([s \in SUBSET (1 .. 0) |-> l], l, txs, 0)
      BY <3>1, Zenon DEF FoldEq
    <3> QED BY <2>2, <3>2
  <2>4. m - 1 \in Nat /\ m - 1 \notin D
    BY <2>1, <2>2, <2>3
  <2>5. PICK g : FoldEq(g, l, txs, m - 1)
    BY <2>4
  <2> DEFINE h == [s \in SUBSET (1 .. m) |-> IF m \in s THEN ApplyTx(g[s \ {m}], txs[m]) ELSE g[s]]
  <2>6. ASSUME NEW s \in SUBSET (1 .. m)
        PROVE  h[s] = IF s = {} THEN l ELSE ApplyTx(h[s \ {Max(s)}], txs[Max(s)])
    <3>1. CASE m \in s
      <4>1. Max(s) = m
        <5>1. s \subseteq Nat /\ \A x \in s : x <= m
          OBVIOUS
        <5> QED BY <3>1, <5>1, MaxIs
      <4>2. s \ {m} \in SUBSET (1 .. m) /\ m \notin s \ {m} /\ s # {}
        BY <3>1
      <4>3. h[s \ {m}] = g[s \ {m}]
        BY <4>2, Zenon
      <4>4. h[s] = ApplyTx(g[s \ {m}], txs[m])
        BY <3>1, Zenon
      <4> QED BY <4>1, <4>2, <4>3, <4>4, Zenon
    <3>2. CASE m \notin s
      <4>1. s \in SUBSET (1 .. m - 1) /\ h[s] = g[s]
        <5>1. s \in SUBSET (1 .. m - 1)
          BY <2>2, <3>2
        <5> QED BY <3>2, <5>1, Zenon
      <4>2. g[s] = IF s = {} THEN l ELSE ApplyTx(g[s \ {Max(s)}], txs[Max(s)])
        BY <2>5, <4>1, Zenon DEF FoldEq
      <4>3. s \ {Max(s)} \in SUBSET (1 .. m) /\ m \notin s \ {Max(s)}
        BY <3>2
      <4>4. h[s \ {Max(s)}] = g[s \ {Max(s)}]
        BY <4>3, Zenon
      <4> HIDE DEF h
      <4> QED BY <4>1, <4>2, <4>4, Zenon
    <3> QED BY <3>1, <3>2, Zenon
  <2>7. FoldEq(h, l, txs, m)
    BY <2>6, Zenon DEF FoldEq
  <2> QED BY <2>2, <2>7
<1> QED BY <1>1

LEMMA PartialIs ==
  ASSUME NEW l, NEW txs, DOMAIN txs = 1 .. Len(txs), Len(txs) \in Nat
  PROVE  /\ Partial(l, txs, 0) = l
         /\ FoldLeft(ApplyTx, l, txs) = Partial(l, txs, Len(txs))
PROOF
<1> DEFINE g == CHOOSE f : FoldEq(f, l, txs, Len(txs))
<1>1. FoldEq(g, l, txs, Len(txs))
  BY FoldExists
<1>2. \A k : Partial(l, txs, k) = g[1 .. k]
  BY DEF Partial
<1>3. FoldLeft(ApplyTx, l, txs) = Partial(l, txs, Len(txs))
  BY FoldForm DEF Partial
<1> HIDE DEF g
<1>4. g[1 .. 0] = l
  <2>1. 1 .. 0 = {} /\ 1 .. 0 \in SUBSET (1 .. Len(txs))
    OBVIOUS
  <2> QED BY <1>1, <2>1, Zenon DEF FoldEq
<1> QED BY <1>2, <1>3, <1>4, Zenon

LEMMA PartialNext ==
  ASSUME NEW l, NEW txs \in Seq(Txs), NEW k \in 1 .. Len(txs)
  PROVE  Partial(l, txs, k) = ApplyTx(Partial(l, txs, k - 1), txs[k])
PROOF
<1> DEFINE g == CHOOSE f : FoldEq(f, l, txs, Len(txs))
<1>1. FoldEq(g, l, txs, Len(txs))
  BY FoldExists
<1>2. \A i : Partial(l, txs, i) = g[1 .. i]
  BY DEF Partial
<1> HIDE DEF g
<1>5. g[1 .. k] = ApplyTx(g[1 .. k - 1], txs[k])
  <2>1. 1 .. k \in SUBSET (1 .. Len(txs)) /\ 1 .. k # {} /\ (1 .. k) \ {k} = 1 .. k - 1
    <3>1. 1 .. k \subseteq 1 .. Len(txs) /\ k \in 1 .. k
      OBVIOUS
    <3>2. \A x : x \in (1 .. k) \ {k} <=> x \in 1 .. k - 1
      OBVIOUS
    <3> QED BY <3>1, <3>2
  <2>2. Max(1 .. k) = k
    <3>1. k \in 1 .. k /\ 1 .. k \subseteq Nat /\ \A x \in 1 .. k : x <= k
      OBVIOUS
    <3> QED BY <3>1, MaxIs
  <2>3. g[1 .. k] = ApplyTx(g[(1 .. k) \ {Max(1 .. k)}], txs[Max(1 .. k)])
    BY <1>1, <2>1, Zenon DEF FoldEq
  <2> QED BY <2>1, <2>2, <2>3, Zenon
<1> QED BY <1>2, <1>5, Zenon

\* The same for the transactions a mempool keeps.
KeepEq(g, gone, txs, m) ==
    g = [s \in SUBSET (1 .. m) |-> IF s = {} THEN <<>> ELSE Keep(gone, g[s \ {Max(s)}], txs[Max(s)])]

LEMMA KeepForm ==
  ASSUME NEW gone, NEW txs, DOMAIN txs = 1 .. Len(txs)
  PROVE  Without(txs, gone) = (CHOOSE g : KeepEq(g, gone, txs, Len(txs)))[1 .. Len(txs)]
  BY DEF Without, FoldLeft, MapThenFoldSet, KeepEq

LEMMA KeepExists ==
  ASSUME NEW gone, NEW txs, NEW n \in Nat
  PROVE  \E g : KeepEq(g, gone, txs, n)
PROOF
<1> DEFINE D == {m \in Nat : ~ \E g : KeepEq(g, gone, txs, m)}
<1>1. ASSUME D # {} PROVE FALSE
  <2>0. D \subseteq Nat /\ D # {}
    BY <1>1
  <2> HIDE DEF D
  <2>1. PICK m \in D : \A k \in D : m <= k
    BY <2>0, LeastNatural
  <2> USE DEF D
  <2>2. m \in Nat /\ ~ \E g : KeepEq(g, gone, txs, m)
    BY <2>1
  <2>3. m # 0
    <3>1. \A s \in SUBSET (1 .. 0) : s = {}
      OBVIOUS
    <3>2. KeepEq([s \in SUBSET (1 .. 0) |-> <<>>], gone, txs, 0)
      BY <3>1, Zenon DEF KeepEq
    <3> QED BY <2>2, <3>2
  <2>4. m - 1 \in Nat /\ m - 1 \notin D
    BY <2>1, <2>2, <2>3
  <2>5. PICK g : KeepEq(g, gone, txs, m - 1)
    BY <2>4
  <2> DEFINE h == [s \in SUBSET (1 .. m) |-> IF m \in s THEN Keep(gone, g[s \ {m}], txs[m]) ELSE g[s]]
  <2>6. ASSUME NEW s \in SUBSET (1 .. m)
        PROVE  h[s] = IF s = {} THEN <<>> ELSE Keep(gone, h[s \ {Max(s)}], txs[Max(s)])
    <3>1. CASE m \in s
      <4>1. Max(s) = m
        <5>1. s \subseteq Nat /\ \A x \in s : x <= m
          OBVIOUS
        <5> QED BY <3>1, <5>1, MaxIs
      <4>2. s \ {m} \in SUBSET (1 .. m) /\ m \notin s \ {m} /\ s # {}
        BY <3>1
      <4>3. h[s \ {m}] = g[s \ {m}]
        BY <4>2, Zenon
      <4>4. h[s] = Keep(gone, g[s \ {m}], txs[m])
        BY <3>1, Zenon
      <4> QED BY <4>1, <4>2, <4>3, <4>4, Zenon
    <3>2. CASE m \notin s
      <4>1. s \in SUBSET (1 .. m - 1) /\ h[s] = g[s]
        <5>1. s \in SUBSET (1 .. m - 1)
          BY <2>2, <3>2
        <5> QED BY <3>2, <5>1, Zenon
      <4>2. g[s] = IF s = {} THEN <<>> ELSE Keep(gone, g[s \ {Max(s)}], txs[Max(s)])
        BY <2>5, <4>1, Zenon DEF KeepEq
      <4>3. s \ {Max(s)} \in SUBSET (1 .. m) /\ m \notin s \ {Max(s)}
        BY <3>2
      <4>4. h[s \ {Max(s)}] = g[s \ {Max(s)}]
        BY <4>3, Zenon
      <4> HIDE DEF h
      <4> QED BY <4>1, <4>2, <4>4, Zenon
    <3> QED BY <3>1, <3>2, Zenon
  <2>7. KeepEq(h, gone, txs, m)
    BY <2>6, Zenon DEF KeepEq
  <2> QED BY <2>2, <2>7
<1> QED BY <1>1

LEMMA WithoutIs ==
  ASSUME NEW S, NEW txs \in Seq(S), NEW gone
  PROVE  Without(txs, gone) \in Seq(Range(txs))
PROOF
<1>0. DOMAIN txs = 1 .. Len(txs) /\ Len(txs) \in Nat
  OBVIOUS
<1> DEFINE g == CHOOSE f : KeepEq(f, gone, txs, Len(txs))
           V == Seq(Range(txs))
           D == {k \in 0 .. Len(txs) : g[1 .. k] \notin V}
<1>1. KeepEq(g, gone, txs, Len(txs))
  BY <1>0, KeepExists
<1>2. Without(txs, gone) = g[1 .. Len(txs)]
  BY <1>0, KeepForm
<1> HIDE DEF g
<1>3. ASSUME D # {} PROVE FALSE
  <2>0. D \subseteq Nat /\ D # {}
    BY <1>0, <1>3
  <2> HIDE DEF D
  <2>1. PICK m \in D : \A k \in D : m <= k
    BY <2>0, LeastNatural
  <2>2. m \in 0 .. Len(txs) /\ g[1 .. m] \notin V
    BY <2>1 DEF D
  <2>3. m # 0
    <3>1. 1 .. 0 = {} /\ 1 .. 0 \in SUBSET (1 .. Len(txs))
      OBVIOUS
    <3>2. g[1 .. 0] = <<>>
      BY <1>1, <3>1, Zenon DEF KeepEq
    <3>3. <<>> \in V
      OBVIOUS
    <3> QED BY <2>2, <3>2, <3>3
  <2>4. m - 1 \in 0 .. Len(txs) /\ m - 1 \notin D /\ m \in 1 .. Len(txs)
    BY <1>0, <2>1, <2>2, <2>3
  <2>5. g[1 .. m - 1] \in V
    BY <2>4 DEF D
  <2>6. 1 .. m \in SUBSET (1 .. Len(txs)) /\ 1 .. m # {} /\ (1 .. m) \ {m} = 1 .. m - 1
    <3>1. 1 .. m \subseteq 1 .. Len(txs) /\ m \in 1 .. m
      BY <1>0, <2>4
    <3>2. \A x : x \in (1 .. m) \ {m} <=> x \in 1 .. m - 1
      BY <2>4
    <3> QED BY <3>1, <3>2
  <2>7. Max(1 .. m) = m
    <3>1. m \in 1 .. m /\ 1 .. m \subseteq Nat /\ \A x \in 1 .. m : x <= m
      BY <2>4
    <3> QED BY <3>1, MaxIs
  <2>8. g[1 .. m] = Keep(gone, g[(1 .. m) \ {Max(1 .. m)}], txs[Max(1 .. m)])
    BY <1>1, <2>6, Zenon DEF KeepEq
  <2>9. g[1 .. m] = Keep(gone, g[1 .. m - 1], txs[m])
    BY <2>6, <2>7, <2>8, Zenon
  <2>10. txs[m] \in Range(txs)
    BY <1>0, <2>4 DEF Range
  <2> QED BY <2>2, <2>5, <2>9, <2>10 DEF Keep
<1>4. Len(txs) \in 0 .. Len(txs)
  BY <1>0
<1> QED BY <1>2, <1>3, <1>4

-----------------------------------------------------------------------------
(* Lemmas: the chain and its replay *)

LEMMA BlocksAre ==
  ASSUME BlocksOK
  PROVE  /\ Len(blocks) \in Nat /\ Parents(blocks) /\ DOMAIN blocks = 1 .. Len(blocks)
         /\ \A v \in 1 .. Len(blocks) : blocks[v] \in BlockType /\ blocks[v].txs \in Seq(Txs)
         /\ \A v \in Views : HeightOf(v) \in Nat
PROOF
<1>1. Len(blocks) \in Nat /\ DOMAIN blocks = 1 .. Len(blocks) /\ \A v \in 1 .. Len(blocks) : blocks[v] \in BlockType
  BY DEF BlocksOK
<1>2. \A v \in 1 .. Len(blocks) : blocks[v].txs \in Seq(Txs) /\ blocks[v].height \in Nat
  BY <1>1 DEF BlockType
<1> QED BY <1>1, <1>2 DEF BlocksOK, Parents, HeightOf, Views

LEMMA ChainUnfold ==
  ASSUME BlocksOK
  PROVE  /\ Chain(0) = {0}
         /\ \A v \in 1 .. Len(blocks) : Chain(v) = {v} \union Chain(blocks[v].parent)
PROOF
<1> DEFINE g == CHOOSE f : ChainEq(f, blocks, Len(blocks))
<1>1. Len(blocks) \in Nat /\ Parents(blocks)
  BY BlocksAre
<1>2. Len(blocks) \in 0 .. Len(blocks)
  BY <1>1
<1>3. \E f : ChainEq(f, blocks, Len(blocks))
  BY <1>1, <1>2, ChainExists
<1>4. ChainEq(g, blocks, Len(blocks))
  BY <1>3
<1>5. \A b : Chain(b) = g[b]
  BY RecursiveForm
<1> HIDE DEF g
<1> QED BY <1>1, <1>4, <1>5 DEF ChainEq

LEMMA ReplayUnfold ==
  ASSUME BlocksOK
  PROVE  /\ Replay(0) = <<>>
         /\ \A v \in 1 .. Len(blocks) : Replay(v) = Partial(Replay(blocks[v].parent), blocks[v].txs, Len(blocks[v].txs))
PROOF
<1> DEFINE g == CHOOSE f : ReplayEq(f, blocks, Len(blocks))
<1>1. Len(blocks) \in Nat /\ Parents(blocks)
  BY BlocksAre
<1>2. Len(blocks) \in 0 .. Len(blocks)
  BY <1>1
<1>3. \E f : ReplayEq(f, blocks, Len(blocks))
  BY <1>1, <1>2, ReplayExists
<1>4. ReplayEq(g, blocks, Len(blocks))
  BY <1>3
<1>5. \A b : Replay(b) = g[b]
  BY RecursiveForm
<1> HIDE DEF g
<1>6. Replay(0) = <<>>
  <2>1. 0 \in 0 .. Len(blocks)
    BY <1>1
  <2> QED BY <1>4, <1>5, <2>1, Zenon DEF ReplayEq
<1>7. ASSUME NEW v \in 1 .. Len(blocks)
      PROVE  Replay(v) = Partial(Replay(blocks[v].parent), blocks[v].txs, Len(blocks[v].txs))
  <2>1. v \in 0 .. Len(blocks) /\ v # 0
    BY <1>1
  <2>2. g[v] = FoldLeft(ApplyTx, g[blocks[v].parent], blocks[v].txs)
    BY <1>4, <2>1, Zenon DEF ReplayEq
  <2>3. blocks[v].txs \in Seq(Txs)
    BY BlocksAre
  <2>4. Len(blocks[v].txs) \in Nat /\ DOMAIN blocks[v].txs = 1 .. Len(blocks[v].txs)
    BY <2>3
  <2>5. FoldLeft(ApplyTx, g[blocks[v].parent], blocks[v].txs) = Partial(g[blocks[v].parent], blocks[v].txs, Len(blocks[v].txs))
    BY <2>4, PartialIs
  <2> QED BY <1>5, <2>2, <2>5, Zenon
<1> QED BY <1>6, <1>7

LEMMA ChainBelow ==
  ASSUME BlocksOK, NEW v \in Views
  PROVE  Chain(v) \subseteq 0 .. v /\ v \in Chain(v) /\ \A a \in Chain(v) : Chain(a) \subseteq Chain(v)
PROOF
<1> DEFINE P(x) == Chain(x) \subseteq 0 .. x /\ x \in Chain(x) /\ \A a \in Chain(x) : Chain(a) \subseteq Chain(x)
           D == {x \in Views : ~ P(x)}
<1>0. Len(blocks) \in Nat /\ Parents(blocks)
  BY BlocksAre
<1>1. ASSUME D # {} PROVE FALSE
  <2>0. D \subseteq Nat /\ D # {}
    BY <1>1 DEF Views
  <2> HIDE DEF D
  <2>1. PICK m \in D : \A k \in D : m <= k
    BY <2>0, LeastNatural
  <2>2. m \in Views /\ ~ P(m)
    BY <2>1 DEF D
  <2>3. m # 0
    <3>1. P(0)
      BY ChainUnfold
    <3> QED BY <2>2, <3>1
  <2>4. m \in 1 .. Len(blocks) /\ blocks[m].parent \in 0 .. m - 1
    BY <1>0, <2>2, <2>3 DEF Views, Parents
  <2>5. blocks[m].parent \in Views /\ blocks[m].parent \notin D
    BY <1>0, <2>1, <2>4 DEF Views
  <2>6. P(blocks[m].parent)
    BY <2>5 DEF D
  <2>7. Chain(m) = {m} \union Chain(blocks[m].parent)
    BY <2>4, ChainUnfold
  <2>8. Chain(blocks[m].parent) \subseteq 0 .. m
    BY <2>4, <2>6
  <2>9. m \in 0 .. m
    BY <2>4
  <2> QED BY <2>2, <2>6, <2>7, <2>8, <2>9
<1>2. P(v)
  BY <1>1
<1> QED BY <1>2

LEMMA ChainNotarized ==
  ASSUME BlocksOK, notarized \subseteq Views, NEW v \in notarized
  PROVE  Chain(v) \subseteq notarized
PROOF
<1> DEFINE D == {x \in notarized : ~ (Chain(x) \subseteq notarized)}
<1>0. Len(blocks) \in Nat /\ Parents(blocks)
  BY BlocksAre
<1>1. ASSUME D # {} PROVE FALSE
  <2>0. D \subseteq Nat /\ D # {}
    <3>1. \A x \in notarized : x \in Nat
      BY <1>0 DEF Views
    <3> QED BY <1>1, <3>1
  <2> HIDE DEF D
  <2>1. PICK m \in D : \A k \in D : m <= k
    BY <2>0, LeastNatural
  <2>2. m \in notarized /\ ~ (Chain(m) \subseteq notarized)
    BY <2>1 DEF D
  <2>3. m # 0
    BY <2>2, ChainUnfold
  <2>4. m \in 1 .. Len(blocks) /\ blocks[m].parent \in 0 .. m - 1 /\ blocks[m].parent \in notarized
    BY <1>0, <2>2, <2>3 DEF Views, BlocksOK
  <2>5. blocks[m].parent \notin D
    BY <2>1, <2>4
  <2>6. Chain(blocks[m].parent) \subseteq notarized
    BY <2>4, <2>5 DEF D
  <2> QED BY <2>2, <2>4, <2>6, ChainUnfold
<1> QED BY <1>1

LEMMA ApplyGrows ==
  ASSUME NEW l \in Seq(Txs), NEW t \in Txs
  PROVE  /\ ApplyTx(l, t) \in Seq(Txs) /\ Range(l) \subseteq Range(ApplyTx(l, t))
         /\ Range(ApplyTx(l, t)) \subseteq Range(l) \union {t}
         /\ Accepts(l, t) => t \in Range(ApplyTx(l, t))
         /\ ~Accepts(l, t) => ApplyTx(l, t) = l
PROOF
<1>1. /\ Append(l, t) \in Seq(Txs) /\ Range(l) \subseteq Range(Append(l, t))
      /\ Range(Append(l, t)) \subseteq Range(l) \union {t}
  BY DEF Range
<1>2. t \in Range(Append(l, t))
  <2>1. Len(l) + 1 \in DOMAIN Append(l, t) /\ Append(l, t)[Len(l) + 1] = t
    OBVIOUS
  <2> QED BY <2>1 DEF Range
<1> QED BY <1>1, <1>2 DEF ApplyTx

LEMMA PartialGrows ==
  ASSUME NEW l \in Seq(Txs), NEW txs \in Seq(Txs), NEW n \in 0 .. Len(txs)
  PROVE  Partial(l, txs, n) \in Seq(Txs) /\ Range(l) \subseteq Range(Partial(l, txs, n))
PROOF
<1> DEFINE D == {k \in 0 .. Len(txs) : ~ (Partial(l, txs, k) \in Seq(Txs) /\ Range(l) \subseteq Range(Partial(l, txs, k)))}
<1>0. Len(txs) \in Nat /\ DOMAIN txs = 1 .. Len(txs)
  OBVIOUS
<1>1. ASSUME D # {} PROVE FALSE
  <2>0. D \subseteq Nat /\ D # {}
    BY <1>0, <1>1
  <2> HIDE DEF D
  <2>1. PICK m \in D : \A k \in D : m <= k
    BY <2>0, LeastNatural
  <2>2. m \in 0 .. Len(txs) /\ ~ (Partial(l, txs, m) \in Seq(Txs) /\ Range(l) \subseteq Range(Partial(l, txs, m)))
    BY <2>1 DEF D
  <2>3. m # 0
    BY <1>0, <2>2, PartialIs
  <2>4. m - 1 \in 0 .. Len(txs) /\ m - 1 \notin D /\ m \in 1 .. Len(txs)
    BY <1>0, <2>1, <2>2, <2>3
  <2>5. Partial(l, txs, m - 1) \in Seq(Txs) /\ Range(l) \subseteq Range(Partial(l, txs, m - 1))
    BY <2>4 DEF D
  <2>6. Partial(l, txs, m) = ApplyTx(Partial(l, txs, m - 1), txs[m])
    BY <2>4, PartialNext
  <2>7. txs[m] \in Txs
    BY <2>4
  <2> QED BY <2>2, <2>5, <2>6, <2>7, ApplyGrows
<1> QED BY <1>1

LEMMA ReplayGrows ==
  ASSUME BlocksOK, NEW v \in Views
  PROVE  Replay(v) \in Seq(Txs) /\ \A a \in Chain(v) : Range(Replay(a)) \subseteq Range(Replay(v))
PROOF
<1> DEFINE P(x) == Replay(x) \in Seq(Txs) /\ \A a \in Chain(x) : Range(Replay(a)) \subseteq Range(Replay(x))
           D == {x \in Views : ~ P(x)}
<1>0. Len(blocks) \in Nat /\ Parents(blocks)
  BY BlocksAre
<1>1. ASSUME D # {} PROVE FALSE
  <2>0. D \subseteq Nat /\ D # {}
    BY <1>1 DEF Views
  <2> HIDE DEF D
  <2>1. PICK m \in D : \A k \in D : m <= k
    BY <2>0, LeastNatural
  <2>2. m \in Views /\ ~ P(m)
    BY <2>1 DEF D
  <2>3. m # 0
    <3>1. P(0)
      <4>1. Chain(0) = {0} /\ Replay(0) = <<>>
        BY ChainUnfold, ReplayUnfold, Zenon
      <4>2. <<>> \in Seq(Txs)
        OBVIOUS
      <4> QED BY <4>1, <4>2
    <3> QED BY <2>2, <3>1
  <2>4. m \in 1 .. Len(blocks) /\ blocks[m].parent \in 0 .. m - 1
    BY <1>0, <2>2, <2>3 DEF Views, Parents
  <2>5. blocks[m].parent \in Views /\ blocks[m].parent \notin D
    BY <1>0, <2>1, <2>4 DEF Views
  <2>6. P(blocks[m].parent)
    BY <2>5 DEF D
  <2>7. blocks[m].txs \in Seq(Txs) /\ Replay(m) = Partial(Replay(blocks[m].parent), blocks[m].txs, Len(blocks[m].txs))
    BY <2>4, BlocksAre, ReplayUnfold
  <2>8. Len(blocks[m].txs) \in 0 .. Len(blocks[m].txs)
    BY <2>7
  <2>9. Replay(m) \in Seq(Txs) /\ Range(Replay(blocks[m].parent)) \subseteq Range(Replay(m))
    BY <2>6, <2>7, <2>8, PartialGrows
  <2>10. Chain(m) = {m} \union Chain(blocks[m].parent)
    BY <2>4, ChainUnfold
  <2> QED BY <2>2, <2>6, <2>9, <2>10
<1>2. P(v)
  BY <1>1
<1> QED BY <1>2

\* A new proposal leaves the chains and the replays of the others alone.
LEMMA ProposalAdds ==
  ASSUME BlocksOK, NEW b \in BlockType, b.parent \in Views, blocks' = Append(blocks, b)
  PROVE  /\ \A v \in Views : Chain(v)' = Chain(v) /\ Replay(v)' = Replay(v) /\ HeightOf(v)' = HeightOf(v)
         /\ \A v \in 1 .. Len(blocks) : blocks'[v] = blocks[v]
         /\ Len(blocks') = Len(blocks) + 1 /\ blocks'[Len(blocks) + 1] = b
PROOF
<1>0. Len(blocks) \in Nat /\ Parents(blocks)
  BY BlocksAre
<1>1. /\ \A v \in 1 .. Len(blocks) : blocks'[v] = blocks[v]
      /\ Len(blocks') = Len(blocks) + 1 /\ blocks'[Len(blocks) + 1] = b
  BY DEF BlocksOK
<1> DEFINE n == Len(blocks)
<1>2. Parents(blocks')
  BY <1>0, <1>1 DEF Parents, Views
<1>3. n \in Nat /\ n \in 0 .. Len(blocks') /\ n + 1 \in 0 .. Len(blocks') /\ n \in 0 .. Len(blocks) /\ Len(blocks') \in Nat
  BY <1>0, <1>1
<1>4. \A v \in 1 .. n : blocks[v].parent \in 0 .. v - 1
  BY <1>0 DEF Parents
<1>5. \A v \in Views : Chain(v)' = Chain(v)
  <2>1. PICK f : f = (CHOOSE g : ChainEq(g, blocks, n)) /\ ChainEq(f, blocks, n)
    BY <1>0, <1>3, ChainExists
  <2>2. PICK h : h = (CHOOSE g : ChainEq(g, blocks', n + 1)) /\ ChainEq(h, blocks', n + 1)
    BY <1>2, <1>3, ChainExists
  <2> DEFINE r == [v \in 0 .. n |-> h[v]]
  <2>3. ASSUME NEW v \in 0 .. n
        PROVE  r[v] = IF v = 0 THEN {0} ELSE {v} \union r[blocks[v].parent]
    <3>0. v \in 0 .. n + 1
      BY <1>3
    <3>1. h[v] = IF v = 0 THEN {0} ELSE {v} \union h[blocks'[v].parent]
      BY <3>0, <2>2, Zenon DEF ChainEq
    <3>2. v # 0 => blocks'[v] = blocks[v] /\ blocks[v].parent \in 0 .. n
      BY <1>0, <1>1, <1>4
    <3> QED BY <3>1, <3>2
  <2>4. ChainEq(r, blocks, n)
    BY <2>3 DEF ChainEq
  <2>5. f = r
    BY <1>3, <1>4, <2>1, <2>4, ChainUnique
  <2>6. \A v : Chain(v) = f[v] /\ Chain(v)' = h[v]
    BY <1>1, <2>1, <2>2, RecursiveForm
  <2> QED BY <2>5, <2>6 DEF Views
<1>6. \A v \in Views : Replay(v)' = Replay(v)
  <2>1. PICK f : f = (CHOOSE g : ReplayEq(g, blocks, n)) /\ ReplayEq(f, blocks, n)
    BY <1>0, <1>3, ReplayExists
  <2>2. PICK h : h = (CHOOSE g : ReplayEq(g, blocks', n + 1)) /\ ReplayEq(h, blocks', n + 1)
    BY <1>2, <1>3, ReplayExists
  <2> DEFINE r == [v \in 0 .. n |-> h[v]]
  <2>3. ASSUME NEW v \in 0 .. n
        PROVE  r[v] = IF v = 0 THEN <<>> ELSE FoldLeft(ApplyTx, r[blocks[v].parent], blocks[v].txs)
    <3>0. v \in 0 .. n + 1
      BY <1>3
    <3>1. h[v] = IF v = 0 THEN <<>> ELSE FoldLeft(ApplyTx, h[blocks'[v].parent], blocks'[v].txs)
      BY <3>0, <2>2, Zenon DEF ReplayEq
    <3>2. v # 0 => blocks'[v] = blocks[v] /\ blocks[v].parent \in 0 .. n
      BY <1>0, <1>1, <1>4
    <3>3. r[v] = h[v] /\ (v # 0 => r[blocks[v].parent] = h[blocks[v].parent])
      BY <3>2
    <3> HIDE DEF r
    <3> QED BY <3>1, <3>2, <3>3, Zenon
  <2>4. ReplayEq(r, blocks, n)
    BY <2>3, Zenon DEF ReplayEq
  <2>5. f = r
    BY <1>3, <1>4, <2>1, <2>4, ReplayUnique
  <2>6. \A v : Replay(v) = f[v] /\ Replay(v)' = h[v]
    BY <1>1, <2>1, <2>2, RecursiveForm
  <2> QED BY <2>5, <2>6 DEF Views
<1>7. \A v \in Views : HeightOf(v)' = HeightOf(v)
  BY <1>1 DEF HeightOf, Views
<1> QED BY <1>1, <1>5, <1>6, <1>7

LEMMA BlocksKept ==
  ASSUME UNCHANGED blocks
  PROVE  /\ Views' = Views
         /\ \A b : Chain(b)' = Chain(b) /\ Replay(b)' = Replay(b) /\ HeightOf(b)' = HeightOf(b) /\ TxsOf(b)' = TxsOf(b)
PROOF
<1>1. \A b : Chain(b)' = Chain(b) /\ Replay(b)' = Replay(b)
  BY RecursiveForm
<1> QED BY <1>1 DEF Views, HeightOf, TxsOf

\* The last transaction of an account is what the ledger names its commitment by.
LEMMA CommitmentAfter ==
  ASSUME NEW l \in Seq(Txs), NEW t \in Txs, NEW a
  PROVE  CommitmentIn(Append(l, t), a) = IF t.account = a THEN t.to ELSE CommitmentIn(l, a)
PROOF
<1> DEFINE r == Append(l, t)
           own == {i \in DOMAIN l : l[i].account = a}
           ownr == {i \in DOMAIN r : r[i].account = a}
<1>1. /\ Len(l) \in Nat /\ DOMAIN l = 1 .. Len(l) /\ DOMAIN r = 1 .. Len(l) + 1
      /\ r[Len(l) + 1] = t /\ \A i \in 1 .. Len(l) : r[i] = l[i]
  OBVIOUS
<1>2. /\ CommitmentIn(r, a) = IF ownr = {} THEN 0 ELSE r[Max(ownr)].to
      /\ CommitmentIn(l, a) = IF own = {} THEN 0 ELSE l[Max(own)].to
  BY DEF CommitmentIn
<1>3. \A i : i \in ownr <=> i \in own \/ (i = Len(l) + 1 /\ t.account = a)
  BY <1>1
<1>4. own \in SUBSET (1 .. Len(l))
  BY <1>1
<1> HIDE DEF r, own, ownr
<1>5. CASE t.account = a
  <2>1. Len(l) + 1 \in ownr /\ ownr \subseteq Nat /\ \A x \in ownr : x <= Len(l) + 1
    <3>1. Len(l) + 1 \in ownr
      BY <1>3, <1>5
    <3>2. ASSUME NEW x \in ownr PROVE x \in 1 .. Len(l) + 1
      <4>1. x \in own \/ x = Len(l) + 1
        BY <1>3
      <4>2. x \in 1 .. Len(l) \/ x = Len(l) + 1
        BY <1>4, <4>1
      <4> QED BY <1>1, <4>2
    <3> QED BY <1>1, <3>1, <3>2
  <2>2. Max(ownr) = Len(l) + 1
    BY <2>1, MaxIs
  <2> QED BY <1>1, <1>2, <1>5, <2>1, <2>2 DEF r
<1>6. CASE t.account # a
  <2>1. ownr = own
    BY <1>3, <1>6
  <2>2. own # {} => Max(own) \in 1 .. Len(l)
    BY <1>1, <1>4, MaxIsIn
  <2>3. own # {} => r[Max(own)] = l[Max(own)]
    BY <1>1, <2>2
  <2> QED BY <1>2, <1>6, <2>1, <2>3 DEF r
<1> QED BY <1>5, <1>6

\* A block that mixes no two transactions of an account is applied again to no
\* effect: what was tried of it is rejected.
LEMMA TriedIsRejected ==
  ASSUME NEW l \in Seq(Txs), NEW txs \in Seq(Txs),
         \A i, j \in DOMAIN txs : i # j => txs[i].account # txs[j].account,
         NEW m \in 1 .. Len(txs), NEW i \in 1 .. m
  PROVE  ~Accepts(Partial(l, txs, m), txs[i])
PROOF
<1> DEFINE C(j) == CommitmentIn(Partial(l, txs, j), txs[i].account)
           D == {j \in i .. m : C(j) = txs[i].from}
<1>0. Len(txs) \in Nat /\ DOMAIN txs = 1 .. Len(txs) /\ \A j \in 1 .. Len(txs) : txs[j] \in Txs
  OBVIOUS
<1>1. ASSUME NEW j \in 1 .. Len(txs)
      PROVE  C(j) = IF Accepts(Partial(l, txs, j - 1), txs[j]) /\ txs[j].account = txs[i].account THEN txs[j].to ELSE C(j - 1)
  <2>1. Partial(l, txs, j) = ApplyTx(Partial(l, txs, j - 1), txs[j])
    BY <1>1, PartialNext
  <2>2. Partial(l, txs, j - 1) \in Seq(Txs)
    <3>1. j - 1 \in 0 .. Len(txs)
      BY <1>0
    <3> QED BY <3>1, PartialGrows
  <2>3. txs[j] \in Txs
    BY <1>0
  <2>4. CommitmentIn(Append(Partial(l, txs, j - 1), txs[j]), txs[i].account)
          = IF txs[j].account = txs[i].account THEN txs[j].to ELSE C(j - 1)
    BY <2>2, <2>3, CommitmentAfter
  <2> QED BY <2>1, <2>4, Zenon DEF ApplyTx
<1>2. txs[i].from # txs[i].to
  <2>1. txs[i] \in Txs
    BY <1>0
  <2> QED BY <2>1, TxsAssumption
<1>3. C(i) # txs[i].from
  <2>1. i \in 1 .. Len(txs)
    BY <1>0
  <2>2. C(i) = IF Accepts(Partial(l, txs, i - 1), txs[i]) /\ txs[i].account = txs[i].account THEN txs[i].to ELSE C(i - 1)
    BY <1>1, <2>1
  <2>3. Accepts(Partial(l, txs, i - 1), txs[i]) <=> C(i - 1) = txs[i].from
    BY DEF Accepts
  <2> QED BY <1>2, <2>2, <2>3
<1>4. ASSUME NEW j \in i + 1 .. m PROVE C(j) = C(j - 1)
  <2>1. j \in 1 .. Len(txs) /\ i \in 1 .. Len(txs) /\ j # i
    BY <1>0
  <2>2. txs[j].account # txs[i].account
    BY <1>0, <2>1
  <2> QED BY <1>1, <2>1, <2>2
<1> HIDE DEF C
<1>5. ASSUME D # {} PROVE FALSE
  <2>0. D \subseteq Nat
    BY <1>0
  <2>1. PICK k \in D : \A j \in D : k <= j
    <3> HIDE DEF D
    <3> QED BY <1>5, <2>0, LeastNatural
  <2>2. k \in i .. m /\ C(k) = txs[i].from /\ k # i
    BY <1>3, <2>1
  <2>3. k \in i + 1 .. m /\ k - 1 \in i .. m
    BY <2>2
  <2>4. C(k - 1) = txs[i].from
    BY <1>4, <2>2, <2>3
  <2>5. k - 1 \in D
    BY <2>3, <2>4
  <2> QED BY <2>1, <2>3, <2>5
<1>6. m \in i .. m
  OBVIOUS
<1>7. C(m) # txs[i].from
  BY <1>5, <1>6
<1> QED BY <1>7 DEF C, Accepts

-----------------------------------------------------------------------------
(* Following finalizations *)

\* Finalized blocks and their ancestors lie in the range of views.
LEMMA TipIs ==
  ASSUME BlocksOK, VotesOK, FinalsOK
  PROVE  /\ Tip \in Views /\ Tip \in notarized /\ Tip \in Chain(Tip)
         /\ Chain(Tip) \subseteq Views /\ Chain(Tip) \subseteq notarized
         /\ 0 \in Chain(Tip)
         /\ \A v \in Chain(Tip) : HeightOf(v) \in Nat /\ Chain(v) \subseteq Chain(Tip)
         /\ \A v \in Chain(Tip) \ {0} : v \in 1 .. Len(blocks) /\ blocks[v].parent \in Chain(Tip)
PROOF
<1>1. Tip \in notarized /\ Tip \in Views /\ notarized \subseteq Views /\ 0 \in Chain(Tip)
  BY DEF FinalsOK, VotesOK
<1>2. Chain(Tip) \subseteq notarized /\ Tip \in Chain(Tip) /\ \A v \in Chain(Tip) : Chain(v) \subseteq Chain(Tip)
  BY <1>1, ChainNotarized, ChainBelow
<1>3. Len(blocks) \in Nat /\ Parents(blocks) /\ \A v \in Views : HeightOf(v) \in Nat
  BY BlocksAre
<1>4. ASSUME NEW v \in Chain(Tip) \ {0}
      PROVE  v \in 1 .. Len(blocks) /\ blocks[v].parent \in Chain(Tip)
  <2>1. v \in 1 .. Len(blocks)
    <3>1. v \in Views /\ v # 0
      BY <1>1, <1>2
    <3> QED BY <1>3, <3>1 DEF Views
  <2>2. blocks[v].parent \in Views
    BY <1>3, <2>1 DEF Parents, Views
  <2>3. blocks[v].parent \in Chain(blocks[v].parent)
    BY <2>2, ChainBelow
  <2>4. blocks[v].parent \in Chain(v)
    BY <2>1, <2>3, ChainUnfold
  <2> QED BY <1>2, <2>1, <2>4
<1> QED BY <1>1, <1>2, <1>3, <1>4

\* The walk marks only ancestors of what is finalized.
LEMMA MarkedIsFinal ==
  ASSUME BlocksOK, VotesOK, FinalsOK, NEW c, NEW h \in Chain(Tip), NEW k, k \subseteq Chain(Tip)
  PROVE  Marked(c, h, k) \subseteq Chain(Tip) \ {0}
PROOF
<1>1. /\ \A v \in Chain(Tip) : HeightOf(v) \in Nat /\ Chain(v) \subseteq Chain(Tip)
      /\ HeightOf(0) = 0
  BY TipIs DEF HeightOf
<1>2. \A b \in k : Walk(c, h, b) \subseteq Chain(Tip) \ {0}
  BY <1>1 DEF Walk
<1>3. {b \in k : HeightOf(b) > HeightOf(h)} \subseteq Chain(Tip) \ {0}
  BY <1>1
<1> QED BY <1>2, <1>3 DEF Marked, Lowest

\* The finalized blocks are one chain: no two of them extend the same block.
LEMMA OneNext ==
  ASSUME BlocksOK, VotesOK, FinalsOK, NEW a \in Chain(Tip) \ {0}, NEW b \in Chain(Tip) \ {0},
         blocks[a].parent = blocks[b].parent
  PROVE  a = b
PROOF
<1> DEFINE P(v) == \A x, y \in Chain(v) \ {0} : blocks[x].parent = blocks[y].parent => x = y
           D == {v \in Views : ~P(v)}
<1>0. Len(blocks) \in Nat /\ Parents(blocks)
  BY BlocksAre
<1>1. ASSUME D # {} PROVE FALSE
  <2>0. D \subseteq Nat /\ D # {}
    BY <1>1 DEF Views
  <2> HIDE DEF D
  <2>1. PICK m \in D : \A k \in D : m <= k
    BY <2>0, LeastNatural
  <2>2. m \in Views /\ ~P(m)
    BY <2>1 DEF D
  <2>3. m # 0
    BY <2>2, ChainUnfold
  <2>4. m \in 1 .. Len(blocks) /\ blocks[m].parent \in 0 .. m - 1
    BY <1>0, <2>2, <2>3 DEF Views, Parents
  <2>5. PICK p : p = blocks[m].parent
    OBVIOUS
  <2>6. p \in Views /\ p \notin D
    BY <1>0, <2>1, <2>4, <2>5 DEF Views
  <2>7. P(p)
    BY <2>6 DEF D
  <2>8. Chain(m) = {m} \union Chain(p) /\ Chain(p) \subseteq 0 .. p
    BY <2>4, <2>5, <2>6, ChainUnfold, ChainBelow
  <2>9. ASSUME NEW x \in Chain(p) \ {0} PROVE blocks[x].parent # p
    <3>1. x \in 1 .. Len(blocks) /\ x <= p
      BY <1>0, <2>4, <2>5, <2>8
    <3>2. blocks[x].parent \in 0 .. x - 1
      BY <1>0, <3>1 DEF Parents
    <3> QED BY <2>4, <2>5, <3>1, <3>2
  <2>10. ASSUME NEW x \in Chain(m) \ {0}, NEW y \in Chain(m) \ {0}, blocks[x].parent = blocks[y].parent
         PROVE  x = y
    <3>1. CASE x = m
      BY <2>5, <2>8, <2>9, <2>10, <3>1
    <3>2. CASE y = m
      BY <2>5, <2>8, <2>9, <2>10, <3>2
    <3>3. CASE x # m /\ y # m
      <4>1. x \in Chain(p) \ {0} /\ y \in Chain(p) \ {0}
        BY <2>8, <3>3
      <4> QED BY <2>7, <2>10, <4>1
    <3> QED BY <3>1, <3>2, <3>3
  <2> QED BY <2>2, <2>10
<1>2. Tip \in Views
  BY TipIs
<1>3. P(Tip)
  BY <1>1, <1>2
<1> QED BY <1>3

Start(b) == [block |-> b, next |-> 1, oks |-> <<>>, result |-> None]

\* What a drain leaves to be applied: what was, or a block on top of the head.
Drained(n, h, busy) ==
    \/ applying' = [applying EXCEPT ![n] = busy]
    \/ busy = None /\ \E b \in Chain(Tip) \ {0} : blocks[b].parent = h /\ applying' = [applying EXCEPT ![n] = Start(b)]

LEMMA DrainIs ==
  ASSUME BlocksOK, VotesOK, FinalsOK, NEW n \in Node, NEW h \in Chain(Tip), NEW c, NEW k, k \subseteq Chain(Tip), NEW busy, NEW wire,
         drain_finalized(n, h, c, k, busy, wire)
  PROVE  /\ \E K \in SUBSET Chain(Tip) : known' = [known EXCEPT ![n] = K]
         /\ Drained(n, h, busy)
PROOF
<1> DEFINE marked == Marked(c, h, k)
           low == Lowest(marked)
           astray == {b \in low \cap c : blocks[b].parent # h}
           start == {[block |-> b, next |-> 1, oks |-> <<>>, result |-> None] : b \in (low \cap c) \ astray}
<1>1. /\ known' = [known EXCEPT ![n] = marked \ astray]
      /\ IF busy # None \/ start = {} THEN applying' = [applying EXCEPT ![n] = busy]
         ELSE \E a \in start : applying' = [applying EXCEPT ![n] = a]
  BY DEF drain_finalized
<1>2. marked \subseteq Chain(Tip) \ {0} /\ low \subseteq marked
  BY MarkedIsFinal DEF Lowest
<1>3. \A a \in start : \E b \in Chain(Tip) \ {0} : blocks[b].parent = h /\ a = Start(b)
  BY <1>2 DEF Start
<1> HIDE DEF marked, low, astray, start
<1>4. CASE busy # None \/ start = {}
  BY <1>1, <1>2, <1>4 DEF Drained
<1>5. CASE busy = None /\ start # {}
  <2>1. PICK a \in start : applying' = [applying EXCEPT ![n] = a]
    BY <1>1, <1>5
  <2> QED BY <1>1, <1>2, <1>3, <1>5, <2>1 DEF Drained
<1> QED BY <1>4, <1>5

-----------------------------------------------------------------------------
(* What a step leaves alone *)

\* A chain that only grew has the same transactions and more.
LEMMA FinalTxsGrow ==
  ASSUME Chain(Tip) \subseteq Chain(Tip)', \A v \in Chain(Tip) : v # 0 => blocks'[v] = blocks[v]
  PROVE  FinalTxs \subseteq FinalTxs'
PROOF
<1>1. ASSUME NEW b \in Chain(Tip) \ {0} PROVE b \in Chain(Tip)' \ {0} /\ TxsOf(b)' = TxsOf(b)
  BY <1>1 DEF TxsOf
<1> QED BY <1>1 DEF FinalTxs

\* A node no step touched, on a chain that only grew.
LEMMA NodeKept ==
  ASSUME NEW m \in Node, NodeOK(m), FinalsOK, BlocksOK, VotesOK,
         stored'[m] = stored[m], head'[m] = head[m], known'[m] = known[m], unknown'[m] = unknown[m],
         ledger'[m] = ledger[m], applying'[m] = applying[m], torn'[m] = torn[m], skipped'[m] = skipped[m],
         Chain(Tip) \subseteq Chain(Tip)',
         \A v \in Chain(Tip) : Replay(v)' = Replay(v) /\ (v # 0 => blocks'[v] = blocks[v])
  PROVE  NodeOK(m)'
PROOF
<1>1. Replay(stored[m])' = Replay(stored[m])
  <2>1. stored[m] \in Chain(Tip)
    BY DEF NodeOK
  <2> QED BY <2>1
<1>2. ASSUME applying[m] # None
      PROVE  AtWork(m, applying[m])' /\ blocks'[applying[m].block] = blocks[applying[m].block]
  <2>1. applying[m].block \in Chain(Tip) \ {0}
    BY <1>2 DEF NodeOK, AtWork
  <2>2. blocks'[applying[m].block] = blocks[applying[m].block]
    BY <2>1
  <2> QED BY <1>2, <2>1, <2>2 DEF NodeOK, AtWork
<1>3. FinalTxs \subseteq FinalTxs'
  BY FinalTxsGrow
<1>4. \A b \in torn[m] : b \in Chain(Tip) /\ b # 0 /\ blocks'[b] = blocks[b]
  BY DEF NodeOK
<1>5. Intact(m)' <=> Intact(m)
  BY <1>4 DEF Intact, Mixed
<1>6. Resting(m) => Resting(m)'
  BY <1>1, <1>4 DEF Resting
<1>7. ASSUME applying[m] # None, InStep(m, applying[m])
      PROVE  InStep(m, applying[m])'
  BY <1>1, <1>2, <1>6, <1>7 DEF InStep
<1>8. /\ stored'[m] \in Chain(Tip)' /\ head'[m] \in Chain(Tip)' /\ known'[m] \subseteq Chain(Tip)' /\ unknown'[m] \subseteq Chain(Tip)'
      /\ torn'[m] \subseteq Chain(Tip)' \ {0} /\ ledger'[m] \in Seq(Txs) /\ Range(ledger'[m]) \subseteq FinalTxs'
  BY <1>3 DEF NodeOK
<1> QED BY <1>2, <1>5, <1>6, <1>7, <1>8 DEF NodeOK

LEMMA EngineKept ==
  ASSUME BlocksOK, VotesOK, FinalsOK, UNCHANGED <<blocks, votes, notarized, finals, confirmed>>,
         mempool' \in [Node -> Seq(Txs)], \A n \in Node : \A t \in Range(mempool'[n]) : Confirms(n, t)
  PROVE  BlocksOK' /\ VotesOK' /\ FinalsOK' /\ Tip' = Tip
PROOF
<1>1. /\ Views' = Views
      /\ \A b : Chain(b)' = Chain(b) /\ Replay(b)' = Replay(b) /\ HeightOf(b)' = HeightOf(b) /\ TxsOf(b)' = TxsOf(b)
  BY BlocksKept
<1>2. Tip' = Tip
  BY DEF Tip
<1>3. BlocksOK'
  BY <1>1 DEF BlocksOK
<1>4. FinalsOK'
  BY <1>1, <1>2 DEF FinalsOK
<1>5. (\A t : Witnessed(t)' <=> Witnessed(t)) /\ \A n, t : Confirms(n, t)' <=> Confirms(n, t)
  BY DEF Witnessed, Confirms, IsMint
<1>6. VotesOK'
  BY <1>1, <1>5 DEF VotesOK
<1> QED BY <1>2, <1>3, <1>4, <1>6

LEMMA SamePool ==
  ASSUME VotesOK, UNCHANGED mempool
  PROVE  mempool' \in [Node -> Seq(Txs)] /\ \A n \in Node : \A t \in Range(mempool'[n]) : Confirms(n, t)
  BY DEF VotesOK

\* One node moved, the proposals did not.
LEMMA NodeMoved ==
  ASSUME BlocksOK, VotesOK, FinalsOK, NodesOK, UNCHANGED <<blocks, finals>>, NEW n \in Node,
         stored' = [stored EXCEPT ![n] = stored'[n]], head' = [head EXCEPT ![n] = head'[n]],
         known' = [known EXCEPT ![n] = known'[n]], unknown' = [unknown EXCEPT ![n] = unknown'[n]],
         ledger' = [ledger EXCEPT ![n] = ledger'[n]], applying' = [applying EXCEPT ![n] = applying'[n]],
         torn' = [torn EXCEPT ![n] = torn'[n]], skipped' = [skipped EXCEPT ![n] = skipped'[n]],
         NodeOK(n)'
  PROVE  NodesOK'
PROOF
<1>1. Tip' = Tip /\ \A b : Chain(b)' = Chain(b) /\ Replay(b)' = Replay(b)
  BY BlocksKept DEF Tip
<1>2. ASSUME NEW m \in Node, m # n
      PROVE  NodeOK(m)'
  <2>1. /\ stored'[m] = stored[m] /\ head'[m] = head[m] /\ known'[m] = known[m] /\ unknown'[m] = unknown[m]
        /\ ledger'[m] = ledger[m] /\ applying'[m] = applying[m] /\ torn'[m] = torn[m] /\ skipped'[m] = skipped[m]
    BY <1>2 DEF NodesOK
  <2>2. NodeOK(m)
    BY DEF NodesOK
  <2>3. Chain(Tip)' = Chain(Tip)
    BY <1>1
  <2> QED BY <1>1, <2>1, <2>2, <2>3, NodeKept
<1>3. \A m \in Node : NodeOK(m)'
  BY <1>2
<1>4. /\ stored' = [m \in Node |-> stored'[m]] /\ head' = [m \in Node |-> head'[m]]
      /\ known' = [m \in Node |-> known'[m]] /\ unknown' = [m \in Node |-> unknown'[m]]
      /\ ledger' = [m \in Node |-> ledger'[m]] /\ applying' = [m \in Node |-> applying'[m]]
      /\ torn' = [m \in Node |-> torn'[m]] /\ skipped' = [m \in Node |-> skipped'[m]]
  BY DEF NodesOK
<1> QED BY <1>3, <1>4 DEF NodesOK

LEMMA NodesKept ==
  ASSUME BlocksOK, VotesOK, FinalsOK, NodesOK, UNCHANGED <<blocks, finals, stored, head, known, unknown, ledger, applying, torn, skipped>>
  PROVE  NodesOK'
PROOF
<1>1. Tip' = Tip /\ \A b : Chain(b)' = Chain(b) /\ Replay(b)' = Replay(b)
  BY BlocksKept DEF Tip
<1>2. \A m \in Node : NodeOK(m)'
  <2> TAKE m \in Node
  <2>1. NodeOK(m) /\ Chain(Tip)' = Chain(Tip)
    BY <1>1 DEF NodesOK
  <2> QED BY <1>1, <2>1, NodeKept
<1> QED BY <1>2 DEF NodesOK

\* Answers stand while the chain and the ledgers only grow.
LEMMA AnswersGrow ==
  ASSUME AnswersOK, promised' = promised, FinalTxs \subseteq FinalTxs', Range(Replay(Tip)) \subseteq Range(Replay(Tip))',
         \A n \in Node : Range(ledger[n]) \subseteq Range(ledger'[n])
  PROVE  AnswersOK'
PROOF
<1>1. ASSUME NEW p \in promised
      PROVE  /\ p.node \in Node /\ p.tx \in FinalTxs' /\ p.tx \in Range(ledger'[p.node])
             /\ p.intact => p.tx \in Range(Replay(Tip))'
  BY DEF AnswersOK, AnsweredIsFinal
<1> QED BY <1>1 DEF AnswersOK, AnsweredIsFinal

LEMMA AnswersKept ==
  ASSUME AnswersOK, UNCHANGED <<blocks, finals, ledger, promised>>
  PROVE  AnswersOK'
PROOF
<1>1. Tip' = Tip /\ \A b : Replay(b)' = Replay(b) /\ Chain(b)' = Chain(b) /\ TxsOf(b)' = TxsOf(b)
  BY BlocksKept DEF Tip
<1>2. Replay(Tip)' = Replay(Tip) /\ Chain(Tip)' = Chain(Tip)
  BY <1>1
<1>3. FinalTxs' = FinalTxs
  BY <1>1, <1>2 DEF FinalTxs
<1> QED BY <1>2, <1>3, AnswersGrow

-----------------------------------------------------------------------------
(* Every step keeps the invariant *)

\* What a step that leaves the blocks and a node's disk alone keeps of the node.
LEMMA DiskKept ==
  ASSUME UNCHANGED <<blocks, finals>>, NEW n \in Node,
         stored'[n] = stored[n], ledger'[n] = ledger[n], torn'[n] = torn[n], skipped'[n] = skipped[n]
  PROVE  /\ Tip' = Tip /\ Chain(Tip)' = Chain(Tip) /\ Replay(stored[n])' = Replay(stored[n]) /\ FinalTxs' = FinalTxs
         /\ Intact(n)' <=> Intact(n)
         /\ Resting(n)' <=> Resting(n)
         /\ \A a : InStep(n, a)' <=> InStep(n, a)
PROOF
<1>1. Tip' = Tip /\ \A b : Replay(b)' = Replay(b) /\ Chain(b)' = Chain(b) /\ TxsOf(b)' = TxsOf(b)
  BY BlocksKept DEF Tip
<1>2. Chain(Tip)' = Chain(Tip) /\ Replay(stored[n])' = Replay(stored[n])
  BY <1>1
<1>3. FinalTxs' = FinalTxs
  BY <1>1, <1>2 DEF FinalTxs
<1>4. Intact(n)' <=> Intact(n)
  BY DEF Intact, Mixed
<1>5. Resting(n)' <=> Resting(n)
  BY <1>2 DEF Resting
<1>6. \A a : InStep(n, a)' <=> InStep(n, a)
  BY <1>2, <1>5 DEF InStep
<1> QED BY <1>1, <1>2, <1>3, <1>4, <1>5, <1>6

\* A block that starts finds the ledger as its head left it, or as the attempt
\* before at the same block did.
LEMMA StartIs ==
  ASSUME BlocksOK, VotesOK, FinalsOK, NEW n \in Node, NEW b \in Chain(Tip) \ {0}, blocks[b].parent = stored[n],
         torn[n] \subseteq Chain(Tip) \ {0}, Resting(n)
  PROVE  InStep(n, Start(b))
PROOF
<1>1. blocks[b].txs \in Seq(Txs) /\ Len(blocks[b].txs) \in Nat /\ DOMAIN blocks[b].txs = 1 .. Len(blocks[b].txs)
  <2>1. blocks[b].txs \in Seq(Txs)
    BY TipIs, BlocksAre
  <2> QED BY <2>1
<1>2. /\ Start(b).block = b /\ Start(b).next = 1 /\ Start(b).oks = <<>> /\ Start(b).result = None
      /\ None # "ok" /\ None # "failed"
  BY NoneAssumption DEF Start
<1>3. CASE ledger[n] = Replay(stored[n])
  <2>1. Partial(Replay(stored[n]), blocks[b].txs, 0) = Replay(stored[n])
    BY <1>1, PartialIs
  <2>2. 0 \in 0 .. Len(blocks[b].txs) /\ 0 = Start(b).next - 1
    BY <1>1, <1>2
  <2> QED BY <1>2, <1>3, <2>1, <2>2 DEF InStep
<1>4. CASE \E c \in torn[n] : /\ blocks[c].parent = stored[n]
                               /\ \E m \in 0 .. Len(blocks[c].txs) : ledger[n] = Partial(Replay(stored[n]), blocks[c].txs, m)
  <2>1. PICK c \in torn[n] : /\ blocks[c].parent = stored[n]
                             /\ \E m \in 0 .. Len(blocks[c].txs) : ledger[n] = Partial(Replay(stored[n]), blocks[c].txs, m)
    BY <1>4
  <2>2. c = b
    BY <2>1, OneNext
  <2>3. PICK m \in 0 .. Len(blocks[b].txs) : ledger[n] = Partial(Replay(stored[n]), blocks[b].txs, m)
    BY <2>1, <2>2
  <2>4. b \in torn[n] /\ m >= Start(b).next - 1
    BY <1>2, <2>1, <2>2, <2>3
  <2> QED BY <1>2, <2>3, <2>4 DEF InStep
<1> QED BY <1>3, <1>4 DEF Resting

\* Where a drain leaves the node it ran on: ledger, store and tears untouched.
LEMMA DrainKeeps ==
  ASSUME BlocksOK, VotesOK, FinalsOK, NodesOK, NEW n \in Node, NEW c, NEW k, k \subseteq Chain(Tip), NEW wire,
         drain_finalized(n, head[n], c, k, applying[n], wire),
         UNCHANGED <<blocks, finals, ledger, stored, head, torn, skipped>>,
         unknown' = [unknown EXCEPT ![n] = unknown'[n]], unknown'[n] \subseteq Chain(Tip)
  PROVE  NodesOK'
PROOF
<1>1. NodeOK(n)
  BY DEF NodesOK
<1>2. head[n] \in Chain(Tip)
  BY <1>1 DEF NodeOK
<1>3. PICK K \in SUBSET Chain(Tip) : known' = [known EXCEPT ![n] = K]
  BY <1>2, DrainIs
<1>4. known'[n] = K /\ known' = [known EXCEPT ![n] = known'[n]]
  BY <1>3 DEF NodesOK
<1>5. /\ Chain(Tip)' = Chain(Tip) /\ FinalTxs' = FinalTxs
      /\ Intact(n)' <=> Intact(n)
      /\ Resting(n)' <=> Resting(n)
      /\ \A a : InStep(n, a)' <=> InStep(n, a)
  BY DiskKept
<1>6. /\ stored'[n] = stored[n] /\ head'[n] = head[n] /\ ledger'[n] = ledger[n] /\ torn'[n] = torn[n] /\ skipped' = [skipped EXCEPT ![n] = skipped'[n]]
      /\ stored' = [stored EXCEPT ![n] = stored'[n]] /\ head' = [head EXCEPT ![n] = head'[n]]
      /\ ledger' = [ledger EXCEPT ![n] = ledger'[n]] /\ torn' = [torn EXCEPT ![n] = torn'[n]]
  BY DEF NodesOK
<1>7. CASE applying' = [applying EXCEPT ![n] = applying[n]]
  <2>1. applying' = applying
    BY <1>7 DEF NodesOK
  <2>2. NodeOK(n)'
    <3>1. \A a : AtWork(n, a) => AtWork(n, a)'
      BY <1>5, <1>6 DEF AtWork
    <3>2. applying[n] # None => blocks'[applying[n].block].txs = blocks[applying[n].block].txs
      OBVIOUS
    <3> QED BY <1>1, <1>4, <1>5, <1>6, <2>1, <3>1, <3>2 DEF NodeOK
  <2>3. applying' = [applying EXCEPT ![n] = applying'[n]]
    BY <2>1 DEF NodesOK
  <2> QED BY <1>4, <1>6, <2>2, <2>3, NodeMoved
<1>8. CASE applying[n] = None /\ \E b \in Chain(Tip) \ {0} : blocks[b].parent = head[n] /\ applying' = [applying EXCEPT ![n] = Start(b)]
  <2>1. PICK b \in Chain(Tip) \ {0} : blocks[b].parent = head[n] /\ applying' = [applying EXCEPT ![n] = Start(b)]
    BY <1>8
  <2>2. applying'[n] = Start(b) /\ applying' = [applying EXCEPT ![n] = applying'[n]]
    BY <2>1 DEF NodesOK
  <2>3. head[n] = stored[n] /\ (Intact(n) => Resting(n)) /\ torn[n] \subseteq Chain(Tip) \ {0}
    BY <1>1, <1>8 DEF NodeOK
  <2>4. blocks[b].txs \in Seq(Txs)
    BY TipIs, BlocksAre
  <2>5. AtWork(n, Start(b))'
    <3>1. None # "ok"
      BY NoneAssumption
    <3>2. 1 \in 1 .. Len(blocks[b].txs) + 1 /\ Len(<<>>) = 1 - 1 /\ <<>> \in Seq(BOOLEAN)
      BY <2>4
    <3>3. /\ Start(b).block = b /\ Start(b).next = 1 /\ Start(b).oks = <<>> /\ Start(b).result = None
          /\ Start(b) = [block |-> Start(b).block, next |-> Start(b).next, oks |-> Start(b).oks, result |-> Start(b).result]
      BY DEF Start
    <3> QED BY <1>5, <1>6, <2>1, <2>3, <3>1, <3>2, <3>3 DEF AtWork
  <2>6. Intact(n) => InStep(n, Start(b))'
    BY <1>5, <2>1, <2>3, StartIs
  <2>7. DOMAIN Start(b).oks = {}
    BY DEF Start
  <2>8. NodeOK(n)'
    <3>1. /\ stored'[n] \in Chain(Tip)' /\ head'[n] \in Chain(Tip)' /\ known'[n] \subseteq Chain(Tip)' /\ unknown'[n] \subseteq Chain(Tip)'
          /\ ledger'[n] \in Seq(Txs) /\ Range(ledger'[n]) \subseteq FinalTxs' /\ torn'[n] \subseteq Chain(Tip)' \ {0}
      BY <1>1, <1>4, <1>5, <1>6 DEF NodeOK
    <3>2. applying'[n] = None => head'[n] = stored'[n] /\ (Intact(n)' => Resting(n)')
      BY <1>5, <1>6, <2>3
    <3> QED BY <1>5, <1>6, <2>2, <2>5, <2>6, <2>7, <3>1, <3>2 DEF NodeOK
  <2> QED BY <1>4, <1>6, <2>2, <2>8, NodeMoved
<1>9. \/ applying' = [applying EXCEPT ![n] = applying[n]]
      \/ applying[n] = None /\ \E b \in Chain(Tip) \ {0} : blocks[b].parent = head[n] /\ applying' = [applying EXCEPT ![n] = Start(b)]
  <2>1. Drained(n, head[n], applying[n])
    BY <1>2, DrainIs
  <2> QED BY <2>1 DEF Drained
<1> QED BY <1>7, <1>8, <1>9

LEMMA FollowStep ==
  ASSUME IInv, NEW n \in Node,
         (\E b : on_finalized(n, b)) \/ (\E m, b : on_block(n, m, b)) \/ (\E m : on_verify_fetch(n, m))
  PROVE  IInv'
PROOF
<1> USE DEF IInv
<1>1. UNCHANGED <<engine, durable, confirmed, head, mempool, waiting, promised, torn, skipped, faults, submits>>
  BY DEF on_finalized, on_block, on_verify_fetch
<1>2. BlocksOK' /\ VotesOK' /\ FinalsOK' /\ AnswersOK'
  BY <1>1, EngineKept, SamePool, AnswersKept DEF engine, durable
<1>3. NodeOK(n)
  BY DEF NodesOK
<1>4. known[n] \subseteq Chain(Tip) /\ unknown[n] \subseteq Chain(Tip) /\ unknown = [m \in Node |-> unknown[m]]
  BY <1>3 DEF NodeOK, NodesOK
<1>5. CASE \E b : on_finalized(n, b)
  <2>1. PICK b : on_finalized(n, b)
    BY <1>5
  <2>2. b \in Chain(Tip)
    BY <2>1 DEF on_finalized, FinalsOK
  <2> DEFINE k == IF b \in cache[n] THEN known[n] \union {b} ELSE known[n]
             w == IF b \in cache[n] \union unknown[n] THEN asked[n] ELSE asked[n] \union {b}
  <2>3. drain_finalized(n, head[n], cache[n], k, applying[n], w) /\ k \subseteq Chain(Tip)
    BY <1>4, <2>1, <2>2 DEF on_finalized
  <2>4. unknown' = [unknown EXCEPT ![n] = unknown'[n]] /\ unknown'[n] \subseteq Chain(Tip)
    BY <1>4, <2>1, <2>2 DEF on_finalized
  <2> HIDE DEF k, w
  <2>5. NodesOK'
    BY <1>1, <2>3, <2>4, DrainKeeps DEF engine, durable
  <2> QED BY <1>2, <2>5
<1>6. CASE \E m, b : on_block(n, m, b)
  <2>1. PICK m, b : on_block(n, m, b)
    BY <1>6
  <2> DEFINE k == IF b \in unknown[n] THEN known[n] \union {b} ELSE known[n]
  <2>2. drain_finalized(n, head[n], cache[n] \union {b}, k, applying[n], asked[n] \ {b}) /\ k \subseteq Chain(Tip)
    BY <1>4, <2>1 DEF on_block
  <2>3. unknown' = [unknown EXCEPT ![n] = unknown'[n]] /\ unknown'[n] \subseteq Chain(Tip)
    BY <1>4, <2>1 DEF on_block
  <2> HIDE DEF k
  <2>4. NodesOK'
    BY <1>1, <2>2, <2>3, DrainKeeps DEF engine, durable
  <2> QED BY <1>2, <2>4
<1>7. CASE \E m : on_verify_fetch(n, m)
  <2>1. PICK m, b : drain_finalized(n, head[n], cache[n] \union {b}, known[n], applying[n], asked[n]) /\ unknown' = unknown
    BY <1>7 DEF on_verify_fetch
  <2>2. unknown' = [unknown EXCEPT ![n] = unknown'[n]] /\ unknown'[n] \subseteq Chain(Tip)
    BY <1>4, <2>1
  <2>3. NodesOK'
    BY <1>1, <1>4, <2>1, <2>2, DrainKeeps DEF engine, durable
  <2> QED BY <1>2, <2>3
<1> QED BY <1>5, <1>6, <1>7

LEMMA RequestStep ==
  ASSUME IInv, NEW n \in Node, (\E b : LoseRequest(n, b)) \/ on_tick_request(n)
  PROVE  IInv'
PROOF
<1>1. UNCHANGED <<engine, durable, confirmed, head, cache, known, unknown, applying, mempool, waiting, promised, torn, skipped, faults, submits>>
  BY DEF LoseRequest, on_tick_request
<1> QED BY <1>1, EngineKept, SamePool, NodesKept, AnswersKept DEF IInv, engine, durable

\* A drain on a node that applies nothing: it stays idle or starts a block on
\* top of its head.
LEMMA DrainIdle ==
  ASSUME BlocksOK, VotesOK, FinalsOK, NodesOK, NEW n \in Node, NEW c, NEW k, k \subseteq Chain(Tip), NEW wire,
         Intact(n) => Resting(n),
         drain_finalized(n, stored[n], c, k, None, wire),
         UNCHANGED <<blocks, finals, ledger, stored, unknown, torn, skipped>>,
         head' = [head EXCEPT ![n] = stored[n]]
  PROVE  NodesOK'
PROOF
<1>1. NodeOK(n)
  BY DEF NodesOK
<1>2. stored[n] \in Chain(Tip)
  BY <1>1 DEF NodeOK
<1>3. /\ \E K \in SUBSET Chain(Tip) : known' = [known EXCEPT ![n] = K]
      /\ \/ applying' = [applying EXCEPT ![n] = None]
         \/ \E b \in Chain(Tip) \ {0} : blocks[b].parent = stored[n] /\ applying' = [applying EXCEPT ![n] = Start(b)]
  <2>1. (\E K \in SUBSET Chain(Tip) : known' = [known EXCEPT ![n] = K]) /\ Drained(n, stored[n], None)
    BY <1>2, DrainIs
  <2> QED BY <2>1 DEF Drained
<1>4. known'[n] \subseteq Chain(Tip) /\ known' = [known EXCEPT ![n] = known'[n]]
  <2>1. PICK K \in SUBSET Chain(Tip) : known' = [known EXCEPT ![n] = K]
    BY <1>3
  <2> QED BY <2>1 DEF NodesOK
<1>5. /\ Chain(Tip)' = Chain(Tip) /\ FinalTxs' = FinalTxs
      /\ Intact(n)' <=> Intact(n)
      /\ Resting(n)' <=> Resting(n)
      /\ \A a : InStep(n, a)' <=> InStep(n, a)
  BY DiskKept
<1>6. /\ stored'[n] = stored[n] /\ head'[n] = stored[n] /\ ledger'[n] = ledger[n] /\ torn'[n] = torn[n] /\ unknown'[n] = unknown[n]
      /\ stored' = [stored EXCEPT ![n] = stored'[n]] /\ head' = [head EXCEPT ![n] = head'[n]]
      /\ ledger' = [ledger EXCEPT ![n] = ledger'[n]] /\ torn' = [torn EXCEPT ![n] = torn'[n]]
      /\ unknown' = [unknown EXCEPT ![n] = unknown'[n]] /\ skipped' = [skipped EXCEPT ![n] = skipped'[n]]
  BY DEF NodesOK
<1>7. /\ stored'[n] \in Chain(Tip)' /\ head'[n] \in Chain(Tip)' /\ known'[n] \subseteq Chain(Tip)' /\ unknown'[n] \subseteq Chain(Tip)'
      /\ ledger'[n] \in Seq(Txs) /\ Range(ledger'[n]) \subseteq FinalTxs' /\ torn'[n] \subseteq Chain(Tip)' \ {0}
  BY <1>1, <1>4, <1>5, <1>6 DEF NodeOK
<1>8. CASE applying' = [applying EXCEPT ![n] = None]
  <2>1. applying'[n] = None /\ applying' = [applying EXCEPT ![n] = applying'[n]]
    BY <1>8 DEF NodesOK
  <2>2. NodeOK(n)'
    BY <1>5, <1>6, <1>7, <2>1 DEF NodeOK
  <2> QED BY <1>4, <1>6, <2>1, <2>2, NodeMoved
<1>9. CASE \E b \in Chain(Tip) \ {0} : blocks[b].parent = stored[n] /\ applying' = [applying EXCEPT ![n] = Start(b)]
  <2>1. PICK b \in Chain(Tip) \ {0} : blocks[b].parent = stored[n] /\ applying' = [applying EXCEPT ![n] = Start(b)]
    BY <1>9
  <2>2. applying'[n] = Start(b) /\ applying' = [applying EXCEPT ![n] = applying'[n]]
    BY <2>1 DEF NodesOK
  <2>3. /\ Start(b).block = b /\ Start(b).next = 1 /\ Start(b).oks = <<>> /\ Start(b).result = None
        /\ Start(b) = [block |-> Start(b).block, next |-> Start(b).next, oks |-> Start(b).oks, result |-> Start(b).result]
        /\ None # "ok"
    BY NoneAssumption DEF Start
  <2>4. blocks[b].txs \in Seq(Txs)
    BY TipIs, BlocksAre
  <2>5. AtWork(n, Start(b))'
    <3>1. 1 \in 1 .. Len(blocks[b].txs) + 1 /\ Len(<<>>) = 1 - 1 /\ <<>> \in Seq(BOOLEAN)
      BY <2>4
    <3> QED BY <1>5, <1>6, <2>1, <2>3, <3>1 DEF AtWork
  <2>6. Intact(n) => InStep(n, Start(b))'
    <3>1. torn[n] \subseteq Chain(Tip) \ {0}
      BY <1>1 DEF NodeOK
    <3> QED BY <1>5, <2>1, <3>1, StartIs
  <2>7. DOMAIN Start(b).oks = {}
    BY DEF Start
  <2>8. NodeOK(n)'
    BY <1>5, <1>6, <1>7, <2>2, <2>5, <2>6, <2>7 DEF NodeOK
  <2> QED BY <1>4, <1>6, <2>2, <2>8, NodeMoved
<1> QED BY <1>3, <1>8, <1>9

LEMMA TryStep ==
  ASSUME IInv, NEW n \in Node, apply_block_tx(n)
  PROVE  IInv'
PROOF
<1> USE DEF IInv
<1>a. PICK a : a = applying[n]
  OBVIOUS
<1>b. PICK txs : txs = blocks[a.block].txs
  OBVIOUS
<1>c. PICK t : t = txs[a.next]
  OBVIOUS
<1>1. /\ a # None /\ a.result = None /\ a.next <= Len(txs)
      /\ ledger' = [ledger EXCEPT ![n] = ApplyTx(@, t)]
      /\ applying' = [applying EXCEPT ![n].next = @ + 1, ![n].oks = Append(@, Accepts(ledger[n], t))]
      /\ UNCHANGED <<engine, stored, confirmed, head, cache, asked, known, unknown, mempool, waiting, promised, torn, skipped, faults, submits>>
  BY <1>a, <1>b, <1>c DEF apply_block_tx
<1>0. UNCHANGED <<blocks, votes, notarized, finals>>
  BY <1>1 DEF engine
<1>2. NodeOK(n) /\ ledger[n] \in Seq(Txs) /\ AtWork(n, a)
  BY <1>1, <1>a DEF NodesOK, NodeOK
<1>3. /\ a.block \in Chain(Tip) \ {0} /\ a.next \in Nat /\ a.next >= 1 /\ a.oks \in Seq(BOOLEAN) /\ Len(a.oks) = a.next - 1
      /\ a = [block |-> a.block, next |-> a.next, oks |-> a.oks, result |-> a.result]
      /\ blocks[a.block].parent = stored[n] /\ head[n] = stored[n]
  BY <1>1, <1>2, NoneAssumption DEF AtWork
<1>4. txs \in Seq(Txs) /\ a.next \in 1 .. Len(txs) /\ t \in Txs
  BY <1>1, <1>3, <1>b, <1>c, TipIs, BlocksAre
<1>5. /\ ApplyTx(ledger[n], t) \in Seq(Txs) /\ Range(ledger[n]) \subseteq Range(ApplyTx(ledger[n], t))
      /\ Accepts(ledger[n], t) => t \in Range(ApplyTx(ledger[n], t))
      /\ ~Accepts(ledger[n], t) => ApplyTx(ledger[n], t) = ledger[n]
  BY <1>2, <1>4, ApplyGrows
<1>7. PICK ok \in BOOLEAN : ok = Accepts(ledger[n], t)
  BY DEF Accepts
<1> DEFINE e == [block |-> a.block, next |-> a.next + 1, oks |-> Append(a.oks, ok), result |-> a.result]
<1>6. applying' = [applying EXCEPT ![n] = e] /\ applying'[n] = e
  <2>1. applying' = [applying EXCEPT ![n] = [a EXCEPT !.next = @ + 1, !.oks = Append(@, Accepts(ledger[n], t))]]
    BY <1>1, <1>a DEF NodesOK
  <2>2. [a EXCEPT !.next = @ + 1, !.oks = Append(@, Accepts(ledger[n], t))]
          = [block |-> a.block, next |-> a.next + 1, oks |-> Append(a.oks, Accepts(ledger[n], t)), result |-> a.result]
    <3>1. PICK o : o = Append(a.oks, Accepts(ledger[n], t))
      OBVIOUS
    <3>2. [a EXCEPT !.next = @ + 1, !.oks = o] = [block |-> a.block, next |-> a.next + 1, oks |-> o, result |-> a.result]
      <4>1. PICK y : y = a.next + 1
        OBVIOUS
      <4>2. [a EXCEPT !.next = y, !.oks = o] = [[a EXCEPT !.next = y] EXCEPT !.oks = o]
        OBVIOUS
      <4>3. [a EXCEPT !.next = y] = [block |-> a.block, next |-> y, oks |-> a.oks, result |-> a.result]
        <5>1. PICK b, x, p, r : a = [block |-> b, next |-> x, oks |-> p, result |-> r]
          BY <1>3
        <5> QED BY <5>1
      <4>4. [[block |-> a.block, next |-> y, oks |-> a.oks, result |-> a.result] EXCEPT !.oks = o]
              = [block |-> a.block, next |-> y, oks |-> o, result |-> a.result]
        OBVIOUS
      <4> QED BY <4>1, <4>2, <4>3, <4>4, Zenon
    <3> QED BY <3>1, <3>2, Zenon
  <2>3. Append(a.oks, Accepts(ledger[n], t)) = Append(a.oks, ok)
    BY <1>7
  <2>4. applying' = [applying EXCEPT ![n] = e]
    BY <2>1, <2>2, <2>3
  <2> QED BY <2>4 DEF NodesOK
<1>8. /\ e.block = a.block /\ e.next = a.next + 1 /\ e.oks = Append(a.oks, ok) /\ e.result = a.result
      /\ e = [block |-> e.block, next |-> e.next, oks |-> e.oks, result |-> e.result]
  OBVIOUS
<1>9. /\ e.oks \in Seq(BOOLEAN) /\ Len(e.oks) = e.next - 1 /\ e.next \in 1 .. Len(txs) + 1
      /\ \A i \in DOMAIN e.oks : (i \in DOMAIN a.oks /\ e.oks[i] = a.oks[i]) \/ (i = a.next /\ e.oks[i] = ok)
      /\ Range(a.oks) \subseteq Range(e.oks) /\ ok \in Range(e.oks)
  <2>1. Append(a.oks, ok) \in Seq(BOOLEAN) /\ Len(Append(a.oks, ok)) = a.next
    BY <1>3
  <2>2. \A i \in 1 .. a.next : Append(a.oks, ok)[i] = IF i = a.next THEN ok ELSE a.oks[i]
    BY <1>3
  <2>3. DOMAIN Append(a.oks, ok) = 1 .. a.next /\ DOMAIN a.oks = 1 .. a.next - 1 /\ a.next \in 1 .. a.next
    BY <1>3, <2>1
  <2>4. ok \in Range(Append(a.oks, ok))
    BY <2>2, <2>3 DEF Range
  <2>5. Range(a.oks) \subseteq Range(Append(a.oks, ok))
    <3>1. \A i \in DOMAIN a.oks : i \in DOMAIN Append(a.oks, ok) /\ Append(a.oks, ok)[i] = a.oks[i]
      BY <1>3, <2>2, <2>3
    <3> QED BY <3>1 DEF Range
  <2>6. \A i \in DOMAIN e.oks : (i \in DOMAIN a.oks /\ e.oks[i] = a.oks[i]) \/ (i = a.next /\ e.oks[i] = ok)
    BY <1>3, <1>8, <2>2, <2>3
  <2> QED BY <1>3, <1>4, <1>8, <2>1, <2>4, <2>5, <2>6
<1> HIDE DEF e
<1>11. /\ ledger'[n] = ApplyTx(ledger[n], t)
       /\ stored' = stored /\ torn' = torn /\ skipped' = skipped /\ finals' = finals /\ blocks' = blocks
  BY <1>0, <1>1 DEF NodesOK
<1>10. /\ Chain(Tip)' = Chain(Tip) /\ Replay(stored[n])' = Replay(stored[n]) /\ FinalTxs' = FinalTxs
       /\ Replay(Tip)' = Replay(Tip)
       /\ Intact(n)' <=> Intact(n)
  <2>1. Tip' = Tip /\ \A b : Replay(b)' = Replay(b) /\ Chain(b)' = Chain(b) /\ TxsOf(b)' = TxsOf(b)
    BY <1>11, BlocksKept DEF Tip
  <2>2. Chain(Tip)' = Chain(Tip) /\ Replay(stored[n])' = Replay(stored[n]) /\ Replay(Tip)' = Replay(Tip)
    BY <1>11, <2>1
  <2>3. FinalTxs' = FinalTxs
    BY <2>1, <2>2 DEF FinalTxs
  <2>4. Intact(n)' <=> Intact(n)
    BY <1>11 DEF Intact, Mixed
  <2> QED BY <2>2, <2>3, <2>4
<1>12. AtWork(n, e)'
  <2>1. stored' = stored /\ head' = head /\ e.result = None /\ None # "ok"
    BY <1>1, <1>8, NoneAssumption
  <2>2. blocks'[e.block].txs = txs /\ blocks'[e.block].parent = blocks[a.block].parent
    BY <1>0, <1>8, <1>b
  <2> QED BY <1>3, <1>8, <1>9, <1>10, <2>1, <2>2 DEF AtWork
<1>13. \A i \in DOMAIN e.oks : e.oks[i] => blocks[e.block].txs[i] \in Range(ledger'[n])
  <2>1. \A i \in DOMAIN a.oks : a.oks[i] => txs[i] \in Range(ledger[n])
    BY <1>1, <1>2, <1>a, <1>b DEF NodeOK
  <2> QED BY <1>b, <1>c, <1>5, <1>7, <1>8, <1>9, <1>11, <2>1
<1>14. ASSUME Intact(n) PROVE InStep(n, e)'
  <2>0. None # "ok" /\ None # "failed" /\ Len(txs) \in Nat
    BY <1>4, NoneAssumption
  <2>1. InStep(n, a)
    BY <1>1, <1>2, <1>14, <1>a DEF NodeOK
  <2>2. PICK m \in 0 .. Len(txs) : /\ m >= a.next - 1 /\ ledger[n] = Partial(Replay(stored[n]), txs, m)
                                   /\ m = a.next - 1 \/ a.block \in torn[n]
    BY <1>1, <1>b, <2>0, <2>1 DEF InStep
  <2>3. a.block \in torn[n] \/ TRUE \in Range(a.oks) \/ ledger[n] = Replay(stored[n])
    BY <1>1, <2>0, <2>1 DEF InStep
  <2>4. \E k \in 0 .. Len(txs) : /\ k >= a.next /\ ledger'[n] = Partial(Replay(stored[n]), txs, k)
                                 /\ k = a.next \/ a.block \in torn[n]
    <3>1. CASE m = a.next - 1
      <4>1. ledger'[n] = Partial(Replay(stored[n]), txs, a.next)
        BY <1>4, <1>11, <1>c, <2>2, <3>1, PartialNext
      <4>2. a.next \in 0 .. Len(txs) /\ a.next >= a.next
        BY <1>4
      <4> QED BY <4>1, <4>2
    <3>2. CASE m # a.next - 1
      <4>1. m \in 1 .. Len(txs) /\ a.next \in 1 .. m /\ a.block \in torn[n]
        BY <1>3, <2>0, <2>2, <3>2
      <4>2. \A i, j \in DOMAIN txs : i # j => txs[i].account # txs[j].account
        BY <1>14, <1>b, <4>1 DEF Intact, Mixed
      <4>3. Replay(stored[n]) \in Seq(Txs)
        <5>1. stored[n] \in Views
          BY <1>2, TipIs DEF NodeOK
        <5> QED BY <5>1, ReplayGrows
      <4>4. ~Accepts(Partial(Replay(stored[n]), txs, m), txs[a.next])
        BY <1>4, <4>1, <4>2, <4>3, TriedIsRejected
      <4>5. ledger'[n] = ledger[n]
        BY <1>5, <1>11, <1>c, <2>2, <4>4
      <4>6. m >= a.next
        BY <4>1
      <4> QED BY <2>2, <4>1, <4>5, <4>6
    <3> QED BY <3>1, <3>2
  <2>5. a.block \in torn[n] \/ TRUE \in Range(e.oks) \/ ledger'[n] = Replay(stored[n])
    BY <1>5, <1>7, <1>9, <1>11, <2>3
  <2>6. e.next - 1 = a.next /\ e.block = a.block /\ e.result = None /\ blocks'[e.block].txs = txs
    BY <1>1, <1>3, <1>8, <1>11, <1>b
  <2> QED BY <1>10, <1>11, <2>0, <2>4, <2>5, <2>6 DEF InStep
<1>15. NodeOK(n)'
  <2>1. blocks' = blocks
    BY <1>1 DEF engine
  <2>2. /\ stored'[n] \in Chain(Tip)' /\ head'[n] \in Chain(Tip)' /\ known'[n] \subseteq Chain(Tip)' /\ unknown'[n] \subseteq Chain(Tip)'
        /\ torn'[n] \subseteq Chain(Tip)' \ {0}
    BY <1>1, <1>2, <1>10 DEF NodeOK
  <2>3. ledger'[n] \in Seq(Txs) /\ Range(ledger'[n]) \subseteq FinalTxs'
    <3>1. t \in FinalTxs
      <4>1. t \in TxsOf(a.block)
        BY <1>4, <1>b, <1>c DEF TxsOf, Range
      <4> QED BY <1>3, <4>1 DEF FinalTxs
    <3>2. Range(ApplyTx(ledger[n], t)) \subseteq Range(ledger[n]) \union {t}
      BY <1>2, <1>4, ApplyGrows
    <3> QED BY <1>2, <1>5, <1>10, <1>11, <3>1, <3>2 DEF NodeOK
  <2>4. e # None
    <3>1. a.block \in Nat
      BY <1>3, TipIs, BlocksAre DEF Views
    <3>2. e.next \in Nat /\ e.block \in Nat /\ e.result \in {None, "ok", "failed"} /\ e.oks \in Seq(BOOLEAN)
      BY <1>1, <1>3, <1>8, <1>9, <3>1
    <3>3. e \in [block : Nat, next : Nat, oks : Seq(BOOLEAN), result : {None, "ok", "failed"}]
      BY <1>8, <3>2
    <3> QED BY <3>3, NoneAssumption
  <2> QED BY <1>6, <1>10, <1>11, <1>12, <1>13, <1>14, <2>2, <2>3, <2>4 DEF NodeOK
<1>16. NodesOK'
  <2>1. /\ ledger' = [ledger EXCEPT ![n] = ledger'[n]] /\ applying' = [applying EXCEPT ![n] = applying'[n]]
        /\ stored' = [stored EXCEPT ![n] = stored'[n]] /\ head' = [head EXCEPT ![n] = head'[n]]
        /\ known' = [known EXCEPT ![n] = known'[n]] /\ unknown' = [unknown EXCEPT ![n] = unknown'[n]]
        /\ torn' = [torn EXCEPT ![n] = torn'[n]] /\ skipped' = [skipped EXCEPT ![n] = skipped'[n]]
    BY <1>1, <1>6, <1>11 DEF NodesOK
  <2> QED BY <1>1, <1>15, <2>1, NodeMoved DEF engine
<1>17. AnswersOK'
  <2>1. \A m \in Node : Range(ledger[m]) \subseteq Range(ledger'[m])
    BY <1>1, <1>5 DEF NodesOK
  <2> QED BY <1>1, <1>10, <2>1, AnswersGrow
<1> QED BY <1>1, <1>16, <1>17, EngineKept, SamePool DEF engine

\* The write of a transaction fails: its node is not intact from here on.
LEMMA SkipStep ==
  ASSUME IInv, NEW n \in Node, apply_block_tx_fails(n)
  PROVE  IInv'
PROOF
<1> USE DEF IInv
<1>a. PICK a : a = applying[n]
  OBVIOUS
<1>b. PICK txs : txs = blocks[a.block].txs
  OBVIOUS
<1>1. /\ a # None /\ a.result = None /\ a.next <= Len(txs)
      /\ applying' = [applying EXCEPT ![n].next = @ + 1, ![n].oks = Append(@, FALSE)]
      /\ skipped' = [skipped EXCEPT ![n] = @ \union {a.block}]
      /\ UNCHANGED <<engine, durable, confirmed, head, cache, asked, known, unknown, mempool, waiting, promised, torn, submits>>
  BY <1>a, <1>b DEF apply_block_tx_fails
<1>0. UNCHANGED <<blocks, votes, notarized, finals, ledger, stored>>
  BY <1>1 DEF engine, durable
<1>2. NodeOK(n) /\ AtWork(n, a)
  BY <1>1, <1>a DEF NodesOK, NodeOK
<1>3. /\ a.block \in Chain(Tip) \ {0} /\ a.next \in Nat /\ a.next >= 1 /\ a.oks \in Seq(BOOLEAN) /\ Len(a.oks) = a.next - 1
      /\ a = [block |-> a.block, next |-> a.next, oks |-> a.oks, result |-> a.result]
      /\ blocks[a.block].parent = stored[n] /\ head[n] = stored[n]
  BY <1>1, <1>2, NoneAssumption DEF AtWork
<1>4. txs \in Seq(Txs) /\ a.next \in 1 .. Len(txs) /\ a.block \in Nat
  BY <1>1, <1>3, <1>b, TipIs, BlocksAre DEF Views
<1>c. PICK no \in BOOLEAN : no = FALSE
  OBVIOUS
<1>5. PICK o : o = Append(a.oks, no)
  OBVIOUS
<1>6. PICK y : y = a.next + 1
  OBVIOUS
<1> DEFINE e == [block |-> a.block, next |-> y, oks |-> o, result |-> a.result]
<1>7. applying' = [applying EXCEPT ![n] = e] /\ applying'[n] = e
  <2>1. applying' = [applying EXCEPT ![n] = [a EXCEPT !.next = y, !.oks = o]]
    <3>1. Append(a.oks, FALSE) = o
      BY <1>5, <1>c
    <3> QED BY <1>1, <1>6, <1>a, <3>1 DEF NodesOK
  <2>2. [a EXCEPT !.next = y, !.oks = o] = e
    <3>1. [a EXCEPT !.next = y, !.oks = o] = [[a EXCEPT !.next = y] EXCEPT !.oks = o]
      OBVIOUS
    <3>2. [a EXCEPT !.next = y] = [block |-> a.block, next |-> y, oks |-> a.oks, result |-> a.result]
      <4>1. PICK b, x, p, r : a = [block |-> b, next |-> x, oks |-> p, result |-> r]
        BY <1>3
      <4> QED BY <4>1
    <3>3. [[block |-> a.block, next |-> y, oks |-> a.oks, result |-> a.result] EXCEPT !.oks = o] = e
      OBVIOUS
    <3> QED BY <3>1, <3>2, <3>3, Zenon
  <2>3. applying' = [applying EXCEPT ![n] = e]
    BY <2>1, <2>2
  <2> QED BY <2>3 DEF NodesOK
<1>8. /\ e.block = a.block /\ e.next = a.next + 1 /\ e.oks = o /\ e.result = None
      /\ e = [block |-> e.block, next |-> e.next, oks |-> e.oks, result |-> e.result]
  BY <1>1, <1>6
<1> HIDE DEF e
<1>9. /\ e.oks \in Seq(BOOLEAN) /\ Len(e.oks) = e.next - 1 /\ e.next \in 1 .. Len(txs) + 1
      /\ \A i \in DOMAIN e.oks : e.oks[i] => i \in DOMAIN a.oks /\ a.oks[i]
  <2>1. o \in Seq(BOOLEAN) /\ Len(o) = a.next
    BY <1>3, <1>5
  <2>2. \A i \in 1 .. a.next : o[i] = IF i = a.next THEN no ELSE a.oks[i]
    BY <1>3, <1>5
  <2>3. DOMAIN o = 1 .. a.next /\ DOMAIN a.oks = 1 .. a.next - 1
    BY <1>3, <2>1
  <2>4. ASSUME NEW i \in DOMAIN o, o[i] PROVE i \in DOMAIN a.oks /\ a.oks[i]
    <3>1. i # a.next
      BY <1>c, <2>2, <2>3, <2>4
    <3>2. i \in 1 .. a.next - 1
      BY <1>3, <2>3, <3>1
    <3>3. o[i] = a.oks[i]
      BY <2>2, <2>3, <3>1
    <3> QED BY <2>3, <2>4, <3>2, <3>3
  <2> QED BY <1>3, <1>4, <1>8, <2>1, <2>4
<1>10. /\ stored' = stored /\ ledger' = ledger /\ torn' = torn /\ head' = head /\ known' = known /\ unknown' = unknown
       /\ blocks' = blocks /\ finals' = finals /\ skipped'[n] # {}
  BY <1>0, <1>1 DEF NodesOK
<1>11. Chain(Tip)' = Chain(Tip) /\ FinalTxs' = FinalTxs
  <2>1. Tip' = Tip /\ \A b : Chain(b)' = Chain(b) /\ TxsOf(b)' = TxsOf(b)
    BY <1>10, BlocksKept DEF Tip
  <2>2. Chain(Tip)' = Chain(Tip)
    BY <2>1
  <2> QED BY <2>1, <2>2 DEF FinalTxs
<1>12. AtWork(n, e)'
  <2>1. None # "ok" /\ blocks'[e.block].txs = txs /\ blocks'[e.block].parent = blocks[a.block].parent
    BY <1>8, <1>10, <1>b, NoneAssumption
  <2> QED BY <1>3, <1>8, <1>9, <1>10, <1>11, <2>1 DEF AtWork
<1>13. \A i \in DOMAIN e.oks : e.oks[i] => blocks[e.block].txs[i] \in Range(ledger[n])
  <2>1. \A i \in DOMAIN a.oks : a.oks[i] => blocks[a.block].txs[i] \in Range(ledger[n])
    BY <1>1, <1>2, <1>a DEF NodeOK
  <2> QED BY <1>8, <1>9, <2>1
<1>14. ~Intact(n)'
  BY <1>10 DEF Intact
<1>15. e # None
  <2>1. e.next \in Nat /\ e.block \in Nat /\ e.result \in {None, "ok", "failed"} /\ e.oks \in Seq(BOOLEAN)
    BY <1>3, <1>4, <1>8, <1>9
  <2>2. e \in [block : Nat, next : Nat, oks : Seq(BOOLEAN), result : {None, "ok", "failed"}]
    BY <1>8, <2>1
  <2> QED BY <2>2, NoneAssumption
<1>16. NodeOK(n)'
  BY <1>2, <1>7, <1>10, <1>11, <1>12, <1>13, <1>14, <1>15 DEF NodeOK
<1>17. NodesOK'
  <2>1. /\ ledger' = [ledger EXCEPT ![n] = ledger'[n]] /\ applying' = [applying EXCEPT ![n] = applying'[n]]
        /\ stored' = [stored EXCEPT ![n] = stored'[n]] /\ head' = [head EXCEPT ![n] = head'[n]]
        /\ known' = [known EXCEPT ![n] = known'[n]] /\ unknown' = [unknown EXCEPT ![n] = unknown'[n]]
        /\ torn' = [torn EXCEPT ![n] = torn'[n]] /\ skipped' = [skipped EXCEPT ![n] = skipped'[n]]
    BY <1>1, <1>7, <1>10 DEF NodesOK
  <2> QED BY <1>10, <1>16, <2>1, NodeMoved
<1> QED BY <1>0, <1>1, <1>17, EngineKept, SamePool, AnswersKept

\* A result is all that changes when the attempt at a block ends.
Ended(a, r) == [block |-> a.block, next |-> a.next, oks |-> a.oks, result |-> r]

LEMMA EndedIs ==
  ASSUME NodesOK, NEW n \in Node, AllTried(n), NEW r, applying' = [applying EXCEPT ![n].result = r]
  PROVE  /\ applying' = [applying EXCEPT ![n] = applying'[n]] /\ applying'[n] = Ended(applying[n], r)
         /\ applying[n] # None /\ NodeOK(n) /\ AtWork(n, applying[n])
         /\ applying[n].block \in Chain(Tip) \ {0} /\ applying[n].result = None /\ None # "ok"
         /\ blocks[applying[n].block].parent = stored[n] /\ head[n] = stored[n]
         /\ \A t \in {blocks[applying[n].block].txs} : t \in Seq(Txs) => applying[n].next = Len(t) + 1
PROOF
<1>a. PICK a : a = applying[n]
  OBVIOUS
<1>1. a # None /\ a.result = None /\ a.next > Len(blocks[a.block].txs) /\ None # "ok"
  BY <1>a, NoneAssumption DEF AllTried
<1>2. NodeOK(n) /\ AtWork(n, a)
  BY <1>1, <1>a DEF NodesOK, NodeOK
<1>3. a = [block |-> a.block, next |-> a.next, oks |-> a.oks, result |-> a.result] /\ a.block \in Chain(Tip) \ {0}
      /\ a.next \in 1 .. Len(blocks[a.block].txs) + 1 /\ blocks[a.block].parent = stored[n] /\ head[n] = stored[n]
  BY <1>1, <1>2 DEF AtWork
<1>4. [a EXCEPT !.result = r] = Ended(a, r)
  <2>1. PICK b, x, p, q : a = [block |-> b, next |-> x, oks |-> p, result |-> q]
    BY <1>3
  <2> QED BY <2>1 DEF Ended
<1>5. applying' = [applying EXCEPT ![n] = Ended(a, r)]
  BY <1>4, <1>a DEF NodesOK
<1>6. applying'[n] = Ended(a, r) /\ applying' = [applying EXCEPT ![n] = applying'[n]]
  BY <1>5 DEF NodesOK
<1>7. ASSUME NEW t \in {blocks[a.block].txs}, t \in Seq(Txs)
      PROVE  a.next = Len(t) + 1
  BY <1>1, <1>3, <1>7
<1> QED BY <1>1, <1>2, <1>3, <1>6, <1>7, <1>a

LEMMA EndedAre ==
  ASSUME NEW a, NEW r
  PROVE  /\ Ended(a, r).block = a.block /\ Ended(a, r).next = a.next /\ Ended(a, r).oks = a.oks /\ Ended(a, r).result = r
         /\ Ended(a, r) = [block |-> Ended(a, r).block, next |-> Ended(a, r).next, oks |-> Ended(a, r).oks, result |-> Ended(a, r).result]
  BY DEF Ended

LEMMA CommitStep ==
  ASSUME IInv, NEW n \in Node, apply_block_commit(n)
  PROVE  IInv'
PROOF
<1> USE DEF IInv
<1>a. PICK a : a = applying[n]
  OBVIOUS
<1>b. PICK txs : txs = blocks[a.block].txs
  OBVIOUS
<1>c. PICK e : e = Ended(a, "ok")
  OBVIOUS
<1>1. /\ AllTried(n)
      /\ stored' = [stored EXCEPT ![n] = a.block]
      /\ applying' = [applying EXCEPT ![n].result = "ok"]
      /\ UNCHANGED <<engine, ledger, confirmed, head, cache, asked, known, unknown, mempool, waiting, promised, torn, skipped, faults, submits>>
  BY <1>a DEF apply_block_commit
<1>0. UNCHANGED <<blocks, votes, notarized, finals>>
  BY <1>1 DEF engine
<1>2. /\ applying' = [applying EXCEPT ![n] = applying'[n]] /\ applying'[n] = e
      /\ a # None /\ NodeOK(n) /\ AtWork(n, a) /\ a.block \in Chain(Tip) \ {0} /\ a.result = None /\ None # "ok"
      /\ blocks[a.block].parent = stored[n]
      /\ \A t \in {txs} : t \in Seq(Txs) => a.next = Len(t) + 1
  BY <1>1, <1>a, <1>b, <1>c, EndedIs
<1>3. /\ e.block = a.block /\ e.next = a.next /\ e.oks = a.oks /\ e.result = "ok"
      /\ e = [block |-> e.block, next |-> e.next, oks |-> e.oks, result |-> e.result]
  BY <1>c, EndedAre
<1>4. txs \in Seq(Txs) /\ a.block \in 1 .. Len(blocks)
  BY <1>2, <1>b, TipIs, BlocksAre
<1>5. a.next = Len(txs) + 1 /\ Len(txs) \in Nat /\ a.oks \in Seq(BOOLEAN) /\ Len(a.oks) = a.next - 1
  BY <1>2, <1>4 DEF AtWork
<1>6. Chain(Tip)' = Chain(Tip) /\ FinalTxs' = FinalTxs /\ \A b : Replay(b)' = Replay(b)
  <2>0. finals' = finals
    BY <1>0
  <2>1. Tip' = Tip /\ \A b : Replay(b)' = Replay(b) /\ Chain(b)' = Chain(b) /\ TxsOf(b)' = TxsOf(b)
    BY <1>0, <2>0, BlocksKept DEF Tip
  <2>2. Chain(Tip)' = Chain(Tip)
    BY <2>1
  <2> QED BY <2>1, <2>2 DEF FinalTxs
<1>7. stored'[n] = a.block /\ ledger' = ledger /\ torn' = torn /\ skipped' = skipped /\ head' = head /\ known' = known /\ unknown' = unknown /\ blocks' = blocks
  BY <1>0, <1>1 DEF NodesOK
<1>8. AtWork(n, e)'
  BY <1>b, <1>2, <1>3, <1>4, <1>5, <1>6, <1>7 DEF AtWork
<1>9. ASSUME Intact(n) PROVE InStep(n, e)'
  <2>1. ledger[n] = Partial(Replay(stored[n]), txs, a.next - 1)
    <3>1. InStep(n, a) /\ None # "failed"
      BY <1>2, <1>9, <1>a, NoneAssumption DEF NodeOK
    <3>2. PICK m \in 0 .. Len(txs) : m >= a.next - 1 /\ ledger[n] = Partial(Replay(stored[n]), txs, m)
      BY <1>2, <1>b, <3>1 DEF InStep
    <3>3. m = a.next - 1
      BY <1>5, <3>2
    <3> QED BY <3>2, <3>3
  <2>2. Replay(a.block) = Partial(Replay(stored[n]), txs, Len(txs))
    BY <1>2, <1>4, <1>b, ReplayUnfold
  <2>3. ledger[n] = Replay(a.block) /\ Replay(a.block)' = Replay(a.block)
    <3>1. a.next - 1 = Len(txs)
      BY <1>5
    <3> QED BY <1>6, <2>1, <2>2, <3>1
  <2>4. Replay(stored[n])' = Replay(a.block)
    <3>1. \A b : b = a.block => Replay(b)' = Replay(a.block)
      BY <1>6
    <3> QED BY <1>7, <3>1
  <2> QED BY <1>3, <1>7, <2>3, <2>4 DEF InStep
<1>10. e # None
  <2>1. a.block \in Nat
    BY <1>4
  <2>2. e.next \in Nat /\ e.block \in Nat /\ e.result \in {None, "ok", "failed"} /\ e.oks \in Seq(BOOLEAN)
    BY <1>3, <1>5, <2>1
  <2>3. e \in [block : Nat, next : Nat, oks : Seq(BOOLEAN), result : {None, "ok", "failed"}]
    BY <1>3, <2>2
  <2> QED BY <2>3, NoneAssumption
<1>11. NodeOK(n)'
  <2>1. \A i \in DOMAIN e.oks : e.oks[i] => blocks[e.block].txs[i] \in Range(ledger[n])
    BY <1>2, <1>3, <1>a DEF NodeOK
  <2>2. /\ stored'[n] \in Chain(Tip)' /\ head'[n] \in Chain(Tip)' /\ known'[n] \subseteq Chain(Tip)' /\ unknown'[n] \subseteq Chain(Tip)'
        /\ ledger'[n] \in Seq(Txs) /\ Range(ledger'[n]) \subseteq FinalTxs' /\ torn'[n] \subseteq Chain(Tip)' \ {0}
    BY <1>2, <1>6, <1>7 DEF NodeOK
  <2>3. Intact(n)' <=> Intact(n)
    BY <1>7 DEF Intact, Mixed
  <2> QED BY <1>2, <1>7, <1>8, <1>9, <1>10, <2>1, <2>2, <2>3 DEF NodeOK
<1>12. NodesOK'
  <2>1. /\ ledger' = [ledger EXCEPT ![n] = ledger'[n]] /\ stored' = [stored EXCEPT ![n] = stored'[n]]
        /\ head' = [head EXCEPT ![n] = head'[n]] /\ known' = [known EXCEPT ![n] = known'[n]]
        /\ unknown' = [unknown EXCEPT ![n] = unknown'[n]] /\ torn' = [torn EXCEPT ![n] = torn'[n]] /\ skipped' = [skipped EXCEPT ![n] = skipped'[n]]
    BY <1>1, <1>7 DEF NodesOK
  <2> QED BY <1>0, <1>2, <1>11, <2>1, NodeMoved
<1> QED BY <1>0, <1>1, <1>12, EngineKept, SamePool, AnswersKept

\* A block that stops being applied leaves the ledger at the replay of the head,
\* or the block among those interrupted.
LEMMA InterruptedRests ==
  ASSUME BlocksOK, VotesOK, FinalsOK, NEW n \in Node, NodeOK(n), UNCHANGED <<blocks, finals, stored, ledger>>,
         torn'[n] = torn[n] \union Interrupted(n), skipped'[n] = skipped[n], Intact(n)'
  PROVE  Resting(n)'
PROOF
<1>a. PICK a : a = applying[n]
  OBVIOUS
<1>1. Replay(stored[n])' = Replay(stored[n])
  <2>1. \A b : Replay(b)' = Replay(b)
    BY BlocksKept
  <2> QED BY <2>1
<1>2. Intact(n)
  BY DEF Intact, Mixed
<1>3. Resting(n) => Resting(n)'
  BY <1>1 DEF Resting
<1>4. CASE a = None
  BY <1>2, <1>3, <1>4, <1>a DEF NodeOK
<1>5. CASE a # None
  <2>1. AtWork(n, a) /\ InStep(n, a)
    BY <1>2, <1>5, <1>a DEF NodeOK
  <2>2. a.block \in Views
    BY <2>1, TipIs DEF AtWork
  <2>3. CASE a.result = "ok"
    BY <1>1, <2>1, <2>3 DEF InStep, Resting
  <2>4. CASE a.result = "failed"
    <3>1. "failed" # "ok"
      OBVIOUS
    <3> QED BY <1>3, <2>1, <2>4, <3>1 DEF InStep
  <2>5. CASE a.result # "ok" /\ a.result # "failed"
    <3>1. /\ \E m \in 0 .. Len(blocks[a.block].txs) : ledger[n] = Partial(Replay(stored[n]), blocks[a.block].txs, m)
          /\ a.block \in torn[n] \/ TRUE \in Range(a.oks) \/ ledger[n] = Replay(stored[n])
      BY <2>1, <2>5 DEF InStep
    <3>2. blocks[a.block].parent = stored[n]
      BY <2>1, <2>5 DEF AtWork
    <3>3. CASE ledger[n] = Replay(stored[n])
      BY <1>1, <3>3 DEF Resting
    <3>4. CASE a.block \in torn[n] \/ TRUE \in Range(a.oks)
      <4>1. a.block \in torn'[n]
        BY <1>5, <1>a, <2>2, <2>5, <3>4 DEF Interrupted
      <4> QED BY <1>1, <3>1, <3>2, <4>1 DEF Resting
    <3> QED BY <3>1, <3>3, <3>4
  <2> QED BY <2>3, <2>4, <2>5
<1> QED BY <1>4, <1>5

LEMMA FailStep ==
  ASSUME IInv, NEW n \in Node, apply_block_fails(n)
  PROVE  IInv'
PROOF
<1> USE DEF IInv
<1>a. PICK a : a = applying[n]
  OBVIOUS
<1>b. PICK txs : txs = blocks[a.block].txs
  OBVIOUS
<1>c. PICK e : e = Ended(a, "failed")
  OBVIOUS
<1>1. /\ AllTried(n)
      /\ torn' = [torn EXCEPT ![n] = @ \union Interrupted(n)]
      /\ applying' = [applying EXCEPT ![n].result = "failed"]
      /\ UNCHANGED <<engine, durable, confirmed, head, cache, asked, known, unknown, mempool, waiting, promised, skipped, submits>>
  BY DEF apply_block_fails
<1>0. UNCHANGED <<blocks, votes, notarized, finals, ledger, stored>>
  BY <1>1 DEF engine, durable
<1>2. /\ applying' = [applying EXCEPT ![n] = applying'[n]] /\ applying'[n] = e
      /\ a # None /\ NodeOK(n) /\ AtWork(n, a) /\ a.block \in Chain(Tip) \ {0} /\ a.result = None /\ None # "ok"
      /\ blocks[a.block].parent = stored[n] /\ head[n] = stored[n]
      /\ \A t \in {txs} : t \in Seq(Txs) => a.next = Len(t) + 1
  BY <1>1, <1>a, <1>b, <1>c, EndedIs
<1>3. /\ e.block = a.block /\ e.next = a.next /\ e.oks = a.oks /\ e.result = "failed"
      /\ e = [block |-> e.block, next |-> e.next, oks |-> e.oks, result |-> e.result]
  BY <1>c, EndedAre
<1>4. txs \in Seq(Txs) /\ a.block \in 1 .. Len(blocks) /\ a.block \in Views
  BY <1>2, <1>b, TipIs, BlocksAre
<1>5. a.next = Len(txs) + 1 /\ Len(txs) \in Nat /\ a.oks \in Seq(BOOLEAN) /\ Len(a.oks) = a.next - 1
  BY <1>2, <1>4 DEF AtWork
<1>6. Chain(Tip)' = Chain(Tip) /\ FinalTxs' = FinalTxs /\ \A b : Replay(b)' = Replay(b)
  <2>0. finals' = finals
    BY <1>0
  <2>1. Tip' = Tip /\ \A b : Replay(b)' = Replay(b) /\ Chain(b)' = Chain(b) /\ TxsOf(b)' = TxsOf(b)
    BY <1>0, <2>0, BlocksKept DEF Tip
  <2>2. Chain(Tip)' = Chain(Tip)
    BY <2>1
  <2> QED BY <2>1, <2>2 DEF FinalTxs
<1>7. stored' = stored /\ ledger' = ledger /\ torn'[n] = torn[n] \union Interrupted(n) /\ skipped' = skipped /\ head' = head /\ known' = known /\ unknown' = unknown /\ blocks' = blocks
  BY <1>0, <1>1 DEF NodesOK
<1>8. AtWork(n, e)'
  BY <1>b, <1>2, <1>3, <1>4, <1>5, <1>6, <1>7 DEF AtWork
<1>9. ASSUME Intact(n)' PROVE InStep(n, e)'
  <2>1. Resting(n)'
    BY <1>0, <1>2, <1>7, <1>9, InterruptedRests
  <2>2. "failed" # "ok"
    OBVIOUS
  <2> QED BY <1>3, <2>1, <2>2 DEF InStep
<1>10. e # None
  <2>1. a.block \in Nat
    BY <1>4
  <2>2. e.next \in Nat /\ e.block \in Nat /\ e.result \in {None, "ok", "failed"} /\ e.oks \in Seq(BOOLEAN)
    BY <1>3, <1>5, <2>1
  <2>3. e \in [block : Nat, next : Nat, oks : Seq(BOOLEAN), result : {None, "ok", "failed"}]
    BY <1>3, <2>2
  <2> QED BY <2>3, NoneAssumption
<1>11. NodeOK(n)'
  <2>1. \A i \in DOMAIN e.oks : e.oks[i] => blocks[e.block].txs[i] \in Range(ledger[n])
    BY <1>2, <1>3, <1>a DEF NodeOK
  <2>2. /\ stored'[n] \in Chain(Tip)' /\ head'[n] \in Chain(Tip)' /\ known'[n] \subseteq Chain(Tip)' /\ unknown'[n] \subseteq Chain(Tip)'
        /\ ledger'[n] \in Seq(Txs) /\ Range(ledger'[n]) \subseteq FinalTxs'
    BY <1>2, <1>6, <1>7 DEF NodeOK
  <2>3. torn'[n] \subseteq Chain(Tip)' \ {0}
    <3>1. Interrupted(n) \subseteq {a.block}
      BY <1>a DEF Interrupted
    <3> QED BY <1>2, <1>6, <1>7, <3>1 DEF NodeOK
  <2> QED BY <1>2, <1>7, <1>8, <1>9, <1>10, <2>1, <2>2, <2>3 DEF NodeOK
<1>12. NodesOK'
  <2>1. /\ ledger' = [ledger EXCEPT ![n] = ledger'[n]] /\ stored' = [stored EXCEPT ![n] = stored'[n]]
        /\ head' = [head EXCEPT ![n] = head'[n]] /\ known' = [known EXCEPT ![n] = known'[n]]
        /\ unknown' = [unknown EXCEPT ![n] = unknown'[n]] /\ torn' = [torn EXCEPT ![n] = torn'[n]] /\ skipped' = [skipped EXCEPT ![n] = skipped'[n]]
    BY <1>1, <1>7 DEF NodesOK
  <2> QED BY <1>0, <1>2, <1>11, <2>1, NodeMoved
<1> QED BY <1>0, <1>1, <1>12, EngineKept, SamePool, AnswersKept

\* A mempool only ever loses what is taken out of it.
LEMMA PoolShrinks ==
  ASSUME VotesOK, NEW n \in Node, NEW gone, mempool' = [mempool EXCEPT ![n] = Without(@, gone)]
  PROVE  mempool' \in [Node -> Seq(Txs)] /\ \A m \in Node : \A t \in Range(mempool'[m]) : Confirms(m, t)
PROOF
<1> DEFINE kept == Without(mempool[n], gone)
<1>1. mempool[n] \in Seq(Txs) /\ mempool \in [Node -> Seq(Txs)] /\ \A m \in Node : \A t \in Range(mempool[m]) : Confirms(m, t)
  BY DEF VotesOK
<1>2. kept \in Seq(Range(mempool[n]))
  BY <1>1, WithoutIs
<1>3. mempool' = [mempool EXCEPT ![n] = kept]
  OBVIOUS
<1> HIDE DEF kept
<1>4. Range(mempool[n]) \subseteq Txs
  BY <1>1 DEF Range
<1>5. kept \in Seq(Txs) /\ Range(kept) \subseteq Range(mempool[n])
  <2>1. \A i \in DOMAIN kept : kept[i] \in Range(mempool[n])
    BY <1>2
  <2>2. kept \in Seq(Txs)
    BY <1>2, <1>4
  <2> QED BY <2>1, <2>2 DEF Range
<1>6. mempool' \in [Node -> Seq(Txs)]
  BY <1>1, <1>3, <1>5
<1>7. ASSUME NEW m \in Node, NEW t \in Range(mempool'[m])
      PROVE  Confirms(m, t)
  <2>1. mempool'[m] = IF m = n THEN kept ELSE mempool[m]
    BY <1>1, <1>3
  <2> QED BY <1>1, <1>5, <1>7, <2>1
<1> QED BY <1>6, <1>7

LEMMA AppliedStep ==
  ASSUME IInv, NEW n \in Node, on_applied(n)
  PROVE  IInv'
PROOF
<1> USE DEF IInv
<1>a. PICK a : a = applying[n]
  OBVIOUS
<1>b. PICK left : left = {k \in known[n] : HeightOf(k) # HeightOf(a.block)}
  OBVIOUS
<1>1. a # None /\ a.result # None /\ UNCHANGED <<engine, durable, confirmed, unknown, torn, skipped, faults, submits>>
  BY <1>a DEF on_applied
<1>0. UNCHANGED <<blocks, votes, notarized, finals, ledger, stored, confirmed, unknown, torn, skipped>>
  BY <1>1 DEF engine, durable
<1>2. NodeOK(n) /\ AtWork(n, a)
  BY <1>1, <1>a DEF NodesOK, NodeOK
<1>3. a.block \in Chain(Tip) \ {0} /\ left \subseteq Chain(Tip) /\ stored[n] \in Chain(Tip)
      /\ (a.result = "ok" \/ (a.result = "failed" /\ head[n] = stored[n]))
  BY <1>1, <1>2, <1>b, NoneAssumption DEF NodeOK, AtWork
<1>4. Intact(n) => IF a.result = "ok" THEN ledger[n] = Replay(stored[n]) ELSE Resting(n)
  <2>1. ASSUME Intact(n) PROVE InStep(n, a)
    BY <1>1, <1>2, <1>a, <2>1 DEF NodeOK
  <2> QED BY <1>3, <2>1 DEF InStep
<1>5. CASE a.result = "ok"
  <2>1. /\ head' = [head EXCEPT ![n] = stored[n]]
        /\ mempool' = [mempool EXCEPT ![n] = Without(@, TxsOf(a.block))]
        /\ promised' = promised \union {Answer(n, t) : t \in Taken(n) \cap waiting[n]}
        /\ drain_finalized(n, stored[n], Pruned(cache[n], stored[n]), left, None, asked[n])
    BY <1>5, <1>a, <1>b DEF on_applied
  <2>2. NodesOK'
    <3>1. Intact(n) => Resting(n)
      BY <1>4, <1>5 DEF Resting
    <3> QED BY <1>0, <1>3, <2>1, <3>1, DrainIdle
  <2>3. BlocksOK' /\ VotesOK' /\ FinalsOK' /\ Tip' = Tip
    BY <1>0, <2>1, PoolShrinks, EngineKept
  <2>4. Taken(n) \subseteq Range(ledger[n]) /\ Taken(n) \subseteq FinalTxs
    <3>1. \A i \in DOMAIN a.oks : a.oks[i] => blocks[a.block].txs[i] \in Range(ledger[n])
      BY <1>1, <1>2, <1>a DEF NodeOK
    <3>2. blocks[a.block].txs \in Seq(Txs) /\ DOMAIN blocks[a.block].txs = DOMAIN a.oks
      <4>1. blocks[a.block].txs \in Seq(Txs)
        BY <1>3, TipIs, BlocksAre
      <4>2. Len(a.oks) = Len(blocks[a.block].txs) /\ a.oks \in Seq(BOOLEAN)
        BY <1>1, <1>2, <4>1 DEF AtWork
      <4> QED BY <4>1, <4>2
    <3>3. Taken(n) \subseteq Range(ledger[n])
      BY <1>a, <3>1, <3>2 DEF Taken
    <3>4. Range(ledger[n]) \subseteq FinalTxs
      BY <1>2 DEF NodeOK
    <3> QED BY <3>3, <3>4
  <2>5. Intact(n) => Range(ledger[n]) \subseteq Range(Replay(Tip))
    <3>1. Range(Replay(stored[n])) \subseteq Range(Replay(Tip))
      BY <1>3, TipIs, ReplayGrows
    <3> QED BY <1>4, <1>5, <3>1
  <2>6. ASSUME NEW p \in promised'
        PROVE  /\ p.node \in Node /\ p.tx \in FinalTxs /\ p.tx \in Range(ledger[p.node])
               /\ p.intact => p.tx \in Range(Replay(Tip))
    <3>1. CASE p \in promised
      BY <3>1 DEF AnswersOK, AnsweredIsFinal
    <3>2. CASE p \in {Answer(n, t) : t \in Taken(n) \cap waiting[n]}
      <4>1. PICK t \in Taken(n) : p = Answer(n, t)
        BY <3>2
      <4>2. p.node = n /\ p.tx = t /\ (p.intact <=> Intact(n))
        BY <4>1 DEF Answer
      <4> QED BY <2>4, <2>5, <4>1, <4>2
    <3> QED BY <2>1, <3>1, <3>2
  <2>7. AnswersOK'
    <3>1. \A b : Replay(b)' = Replay(b) /\ Chain(b)' = Chain(b) /\ TxsOf(b)' = TxsOf(b)
      BY <1>0, BlocksKept
    <3>2. Replay(Tip)' = Replay(Tip) /\ Chain(Tip)' = Chain(Tip)
      BY <2>3, <3>1
    <3>3. FinalTxs' = FinalTxs /\ ledger' = ledger
      BY <1>0, <3>1, <3>2 DEF FinalTxs
    <3> QED BY <2>6, <3>2, <3>3 DEF AnswersOK, AnsweredIsFinal
  <2> QED BY <2>2, <2>3, <2>7
<1>6. CASE a.result = "failed" /\ head[n] = stored[n]
  <2>0. "failed" # "ok"
    OBVIOUS
  <2>1. /\ drain_finalized(n, head[n], cache[n], left, None, asked[n])
        /\ UNCHANGED <<head, mempool, promised, waiting, cache>>
    BY <1>6, <1>a, <1>b, <2>0 DEF on_applied
  <2>2. head' = [head EXCEPT ![n] = stored[n]]
    BY <1>6, <2>1 DEF NodesOK
  <2>3. drain_finalized(n, stored[n], cache[n], left, None, asked[n])
    BY <1>6, <2>1
  <2>4. NodesOK'
    <3>1. Intact(n) => Resting(n)
      BY <1>4, <1>6, <2>0
    <3> QED BY <1>0, <1>3, <2>2, <2>3, <3>1, DrainIdle
  <2> QED BY <1>0, <2>1, <2>4, SamePool, EngineKept, AnswersKept
<1> QED BY <1>3, <1>5, <1>6

LEMMA RestartStep ==
  ASSUME IInv, NEW n \in Node, Restart(n)
  PROVE  IInv'
PROOF
<1> USE DEF IInv
<1>a. PICK a : a = applying[n]
  OBVIOUS
<1>1. /\ torn' = [torn EXCEPT ![n] = @ \union Interrupted(n)]
      /\ head' = [head EXCEPT ![n] = stored[n]]
      /\ known' = [known EXCEPT ![n] = {}] /\ unknown' = [unknown EXCEPT ![n] = {}]
      /\ applying' = [applying EXCEPT ![n] = None]
      /\ mempool' = [mempool EXCEPT ![n] = <<>>]
      /\ UNCHANGED <<engine, durable, confirmed, promised, skipped, submits>>
  BY DEF Restart
<1>0. UNCHANGED <<blocks, votes, notarized, finals, ledger, stored>>
  BY <1>1 DEF engine, durable
<1>2. NodeOK(n)
  BY DEF NodesOK
<1>3. Chain(Tip)' = Chain(Tip) /\ FinalTxs' = FinalTxs
  <2>0. finals' = finals
    BY <1>0
  <2>1. Tip' = Tip /\ \A b : Chain(b)' = Chain(b) /\ TxsOf(b)' = TxsOf(b)
    BY <1>0, <2>0, BlocksKept DEF Tip
  <2>2. Chain(Tip)' = Chain(Tip)
    BY <2>1
  <2> QED BY <2>1, <2>2 DEF FinalTxs
<1>4. Intact(n)' => Resting(n)'
  <2>1. torn'[n] = torn[n] \union Interrupted(n) /\ skipped'[n] = skipped[n]
    BY <1>1 DEF NodesOK
  <2> QED BY <1>0, <1>2, <2>1, InterruptedRests
<1>5. /\ stored' = stored /\ head'[n] = stored[n] /\ known'[n] = {} /\ unknown'[n] = {} /\ applying'[n] = None /\ ledger' = ledger
      /\ ledger' = [ledger EXCEPT ![n] = ledger'[n]] /\ stored' = [stored EXCEPT ![n] = stored'[n]]
      /\ head' = [head EXCEPT ![n] = head'[n]] /\ known' = [known EXCEPT ![n] = known'[n]]
      /\ unknown' = [unknown EXCEPT ![n] = unknown'[n]] /\ torn' = [torn EXCEPT ![n] = torn'[n]] /\ skipped' = [skipped EXCEPT ![n] = skipped'[n]]
      /\ applying' = [applying EXCEPT ![n] = applying'[n]]
  BY <1>0, <1>1 DEF NodesOK
<1>6. torn'[n] \subseteq Chain(Tip)' \ {0}
  <2>1. Interrupted(n) \subseteq Chain(Tip) \ {0}
    <3>1. ASSUME NEW b \in Interrupted(n) PROVE b = a.block /\ a # None
      BY <1>a DEF Interrupted
    <3>2. a # None => a.block \in Chain(Tip) \ {0}
      BY <1>2, <1>a DEF NodeOK, AtWork
    <3> QED BY <3>1, <3>2
  <2>2. torn'[n] = torn[n] \union Interrupted(n)
    BY <1>1 DEF NodesOK
  <2> QED BY <1>2, <1>3, <2>1, <2>2 DEF NodeOK
<1>7. NodeOK(n)'
  BY <1>2, <1>3, <1>4, <1>5, <1>6 DEF NodeOK
<1>8. NodesOK'
  BY <1>0, <1>5, <1>7, NodeMoved
<1>9. mempool' \in [Node -> Seq(Txs)] /\ \A m \in Node : \A t \in Range(mempool'[m]) : Confirms(m, t)
  <2>1. <<>> \in Seq(Txs) /\ Range(<<>>) = {}
    BY DEF Range
  <2>2. mempool' \in [Node -> Seq(Txs)]
    BY <1>1, <2>1 DEF VotesOK
  <2>3. \A m \in Node : mempool'[m] = IF m = n THEN <<>> ELSE mempool[m]
    BY <1>1 DEF VotesOK
  <2> QED BY <2>1, <2>2, <2>3 DEF VotesOK
<1> QED BY <1>0, <1>1, <1>8, <1>9, EngineKept, AnswersKept

LEMMA PoolStep ==
  ASSUME IInv, NEW n \in Node,
         (\E t \in Txs : on_submit(n, t) \/ on_tick_expire(n, t)) \/ on_verify_refuse(n)
  PROVE  IInv'
PROOF
<1> USE DEF IInv
<1>1. UNCHANGED <<engine, durable, confirmed, head, known, unknown, applying, promised, torn, skipped>>
  BY DEF on_submit, on_tick_expire, on_verify_refuse
<1>0. UNCHANGED <<blocks, votes, notarized, finals, ledger, stored, confirmed, head, known, unknown, applying, promised, torn, skipped>>
  BY <1>1 DEF engine, durable
<1>2. NodesOK' /\ AnswersOK'
  BY <1>0, NodesKept, AnswersKept
<1>3. ASSUME mempool' \in [Node -> Seq(Txs)], \A m \in Node : \A t \in Range(mempool'[m]) : Confirms(m, t)
      PROVE  IInv'
  BY <1>0, <1>2, <1>3, EngineKept
<1>4. CASE \E t \in Txs : on_submit(n, t)
  <2>1. PICK t \in Txs : on_submit(n, t)
    BY <1>4
  <2>2. /\ Confirms(n, t)
        /\ mempool' = [m \in Node |-> IF m = n \/ (t \notin Range(mempool[n]) /\ Confirms(m, t)) THEN Pooled(mempool[m], t) ELSE mempool[m]]
    BY <2>1 DEF on_submit
  <2>3. \A m \in Node : mempool[m] \in Seq(Txs) /\ \A x \in Range(mempool[m]) : Confirms(m, x)
    BY DEF VotesOK
  <2>4. ASSUME NEW m \in Node
        PROVE  Pooled(mempool[m], t) \in Seq(Txs) /\ Range(Pooled(mempool[m], t)) \subseteq Range(mempool[m]) \union {t}
    <3>1. mempool[m] \in Seq(Txs)
      BY <2>3
    <3>2. Append(mempool[m], t) \in Seq(Txs) /\ Range(Append(mempool[m], t)) \subseteq Range(mempool[m]) \union {t}
      BY <3>1 DEF Range
    <3> QED BY <3>1, <3>2 DEF Pooled
  <2>5. mempool' \in [Node -> Seq(Txs)]
    BY <2>2, <2>3, <2>4
  <2>6. ASSUME NEW m \in Node, NEW x \in Range(mempool'[m])
        PROVE  Confirms(m, x)
    <3>1. mempool'[m] = IF m = n \/ (t \notin Range(mempool[n]) /\ Confirms(m, t)) THEN Pooled(mempool[m], t) ELSE mempool[m]
      BY <2>2
    <3>2. CASE m = n \/ (t \notin Range(mempool[n]) /\ Confirms(m, t))
      <4>1. x \in Range(mempool[m]) \union {t}
        BY <2>4, <2>6, <3>1, <3>2
      <4> QED BY <2>2, <2>3, <3>2, <4>1
    <3>3. CASE ~(m = n \/ (t \notin Range(mempool[n]) /\ Confirms(m, t)))
      BY <2>3, <2>6, <3>1, <3>3
    <3> QED BY <3>2, <3>3
  <2> QED BY <1>3, <2>5, <2>6
<1>5. CASE \E t \in Txs : on_tick_expire(n, t)
  <2>1. PICK t : \/ mempool' = [mempool EXCEPT ![n] = Without(@, {t})]
                  \/ UNCHANGED mempool
    BY <1>5 DEF on_tick_expire
  <2> QED BY <1>3, <2>1, PoolShrinks, SamePool
<1>6. CASE on_verify_refuse(n)
  <2>1. PICK t : mempool' = [mempool EXCEPT ![n] = Without(@, {t})]
    BY <1>6 DEF on_verify_refuse
  <2> QED BY <1>3, <2>1, PoolShrinks
<1> QED BY <1>4, <1>5, <1>6

\* What was confirmed stays confirmed, so what was witnessed stays witnessed.
LEMMA ConfirmStep ==
  ASSUME IInv, NEW n \in Node, NEW t \in Txs, ConfirmDeposit(n, t)
  PROVE  IInv'
PROOF
<1> USE DEF IInv
<1>0. UNCHANGED <<blocks, votes, notarized, finals, ledger, stored, head, known, unknown, applying, mempool, promised, torn, skipped>>
  BY DEF ConfirmDeposit, engine, durable, memory
<1>1. confirmed \subseteq confirmed'
  BY DEF ConfirmDeposit
<1>2. NodesOK' /\ AnswersOK'
  BY <1>0, NodesKept, AnswersKept
<1>3. /\ Views' = Views
      /\ \A b : Chain(b)' = Chain(b) /\ Replay(b)' = Replay(b) /\ HeightOf(b)' = HeightOf(b) /\ TxsOf(b)' = TxsOf(b)
  BY <1>0, BlocksKept
<1>4. Tip' = Tip
  <2>1. finals' = finals
    BY <1>0
  <2> QED BY <2>1, Zenon DEF Tip
<1>5. BlocksOK' /\ FinalsOK'
  BY <1>0, <1>3, <1>4 DEF BlocksOK, FinalsOK
<1>6. \A m, x : Confirms(m, x) => Confirms(m, x)'
  BY <1>1 DEF Confirms, IsMint
<1>7. \A x : Witnessed(x) => Witnessed(x)'
  <2> TAKE x
  <2> DEFINE S == {m \in Node : <<m, x>> \in confirmed}
             T == {m \in Node : <<m, x>> \in confirmed'}
  <2>1. S \subseteq T /\ IsFiniteSet(T)
    <3>1. IsFiniteSet(Node) /\ T \subseteq Node
      BY QuorumAssumption
    <3> QED BY <1>1, <3>1, FS_Subset
  <2>2. Cardinality(S) <= Cardinality(T) /\ Cardinality(T) \in Nat /\ Cardinality(S) \in Nat
    BY <2>1, FS_Subset, FS_CardinalityType
  <2>3. Quorum \in Nat
    BY QuorumAssumption, FS_CardinalityType
  <2> QED BY <2>2, <2>3 DEF Witnessed, IsMint
<1>8. VotesOK'
  BY <1>0, <1>3, <1>6, <1>7 DEF VotesOK
<1> QED BY <1>2, <1>5, <1>8

\* A vote: the voter checked the mints of the proposal itself.
LEMMA VerifyStep ==
  ASSUME IInv, NEW n \in Node, on_verify(n)
  PROVE  IInv'
PROOF
<1> USE DEF IInv
<1>1. /\ Len(blocks) > 0 /\ \A t \in TxsOf(Len(blocks)) : Confirms(n, t)
      /\ votes' = votes \union {n}
      /\ notarized' = IF Cardinality(votes \union {n}) >= Quorum THEN notarized \union {Len(blocks)} ELSE notarized
  BY DEF on_verify
<1>0. UNCHANGED <<blocks, finals, confirmed, ledger, stored, head, known, unknown, applying, mempool, promised, torn, skipped>>
  BY DEF on_verify, durable, memory
<1>2. NodesOK' /\ AnswersOK'
  BY <1>0, NodesKept, AnswersKept
<1>3. /\ Views' = Views
      /\ \A b : Chain(b)' = Chain(b) /\ Replay(b)' = Replay(b) /\ HeightOf(b)' = HeightOf(b) /\ TxsOf(b)' = TxsOf(b)
  BY <1>0, BlocksKept
<1>4. Tip' = Tip
  <2>1. finals' = finals
    BY <1>0
  <2> QED BY <2>1, Zenon DEF Tip
<1>5. notarized \subseteq notarized' /\ notarized' \subseteq Views
  <2>1. Len(blocks) \in Views
    BY BlocksAre DEF Views
  <2> QED BY <1>1, <2>1 DEF VotesOK
<1>6. BlocksOK' /\ FinalsOK'
  BY <1>0, <1>3, <1>4, <1>5 DEF BlocksOK, FinalsOK
<1>7. \A m, x : Confirms(m, x)' <=> Confirms(m, x)
  BY <1>0 DEF Confirms, IsMint
<1>8. \A x : Witnessed(x)' <=> Witnessed(x)
  BY <1>0 DEF Witnessed, IsMint
<1>9. votes' \subseteq Node /\ \A m \in votes' : \A t \in TxsOf(Len(blocks)) : Confirms(m, t)
  BY <1>1 DEF VotesOK
<1>10. ASSUME Cardinality(votes') >= Quorum, NEW t \in TxsOf(Len(blocks)) PROVE Witnessed(t)
  <2> DEFINE T == {m \in Node : <<m, t>> \in confirmed}
  <2> SUFFICES ASSUME IsMint(t) PROVE Cardinality(T) >= Quorum
    BY DEF Witnessed
  <2>1. votes' \subseteq T
    BY <1>9, <1>10 DEF Confirms
  <2>2. IsFiniteSet(T)
    <3>1. IsFiniteSet(Node) /\ T \subseteq Node
      BY QuorumAssumption
    <3> QED BY <3>1, FS_Subset
  <2> HIDE DEF T
  <2>3. Cardinality(votes') <= Cardinality(T) /\ Cardinality(T) \in Nat /\ Cardinality(votes') \in Nat
    BY <2>1, <2>2, FS_Subset, FS_CardinalityType
  <2>4. Quorum \in Nat
    BY QuorumAssumption, FS_CardinalityType
  <2> QED BY <1>10, <2>3, <2>4
<1>11. \A v \in notarized' \ {0} : \A t \in TxsOf(v) : Witnessed(t)
  <2> TAKE v \in notarized' \ {0}
  <2>1. CASE v \in notarized
    BY <2>1 DEF VotesOK
  <2>2. CASE v \notin notarized
    <3>1. v = Len(blocks) /\ Cardinality(votes') >= Quorum
      BY <1>1, <2>2
    <3> QED BY <1>10, <3>1
  <2> QED BY <2>1, <2>2
<1>12. mempool' \in [Node -> Seq(Txs)] /\ \A m \in Node : \A t \in Range(mempool'[m]) : Confirms(m, t)
  BY <1>0, SamePool
<1>13. VotesOK'
  BY <1>0, <1>3, <1>5, <1>7, <1>8, <1>9, <1>11, <1>12 DEF VotesOK
<1> QED BY <1>2, <1>6, <1>13

\* What a proposer takes from its mempool.
LEMMA NewTxsAre ==
  ASSUME VotesOK, NEW n \in Node, NEW p
  PROVE  NewTxs(n, p) \in Seq(Txs) /\ \A t \in Range(NewTxs(n, p)) : Confirms(n, t)
PROOF
<1> DEFINE rest == Without(mempool[n], Excluded(n, p))
           k == IF Len(rest) < MaxBlockTxs THEN Len(rest) ELSE MaxBlockTxs
<1>1. mempool[n] \in Seq(Txs) /\ \A t \in Range(mempool[n]) : Confirms(n, t)
  BY DEF VotesOK
<1>2. rest \in Seq(Range(mempool[n]))
  BY <1>1, WithoutIs
<1>3. NewTxs(n, p) = SubSeq(rest, 1, k)
  BY DEF NewTxs
<1>4. Len(rest) \in Nat /\ k \in Int /\ k <= Len(rest)
  BY <1>2, BlockTxsAssumption
<1> HIDE DEF rest, k
<1>5. SubSeq(rest, 1, k) \in Seq(Range(mempool[n]))
  BY <1>2, <1>4
<1>6. Range(mempool[n]) \subseteq Txs
  BY <1>1 DEF Range
<1>7. SubSeq(rest, 1, k) \in Seq(Txs)
  BY <1>5, <1>6
<1>8. Range(SubSeq(rest, 1, k)) \subseteq Range(mempool[n])
  <2> DEFINE q == SubSeq(rest, 1, k)
  <2>1. q \in Seq(Range(mempool[n]))
    BY <1>5
  <2> HIDE DEF q
  <2>2. \A i \in DOMAIN q : q[i] \in Range(mempool[n])
    BY <2>1
  <2>3. Range(q) \subseteq Range(mempool[n])
    BY <2>2 DEF Range
  <2> QED BY <2>3 DEF q
<1> QED BY <1>1, <1>3, <1>7, <1>8

LEMMA ProposeStep ==
  ASSUME IInv, NEW n \in Node, NEW p \in Views, NEW got, on_propose(n, p, got)
  PROVE  IInv'
PROOF
<1> USE DEF IInv
<1>a. PICK txs : txs = NewTxs(n, p)
  OBVIOUS
<1>b. PICK b : b = [parent |-> p, height |-> HeightOf(p) + 1, txs |-> txs]
  OBVIOUS
<1>1. p \in notarized /\ blocks' = Append(blocks, b) /\ votes' = {n}
  BY <1>a, <1>b DEF on_propose
<1>0. UNCHANGED <<notarized, finals, confirmed, ledger, stored, head, known, unknown, applying, mempool, promised, torn, skipped>>
  BY DEF on_propose, durable
<1>2. Len(blocks) \in Nat /\ HeightOf(p) \in Nat /\ p \in 0 .. Len(blocks)
  BY BlocksAre DEF Views
<1>3. txs \in Seq(Txs) /\ \A t \in Range(txs) : Confirms(n, t)
  BY <1>a, NewTxsAre
<1>4. b \in BlockType /\ b.parent = p /\ b.height = HeightOf(p) + 1 /\ b.txs = txs
  BY <1>2, <1>3, <1>b DEF BlockType
<1>5. /\ \A v \in Views : Chain(v)' = Chain(v) /\ Replay(v)' = Replay(v) /\ HeightOf(v)' = HeightOf(v)
      /\ \A v \in 1 .. Len(blocks) : blocks'[v] = blocks[v]
      /\ Len(blocks') = Len(blocks) + 1 /\ blocks'[Len(blocks) + 1] = b
  BY <1>1, <1>4, ProposalAdds
<1>6. Tip' = Tip
  <2>1. finals' = finals
    BY <1>0
  <2> QED BY <2>1, Zenon DEF Tip
<1>7. Tip \in Views /\ Chain(Tip) \subseteq Views /\ Chain(Tip)' = Chain(Tip) /\ Replay(Tip)' = Replay(Tip)
  <2>1. Tip \in Views /\ Chain(Tip) \subseteq Views
    BY TipIs
  <2> DEFINE tip == Tip
  <2>2. \A v \in Views : v = Tip => Chain(v)' = Chain(v) /\ Replay(v)' = Replay(v)
    BY <1>5
  <2> QED BY <1>6, <2>1, <2>2
<1>8. BlocksOK'
  <2>1. blocks' \in Seq(BlockType)
    BY <1>1, <1>4 DEF BlocksOK
  <2>2. ASSUME NEW v \in 1 .. Len(blocks')
        PROVE  /\ blocks'[v].parent \in 0 .. v - 1
               /\ blocks'[v].parent \in notarized'
               /\ blocks'[v].height = HeightOf(blocks[v].parent)' + 1
    <3>1. CASE v \in 1 .. Len(blocks)
      <4>1. blocks'[v] = blocks[v]
        BY <1>5, <3>1
      <4>2. blocks[v].parent \in Views
        BY <1>2, <3>1 DEF BlocksOK, Views
      <4> QED BY <1>0, <1>5, <3>1, <4>1, <4>2 DEF BlocksOK
    <3>2. CASE v = Len(blocks) + 1
      BY <1>0, <1>1, <1>2, <1>4, <1>5, <3>2
    <3> QED BY <1>2, <1>5, <3>1, <3>2
  <2> QED BY <2>1, <2>2 DEF BlocksOK
<1>9. FinalsOK'
  BY <1>0, <1>6, <1>7 DEF FinalsOK
<1>10. VotesOK'
  <2>1. \A m, x : (Confirms(m, x)' <=> Confirms(m, x)) /\ (Witnessed(x)' <=> Witnessed(x))
    BY <1>0 DEF Confirms, IsMint, Witnessed
  <2>2. Views \subseteq Views'
    BY <1>2, <1>5 DEF Views
  <2>3. \A v \in notarized \ {0} : TxsOf(v)' = TxsOf(v)
    <3>1. \A v \in notarized \ {0} : v \in 1 .. Len(blocks)
      BY <1>2 DEF VotesOK, Views
    <3> QED BY <1>5, <3>1 DEF TxsOf
  <2>4. TxsOf(Len(blocks))' = Range(txs)
    BY <1>4, <1>5 DEF TxsOf
  <2>5. mempool' \in [Node -> Seq(Txs)] /\ \A m \in Node : \A t \in Range(mempool'[m]) : Confirms(m, t)
    BY <1>0, SamePool
  <2>6. votes' \subseteq Node /\ (\A m \in votes' : \A t \in TxsOf(Len(blocks))' : Confirms(m, t))
    BY <1>1, <1>3, <2>4
  <2>7. notarized' \subseteq Views' /\ \A v \in notarized' \ {0} : \A t \in TxsOf(v)' : Witnessed(t)
    BY <1>0, <2>2, <2>3 DEF VotesOK
  <2> QED BY <2>1, <2>5, <2>6, <2>7 DEF VotesOK
<1>11. AnswersOK'
  <2>1. \A v \in Chain(Tip) : v # 0 => blocks'[v] = blocks[v]
    <3>1. \A v \in Chain(Tip) : v # 0 => v \in 1 .. Len(blocks)
      BY <1>2, <1>7 DEF Views
    <3> QED BY <1>5, <3>1
  <2>2. FinalTxs \subseteq FinalTxs'
    BY <1>7, <2>1, FinalTxsGrow
  <2>3. \A m \in Node : Range(ledger[m]) \subseteq Range(ledger'[m])
    BY <1>0
  <2> QED BY <1>0, <1>7, <2>2, <2>3, AnswersGrow
<1>12. NodesOK'
  <2>1. \A v \in Chain(Tip) : Replay(v)' = Replay(v) /\ (v # 0 => blocks'[v] = blocks[v])
    <3>1. \A v \in Chain(Tip) : v \in Views /\ (v # 0 => v \in 1 .. Len(blocks))
      BY <1>2, <1>7 DEF Views
    <3> QED BY <1>5, <3>1
  <2>2. ASSUME NEW m \in Node PROVE NodeOK(m)'
    <3>1. NodeOK(m) /\ stored'[m] = stored[m] /\ head'[m] = head[m] /\ known'[m] = known[m] /\ unknown'[m] = unknown[m]
          /\ ledger'[m] = ledger[m] /\ applying'[m] = applying[m] /\ torn'[m] = torn[m] /\ skipped'[m] = skipped[m]
      BY <1>0 DEF NodesOK
    <3> QED BY <1>7, <2>1, <3>1, NodeKept
  <2> QED BY <1>0, <2>2 DEF NodesOK
<1> QED BY <1>8, <1>9, <1>10, <1>11, <1>12

\* A finalized block extends the finalized chain.
LEMMA FinalizeStep ==
  ASSUME IInv, NEW b, Finalize(b)
  PROVE  IInv'
PROOF
<1> USE DEF IInv
<1>1. b \in notarized /\ b > Tip /\ Tip \in Chain(b) /\ finals' = finals \union {b}
  BY DEF Finalize, Finalizable
<1>0. UNCHANGED <<blocks, votes, notarized, confirmed, ledger, stored, head, known, unknown, applying, mempool, promised, torn, skipped>>
  BY DEF Finalize, durable, memory
<1>2. /\ Views' = Views
      /\ \A v : Chain(v)' = Chain(v) /\ Replay(v)' = Replay(v) /\ HeightOf(v)' = HeightOf(v) /\ TxsOf(v)' = TxsOf(v)
  BY <1>0, BlocksKept
<1>3. b \in Views /\ Tip \in Views /\ finals \subseteq Views /\ Views \subseteq Nat
  BY <1>1, BlocksAre DEF VotesOK, FinalsOK, Views
<1>4. b \in Chain(b) /\ Chain(Tip) \subseteq Chain(b)
  BY <1>1, <1>3, ChainBelow
<1>5. \A c \in finals' : c <= b
  <2>1. \A c \in finals : c <= Tip /\ c \in Nat
    BY <1>3 DEF FinalsOK
  <2>2. b \in Nat /\ Tip \in Nat
    BY <1>3
  <2> QED BY <1>1, <2>1, <2>2
<1>6. Tip' = b
  <2>1. b \in finals' /\ finals' \subseteq Nat
    BY <1>1, <1>3
  <2>2. \A c \in finals' : (\A d \in finals' : d <= c) => c = b
    <3> TAKE c \in finals'
    <3>1. c <= b /\ c \in Nat /\ b \in Nat
      BY <1>5, <2>1
    <3> QED BY <2>1, <3>1
  <2>3. \E c \in finals' : \A d \in finals' : d <= c
    BY <1>5, <2>1
  <2>4. \A d \in finals' : d <= Tip' /\ Tip' \in finals'
    BY <2>3, Zenon DEF Tip
  <2>5. Tip' \in finals'
    BY <2>1, <2>4
  <2> QED BY <2>2, <2>4, <2>5
<1>7. Chain(Tip)' = Chain(b) /\ Replay(Tip)' = Replay(b)
  BY <1>2, <1>6
<1>8. BlocksOK'
  BY <1>0, <1>2 DEF BlocksOK
<1>9. FinalsOK'
  <2>1. 0 \in finals' /\ finals' \subseteq notarized' /\ Tip' \in finals'
    BY <1>0, <1>1, <1>6 DEF FinalsOK
  <2>2. \A c \in finals' : c <= Tip'
    BY <1>5, <1>6
  <2>3. finals' \subseteq Chain(Tip)'
    BY <1>1, <1>4, <1>7 DEF FinalsOK
  <2> QED BY <2>1, <2>2, <2>3 DEF FinalsOK
<1>10. VotesOK'
  <2>1. \A m, x : (Confirms(m, x)' <=> Confirms(m, x)) /\ (Witnessed(x)' <=> Witnessed(x))
    BY <1>0 DEF Confirms, IsMint, Witnessed
  <2> QED BY <1>0, <1>2, <2>1 DEF VotesOK
<1>11. AnswersOK'
  <2>1. Range(Replay(Tip)) \subseteq Range(Replay(Tip))'
    <3>1. Range(Replay(Tip)) \subseteq Range(Replay(b))
      BY <1>1, <1>3, ReplayGrows
    <3> QED BY <1>7, <3>1
  <2>2. FinalTxs \subseteq FinalTxs'
    <3>1. Chain(Tip) \subseteq Chain(Tip)'
      BY <1>4, <1>7
    <3> QED BY <1>0, <3>1, FinalTxsGrow
  <2>3. \A m \in Node : Range(ledger[m]) \subseteq Range(ledger'[m])
    BY <1>0
  <2> QED BY <1>0, <2>1, <2>2, <2>3, AnswersGrow
<1>12. NodesOK'
  <2>1. \A v \in Chain(Tip) : Replay(v)' = Replay(v) /\ (v # 0 => blocks'[v] = blocks[v])
    BY <1>0, <1>2
  <2>2. ASSUME NEW m \in Node PROVE NodeOK(m)'
    <3>1. NodeOK(m) /\ stored'[m] = stored[m] /\ head'[m] = head[m] /\ known'[m] = known[m] /\ unknown'[m] = unknown[m]
          /\ ledger'[m] = ledger[m] /\ applying'[m] = applying[m] /\ torn'[m] = torn[m] /\ skipped'[m] = skipped[m]
      BY <1>0 DEF NodesOK
    <3>2. Chain(Tip) \subseteq Chain(Tip)'
      BY <1>4, <1>7
    <3> QED BY <2>1, <3>1, <3>2, NodeKept
  <2> QED BY <1>0, <2>2 DEF NodesOK
<1> QED BY <1>8, <1>9, <1>10, <1>11, <1>12

-----------------------------------------------------------------------------
(* Theorems *)

LEMMA InitStep ==
  ASSUME Init
  PROVE  IInv
PROOF
<1> USE DEF Init
<1>1. Len(blocks) = 0 /\ Views = {0} /\ blocks \in Seq(BlockType)
  BY DEF Views
<1>2. BlocksOK
  BY <1>1 DEF BlocksOK
<1>3. VotesOK
  <2>1. <<>> \in Seq(Txs) /\ Range(<<>>) = {}
    BY DEF Range
  <2> QED BY <1>1, <2>1 DEF VotesOK
<1>4. Tip = 0
  BY DEF Tip
<1>5. Chain(0) = {0} /\ Replay(0) = <<>>
  BY <1>2, ChainUnfold, ReplayUnfold
<1>6. FinalsOK
  BY <1>4, <1>5 DEF FinalsOK
<1>7. NodesOK
  <2>1. ASSUME NEW n \in Node PROVE NodeOK(n)
    <3>1. /\ stored[n] = 0 /\ head[n] = 0 /\ known[n] = {} /\ unknown[n] = {} /\ ledger[n] = <<>> /\ applying[n] = None
          /\ torn[n] = {}
      OBVIOUS
    <3>2. <<>> \in Seq(Txs) /\ Range(<<>>) = {}
      BY DEF Range
    <3>3. Resting(n)
      BY <1>5, <3>1 DEF Resting
    <3> QED BY <1>4, <1>5, <3>1, <3>2, <3>3 DEF NodeOK
  <2> QED BY <2>1 DEF NodesOK
<1>8. AnswersOK
  BY DEF AnswersOK, AnsweredIsFinal
<1> QED BY <1>2, <1>3, <1>6, <1>7, <1>8 DEF IInv

LEMMA StepKeeps ==
  ASSUME IInv, [Next]_vars
  PROVE  IInv'
PROOF
<1>1. CASE UNCHANGED vars
  <2>1. UNCHANGED <<blocks, votes, notarized, finals, confirmed, ledger, stored, head, known, unknown, applying, mempool, promised, torn, skipped>>
    BY <1>1 DEF vars
  <2> QED BY <2>1, EngineKept, SamePool, NodesKept, AnswersKept DEF IInv
<1>2. ASSUME NEW n \in Node, NEW b \in Views, on_finalized(n, b) \/ LoseRequest(n, b) PROVE IInv'
  BY <1>2, FollowStep, RequestStep
<1>3. ASSUME NEW n \in Node, NEW m \in Node, on_verify_fetch(n, m) \/ \E b \in Views : on_block(n, m, b) PROVE IInv'
  BY <1>3, FollowStep
<1>4. ASSUME NEW n \in Node,
             \/ on_tick_request(n) \/ Apply(n) \/ apply_block_tx_fails(n) \/ apply_block_fails(n) \/ Restart(n)
             \/ on_verify(n) \/ on_verify_refuse(n)
      PROVE  IInv'
  BY <1>4, RequestStep, TryStep, SkipStep, CommitStep, AppliedStep, FailStep, RestartStep, VerifyStep, PoolStep DEF Apply
<1>5. ASSUME NEW n \in Node, NEW t \in Txs, ConfirmDeposit(n, t) \/ on_submit(n, t) \/ on_tick_expire(n, t) PROVE IInv'
  BY <1>5, ConfirmStep, PoolStep
<1>6. ASSUME NEW n \in Node, NEW p \in Views, NEW got \in SUBSET (Node \ {n}), on_propose(n, p, got) PROVE IInv'
  BY <1>6, ProposeStep
<1>7. ASSUME NEW b \in Views, Finalize(b) PROVE IInv'
  BY <1>7, FinalizeStep
<1> QED BY <1>1, <1>2, <1>3, <1>4, <1>5, <1>6, <1>7 DEF Next

\* In every reachable state: the proposals hang on notarized ones, a quorum
\* confirmed every notarized mint, the finalized blocks are one chain, and each
\* node follows it (actor.rs, state.rs apply_block).
THEOREM Invariance == SafeSpec => []IInv
PROOF
<1>1. Init => IInv
  BY InitStep
<1>2. IInv /\ [Next]_vars => IInv'
  BY StepKeeps
<1> QED BY <1>1, <1>2, PTL DEF SafeSpec

LEMMA AppliedFollows ==
  ASSUME IInv
  PROVE  AppliedIsFinalized
PROOF
<1> USE DEF IInv
<1>1. ASSUME NEW n \in Node
      PROVE  /\ stored[n] \in Chain(Tip) /\ Range(ledger[n]) \subseteq FinalTxs
             /\ Intact(n) /\ Redone(n) /\ (applying[n] = None \/ applying[n].result = "ok")
                  => ledger[n] = Replay(stored[n])
  <2>1. NodeOK(n)
    BY DEF NodesOK
  <2>2. stored[n] \in Chain(Tip) /\ Range(ledger[n]) \subseteq FinalTxs
    BY <2>1 DEF NodeOK
  <2>3. ASSUME applying[n] # None, applying[n].result = "ok", Intact(n)
        PROVE  ledger[n] = Replay(stored[n])
    BY <2>1, <2>3 DEF NodeOK, InStep
  <2>4. ASSUME applying[n] = None, Intact(n), Redone(n)
        PROVE  ledger[n] = Replay(stored[n])
    <3>1. ASSUME NEW b \in torn[n], blocks[b].parent = stored[n] PROVE FALSE
      <4>1. b \in Chain(Tip) \ {0}
        BY <2>1 DEF NodeOK
      <4>2. b \in 1 .. Len(blocks) /\ b # 0
        BY <4>1, TipIs
      <4>3. HeightOf(b) = HeightOf(stored[n]) + 1
        BY <3>1, <4>2 DEF BlocksOK, HeightOf
      <4>4. HeightOf(b) <= HeightOf(stored[n]) /\ HeightOf(stored[n]) \in Nat
        BY <2>2, <2>4, TipIs DEF Redone
      <4> QED BY <4>3, <4>4
    <3> QED BY <2>1, <2>4, <3>1 DEF NodeOK, Resting
  <2> QED BY <2>2, <2>3, <2>4
<1> QED BY <1>1 DEF AppliedIsFinalized

\* Whatever is lost, reordered, restarted or fails to be written, the head a
\* validator stored is finalized and its ledger holds only transactions of
\* finalized blocks; and if no write of its ledger failed, its ledger is the
\* replay of the blocks up to its head also where blocks were interrupted and
\* applied again, provided none of those mixed two transactions of an account
\* (actor.rs drain_finalized, state.rs apply_block).
THEOREM AppliedFinalized == SafeSpec => []AppliedIsFinalized
PROOF
<1>1. IInv => AppliedIsFinalized
  BY AppliedFollows
<1> QED BY <1>1, Invariance, PTL

\* Every operation a submitter was told of as applied is in a finalized block and
\* in the ledger of the validator that told so, whatever befell that validator,
\* and in the ledger the finalized blocks make if it was intact when it told
\* (actor.rs on_applied, ledger_actor.rs submit).
THEOREM AnsweredFinal == SafeSpec => []AnsweredIsFinal
PROOF
<1>1. IInv => AnsweredIsFinal
  BY DEF IInv, AnswersOK
<1> QED BY <1>1, Invariance, PTL

LEMMA WitnessedMints ==
  ASSUME IInv
  PROVE  MintsWitnessed
PROOF
<1>1. Chain(Tip) \subseteq notarized
  BY TipIs DEF IInv
<1> QED BY <1>1 DEF IInv, VotesOK, Witnessed, MintsWitnessed

\* No finalized block mints a deposit that fewer validators than a quorum saw
\* confirmed on their own view of the chain (actor.rs admit and on_verify).
THEOREM WitnessedFinal == SafeSpec => []MintsWitnessed
PROOF
<1>1. IInv => MintsWitnessed
  BY WitnessedMints
<1> QED BY <1>1, Invariance, PTL
=============================================================================
