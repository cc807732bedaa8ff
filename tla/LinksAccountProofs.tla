------------------------- MODULE LinksAccountProofs -------------------------
(***************************************************************************)
(* Proofs about LinksAccount, for every assignment of pages to browsers,   *)
(* so for several tabs of one browser as well as for several devices.      *)
(*                                                                         *)
(* The argument: an operation's base is the commitment of the wallet it    *)
(* was proved on, and the ledger accepts it only on that commitment.  So   *)
(* an accepted operation extends exactly the wallets that hold it pending, *)
(* and recording it keeps a wallet a prefix of the ledger (WalletsFollow). *)
(* Every operation that can still be accepted is known to the store of     *)
(* some browser, from the journal on, or was given up or overwritten       *)
(* (JournaledIsKept); nothing here rests on the lock.                      *)
(***************************************************************************)
EXTENDS LinksAccount, SequenceTheorems, TLAPS

Labels == {"closed", "idle", "opening", "opened", "lost", "looked", "proving", "journaled",
           "waiting", "committed", "accepted", "checking", "behind", "fetching", "fetched",
           "flushing"}
Operation == [base : Nat, claims : Receipts \union {None}]
Accepted == ToSet(ledger)

TypeOK ==
  /\ ledger \in Seq(Nat) /\ ops \in Seq(Operation)
  /\ incoming \in SUBSET Receipts /\ backup.wallet \in Wallet
  /\ store \in [Browser -> Wallet \union {None}]
  /\ cursor \in [Browser -> SUBSET Receipts]
  /\ pc \in [Page -> Labels] /\ mem \in [Page -> Wallet]
  /\ job \in [Page -> Nat] /\ seen \in [Page -> Nat]
  /\ fetched \in [Page -> SUBSET Receipts]

(* The ledger is a chain of operations, each based on the one before it.   *)
IsChain(l, os) ==
  /\ \A k \in 1 .. Len(l) :
       /\ l[k] \in 1 .. Len(os)
       /\ os[l[k]].base = (IF k = 1 THEN 0 ELSE l[k - 1])
  /\ \A i, j \in 1 .. Len(l) : l[i] = l[j] => i = j

LedgerIsChain ==
  /\ IsChain(ledger, ops)
  /\ pool \subseteq 1 .. Len(ops) /\ pool \cap Accepted = {}

(* A wallet has recorded what the ledger accepted, up to some point, and   *)
(* its pending operation was proved on what it recorded.                   *)
Follows(w, l, os) ==
  /\ Len(w.log) <= Len(l)
  /\ \A i \in 1 .. Len(w.log) : w.log[i] = l[i]
  /\ w.pending \in 0 .. Len(os)
  /\ w.pending # 0 => os[w.pending].base = Com(w.log)

WalletsFollow ==
  /\ \A b \in Browser : store[b] # None => Follows(store[b], ledger, ops)
  /\ \A p \in Page : Follows(mem[p], ledger, ops)
  /\ Follows(backup.wallet, ledger, ops)

Journaled == {p \in Page : pc[p] = "journaled"}

PageAgrees(p) ==
  /\ pc[p] # "closed" => store[B(p)] # None
  /\ seen[p] = 0 \/ seen[p] \in Accepted
  /\ job[p] <= Len(ops)
  /\ pc[p] \in {"journaled", "waiting", "lost", "looked"} => job[p] # 0 /\ mem[p].pending = job[p]
  /\ pc[p] = "journaled" => job[p] \notin pool \union Accepted
  /\ pc[p] \in {"proving", "checking", "behind"} => mem[p].pending = 0
  /\ pc[p] = "behind" => Commitment(mem[p]) # LedgerCom

(* The copy a page holds, the operation it carries and where it is agree.  *)
PagesAgree ==
  /\ store[First] # None
  /\ \A p \in Page : PageAgrees(p)
  /\ \A p, q \in Journaled : job[p] = job[q] => p = q

(* The operations that may set the account's next commitment, and the one  *)
(* that set it.                                                            *)
Live == pool \union {job[p] : p \in Journaled} \union ({LedgerCom} \ {0})
Kept(o) ==
  \/ o \in abandoned \union overwritten
  \/ \E b \in Browser : store[b] # None /\ o \in Known(store[b])

JournaledIsKept == \A o \in Live : Kept(o)

CursorsFollow ==
  \A b \in Browser :
    /\ store[b] = None => cursor[b] = {} /\ \A p \in Page : B(p) = b => fetched[p] = {}
    /\ store[b] # None /\ b \notin lacking =>
         /\ cursor[b] \subseteq store[b].receipts
         /\ \A p \in Page : B(p) = b => fetched[p] \subseteq store[b].receipts

IInv == TypeOK /\ LedgerIsChain /\ WalletsFollow /\ PagesAgree /\ JournaledIsKept /\ CursorsFollow

-----------------------------------------------------------------------------
(* Lemmas about chains and the wallets that follow them.                   *)

(* A sequence equal to the beginning of another is its prefix, in the      *)
(* words of the properties.                                                *)
LEMMA PrefixOfEqual ==
  ASSUME NEW s \in Seq(Nat), NEW t \in Seq(Nat), Len(s) <= Len(t),
         \A i \in 1 .. Len(s) : s[i] = t[i]
  PROVE  IsPrefix(s, t)
<1>1. s = SubSeq(t, 1, Len(s))
  OBVIOUS
<1>2. s = SubSeq(s, 1, Len(s))
  OBVIOUS
<1> QED
  BY <1>1, <1>2 DEF IsPrefix

LEMMA SetOfLog ==
  ASSUME NEW s \in Seq(Nat)
  PROVE  \A x : x \in ToSet(s) <=> \E i \in 1 .. Len(s) : s[i] = x
BY DEF ToSet

LEMMA SetOfLonger ==
  ASSUME NEW s \in Seq(Nat), NEW o \in Nat
  PROVE  ToSet(Append(s, o)) = ToSet(s) \union {o}
<1> DEFINE t == Append(s, o)
<1>1. t \in Seq(Nat) /\ Len(t) = Len(s) + 1 /\ t[Len(s) + 1] = o /\ (\A i \in 1 .. Len(s) : t[i] = s[i])
  OBVIOUS
<1>2. \A i \in 1 .. Len(t) : i \in 1 .. Len(s) \/ i = Len(s) + 1
  BY <1>1
<1>3. \A x : x \in ToSet(t) <=> \E i \in 1 .. Len(t) : t[i] = x
  BY <1>1, SetOfLog
<1>4. 1 .. Len(s) \subseteq 1 .. Len(t) /\ Len(s) + 1 \in 1 .. Len(t)
  BY <1>1
<1>5. \A x \in ToSet(t) : x \in ToSet(s) \union {o}
  BY <1>1, <1>2, <1>3, SetOfLog
<1>6. \A x \in ToSet(s) \union {o} : x \in ToSet(t)
  BY <1>1, <1>3, <1>4, SetOfLog
<1> QED
  BY <1>5, <1>6

(* The commitment a log sets is 0 or its last operation.                   *)
LEMMA ComOfLog ==
  ASSUME NEW s \in Seq(Nat)
  PROVE  /\ Com(s) \in Nat
         /\ s = <<>> => Com(s) = 0
         /\ s # <<>> => Len(s) \in 1 .. Len(s) /\ Com(s) = s[Len(s)] /\ Com(s) \in ToSet(s)
BY DEF Com, Last, ToSet

(* What a wallet that follows the ledger recorded is on the ledger, and if *)
(* it recorded the ledger's last operation, its commitment is the ledger's.*)
LEMMA FollowerKnows ==
  ASSUME NEW l \in Seq(Nat), NEW os \in Seq(Operation), IsChain(l, os),
         NEW w \in Wallet, Follows(w, l, os)
  PROVE  /\ ToSet(w.log) \subseteq ToSet(l)
         /\ Com(w.log) = 0 \/ Com(w.log) \in ToSet(l)
         /\ Com(l) \in ToSet(w.log) => Com(w.log) = Com(l)
<1> w.log \in Seq(Nat)
  BY DEF Wallet
<1>1. ToSet(w.log) \subseteq ToSet(l)
  <2> SUFFICES ASSUME NEW x \in ToSet(w.log)
               PROVE  x \in ToSet(l)
    OBVIOUS
  <2>1. PICK i \in 1 .. Len(w.log) : w.log[i] = x
    BY SetOfLog
  <2>2. i \in 1 .. Len(l) /\ l[i] = x
    <3>1. Len(w.log) \in Nat /\ Len(l) \in Nat
      OBVIOUS
    <3>2. Len(w.log) <= Len(l) /\ w.log[i] = l[i]
      BY DEF Follows
    <3>3. i \in 1 .. Len(l)
      BY <3>1, <3>2
    <3> QED
      BY <2>1, <3>2, <3>3
  <2> QED
    BY <2>2, SetOfLog
<1>2. Com(w.log) = 0 \/ Com(w.log) \in ToSet(l)
  BY <1>1, ComOfLog
<1>3. ASSUME Com(l) \in ToSet(w.log)
      PROVE  Com(w.log) = Com(l)
  <2>1. PICK i \in 1 .. Len(w.log) : w.log[i] = Com(l)
    BY <1>3, SetOfLog
  <2>d. Len(w.log) \in Nat /\ Len(l) \in Nat
    OBVIOUS
  <2>e. Len(w.log) <= Len(l) /\ w.log[i] = l[i]
    BY DEF Follows
  <2>a. Len(w.log) \in Nat /\ Len(l) \in Nat /\ i <= Len(l) /\ w.log[i] = l[i] /\ i \in 1 .. Len(l)
    BY <2>d, <2>e
  <2>b. l # <<>> /\ Len(l) \in 1 .. Len(l)
    BY <2>a
  <2>c. Com(l) = l[Len(l)]
    BY <2>b, ComOfLog
  <2>2. Com(l) = l[Len(l)] /\ i <= Len(l) /\ l[i] = l[Len(l)] /\ Len(l) \in 1 .. Len(l)
    BY <2>1, <2>a, <2>b, <2>c
  <2>3. i = Len(l)
    BY <2>2 DEF IsChain
  <2>4. Len(w.log) = i
    BY <2>3 DEF Follows
  <2> QED
    BY <2>1, <2>4, ComOfLog
<1> QED
  BY <1>1, <1>2, <1>3

(* Recording an accepted pending operation keeps a wallet on the ledger:   *)
(* its base is the wallet's commitment, so it comes next.                  *)
LEMMA CommitFollows ==
  ASSUME NEW l \in Seq(Nat), NEW os \in Seq(Operation), IsChain(l, os),
         NEW w \in Wallet, Follows(w, l, os), w.pending # 0, w.pending \in ToSet(l)
  PROVE  commit_pending(w) \in Wallet /\ Follows(commit_pending(w), l, os)
<1> DEFINE v == commit_pending(w)
           n == Len(w.log)
<1>1. v \in Wallet /\ v.log = Append(w.log, w.pending) /\ v.pending = 0
  <2>1. w.log \in Seq(Nat) /\ w.pending \in Nat /\ Append(w.log, w.pending) \in Seq(Nat)
    BY DEF Wallet
  <2> QED
    BY <2>1 DEF commit_pending, Wallet
<1>2. PICK k \in 1 .. Len(l) : l[k] = w.pending
  BY DEF ToSet
<1>3. w.log \in Seq(Nat) /\ n \in Nat /\ n <= Len(l)
  BY DEF Wallet, Follows
<1>4. Com(w.log) = (IF k = 1 THEN 0 ELSE l[k - 1])
  BY <1>2 DEF IsChain, Follows
<1>5. \A j \in 1 .. Len(l) : l[j] # 0
  BY DEF IsChain
<1>6. k = n + 1
  <2>1. CASE n = 0
    <3>1. Com(w.log) = 0
      BY <2>1, <1>3, ComOfLog
    <3>2. k = 1
      BY <3>1, <1>2, <1>4, <1>5
    <3> QED
      BY <3>2, <2>1
  <2>2. CASE n # 0
    <3>a. w.log # <<>> /\ n \in 1 .. Len(l) /\ n \in 1 .. Len(w.log)
      BY <2>2, <1>3
    <3>1. Com(w.log) = l[n]
      BY <3>a, <1>3, ComOfLog DEF Follows
    <3>b. k # 1
      BY <3>1, <3>a, <1>4, <1>5
    <3>2. l[k - 1] = l[n] /\ k - 1 \in 1 .. Len(l)
      BY <3>1, <3>b, <1>2, <1>4
    <3>3. k - 1 = n
      BY <3>2, <3>a DEF IsChain
    <3> QED
      BY <3>3, <1>3
  <2> QED
    BY <2>1, <2>2
<1>7. Len(v.log) = n + 1 /\ v.log[n + 1] = l[n + 1] /\ \A i \in 1 .. n : v.log[i] = l[i]
  BY <1>1, <1>2, <1>3, <1>6 DEF Follows
<1>8. Len(v.log) <= Len(l) /\ \A i \in 1 .. Len(v.log) : v.log[i] = l[i]
  BY <1>7, <1>2, <1>3, <1>6
<1>9. v.pending \in 0 .. Len(os)
  <2>1. Len(os) \in Nat
    OBVIOUS
  <2> QED
    BY <1>1, <2>1
<1> HIDE DEF v
<1>10. Follows(v, l, os)
  BY <1>1, <1>8, <1>9 DEF Follows
<1> QED
  BY <1>1, <1>10 DEF v

(* Giving up the pending operation, holding more receipts, an accepted     *)
(* operation and a proved one leave a wallet on the ledger.                *)
LEMMA AbortFollows ==
  ASSUME NEW l, NEW os \in Seq(Operation), NEW w \in Wallet, Follows(w, l, os)
  PROVE  /\ abort_pending(w) \in Wallet /\ Follows(abort_pending(w), l, os)
         /\ \A r \in SUBSET Receipts :
              /\ [w EXCEPT !.receipts = @ \union r] \in Wallet
              /\ Follows([w EXCEPT !.receipts = @ \union r], l, os)
<1>1. abort_pending(w) \in Wallet /\ abort_pending(w).log = w.log /\ abort_pending(w).pending = 0
  BY DEF abort_pending, Wallet
<1>2. Follows(abort_pending(w), l, os)
  BY <1>1 DEF Follows
<1>3. ASSUME NEW r \in SUBSET Receipts
      PROVE  /\ [w EXCEPT !.receipts = @ \union r] \in Wallet
             /\ Follows([w EXCEPT !.receipts = @ \union r], l, os)
  <2> DEFINE v == [w EXCEPT !.receipts = @ \union r]
  <2>1. v \in Wallet /\ v.log = w.log /\ v.pending = w.pending
    BY DEF Wallet
  <2> HIDE DEF v
  <2>2. Follows(v, l, os)
    BY <2>1 DEF Follows
  <2> QED
    BY <2>1, <2>2 DEF v
<1> QED
  BY <1>1, <1>2, <1>3

LEMMA FollowsLonger ==
  ASSUME NEW l \in Seq(Nat), NEW os \in Seq(Operation), NEW w \in Wallet, Follows(w, l, os)
  PROVE  /\ \A o \in Nat : Follows(w, Append(l, o), os)
         /\ \A x \in Operation : Follows(w, l, Append(os, x))
BY DEF Follows, Wallet

LEMMA ChainLonger ==
  ASSUME NEW l \in Seq(Nat), NEW os \in Seq(Operation), IsChain(l, os)
  PROVE  /\ \A o \in 1 .. Len(os) : o \notin ToSet(l) /\ os[o].base = Com(l) => IsChain(Append(l, o), os)
         /\ \A x \in Operation : IsChain(l, Append(os, x))
<1>1. ASSUME NEW o \in 1 .. Len(os), o \notin ToSet(l), os[o].base = Com(l)
      PROVE  IsChain(Append(l, o), os)
  <2> DEFINE m == Append(l, o)
  <2>1. Len(m) = Len(l) + 1 /\ m[Len(l) + 1] = o /\ (\A k \in 1 .. Len(l) : m[k] = l[k])
    OBVIOUS
  <2>2. ASSUME NEW k \in 1 .. Len(m)
        PROVE  m[k] \in 1 .. Len(os) /\ os[m[k]].base = (IF k = 1 THEN 0 ELSE m[k - 1])
    <3>1. CASE k \in 1 .. Len(l)
      BY <3>1, <2>1 DEF IsChain
    <3>2. CASE k = Len(l) + 1
      <4>1. l = <<>> => k = 1 /\ Com(l) = 0
        <5>1. l = <<>> => Len(l) = 0
          OBVIOUS
        <5>2. l = <<>> => k = 1
          BY <3>2, <5>1
        <5> QED
          BY <5>2, ComOfLog
      <4>2. l # <<>> => k # 1 /\ Com(l) = m[k - 1]
        <5> SUFFICES ASSUME l # <<>> PROVE k # 1 /\ Com(l) = m[k - 1]
          OBVIOUS
        <5>1. Len(l) \in 1 .. Len(l) /\ k - 1 = Len(l) /\ k # 1
          BY <3>2
        <5>2. m[k - 1] = l[Len(l)]
          BY <5>1, <2>1
        <5> QED
          BY <5>1, <5>2, ComOfLog
      <4> QED
        BY <1>1, <2>1, <3>2, <4>1, <4>2
    <3> QED
      BY <2>1, <3>1, <3>2
  <2>3. \A i, j \in 1 .. Len(m) : m[i] = m[j] => i = j
    <3>1. \A i \in 1 .. Len(l) : m[i] # o
      BY <1>1, <2>1 DEF ToSet
    <3> QED
      BY <2>1, <3>1 DEF IsChain
  <2> QED
    BY <2>2, <2>3 DEF IsChain
<1>2. ASSUME NEW x \in Operation
      PROVE  IsChain(l, Append(os, x))
  BY DEF IsChain
<1> QED
  BY <1>1, <1>2

(* What a wallet knows after each change.                                  *)
LEMMA KnownAfter ==
  ASSUME NEW w \in Wallet
  PROVE  /\ w.pending # 0 => Known(commit_pending(w)) = Known(w)
         /\ Known(w) \subseteq Known(abort_pending(w)) \union {w.pending}
         /\ \A o \in Nat : w.pending = 0 => Known(w) \subseteq Known(prepare(w, o))
         /\ \A o \in Nat \ {0} : o \in Known(prepare(w, o))
         /\ \A r \in SUBSET Receipts : Known([w EXCEPT !.receipts = @ \union r]) = Known(w)
<1> w.log \in Seq(Nat) /\ w.pending \in Nat
  BY DEF Wallet
<1>1. ToSet(Append(w.log, w.pending)) = ToSet(w.log) \union {w.pending}
  BY SetOfLonger
<1>2. commit_pending(w).log = Append(w.log, w.pending) /\ commit_pending(w).pending = 0
  BY DEF commit_pending, Wallet
<1>3. abort_pending(w).log = w.log /\ abort_pending(w).pending = 0
  BY DEF abort_pending, Wallet
<1>4. \A o \in Nat : prepare(w, o).log = w.log /\ prepare(w, o).pending = o
  BY DEF prepare, Wallet
<1>5. \A r \in SUBSET Receipts : /\ [w EXCEPT !.receipts = @ \union r].log = w.log
                                 /\ [w EXCEPT !.receipts = @ \union r].pending = w.pending
  BY DEF Wallet
<1> QED
  BY <1>1, <1>2, <1>3, <1>4, <1>5 DEF Known

-----------------------------------------------------------------------------
(* What the steps have in common.                                          *)

LEMMA ReconcileCases ==
  ASSUME NEW w, NEW com
  PROVE  \/ /\ w.pending # 0 /\ com = w.pending /\ Resolution(w, com) = "committed"
            /\ reconcile(w, com) = commit_pending(w)
         \/ w.pending # 0 /\ Resolution(w, com) # "committed" /\ reconcile(w, com) = abort_pending(w)
         \/ Resolution(w, com) # "committed" /\ reconcile(w, com) = w
<1>1. CASE w.pending = 0
  BY <1>1 DEF Resolution, reconcile
<1>2. CASE w.pending # 0 /\ com = w.pending
  BY <1>2 DEF Resolution, reconcile
<1>3. CASE w.pending # 0 /\ com # w.pending /\ com = ops[w.pending].base
  BY <1>3 DEF Resolution, reconcile
<1>4. CASE w.pending # 0 /\ com # w.pending /\ com # ops[w.pending].base
  BY <1>4 DEF Resolution, reconcile
<1> QED
  BY <1>1, <1>2, <1>3, <1>4

(* A page saves w, which follows the ledger and knows whatever its page    *)
(* knew that can still be accepted, unless that was given up.              *)
Saved(p, w) ==
  /\ Save(p, w) /\ w \in Wallet /\ Follows(w, ledger, ops')
  /\ ledger' = ledger /\ cursor' = cursor /\ abandoned \subseteq abandoned'
  /\ store[B(p)] # None =>
       \A o \in Live : o \in Known(mem[p]) => o \in Known(w) \union abandoned'

(* Giving up what p has pending, while p has not got it journaled.         *)
LEMMA AbortIsSaved ==
  ASSUME IInv, NEW p \in Page, pc[p] # "journaled",
         Save(p, abort_pending(mem[p])), GivenUp(p, abort_pending(mem[p])),
         UNCHANGED <<ledger, ops, cursor>>
  PROVE  Saved(p, abort_pending(mem[p]))
<1> DEFINE m == mem[p]
<1>1. m \in Wallet /\ Follows(m, ledger, ops) /\ ops \in Seq(Operation)
  BY DEF IInv, TypeOK, WalletsFollow
<1>2. abort_pending(m) \in Wallet /\ Follows(abort_pending(m), ledger, ops)
  BY <1>1, AbortFollows
<1>3. ASSUME NEW o \in Live, o \in Known(m)
      PROVE  o \in Known(abort_pending(m)) \union abandoned'
  <2>1. CASE o # m.pending
    BY <2>1, <1>1, <1>3, KnownAfter
  <2>2. CASE o = m.pending
    <3>0. m.pending \in Nat
      BY <1>1 DEF Wallet
    <3>1. CASE m.pending = 0
      BY <3>1, <2>2, <1>3 DEF abort_pending, Known
    <3>2. CASE o \in pool
      BY <3>1, <3>2, <2>2 DEF GivenUp
    <3>3. CASE o = LedgerCom /\ o # 0
      <4>1. o \in Accepted
        BY <3>3, ComOfLog DEF IInv, TypeOK, LedgerCom, Accepted
      <4> QED
        BY <4>1, <3>1, <2>2 DEF GivenUp, Accepted
    <3>4. CASE \E q \in Journaled : o = job[q]
      BY <3>4, <3>1, <2>2 DEF GivenUp, Journaled
    <3> QED
      BY <3>1, <3>2, <3>3, <3>4, <1>3 DEF Live
  <2> QED
    BY <2>1, <2>2
<1>4. abandoned \subseteq abandoned'
  BY DEF GivenUp
<1> QED
  BY <1>2, <1>3, <1>4 DEF Saved

LEMMA CommitIsSaved ==
  ASSUME IInv, NEW p \in Page, mem[p].pending # 0, mem[p].pending \in Accepted,
         Save(p, commit_pending(mem[p])), abandoned \subseteq abandoned',
         UNCHANGED <<ledger, ops, cursor>>
  PROVE  Saved(p, commit_pending(mem[p]))
<1> DEFINE m == mem[p]
<1>1. m \in Wallet /\ Follows(m, ledger, ops) /\ ops \in Seq(Operation) /\ ledger \in Seq(Nat) /\ IsChain(ledger, ops)
  BY DEF IInv, TypeOK, WalletsFollow, LedgerIsChain
<1>2. commit_pending(m) \in Wallet /\ Follows(commit_pending(m), ledger, ops)
  BY <1>1, CommitFollows DEF Accepted
<1>3. Known(commit_pending(m)) = Known(m)
  BY <1>1, KnownAfter
<1> QED
  BY <1>2, <1>3 DEF Saved

LEMMA ReconcileIsSaved ==
  ASSUME IInv, NEW p \in Page, pc[p] # "journaled",
         Save(p, reconcile(mem[p], seen[p])), GivenUp(p, reconcile(mem[p], seen[p])),
         UNCHANGED <<ledger, ops, cursor>>
  PROVE  Saved(p, reconcile(mem[p], seen[p]))
<1> DEFINE m == mem[p]
<1>0. m \in Wallet /\ Follows(m, ledger, ops) /\ abandoned \subseteq abandoned'
  BY DEF IInv, TypeOK, WalletsFollow, GivenUp
<1>1. CASE m.pending # 0 /\ seen[p] = m.pending /\ reconcile(m, seen[p]) = commit_pending(m)
  <2>1. m.pending \in Accepted
    BY <1>1 DEF IInv, PagesAgree, PageAgrees
  <2> QED
    BY <1>0, <1>1, <2>1, CommitIsSaved
<1>2. CASE reconcile(m, seen[p]) = abort_pending(m)
  BY <1>2, AbortIsSaved
<1>3. CASE reconcile(m, seen[p]) = m
  BY <1>0, <1>3 DEF Saved
<1> QED
  BY <1>1, <1>2, <1>3, ReconcileCases

LEMMA RecoverIsSaved ==
  ASSUME IInv, NEW p \in Page, recover(p)
  PROVE  Saved(p, backup.wallet)
BY DEF IInv, TypeOK, WalletsFollow, recover, Saved, node

LEMMA JournalIsSaved ==
  ASSUME IInv, NEW p \in Page, journal(p)
  PROVE  /\ Saved(p, prepare(mem[p], Len(ops) + 1))
         /\ prepare(mem[p], Len(ops) + 1).pending = Len(ops) + 1
         /\ \E x \in Operation : ops' = Append(ops, x)
<1> DEFINE m == mem[p]
           o == Len(ops) + 1
           w == prepare(m, o)
<1>1. m \in Wallet /\ Follows(m, ledger, ops) /\ ops \in Seq(Operation) /\ m.pending = 0
  BY DEF IInv, TypeOK, WalletsFollow, PagesAgree, PageAgrees, journal
<1>2. m.log \in Seq(Nat) /\ Com(m.log) \in Nat
  BY <1>1, ComOfLog DEF Wallet
<1>3. PICK c \in {None} \union (m.receipts \ Claimed(m)) : ops' = Append(ops, [base |-> Commitment(m), claims |-> c])
  BY DEF journal
<1>4. [base |-> Commitment(m), claims |-> c] \in Operation
  BY <1>1, <1>2 DEF Operation, Commitment, Wallet
<1>5. w \in Wallet /\ w.log = m.log /\ w.pending = o
  BY <1>1 DEF prepare, Wallet
<1>6. o \in 1 .. Len(ops') /\ ops'[o].base = Com(m.log)
  BY <1>1, <1>3, <1>4 DEF Commitment
<1>7. Follows(w, ledger, ops')
  BY <1>1, <1>5, <1>6 DEF Follows
<1>8. Known(m) \subseteq Known(w)
  BY <1>1, KnownAfter
<1>9. Saved(p, w)
  BY <1>5, <1>7, <1>8 DEF Saved, journal, Journal, node
<1> QED
  BY <1>3, <1>4, <1>5, <1>9

LEMMA CheckIsSaved ==
  ASSUME IInv, NEW p \in Page, sync_check(p)
  PROVE  Saved(p, mem[p])
BY DEF IInv, TypeOK, WalletsFollow, sync_check, Saved, node

LEMMA RefreshIsSaved ==
  ASSUME IInv, NEW p \in Page, refreshFromBackup(p)
  PROVE  \/ UNCHANGED <<mem, store, overwritten, lacking>>
         \/ Saved(p, backup.wallet)
<1> DEFINE m == mem[p]
<1>1. m \in Wallet /\ Follows(m, ledger, ops) /\ m.pending = 0 /\ Commitment(m) # LedgerCom
  BY DEF IInv, TypeOK, WalletsFollow, PagesAgree, PageAgrees, refreshFromBackup
<1>2. ledger \in Seq(Nat) /\ ops \in Seq(Operation) /\ IsChain(ledger, ops)
  BY DEF IInv, TypeOK, LedgerIsChain
<1>3. LedgerCom \notin ToSet(m.log) /\ ToSet(m.log) \subseteq Accepted
  BY <1>1, <1>2, FollowerKnows DEF Accepted, LedgerCom, Commitment
<1>4. \A o \in Live : o \in Accepted => o = LedgerCom
  BY DEF Live, IInv, LedgerIsChain, PagesAgree, PageAgrees, Journaled
<1>5. Known(m) = ToSet(m.log) \ {0} \/ Known(m) = ToSet(m.log)
  BY <1>1 DEF Known
<1>6. \A o \in Live : o \notin Known(m)
  BY <1>3, <1>4, <1>5
<1>7. CASE Save(p, backup.wallet)
  BY <1>6, <1>7 DEF IInv, TypeOK, WalletsFollow, refreshFromBackup, Saved, node
<1> QED
  BY <1>7 DEF refreshFromBackup

LEMMA DiscoverIsSaved ==
  ASSUME IInv, NEW p \in Page, syncInbox(p)
  PROVE  LET items == incoming \ cursor[B(p)]
             w == [mem[p] EXCEPT !.receipts = @ \union items]
         IN  \/ UNCHANGED <<mem, store, overwritten, lacking, fetched>>
             \/ /\ Saved(p, w) /\ fetched' = [fetched EXCEPT ![p] = items] /\ items \in SUBSET Receipts
                /\ w.pending = mem[p].pending /\ items \subseteq w.receipts
<1> DEFINE m == mem[p]
           items == incoming \ cursor[B(p)]
           w == [m EXCEPT !.receipts = @ \union items]
<1>1. m \in Wallet /\ Follows(m, ledger, ops) /\ items \in SUBSET Receipts /\ ops \in Seq(Operation)
  BY DEF IInv, TypeOK, WalletsFollow
<1>2. w \in Wallet /\ Follows(w, ledger, ops) /\ Known(w) = Known(m)
  BY <1>1, AbortFollows, KnownAfter
<1>3. w.pending = m.pending /\ items \subseteq w.receipts
  BY <1>1 DEF Wallet
<1>4. CASE Discover(p, items) /\ fetched' = [fetched EXCEPT ![p] = items]
  <2>1. Save(p, w)
    BY <1>4 DEF Discover
  <2>2. Saved(p, w)
    BY <2>1, <1>2 DEF syncInbox, Saved, node
  <2> QED
    BY <2>2, <1>1, <1>3, <1>4
<1> QED
  BY <1>4 DEF syncInbox

-----------------------------------------------------------------------------
(* Each part of the invariant, one after the other.                        *)

(* The actions of a page, those that save and those that do not.           *)
SavingStep(p) ==
  \/ recover(p) \/ reconcile_open(p) \/ journal(p) \/ submitPending_applied(p)
  \/ submitPending_refused(p) \/ submitPending_reconciled(p) \/ sync_check(p)
  \/ refreshFromBackup(p) \/ syncInbox(p)
QuietStep(p) ==
  \/ unlock(p) \/ refreshBalance(p) \/ begin(p) \/ sync(p) \/ reconcile_read(p)
  \/ submit(p) \/ submitPending_unknown(p) \/ submitPending_unresolved(p)
  \/ submitPending_backup(p) \/ deliver(p) \/ syncInbox_cursor(p) \/ flushOutbox(p)
  \/ close(p)

LEMMA NextCases ==
  ASSUME [Next]_vars
  PROVE  \/ \E o \in pool : Decide(o)
         \/ \E r \in Receipts : PostReceipt(r)
         \/ \E p \in Page : SavingStep(p) \/ QuietStep(p)
         \/ UNCHANGED vars
BY DEF Next, Settles, Proceed, SavingStep, QuietStep

(* A saving step saves some wallet, or leaves the wallets alone.           *)
LEMMA SavingSaves ==
  ASSUME IInv, NEW p \in Page, SavingStep(p)
  PROVE  /\ \/ \E w \in Wallet : Saved(p, w)
            \/ UNCHANGED <<mem, store, overwritten, lacking>>
         /\ ops' = ops \/ \E x \in Operation : ops' = Append(ops, x)
         /\ UNCHANGED <<ledger, pool, incoming, backup, cursor>>
         /\ abandoned \subseteq abandoned'
<1>1. CASE recover(p)
  BY <1>1, RecoverIsSaved DEF recover, node, Saved
<1>2. CASE reconcile_open(p)
  BY <1>2, ReconcileIsSaved DEF reconcile_open, node, Saved
<1>3. CASE journal(p)
  BY <1>3, JournalIsSaved DEF journal, node, Saved
<1>4. CASE submitPending_applied(p)
  <2>1. mem[p].pending # 0 /\ mem[p].pending \in Accepted
    BY <1>4 DEF submitPending_applied, IInv, PagesAgree, PageAgrees, Accepted
  <2> QED
    BY <1>4, <2>1, CommitIsSaved DEF submitPending_applied, node, Saved
<1>5. CASE submitPending_refused(p)
  BY <1>5, AbortIsSaved DEF submitPending_refused, node, Saved
<1>6. CASE submitPending_reconciled(p)
  BY <1>6, ReconcileIsSaved DEF submitPending_reconciled, node, Saved
<1>7. CASE sync_check(p)
  BY <1>7, CheckIsSaved DEF sync_check, node, Saved
<1>8. CASE refreshFromBackup(p)
  BY <1>8, RefreshIsSaved DEF refreshFromBackup, node, Saved
<1>9. CASE syncInbox(p)
  BY <1>9, DiscoverIsSaved DEF syncInbox, node, Saved
<1> QED
  BY <1>1, <1>2, <1>3, <1>4, <1>5, <1>6, <1>7, <1>8, <1>9 DEF SavingStep

(* A quiet step leaves the store alone; the page's copy is the store's, or *)
(* it is closed.                                                           *)
LEMMA QuietKeeps ==
  ASSUME IInv, NEW p \in Page, QuietStep(p)
  PROVE  /\ UNCHANGED <<ledger, ops, incoming, store, abandoned, overwritten, lacking>>
         /\ \/ mem' = mem
            \/ mem' = [mem EXCEPT ![p] = Pristine]
            \/ (store[B(p)] # None /\ mem' = [mem EXCEPT ![p] = store[B(p)]])
         /\ backup'.wallet \in {backup.wallet, mem[p]}
         /\ pool' = pool \/ (submit(p) /\ pool' = pool \union {job[p]})
         /\ cursor' = cursor \/ (syncInbox_cursor(p) /\ cursor' = [cursor EXCEPT ![B(p)] = @ \union fetched[p]])
         /\ fetched' = fetched \/ fetched' = [fetched EXCEPT ![p] = {}]
<1>1. CASE unlock(p)
  BY <1>1 DEF unlock, node, history, Hold
<1>2. CASE refreshBalance(p)
  BY <1>2 DEF refreshBalance, node, history
<1>3. CASE begin(p) \/ sync(p)
  <2>1. store[B(p)] # None
    BY <1>3 DEF begin, sync, IInv, PagesAgree, PageAgrees
  <2> QED
    BY <1>3, <2>1 DEF begin, sync, Enter, node, history, Hold
<1>4. CASE reconcile_read(p) \/ submit(p) \/ submitPending_unknown(p) \/ submitPending_unresolved(p)
  BY <1>4 DEF reconcile_read, Look, submit, submitPending_unknown, submitPending_unresolved, node, history
<1>5. CASE submitPending_backup(p)
  BY <1>5 DEF submitPending_backup, backupNow, store_backup, history
<1>6. CASE deliver(p) \/ flushOutbox(p)
  BY <1>6 DEF deliver, flushOutbox, history
<1>7. CASE syncInbox_cursor(p)
  BY <1>7 DEF syncInbox_cursor, backupNow, store_backup, history
<1>8. CASE close(p)
  BY <1>8 DEF close, node
<1> QED
  BY <1>1, <1>2, <1>3, <1>4, <1>5, <1>6, <1>7, <1>8 DEF QuietStep

LEMMA PristineFollows ==
  ASSUME NEW l \in Seq(Nat), NEW os \in Seq(Operation)
  PROVE  Pristine \in Wallet /\ Follows(Pristine, l, os)
BY DEF Pristine, Wallet, Follows

LEMMA InitInvariant == Init => IInv
<1> SUFFICES ASSUME Init PROVE IInv
  OBVIOUS
<1>0. <<>> \in Seq(Nat) /\ <<>> \in Seq(Operation) /\ Len(<<>>) = 0 /\ Pristine \in Wallet
  BY DEF Pristine, Wallet
<1>1. TypeOK
  BY <1>0 DEF Init, TypeOK, Labels
<1>2. LedgerIsChain
  BY <1>0 DEF Init, LedgerIsChain, IsChain
<1>3. WalletsFollow
  BY <1>0, PristineFollows DEF Init, WalletsFollow
<1>4. PagesAgree
  BY <1>0, AccountAssumption DEF Init, PagesAgree, PageAgrees, Journaled
<1>5. JournaledIsKept
  BY DEF Init, JournaledIsKept, Live, Journaled, LedgerCom, Com
<1>6. CursorsFollow
  BY <1>0 DEF Init, CursorsFollow
<1> QED
  BY <1>1, <1>2, <1>3, <1>4, <1>5, <1>6 DEF IInv

(* Where a step takes a page, the wallet aside.                            *)
LEMMA PageTypes ==
  ASSUME IInv, NEW p \in Page, SavingStep(p) \/ QuietStep(p)
  PROVE  /\ pc' \in [Page -> Labels] /\ job' \in [Page -> Nat] /\ seen' \in [Page -> Nat]
         /\ cursor' \in [Browser -> SUBSET Receipts] /\ fetched' \in [Page -> SUBSET Receipts]
<1>0. Len(ops) + 1 \in Nat /\ LedgerCom \in Nat
  BY ComOfLog DEF IInv, TypeOK, LedgerCom
<1>a. /\ pc \in [Page -> Labels] /\ job \in [Page -> Nat] /\ seen \in [Page -> Nat]
      /\ cursor \in [Browser -> SUBSET Receipts] /\ fetched \in [Page -> SUBSET Receipts]
      /\ incoming \subseteq Receipts /\ B(p) \in Browser
  BY AccountAssumption DEF IInv, TypeOK, B
<1>b. \A l \in Labels : Goto(p, l) => pc' \in [Page -> Labels]
  BY <1>a DEF Goto
<1>c. Leave(p) => pc' \in [Page -> Labels] /\ job' \in [Page -> Nat]
  BY <1>a DEF Leave, Goto, Labels
<1> USE <1>0, <1>a, <1>b, <1>c DEF Labels, node
<1>1. CASE unlock(p) \/ recover(p) \/ refreshBalance(p)
  BY <1>1 DEF unlock, recover, refreshBalance
<1>2. CASE begin(p) \/ sync(p)
  BY <1>2 DEF begin, sync, Enter
<1>3. CASE reconcile_read(p)
  BY <1>3 DEF reconcile_read, Look
<1>4. CASE reconcile_open(p)
  BY <1>4 DEF reconcile_open
<1>5. CASE journal(p)
  BY <1>5 DEF journal
<1>6. CASE submit(p) \/ submitPending_applied(p) \/ submitPending_unknown(p)
  BY <1>6 DEF submit, submitPending_applied, submitPending_unknown
<1>7. CASE submitPending_refused(p) \/ submitPending_unresolved(p)
  BY <1>7 DEF submitPending_refused, submitPending_unresolved
<1>8. CASE submitPending_reconciled(p)
  BY <1>8 DEF submitPending_reconciled
<1>9. CASE submitPending_backup(p) \/ deliver(p) \/ flushOutbox(p)
  BY <1>9 DEF submitPending_backup, deliver, flushOutbox
<1>10. CASE sync_check(p) \/ refreshFromBackup(p)
  BY <1>10 DEF sync_check, refreshFromBackup
<1>11. CASE syncInbox(p)
  BY <1>11 DEF syncInbox
<1>12. CASE syncInbox_cursor(p)
  BY <1>12 DEF syncInbox_cursor
<1>13. CASE close(p)
  BY <1>13 DEF close
<1> QED
  BY <1>1, <1>2, <1>3, <1>4, <1>5, <1>6, <1>7, <1>8, <1>9, <1>10, <1>11, <1>12, <1>13
     DEF SavingStep, QuietStep

LEMMA TypeStep == IInv /\ [Next]_vars => TypeOK'
<1> SUFFICES ASSUME IInv, [Next]_vars PROVE TypeOK'
  OBVIOUS
<1>1. CASE \E o \in pool : Decide(o)
  <2>1. PICK o \in pool : Decide(o)
    BY <1>1
  <2>2. o \in Nat
    BY DEF IInv, TypeOK, LedgerIsChain
  <2> QED
    BY <2>1, <2>2 DEF IInv, TypeOK, Decide
<1>2. CASE \E r \in Receipts : PostReceipt(r)
  BY <1>2 DEF IInv, TypeOK, PostReceipt
<1>3. CASE \E p \in Page : SavingStep(p)
  <2>1. PICK p \in Page : SavingStep(p)
    BY <1>3
  <2>a. TypeOK
    BY DEF IInv
  <2>b. /\ \/ \E w \in Wallet : Saved(p, w)
           \/ UNCHANGED <<mem, store>>
        /\ ops' = ops \/ \E x \in Operation : ops' = Append(ops, x)
        /\ UNCHANGED <<ledger, incoming, backup>>
    BY <2>1, SavingSaves
  <2>2. mem' \in [Page -> Wallet] /\ store' \in [Browser -> Wallet \union {None}]
    BY <2>a, <2>b DEF TypeOK, Saved, Save, Hold
  <2>c. \A x \in Operation : Append(ops, x) \in Seq(Operation)
    BY <2>a DEF TypeOK
  <2>3. ops' \in Seq(Operation)
    BY <2>a, <2>b, <2>c DEF TypeOK
  <2> QED
    BY <2>a, <2>b, <2>1, <2>2, <2>3, PageTypes DEF TypeOK
<1>4. CASE \E p \in Page : QuietStep(p)
  <2>1. PICK p \in Page : QuietStep(p)
    BY <1>4
  <2>2. Pristine \in Wallet /\ B(p) \in Browser
    BY AccountAssumption DEF Pristine, Wallet, B
  <2>3. mem' \in [Page -> Wallet] /\ store' \in [Browser -> Wallet \union {None}] /\ backup'.wallet \in Wallet
    BY <2>1, <2>2, QuietKeeps DEF IInv, TypeOK
  <2> QED
    BY <2>1, <2>3, QuietKeeps, PageTypes DEF IInv, TypeOK
<1>5. CASE UNCHANGED vars
  BY <1>5 DEF IInv, TypeOK, vars
<1> QED
  BY <1>1, <1>2, <1>3, <1>4, <1>5, NextCases

(* A page's step moves no other page.                                      *)
LEMMA OnlyOneMoves ==
  ASSUME IInv, NEW p \in Page, SavingStep(p) \/ QuietStep(p)
  PROVE  /\ \A q \in Page \ {p} : /\ pc'[q] = pc[q] /\ job'[q] = job[q]
                                   /\ seen'[q] = seen[q] /\ mem'[q] = mem[q]
         /\ journal(p) \/ pc'[p] # "journaled"
<1>a. pc \in [Page -> Labels] /\ job \in [Page -> Nat] /\ seen \in [Page -> Nat] /\ mem \in [Page -> Wallet]
  BY DEF IInv, TypeOK
<1>b. \A l : Goto(p, l) => pc'[p] = l /\ \A q \in Page \ {p} : pc'[q] = pc[q]
  BY <1>a DEF Goto
<1>c. Leave(p) => /\ pc'[p] = "idle" /\ \A q \in Page \ {p} : pc'[q] = pc[q] /\ job'[q] = job[q]
  BY <1>a, <1>b DEF Leave
<1>d. \A w : Hold(p, w) => \A q \in Page \ {p} : mem'[q] = mem[q]
  BY <1>a DEF Hold
<1>e. \A w : Save(p, w) => \A q \in Page \ {p} : mem'[q] = mem[q]
  BY <1>d DEF Save
<1> USE <1>a, <1>b, <1>c, <1>d, <1>e
<1>1. CASE unlock(p) \/ recover(p) \/ refreshBalance(p)
  BY <1>1 DEF unlock, recover, refreshBalance
<1>2. CASE begin(p) \/ sync(p)
  BY <1>2 DEF begin, sync, Enter
<1>3. CASE reconcile_read(p)
  BY <1>3 DEF reconcile_read, Look
<1>4. CASE reconcile_open(p)
  BY <1>4 DEF reconcile_open
<1>5. CASE journal(p)
  BY <1>5 DEF journal, Journal
<1>6. CASE submit(p) \/ submitPending_applied(p) \/ submitPending_unknown(p)
  BY <1>6 DEF submit, submitPending_applied, submitPending_unknown
<1>7. CASE submitPending_refused(p) \/ submitPending_unresolved(p)
  BY <1>7 DEF submitPending_refused, submitPending_unresolved
<1>8. CASE submitPending_reconciled(p)
  BY <1>8 DEF submitPending_reconciled
<1>9. CASE submitPending_backup(p) \/ deliver(p) \/ flushOutbox(p)
  BY <1>9 DEF submitPending_backup, deliver, flushOutbox
<1>10. CASE sync_check(p) \/ refreshFromBackup(p)
  BY <1>10 DEF sync_check, refreshFromBackup
<1>11. CASE syncInbox(p)
  BY <1>11 DEF syncInbox, Discover
<1>12. CASE syncInbox_cursor(p)
  BY <1>12 DEF syncInbox_cursor
<1>13. CASE close(p)
  BY <1>13 DEF close
<1> QED
  BY <1>1, <1>2, <1>3, <1>4, <1>5, <1>6, <1>7, <1>8, <1>9, <1>10, <1>11, <1>12, <1>13
     DEF SavingStep, QuietStep

LEMMA QuietUnjournals ==
  ASSUME IInv, NEW p \in Page, QuietStep(p)
  PROVE  pc'[p] # "journaled"
<1>a. pc \in [Page -> Labels]
  BY DEF IInv, TypeOK
<1>b. \A l : Goto(p, l) => pc'[p] = l
  BY <1>a DEF Goto
<1> USE <1>b DEF Leave
<1>1. CASE unlock(p) \/ refreshBalance(p) \/ begin(p) \/ sync(p) \/ reconcile_read(p) \/ close(p)
  BY <1>1 DEF unlock, refreshBalance, begin, sync, Enter, reconcile_read, Look, close
<1>2. CASE submit(p) \/ submitPending_unknown(p) \/ submitPending_unresolved(p) \/ submitPending_backup(p)
  BY <1>2 DEF submit, submitPending_unknown, submitPending_unresolved, submitPending_backup
<1>3. CASE deliver(p) \/ syncInbox_cursor(p) \/ flushOutbox(p)
  BY <1>3 DEF deliver, syncInbox_cursor, flushOutbox
<1> QED
  BY <1>1, <1>2, <1>3 DEF QuietStep

LEMMA LedgerStep == IInv /\ [Next]_vars => LedgerIsChain'
<1> SUFFICES ASSUME IInv, [Next]_vars PROVE LedgerIsChain'
  OBVIOUS
<1>a. /\ ledger \in Seq(Nat) /\ ops \in Seq(Operation) /\ IsChain(ledger, ops)
      /\ pool \subseteq 1 .. Len(ops) /\ pool \cap Accepted = {}
  BY DEF IInv, TypeOK, LedgerIsChain
<1>1. CASE \E o \in pool : Decide(o)
  <2>1. PICK o \in pool : Decide(o)
    BY <1>1
  <2>2. o \in Nat /\ o \notin ToSet(ledger) /\ o \in 1 .. Len(ops)
    BY <1>a DEF Accepted
  <2>3. CASE ledger' = ledger
    BY <1>a, <2>1, <2>3 DEF Decide, LedgerIsChain, Accepted
  <2>4. CASE ops[o].base = LedgerCom /\ ledger' = Append(ledger, o)
    <3>1. IsChain(ledger', ops)
      BY <1>a, <2>2, <2>4, ChainLonger DEF LedgerCom
    <3>2. ToSet(ledger') = ToSet(ledger) \union {o}
      BY <1>a, <2>2, <2>4, SetOfLonger
    <3> QED
      BY <1>a, <2>1, <3>1, <3>2 DEF Decide, LedgerIsChain, Accepted
  <2> QED
    BY <2>1, <2>3, <2>4 DEF Decide
<1>2. CASE \E r \in Receipts : PostReceipt(r)
  BY <1>2 DEF IInv, LedgerIsChain, Accepted, PostReceipt
<1>3. CASE \E p \in Page : SavingStep(p)
  <2>1. PICK p \in Page : SavingStep(p)
    BY <1>3
  <2>2. /\ ops' = ops \/ \E x \in Operation : ops' = Append(ops, x)
        /\ UNCHANGED <<ledger, pool>>
    BY <2>1, SavingSaves
  <2>3. IsChain(ledger, ops')
    BY <1>a, <2>2, ChainLonger
  <2>4. Len(ops') \in Nat /\ Len(ops) \in Nat /\ Len(ops') >= Len(ops)
    BY <1>a, <2>2
  <2> QED
    BY <1>a, <2>2, <2>3, <2>4 DEF LedgerIsChain, Accepted
<1>4. CASE \E p \in Page : QuietStep(p)
  <2>1. PICK p \in Page : QuietStep(p)
    BY <1>4
  <2>2. UNCHANGED <<ledger, ops>> /\ (pool' = pool \/ (submit(p) /\ pool' = pool \union {job[p]}))
    BY <2>1, QuietKeeps
  <2>3. submit(p) => job[p] \in 1 .. Len(ops) /\ job[p] \notin Accepted
    BY DEF submit, IInv, TypeOK, PagesAgree, PageAgrees
  <2> QED
    BY <1>a, <2>2, <2>3 DEF LedgerIsChain, Accepted
<1>5. CASE UNCHANGED vars
  BY <1>5 DEF IInv, LedgerIsChain, Accepted, vars
<1> QED
  BY <1>1, <1>2, <1>3, <1>4, <1>5, NextCases

LEMMA WalletsStep == IInv /\ [Next]_vars => WalletsFollow'
<1> SUFFICES ASSUME IInv, [Next]_vars PROVE WalletsFollow'
  OBVIOUS
<1>a. /\ ledger \in Seq(Nat) /\ ops \in Seq(Operation) /\ backup.wallet \in Wallet
      /\ store \in [Browser -> Wallet \union {None}] /\ mem \in [Page -> Wallet]
      /\ WalletsFollow /\ pool \subseteq 1 .. Len(ops)
  BY DEF IInv, TypeOK, LedgerIsChain
<1>1. CASE \E o \in pool : Decide(o)
  <2>1. PICK o \in pool : Decide(o)
    BY <1>1
  <2>2. \A w \in Wallet : Follows(w, ledger, ops) => Follows(w, ledger', ops)
    BY <1>a, <2>1, FollowsLonger DEF Decide
  <2> QED
    BY <1>a, <2>1, <2>2 DEF Decide, WalletsFollow
<1>2. CASE \E r \in Receipts : PostReceipt(r)
  BY <1>2 DEF IInv, WalletsFollow, PostReceipt
<1>3. CASE \E p \in Page : SavingStep(p)
  <2>1. PICK p \in Page : SavingStep(p)
    BY <1>3
  <2>2. /\ \/ \E w \in Wallet : Saved(p, w)
           \/ UNCHANGED <<mem, store>>
        /\ ops' = ops \/ \E x \in Operation : ops' = Append(ops, x)
        /\ UNCHANGED <<ledger, backup>>
    BY <2>1, SavingSaves
  <2>3. \A w \in Wallet : Follows(w, ledger, ops) => Follows(w, ledger, ops')
    BY <1>a, <2>2, FollowsLonger
  <2>4. CASE UNCHANGED <<mem, store>>
    BY <1>a, <2>2, <2>3, <2>4 DEF WalletsFollow
  <2>5. ASSUME NEW w \in Wallet, Saved(p, w)
        PROVE  WalletsFollow'
    <3>1. Follows(w, ledger, ops') /\ mem' = [mem EXCEPT ![p] = w] /\ store' = [store EXCEPT ![B(p)] = w]
      BY <2>5 DEF Saved, Save, Hold
    <3> QED
      BY <1>a, <2>2, <2>3, <3>1 DEF WalletsFollow
  <2> QED
    BY <2>2, <2>4, <2>5
<1>4. CASE \E p \in Page : QuietStep(p)
  <2>1. PICK p \in Page : QuietStep(p)
    BY <1>4
  <2>2. /\ UNCHANGED <<ledger, ops, store>>
        /\ \/ mem' = mem
           \/ mem' = [mem EXCEPT ![p] = Pristine]
           \/ (store[B(p)] # None /\ mem' = [mem EXCEPT ![p] = store[B(p)]])
        /\ backup'.wallet \in {backup.wallet, mem[p]}
    BY <2>1, QuietKeeps
  <2>3. Follows(Pristine, ledger, ops)
    BY <1>a, PristineFollows
  <2>4. B(p) \in Browser
    BY AccountAssumption DEF B
  <2> QED
    BY <1>a, <2>2, <2>3, <2>4 DEF WalletsFollow
<1>5. CASE UNCHANGED vars
  BY <1>5 DEF IInv, WalletsFollow, vars
<1> QED
  BY <1>1, <1>2, <1>3, <1>4, <1>5, NextCases

(* The other pages are not disturbed.                                      *)
LEMMA OthersAgree ==
  ASSUME IInv, NEW p \in Page, SavingStep(p) \/ QuietStep(p), NEW q \in Page, q # p
  PROVE  PageAgrees(q)'
<1>1. /\ pc'[q] = pc[q] /\ job'[q] = job[q] /\ seen'[q] = seen[q] /\ mem'[q] = mem[q]
  BY OnlyOneMoves
<1>2. PageAgrees(q) /\ job[q] \in Nat /\ B(q) \in Browser /\ B(p) \in Browser
  BY AccountAssumption DEF IInv, TypeOK, PagesAgree, B
<1>3. store[B(q)] # None => store'[B(q)] # None
  <2>1. CASE \E w \in Wallet : Saved(p, w)
    BY <2>1, <1>2, AccountAssumption DEF Saved, Save, IInv, TypeOK
  <2>2. CASE store' = store
    BY <2>2
  <2> QED
    BY <2>1, <2>2, SavingSaves, QuietKeeps
<1>4. ledger' = ledger /\ (pool' = pool \/ (submit(p) /\ pool' = pool \union {job[p]}))
  BY SavingSaves, QuietKeeps
<1>5. job[q] <= Len(ops')
  <2>1. ops \in Seq(Operation)
    BY DEF IInv, TypeOK
  <2>2. ops' = ops \/ \E x \in Operation : ops' = Append(ops, x)
    BY SavingSaves, QuietKeeps
  <2>3. Len(ops') \in Nat /\ Len(ops) \in Nat /\ Len(ops') >= Len(ops)
    BY <2>1, <2>2
  <2> QED
    BY <2>3, <1>2 DEF PageAgrees
<1>6. pc[q] = "journaled" => job[q] \notin pool' \union Accepted
  <2>1. submit(p) => p \in Journaled
    BY DEF submit, Journaled
  <2>2. pc[q] = "journaled" /\ submit(p) => job[q] # job[p]
    BY <2>1 DEF IInv, PagesAgree, Journaled
  <2> QED
    BY <1>2, <1>4, <2>2 DEF PageAgrees
<1> QED
  BY <1>1, <1>2, <1>3, <1>4, <1>5, <1>6 DEF PageAgrees, Accepted, LedgerCom

(* Nor does the page that moves come to disagree with itself.              *)
LEMMA ItselfAgrees ==
  ASSUME IInv, NEW p \in Page, SavingStep(p) \/ QuietStep(p)
  PROVE  PageAgrees(p)'
<1>a. /\ pc \in [Page -> Labels] /\ job \in [Page -> Nat] /\ seen \in [Page -> Nat] /\ mem \in [Page -> Wallet]
      /\ ledger \in Seq(Nat) /\ ops \in Seq(Operation) /\ store \in [Browser -> Wallet \union {None}]
      /\ B(p) \in Browser /\ PageAgrees(p) /\ LedgerIsChain /\ Len(ops) \in Nat
  BY AccountAssumption DEF IInv, TypeOK, PagesAgree, B
<1>b. \A l : Goto(p, l) => pc'[p] = l
  BY <1>a DEF Goto
<1>c. Leave(p) => pc'[p] = "idle" /\ job'[p] = 0
  BY <1>a, <1>b DEF Leave
<1>d. \A w : Hold(p, w) => mem'[p] = w
  BY <1>a DEF Hold
<1>e. \A w \in Wallet : Save(p, w) => mem'[p] = w /\ store'[B(p)] # None
  BY <1>a, <1>d, AccountAssumption DEF Save
<1>f. store[B(p)] # None => store'[B(p)] # None
  <2>1. CASE \E w \in Wallet : Saved(p, w)
    BY <2>1, <1>e DEF Saved
  <2>2. CASE store' = store
    BY <2>2
  <2> QED
    BY <2>1, <2>2, SavingSaves, QuietKeeps
<1>g. LedgerCom = 0 \/ LedgerCom \in Accepted
  BY <1>a, ComOfLog DEF LedgerCom, Accepted
<1>1. CASE unlock(p) \/ refreshBalance(p)
  BY <1>a, <1>b, <1>f, <1>1 DEF unlock, refreshBalance, PageAgrees, Accepted, node
<1>2. CASE recover(p)
  <2>1. store'[B(p)] # None
    BY <1>2, <1>e DEF recover, IInv, TypeOK
  <2> QED
    BY <1>a, <1>b, <1>2, <2>1 DEF recover, PageAgrees, Accepted, node
<1>3. CASE begin(p)
  BY <1>a, <1>b, <1>d, <1>f, <1>3 DEF begin, Enter, PageAgrees, Accepted, node
<1>4. CASE sync(p)
  BY <1>a, <1>b, <1>d, <1>f, <1>4 DEF sync, Enter, PageAgrees, Accepted, node
<1>5. CASE reconcile_read(p)
  BY <1>a, <1>b, <1>f, <1>g, <1>5 DEF reconcile_read, Look, PageAgrees, Accepted, node
<1>6. CASE reconcile_open(p)
  BY <1>a, <1>b, <1>f, <1>6 DEF reconcile_open, PageAgrees, Accepted, node
<1>7. CASE journal(p)
  <2>1. mem'[p].pending = Len(ops) + 1 /\ (\E x \in Operation : ops' = Append(ops, x)) /\ store'[B(p)] # None
    BY <1>7, <1>e, JournalIsSaved DEF Saved
  <2>2. Len(ops') = Len(ops) + 1 /\ Len(ops) + 1 \notin pool \union Accepted
    <3>1. Accepted \subseteq 1 .. Len(ops)
      BY <1>a, SetOfLog DEF Accepted, LedgerIsChain, IsChain
    <3>2. Len(ops') = Len(ops) + 1
      BY <1>a, <2>1
    <3>3. pool \subseteq 1 .. Len(ops)
      BY <1>a DEF LedgerIsChain
    <3> QED
      BY <1>a, <3>1, <3>2, <3>3
  <2>3. job'[p] = Len(ops) + 1 /\ pc'[p] = "journaled" /\ UNCHANGED <<pool, ledger, seen>>
    BY <1>a, <1>b, <1>7 DEF journal, node
  <2> QED
    BY <1>a, <2>1, <2>2, <2>3 DEF PageAgrees, Accepted
<1>8. CASE submit(p) \/ submitPending_unknown(p)
  BY <1>a, <1>b, <1>f, <1>8 DEF submit, submitPending_unknown, PageAgrees, Accepted, node
<1>9. CASE submitPending_applied(p)
  BY <1>a, <1>b, <1>f, <1>9 DEF submitPending_applied, PageAgrees, Accepted, node
<1>10. CASE submitPending_refused(p) \/ submitPending_unresolved(p)
  BY <1>a, <1>c, <1>f, <1>10 DEF submitPending_refused, submitPending_unresolved, PageAgrees, Accepted, node
<1>11. CASE submitPending_reconciled(p)
  BY <1>a, <1>b, <1>c, <1>f, <1>11 DEF submitPending_reconciled, PageAgrees, Accepted, node
<1>12. CASE submitPending_backup(p) \/ deliver(p) \/ flushOutbox(p)
  BY <1>a, <1>b, <1>c, <1>f, <1>12 DEF submitPending_backup, deliver, flushOutbox, PageAgrees, Accepted, node
<1>13. CASE sync_check(p)
  <2>1. mem'[p] = mem[p] /\ mem[p].pending = 0
    BY <1>a, <1>e, <1>13 DEF sync_check, PageAgrees
  <2>2. Resolution(mem[p], LedgerCom) = "conflict" => Commitment(mem[p]) # LedgerCom
    BY <2>1 DEF Resolution
  <2> QED
    BY <1>a, <1>b, <1>f, <1>13, <2>1, <2>2 DEF sync_check, PageAgrees, Accepted, LedgerCom, node
<1>14. CASE refreshFromBackup(p)
  BY <1>a, <1>b, <1>f, <1>14 DEF refreshFromBackup, PageAgrees, Accepted, node
<1>15. CASE syncInbox(p) \/ syncInbox_cursor(p)
  BY <1>a, <1>b, <1>f, <1>15 DEF syncInbox, syncInbox_cursor, PageAgrees, Accepted, node
<1>16. CASE close(p)
  BY <1>a, <1>b, <1>f, <1>16 DEF close, PageAgrees, Accepted, node
<1> QED
  BY <1>1, <1>2, <1>3, <1>4, <1>5, <1>6, <1>7, <1>8, <1>9, <1>10, <1>11, <1>12, <1>13, <1>14, <1>15, <1>16
     DEF SavingStep, QuietStep

LEMMA PagesStep == IInv /\ [Next]_vars => PagesAgree'
<1> SUFFICES ASSUME IInv, [Next]_vars PROVE PagesAgree'
  OBVIOUS
<1>a. /\ PagesAgree /\ LedgerIsChain /\ job \in [Page -> Nat] /\ ledger \in Seq(Nat) /\ ops \in Seq(Operation)
      /\ mem \in [Page -> Wallet] /\ \A p \in Page : Follows(mem[p], ledger, ops)
  BY DEF IInv, TypeOK, WalletsFollow
<1>1. CASE \E o \in pool : Decide(o)
  <2>1. PICK o \in pool : Decide(o)
    BY <1>1
  <2>2. o \in Nat /\ o # 0 /\ o \notin Accepted
    BY <1>a DEF LedgerIsChain
  <2>3. UNCHANGED <<store, pc, mem, job, seen, ops>> /\ pool' = pool \ {o}
    BY <2>1 DEF Decide
  <2>4. CASE ledger' = ledger
    BY <1>a, <2>3, <2>4 DEF PagesAgree, PageAgrees, Journaled, Accepted, LedgerCom
  <2>5. CASE ledger' = Append(ledger, o)
    <3>1. Accepted' = Accepted \union {o} /\ LedgerCom' = o
      <4>1. ledger' # <<>> /\ ledger' \in Seq(Nat) /\ ledger'[Len(ledger')] = o
        BY <1>a, <2>2, <2>5
      <4> QED
        BY <1>a, <2>2, <2>5, <4>1, SetOfLonger, ComOfLog DEF Accepted, LedgerCom
    <3>2. \A p \in Page : Commitment(mem[p]) # o
      BY <1>a, <2>2, FollowerKnows DEF Commitment, Accepted, LedgerIsChain
    <3>3. \A p \in Page : pc[p] = "journaled" => job[p] # o
      BY <1>a, <2>2 DEF PagesAgree, PageAgrees
    <3>4. ASSUME NEW p \in Page
          PROVE  PageAgrees(p)'
      <4>1. PageAgrees(p)
        BY <1>a DEF PagesAgree
      <4>2. Commitment(mem'[p]) # LedgerCom'
        BY <2>3, <3>1, <3>2
      <4> QED
        BY <2>3, <3>1, <3>3, <4>1, <4>2 DEF PageAgrees
    <3> QED
      BY <1>a, <2>3, <3>4 DEF PagesAgree, Journaled
  <2> QED
    BY <2>1, <2>4, <2>5 DEF Decide
<1>2. CASE \E r \in Receipts : PostReceipt(r)
  BY <1>2, <1>a DEF PagesAgree, PageAgrees, Journaled, Accepted, LedgerCom, PostReceipt
<1>3. CASE \E p \in Page : SavingStep(p) \/ QuietStep(p)
  <2>1. PICK p \in Page : SavingStep(p) \/ QuietStep(p)
    BY <1>3
  <2>2. \A q \in Page : PageAgrees(q)'
    BY <2>1, OthersAgree, ItselfAgrees
  <2>3. store'[First] # None
    <3>1. CASE \E w \in Wallet : Saved(p, w)
      BY <3>1, <1>a, AccountAssumption DEF Saved, Save, IInv, TypeOK, PagesAgree
    <3>2. CASE store' = store
      BY <3>2, <1>a DEF PagesAgree
    <3> QED
      BY <2>1, <3>1, <3>2, SavingSaves, QuietKeeps
  <2>4. ASSUME NEW q \in Journaled', NEW r \in Journaled', job'[q] = job'[r]
        PROVE  q = r
    <3>1. \A s \in Journaled' : s # p => s \in Journaled /\ job'[s] = job[s] /\ job[s] <= Len(ops)
      BY <2>1, <1>a, OnlyOneMoves DEF Journaled, PagesAgree, PageAgrees
    <3>2. p \in Journaled' => job'[p] = Len(ops) + 1
      <4>1. p \in Journaled' => journal(p)
        BY <2>1, OnlyOneMoves DEF Journaled
      <4> QED
        BY <4>1, <1>a DEF journal
    <3>3. \A s \in Page : job[s] \in Nat
      BY <1>a
    <3>4. Len(ops) \in Nat /\ Journaled' \subseteq Page
      BY <1>a DEF Journaled
    <3>5. CASE q # p /\ r # p
      BY <3>1, <3>5, <2>4, <1>a DEF PagesAgree
    <3>6. CASE q = p /\ r # p
      BY <3>1, <3>2, <3>3, <3>4, <3>6, <2>4
    <3>7. CASE q # p /\ r = p
      BY <3>1, <3>2, <3>3, <3>4, <3>7, <2>4
    <3> QED
      BY <3>5, <3>6, <3>7
  <2> QED
    BY <2>2, <2>3, <2>4 DEF PagesAgree
<1>5. CASE UNCHANGED vars
  BY <1>5, <1>a DEF PagesAgree, PageAgrees, Journaled, Accepted, LedgerCom, vars
<1> QED
  BY <1>1, <1>2, <1>3, <1>5, NextCases

(* A save loses sight of no live operation, unless that is recorded.       *)
LEMMA SavedKeeps ==
  ASSUME IInv, NEW p \in Page, NEW w \in Wallet, Saved(p, w), NEW o \in Live
  PROVE  Kept(o)'
<1>a. /\ store \in [Browser -> Wallet \union {None}] /\ B(p) \in Browser /\ Kept(o)
      /\ store' = [store EXCEPT ![B(p)] = w] /\ abandoned \subseteq abandoned' /\ overwritten \subseteq overwritten'
      /\ store'[B(p)] # None
  BY AccountAssumption DEF IInv, TypeOK, JournaledIsKept, B, Saved, Save
<1>1. CASE o \in abandoned \union overwritten
  BY <1>a, <1>1 DEF Kept
<1>2. ASSUME NEW b \in Browser, store[b] # None, o \in Known(store[b]), b # B(p)
      PROVE  Kept(o)'
  <2>1. store'[b] = store[b]
    BY <1>a, <1>2
  <2> QED
    BY <1>2, <2>1 DEF Kept
<1>3. CASE store[B(p)] # None /\ o \in Known(store[B(p)])
  <2>1. overwritten' = overwritten \union (Known(store[B(p)]) \ (Known(mem[p]) \union Known(w)))
    BY <1>3 DEF Saved, Save
  <2>2. o \in Known(mem[p]) => o \in Known(w) \union abandoned'
    BY <1>3 DEF Saved
  <2>3. CASE o \in Known(w)
    <3>1. store'[B(p)] = w
      BY <1>a
    <3> QED
      BY <1>a, <2>3, <3>1 DEF Kept
  <2>4. CASE o \in abandoned' \union overwritten'
    BY <2>4 DEF Kept
  <2> QED
    BY <1>3, <2>1, <2>2, <2>3, <2>4
<1> QED
  BY <1>a, <1>1, <1>2, <1>3 DEF Kept

LEMMA KeptStep == IInv /\ [Next]_vars => JournaledIsKept'
<1> SUFFICES ASSUME IInv, [Next]_vars PROVE JournaledIsKept'
  OBVIOUS
<1>1. CASE \E o \in pool : Decide(o)
  <2>1. PICK o \in pool : Decide(o)
    BY <1>1
  <2>2. LedgerCom' \in {LedgerCom, o}
    <3>1. ledger \in Seq(Nat) /\ o \in Nat
      BY DEF IInv, TypeOK, LedgerIsChain
    <3>2. Append(ledger, o) \in Seq(Nat) /\ Append(ledger, o) # <<>> /\ Append(ledger, o)[Len(Append(ledger, o))] = o
      BY <3>1
    <3>3. Com(Append(ledger, o)) = o
      BY <3>1, <3>2, ComOfLog
    <3> QED
      BY <2>1, <3>3 DEF Decide, LedgerCom
  <2>3. Live' \subseteq Live
    BY <2>1, <2>2 DEF Live, Decide, Journaled
  <2>4. \A x \in Live : Kept(x) => Kept(x)'
    BY <2>1 DEF Kept, Decide, history
  <2> QED
    BY <2>3, <2>4 DEF IInv, JournaledIsKept
<1>2. CASE \E r \in Receipts : PostReceipt(r)
  <2>1. UNCHANGED <<ledger, pool, job, pc, abandoned, overwritten, store>>
    BY <1>2 DEF PostReceipt, history
  <2> QED
    BY <2>1 DEF IInv, JournaledIsKept, Live, Kept, Journaled, LedgerCom
<1>3. CASE \E p \in Page : SavingStep(p)
  <2>1. PICK p \in Page : SavingStep(p)
    BY <1>3
  <2>2. /\ \/ \E w \in Wallet : Saved(p, w)
           \/ UNCHANGED <<mem, store, overwritten, lacking>>
        /\ UNCHANGED <<ledger, pool>> /\ abandoned \subseteq abandoned'
    BY <2>1, SavingSaves
  <2>3. \A x \in Live : Kept(x)'
    <3>1. CASE \E w \in Wallet : Saved(p, w)
      BY <3>1, SavedKeeps
    <3>2. CASE UNCHANGED <<mem, store, overwritten, lacking>>
      BY <2>2, <3>2 DEF IInv, JournaledIsKept, Kept
    <3> QED
      BY <2>2, <3>1, <3>2
  <2>4. \A q \in Journaled' : q # p => q \in Journaled /\ job'[q] = job[q]
    BY <2>1, OnlyOneMoves DEF Journaled
  <2>5. CASE ~journal(p)
    <3>1. p \notin Journaled'
      BY <2>1, <2>5, OnlyOneMoves DEF Journaled
    <3>2. Live' \subseteq Live
      BY <2>2, <2>4, <3>1 DEF Live, LedgerCom
    <3> QED
      BY <2>3, <3>2 DEF JournaledIsKept
  <2>6. CASE journal(p)
    <3>1. job \in [Page -> Nat] /\ mem[p] \in Wallet /\ Len(ops) + 1 \in Nat \ {0} /\ B(p) \in Browser
          /\ store \in [Browser -> Wallet \union {None}]
      BY AccountAssumption DEF IInv, TypeOK, B
    <3>2. PICK n \in Nat \ {0} : n = Len(ops) + 1
      BY <3>1
    <3>3. n \in Known(prepare(mem[p], n)) /\ job'[p] = n
      BY <2>6, <3>1, <3>2, KnownAfter DEF journal
    <3>4. store'[B(p)] = prepare(mem[p], n) /\ store'[B(p)] # None
      BY <2>6, <3>1, <3>2, JournalIsSaved, AccountAssumption DEF Saved, Save
    <3>5. Kept(n)'
      BY <3>1, <3>3, <3>4 DEF Kept
    <3>6. Live' \subseteq Live \union {n}
      BY <2>2, <2>4, <3>3 DEF Live, LedgerCom
    <3> QED
      BY <2>3, <3>5, <3>6 DEF JournaledIsKept
  <2> QED
    BY <2>5, <2>6
<1>4. CASE \E p \in Page : QuietStep(p)
  <2>1. PICK p \in Page : QuietStep(p)
    BY <1>4
  <2>2. /\ UNCHANGED <<ledger, store, abandoned, overwritten>>
        /\ pool' = pool \/ (submit(p) /\ pool' = pool \union {job[p]})
    BY <2>1, QuietKeeps
  <2>3. submit(p) => p \in Journaled
    BY DEF submit, Journaled
  <2>4. \A q \in Journaled' : q \in Journaled /\ job'[q] = job[q]
    <3>2. \A q \in Journaled' : q # p => q \in Journaled /\ job'[q] = job[q]
      BY <2>1, OnlyOneMoves DEF Journaled
    <3>3. p \notin Journaled'
      BY <2>1, QuietUnjournals DEF Journaled
    <3> QED
      BY <3>2, <3>3
  <2>5. Live' \subseteq Live
    BY <2>2, <2>3, <2>4 DEF Live, LedgerCom
  <2> QED
    BY <2>2, <2>5 DEF IInv, JournaledIsKept, Kept
<1>5. CASE UNCHANGED vars
  BY <1>5 DEF IInv, JournaledIsKept, Live, Kept, Journaled, LedgerCom, vars
<1> QED
  BY <1>1, <1>2, <1>3, <1>4, <1>5, NextCases

(* A saving step that fetches receipts saves them.                         *)
LEMMA FetchedIsSaved ==
  ASSUME IInv, NEW p \in Page, SavingStep(p)
  PROVE  \/ fetched' = fetched
         \/ \E w \in Wallet, items \in SUBSET Receipts :
              /\ Saved(p, w) /\ items \subseteq w.receipts
              /\ fetched' = [fetched EXCEPT ![p] = items]
<1>1. CASE syncInbox(p)
  BY <1>1, DiscoverIsSaved DEF Saved
<1>2. CASE ~syncInbox(p)
  BY <1>2 DEF SavingStep, recover, reconcile_open, journal, submitPending_applied,
              submitPending_refused, submitPending_reconciled, sync_check, refreshFromBackup
<1> QED
  BY <1>1, <1>2

LEMMA CursorsStep == IInv /\ [Next]_vars => CursorsFollow'
<1> SUFFICES ASSUME IInv, [Next]_vars PROVE CursorsFollow'
  OBVIOUS
<1>a. /\ store \in [Browser -> Wallet \union {None}] /\ cursor \in [Browser -> SUBSET Receipts]
      /\ fetched \in [Page -> SUBSET Receipts] /\ CursorsFollow
      /\ \A p \in Page : B(p) \in Browser
  BY AccountAssumption DEF IInv, TypeOK, B
<1>b. BrowserOf' = BrowserOf
  OBVIOUS
<1>1. CASE (\E o \in pool : Decide(o)) \/ (\E r \in Receipts : PostReceipt(r))
  BY <1>1, <1>a DEF Decide, PostReceipt, history, CursorsFollow, B
<1>2. CASE \E p \in Page : SavingStep(p)
  <2>1. PICK p \in Page : SavingStep(p)
    BY <1>2
  <2>2. ASSUME NEW w \in Wallet, Saved(p, w), NEW items \in SUBSET Receipts,
               fetched' = fetched \/ (items \subseteq w.receipts /\ fetched' = [fetched EXCEPT ![p] = items])
        PROVE  CursorsFollow'
    <3>1. /\ cursor' = cursor /\ store' = [store EXCEPT ![B(p)] = w] /\ w # None
      BY <2>2, AccountAssumption DEF Saved, Save
    <3>2. lacking \subseteq lacking'
      BY <2>2 DEF Saved, Save
    <3>3. store[B(p)] # None /\ B(p) \notin lacking' => store[B(p)].receipts \subseteq w.receipts
      BY <2>2 DEF Saved, Save
    <3>4. \A q \in Page : fetched'[q] = fetched[q] \/ (q = p /\ fetched'[q] \subseteq w.receipts)
      BY <2>2, <1>a
    <3>5. ASSUME NEW b \in Browser, b # B(p)
          PROVE  /\ store'[b] = None => cursor'[b] = {} /\ \A q \in Page : B(q) = b => fetched'[q] = {}
                 /\ store'[b] # None /\ b \notin lacking' =>
                      /\ cursor'[b] \subseteq store'[b].receipts
                      /\ \A q \in Page : B(q) = b => fetched'[q] \subseteq store'[b].receipts
      <4>1. store'[b] = store[b] /\ (\A q \in Page : B(q) = b => fetched'[q] = fetched[q])
        BY <1>a, <3>1, <3>4, <3>5
      <4> QED
        BY <1>a, <3>1, <3>2, <4>1 DEF CursorsFollow
    <3>6. /\ store'[B(p)] = w
          /\ B(p) \notin lacking' =>
               /\ cursor'[B(p)] \subseteq w.receipts
               /\ \A q \in Page : B(q) = B(p) => fetched'[q] \subseteq w.receipts
      BY <1>a, <3>1, <3>2, <3>3, <3>4 DEF CursorsFollow
    <3> QED
      BY <1>a, <3>1, <3>5, <3>6 DEF CursorsFollow, B
  <2>3. CASE \E w \in Wallet : Saved(p, w)
    BY <2>1, <2>2, <2>3, FetchedIsSaved
  <2>4. CASE ~\E w \in Wallet : Saved(p, w)
    <3>1. UNCHANGED <<store, lacking, cursor, fetched>>
      BY <2>1, <2>4, SavingSaves, FetchedIsSaved
    <3> QED
      BY <1>a, <3>1 DEF CursorsFollow, B
  <2> QED
    BY <2>3, <2>4
<1>3. CASE \E p \in Page : QuietStep(p)
  <2>1. PICK p \in Page : QuietStep(p)
    BY <1>3
  <2>2. /\ UNCHANGED <<store, lacking>>
        /\ cursor' = cursor \/ cursor' = [cursor EXCEPT ![B(p)] = @ \union fetched[p]]
        /\ fetched' = fetched \/ fetched' = [fetched EXCEPT ![p] = {}]
    BY <2>1, QuietKeeps
  <2>3. \A q \in Page : fetched'[q] \subseteq fetched[q]
    BY <1>a, <2>2
  <2>4. \A b \in Browser : cursor'[b] \subseteq cursor[b] \union (IF b = B(p) THEN fetched[p] ELSE {})
    BY <1>a, <2>2
  <2>5. ASSUME NEW b \in Browser
        PROVE  /\ store'[b] = None => cursor'[b] = {} /\ \A q \in Page : B(q) = b => fetched'[q] = {}
               /\ store'[b] # None /\ b \notin lacking' =>
                    /\ cursor'[b] \subseteq store'[b].receipts
                    /\ \A q \in Page : B(q) = b => fetched'[q] \subseteq store'[b].receipts
    BY <1>a, <2>2, <2>3, <2>4 DEF CursorsFollow
  <2> QED
    BY <2>5 DEF CursorsFollow, B
<1>4. CASE UNCHANGED vars
  BY <1>4, <1>a DEF CursorsFollow, B, vars
<1> QED
  BY <1>1, <1>2, <1>3, <1>4, NextCases

-----------------------------------------------------------------------------
(* The theorems.                                                           *)

THEOREM Invariance == SafeSpec => []IInv
<1>1. IInv /\ [Next]_vars => IInv'
  BY TypeStep, LedgerStep, WalletsStep, PagesStep, KeptStep, CursorsStep DEF IInv
<1> QED
  BY <1>1, InitInvariant, PTL DEF SafeSpec

(* No copy of the wallet runs ahead of the ledger or off it, in any        *)
(* browser or in the backup, whatever is lost and however many tabs share  *)
(* a store (submitPending and reconcile of account.ts).                    *)
THEOREM CopiesFollow == SafeSpec => []CopiesFollowLedger
<1>1. IInv => CopiesFollowLedger
  <2> SUFFICES ASSUME IInv, NEW w \in Copies
               PROVE  IsPrefix(w.log, ledger)
    BY DEF CopiesFollowLedger
  <2>1. w \in Wallet /\ Follows(w, ledger, ops) /\ ledger \in Seq(Nat)
    BY DEF Copies, IInv, TypeOK, WalletsFollow
  <2>2. w.log \in Seq(Nat)
    BY <2>1 DEF Wallet
  <2> QED
    BY <2>1, <2>2, PrefixOfEqual DEF Follows
<1> QED
  BY <1>1, Invariance, PTL

(* The ledger's commitment is opened by the wallet of some browser, by     *)
(* what it recorded or by its journal, unless the operation that set it    *)
(* was given up or overwritten before the ledger decided.                  *)
THEOREM Reachable == SafeSpec => []FundsReachable
<1>1. IInv => FundsReachable
  <2> SUFFICES ASSUME IInv, LedgerCom \notin abandoned \union overwritten
               PROVE  \E b \in Browser : /\ store[b] # None
                                          /\ LedgerCom \in {Commitment(store[b]), store[b].pending}
    BY DEF FundsReachable
  <2>a. /\ ledger \in Seq(Nat) /\ ops \in Seq(Operation) /\ IsChain(ledger, ops)
        /\ \A b \in Browser : store[b] # None => store[b] \in Wallet /\ Follows(store[b], ledger, ops)
    BY DEF IInv, TypeOK, LedgerIsChain, WalletsFollow
  <2>1. CASE LedgerCom = 0
    <3>1. First \in Browser /\ store[First] # None
      BY AccountAssumption DEF IInv, PagesAgree
    <3>2. 0 \notin ToSet(ledger)
      BY <2>a, SetOfLog DEF IsChain
    <3>3. ToSet(ledger) = {}
      BY <2>1, <2>a, <3>2, ComOfLog DEF LedgerCom, ToSet
    <3>4. Com(store[First].log) = 0
      BY <2>a, <3>1, <3>3, FollowerKnows
    <3> QED
      BY <2>1, <3>1, <3>4 DEF Commitment
  <2>2. CASE LedgerCom # 0
    <3>1. PICK b \in Browser : store[b] # None /\ LedgerCom \in Known(store[b])
      BY <2>2 DEF IInv, JournaledIsKept, Live, Kept
    <3>2. CASE LedgerCom \in ToSet(store[b].log)
      BY <2>a, <3>1, <3>2, FollowerKnows DEF LedgerCom, Commitment
    <3> QED
      BY <3>1, <3>2 DEF Known
  <2> QED
    BY <2>1, <2>2
<1> QED
  BY <1>1, Invariance, PTL

(* Receipts behind the inbox cursor are in the saved wallet (syncInbox     *)
(* saves before it moves the cursor), except where a wallet with fewer was *)
(* saved over it.                                                          *)
THEOREM CursorIsBehind == SafeSpec => []CursorIsSaved
<1>1. IInv => CursorIsSaved
  BY DEF IInv, CursorsFollow, CursorIsSaved
<1> QED
  BY <1>1, Invariance, PTL
=============================================================================
