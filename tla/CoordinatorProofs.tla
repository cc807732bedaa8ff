-------------------------- MODULE CoordinatorProofs --------------------------
(***************************************************************************)
(* Theorems about the coordinator.  Its reveal engine, for every set of     *)
(* conditions, seals, intents and operators, every batch size and threshold *)
(* and any number of crashes and failed statements: ordering is committed   *)
(* before work, operators' own shares decide, intents follow the order, and *)
(* what was published stands.  Its v1 writes, for every set of calls, keys  *)
(* and requests: a payment buys one call, and the answers to an undisturbed *)
(* key name one round.                                                      *)
(***************************************************************************)
EXTENDS RevealEngine, CoordinatorApi, FiniteSetTheorems, SequenceTheorems, WellFoundedInduction, TLAPS

-----------------------------------------------------------------------------
(* The inductive invariant *)

Cts == Seals \cup {Padding}

IntentRows == [id : IntentIds, seal : Seals, cond : Conditions, state : {"SUBMITTED", "ORDER_COMMITTED"}]

Pending == {c \in Conditions : status[c] = "pending"}
Frozen == {c \in Conditions : status[c] \in {"frozen", "stalled"}}

\* A condition has an order, with its commitments, from its freeze on.
Ordered ==
    /\ status \in [Conditions -> {"pending", "frozen", "stalled", "revealed"}]
    /\ order \in [Conditions -> Seq(Cts)]
    /\ \A c \in Conditions : status[c] = "pending" <=> order[c] = <<>>
    /\ DOMAIN commits = AllBatches
    /\ \A b \in AllBatches : [i \in DOMAIN commits[b] |-> commits[b][i].ct] = BatchCts(b)

Joined ==
    /\ sealed \in [Seals -> Conditions \cup {None}]
    /\ intents \in Seq(IntentRows)
    /\ \A k \in DOMAIN intents : intents[k].state = "SUBMITTED" <=> order[intents[k].cond] = <<>>

Submissions == [op : Operators, batch : AllBatches, own : BOOLEAN, orphan : BOOLEAN, valid : BOOLEAN]
ShareRows == [batch : AllBatches, op : Operators, own : BOOLEAN, verified : BOOLEAN]

\* What operators fetched is what the tables hold, and how a proof ends is
\* decided by who made it, not by whose name it bears.
Fetched ==
    /\ work \in [Operators -> SUBSET {[batch |-> b, headers |-> BatchCts(b)] : b \in AllBatches}]
    /\ verifying \subseteq Submissions
    /\ \A v \in verifying : v.valid <=> v.own /\ v.op \in Honest
    /\ shares \subseteq ShareRows
    /\ IsFiniteSet(shares)
    /\ OnlyHonestVerify

Reached(b) == Cardinality(VerifiedShares(b)) >= T

\* Only what reached the threshold is opened, and a reveal is what was opened.
Opened ==
    /\ finalized \subseteq AllBatches
    /\ \A b \in finalized : Reached(b)
    /\ DOMAIN slots \subseteq finalized
    /\ reveals = [c \in Conditions |-> reveals[c]]
    /\ \A c \in Conditions : reveals[c] # None => status[c] # "pending" /\ Batches(c) \subseteq finalized /\ reveals[c] = OpenedSlots(c)

ToFinalize == {b \in AllBatches \ finalized : Reached(b)}
ToPublish == {c \in Frozen : Batches(c) \subseteq finalized}

\* The engine's lists are still what they were read as when it comes to them:
\* it is one task, and the handlers only add shares.
EngineKeepsUp ==
    /\ engine = [at |-> engine.at, back |-> engine.back, todo |-> engine.todo,
                 cond |-> engine.cond, reals |-> engine.reals, batch |-> engine.batch]
    /\ engine.at \in {"idle", "due", "heads", "seal", "cross", "ready", "mark", "slots", "done", "publish"}
    /\ engine.at \in {"due", "heads", "seal", "cross"} => engine.todo \subseteq Pending
    /\ engine.at \in {"seal", "cross"} => engine.back \in {"due", "heads"}
    /\ engine.at = "seal" =>
          engine.cond \in Pending /\ engine.cond \notin engine.todo /\ engine.reals \in Seq(Seals)
    /\ engine.at \in {"ready", "mark", "slots"} => engine.todo \subseteq ToFinalize
    /\ engine.at = "mark" => engine.batch \in ToFinalize /\ engine.batch \notin engine.todo
    /\ engine.at = "slots" => engine.batch \in finalized /\ reveals[engine.batch[1]] = None
    /\ engine.at \in {"done", "publish"} => engine.todo \subseteq ToPublish
    /\ engine.at = "publish" => engine.cond \in ToPublish /\ engine.cond \notin engine.todo

IInv == Ordered /\ Joined /\ Fetched /\ Opened /\ EngineKeepsUp

-----------------------------------------------------------------------------
(* Lemmas *)

LEMMA OrderKept ==
  ASSUME UNCHANGED order
  PROVE  /\ AllBatches' = AllBatches
         /\ \A c : Batches(c)' = Batches(c) /\ BatchCount(c)' = BatchCount(c)
         /\ \A b : BatchCts(b)' = BatchCts(b)
  BY DEF AllBatches, Batches, BatchCount, BatchCts

LEMMA SharesGrow ==
  ASSUME shares \subseteq shares', IsFiniteSet(shares'), NEW b, Reached(b)
  PROVE  Reached(b)'
PROOF
<1>1. VerifiedShares(b) \subseteq VerifiedShares(b)'
  BY DEF VerifiedShares
<1>2. VerifiedShares(b)' \subseteq shares'
  BY DEF VerifiedShares
<1>3. IsFiniteSet(VerifiedShares(b)')
  BY <1>2, FS_Subset
<1>4. /\ Cardinality(VerifiedShares(b)) <= Cardinality(VerifiedShares(b)')
      /\ Cardinality(VerifiedShares(b)) \in Nat /\ Cardinality(VerifiedShares(b)') \in Nat
  BY <1>1, <1>3, FS_Subset, FS_CardinalityType
<1>5. T \in Nat
  BY CommitteeAssumption
<1> QED BY <1>4, <1>5 DEF Reached

\* A set of naturals that is not empty has a least element.
LEMMA LeastNatural ==
  ASSUME NEW D, D \subseteq Nat, D # {}
  PROVE  \E n \in D : \A m \in D : n <= m
PROOF
<1>1. IsWellFoundedOn(OpToRel(<, Nat), Nat)
  BY NatLessThanWellFounded
<1>2. \E n \in D : \A m \in D : <<m, n>> \notin OpToRel(<, Nat)
  BY <1>1, WFMin
<1>3. OpToRel(<, Nat) = {ss \in Nat \X Nat : ss[1] < ss[2]}
  BY Zenon DEF OpToRel
<1> DEFINE R == {ss \in Nat \X Nat : ss[1] < ss[2]}
<1>4. PICK n \in D : \A m \in D : <<m, n>> \notin R
  BY <1>2, <1>3, Zenon
<1>5. \A m \in D : <<m, n>> \in R <=> m < n
  OBVIOUS
<1>6. \A m \in D : ~ (m < n)
  BY <1>4, <1>5, Zenon
<1> HIDE DEF R
<1> QED BY <1>6

\* The batches of a condition are its own.
LEMMA BatchIsOf ==
  ASSUME NEW b \in AllBatches
  PROVE  /\ b[1] \in Conditions /\ b \in Batches(b[1]) /\ b = <<b[1], b[2]>>
         /\ \A c : b \in Batches(c) => c = b[1]
  BY DEF AllBatches, Batches

LEMMA PendingHasNoBatch ==
  ASSUME Ordered, NEW c \in Pending
  PROVE  order[c] = <<>> /\ Batches(c) = {}
PROOF
<1>1. order[c] = <<>>
  BY DEF Pending, Ordered
<1>2. Len(order[c]) \div B = 0
  BY <1>1, CommitteeAssumption
<1> QED BY <1>1, <1>2 DEF Batches, BatchCount

\* Batches that are whole lie in the order.
LEMMA SliceIsWhole ==
  ASSUME NEW S, NEW seq \in Seq(S), NEW k \in 1 .. (Len(seq) \div B)
  PROVE  BatchSlice(seq, k) \in Seq(S)
PROOF
<1>1. B \in Nat \ {0} /\ Len(seq) \in Nat
  BY CommitteeAssumption
<1> DEFINE q == Len(seq) \div B
<1>2. q \in Nat /\ q * B <= Len(seq)
  BY <1>1
<1>3. k \in Nat /\ 1 <= k /\ k <= q
  BY <1>2
<1> HIDE DEF q
<1>4. k * B <= q * B
  BY <1>1, <1>2, <1>3
<1>5. (k - 1) * B \in Nat /\ k * B \in Nat /\ (k - 1) * B + B = k * B
  BY <1>1, <1>3
<1>6. (k - 1) * B + 1 \in 1 .. (Len(seq) + 1) /\ k * B \in 0 .. Len(seq)
  BY <1>1, <1>2, <1>4, <1>5
<1> QED BY <1>1, <1>6, SubSeqProperties DEF BatchSlice

LEMMA PaddedIsOrder ==
  ASSUME NEW reals \in Seq(Seals)
  PROVE  Padded(reals) \in Seq(Cts) /\ Padded(reals) # <<>>
PROOF
<1> DEFINE batches == IF reals = <<>> THEN 1 ELSE (Len(reals) + B - 1) \div B
<1>1. B \in Nat \ {0} /\ Len(reals) \in Nat
  BY CommitteeAssumption
<1>2. batches \in Nat /\ batches >= 1
  <2>1. CASE reals = <<>>
    BY <2>1
  <2>2. CASE reals # <<>>
    <3>1. Len(reals) >= 1
      BY <2>2
    <3>2. Len(reals) + B - 1 \in Nat /\ Len(reals) + B - 1 >= B
      BY <1>1, <3>1
    <3> DEFINE m == Len(reals) + B - 1
    <3> HIDE DEF m
    <3>3. m \div B \in Nat /\ m \div B >= 1
      BY <1>1, <3>2 DEF m
    <3> QED BY <2>2, <3>3 DEF m
  <2> QED BY <2>1, <2>2
<1> HIDE DEF batches
<1>3. batches * B \in Nat /\ batches * B >= 1
  BY <1>1, <1>2
<1>4. \A i \in 1 .. batches * B : (IF i <= Len(reals) THEN reals[i] ELSE Padding) \in Cts
  BY <1>1 DEF Cts
<1>5. Padded(reals) = [i \in 1 .. batches * B |-> IF i <= Len(reals) THEN reals[i] ELSE Padding]
  BY DEF Padded, batches
<1>6. Padded(reals) \in [1 .. batches * B -> Cts]
  BY <1>4, <1>5
<1>7. Padded(reals) \in Seq(Cts)
  BY <1>3, <1>6, SeqDef
<1>8. 1 \in DOMAIN Padded(reals)
  BY <1>3, <1>6
<1> QED BY <1>7, <1>8

-----------------------------------------------------------------------------
(* The invariant holds at the start; clients, operators and crashes keep it *)

LEMMA InvInit == Init => IInv
PROOF
<1> SUFFICES ASSUME Init PROVE IInv
  OBVIOUS
<1>1. \A c \in Conditions : Batches(c) = {}
  <2>1. Len(<<>>) \div B = 0
    BY CommitteeAssumption
  <2> QED BY <2>1 DEF Init, Batches, BatchCount
<1>2. AllBatches = {}
  BY <1>1 DEF AllBatches
<1>3. Ordered
  BY <1>2 DEF Init, Ordered
<1>4. Joined /\ Opened
  BY <1>2 DEF Init, Joined, Opened
<1>5. Fetched
  BY <1>2, FS_EmptySet DEF Init, Fetched, OnlyHonestVerify
<1>6. EngineKeepsUp
  BY DEF Init, EngineKeepsUp, Idle
<1> QED BY <1>3, <1>4, <1>5, <1>6 DEF IInv

\* What the engine is about to do stays due while the handlers only add shares.
LEMMA EngineKept ==
  ASSUME Ordered, EngineKeepsUp, UNCHANGED <<engine, order, status, finalized, reveals>>,
         shares \subseteq shares', IsFiniteSet(shares')
  PROVE  EngineKeepsUp'
PROOF
<1>1. AllBatches' = AllBatches /\ \A c : Batches(c)' = Batches(c)
  BY OrderKept
<1>2. \A b : Reached(b) => Reached(b)'
  BY SharesGrow
<1>3. ToFinalize \subseteq ToFinalize' /\ ToPublish' = ToPublish /\ Pending' = Pending
  BY <1>1, <1>2 DEF ToFinalize, ToPublish, Frozen, Pending
<1> QED BY <1>3 DEF EngineKeepsUp

LEMMA OpenedKept ==
  ASSUME Opened, UNCHANGED <<status, order, finalized, slots, reveals>>, shares \subseteq shares', IsFiniteSet(shares')
  PROVE  Opened'
PROOF
<1>1. AllBatches' = AllBatches /\ \A c : Batches(c)' = Batches(c)
  BY OrderKept
<1>2. \A b : Reached(b) => Reached(b)'
  BY SharesGrow
<1>3. \A c : OpenedSlots(c)' = OpenedSlots(c)
  BY DEF OpenedSlots, BatchCount
<1> QED BY <1>1, <1>2, <1>3 DEF Opened

LEMMA OrderedKept ==
  ASSUME Ordered, UNCHANGED <<status, order, commits>>
  PROVE  Ordered'
  BY OrderKept DEF Ordered

LEMMA FetchedKept ==
  ASSUME Fetched, UNCHANGED <<order, work, verifying, shares>>
  PROVE  Fetched'
  BY OrderKept DEF Fetched, OnlyHonestVerify, Submissions, ShareRows

LEMMA JoinedKept ==
  ASSUME Joined, UNCHANGED <<order, sealed, intents>>
  PROVE  Joined'
  BY DEF Joined

LEMMA FallDueStep ==
  ASSUME IInv, NEW c \in Conditions, FallDue(c)
  PROVE  IInv'
PROOF
<1> USE DEF IInv, FallDue, tables, nodes
<1>1. IsFiniteSet(shares)
  BY DEF Fetched
<1> QED BY <1>1, EngineKept, OpenedKept, OrderedKept, FetchedKept, JoinedKept

LEMMA SubmitCiphertextStep ==
  ASSUME IInv, NEW c \in Conditions, NEW s \in Seals, SubmitCiphertext(c, s)
  PROVE  IInv'
PROOF
<1> USE DEF IInv, SubmitCiphertext, nodes
<1>1. IsFiniteSet(shares)
  BY DEF Fetched
<1>2. sealed' \in [Seals -> Conditions \cup {None}]
  BY DEF Joined
<1>3. Joined'
  BY <1>2 DEF Joined
<1> QED BY <1>1, <1>3, EngineKept, OpenedKept, OrderedKept, FetchedKept

LEMMA SubmitIntentStep ==
  ASSUME IInv, NEW i \in IntentIds, NEW s \in Seals, SubmitIntent(i, s)
  PROVE  IInv'
PROOF
<1> USE DEF IInv, SubmitIntent, nodes
<1>1. IsFiniteSet(shares)
  BY DEF Fetched
<1> DEFINE row == [id |-> i, seal |-> s, cond |-> sealed[s], state |-> "SUBMITTED"]
<1>2. sealed[s] \in Conditions /\ order[sealed[s]] = <<>>
  BY DEF MayJoin, Joined, Ordered
<1>3. row \in IntentRows
  BY <1>2 DEF IntentRows
<1>4. intents' = Append(intents, row) /\ intents \in Seq(IntentRows)
  BY DEF Joined
<1>5. row.cond = sealed[s] /\ row.state = "SUBMITTED"
  OBVIOUS
<1> HIDE DEF row
<1>6. intents' \in Seq(IntentRows)
  BY <1>3, <1>4
<1>7. \A k \in DOMAIN intents' : (k \in DOMAIN intents /\ intents'[k] = intents[k]) \/ intents'[k] = row
  BY <1>3, <1>4
<1>8. \A k \in DOMAIN intents' : intents'[k].state = "SUBMITTED" <=> order'[intents'[k].cond] = <<>>
  BY <1>2, <1>5, <1>7 DEF Joined
<1>9. Joined'
  BY <1>6, <1>8 DEF Joined
<1> QED BY <1>1, <1>9, EngineKept, OpenedKept, OrderedKept, FetchedKept

LEMMA GetWorkStep ==
  ASSUME IInv, NEW o \in Operators, GetWork(o)
  PROVE  IInv'
PROOF
<1> USE DEF IInv, GetWork, tables
<1>1. IsFiniteSet(shares)
  BY DEF Fetched
<1>2. work' \in [Operators -> SUBSET {[batch |-> b, headers |-> BatchCts(b)] : b \in AllBatches}]
  BY DEF Fetched
<1>3. Fetched'
  BY <1>2, OrderKept DEF Fetched, OnlyHonestVerify, Submissions, ShareRows
<1> QED BY <1>1, <1>3, EngineKept, OpenedKept, OrderedKept, JoinedKept

\* A submission more, made by an honest operator exactly if it verifies.
LEMMA SubmissionAdded ==
  ASSUME Fetched, UNCHANGED <<order, shares>>, NEW new, new \in Submissions, new.valid <=> new.own /\ new.op \in Honest,
         verifying' = verifying \/ verifying' = verifying \cup {new},
         work' \in [Operators -> SUBSET {[batch |-> b, headers |-> BatchCts(b)] : b \in AllBatches}]
  PROVE  Fetched'
PROOF
<1>1. verifying' \subseteq Submissions /\ \A v \in verifying' : v.valid <=> v.own /\ v.op \in Honest
  BY DEF Fetched
<1>2. Submissions' = Submissions /\ ShareRows' = ShareRows
  BY OrderKept DEF Submissions, ShareRows
<1> QED BY <1>1, <1>2, OrderKept DEF Fetched, OnlyHonestVerify

LEMMA PostShareStep ==
  ASSUME IInv, NEW o \in Operators, NEW w \in work[o], PostShare(o, w)
  PROVE  IInv'
PROOF
<1> USE DEF IInv, tables
<1>0. UNCHANGED <<tables, cross, engine, due, faults>>
  BY DEF PostShare
<1>1. IsFiniteSet(shares)
  BY DEF Fetched
<1>2. w.batch \in AllBatches /\ w.headers = BatchCts(w.batch)
  BY DEF Fetched
<1>3. work' \in [Operators -> SUBSET {[batch |-> b, headers |-> BatchCts(b)] : b \in AllBatches}]
  BY DEF Fetched, PostShare
<1> DEFINE new == [op |-> o, batch |-> w.batch, own |-> TRUE, orphan |-> FALSE,
                   valid |-> o \in Honest /\ w.headers = BatchCts(w.batch)]
<1>4. verifying' = verifying \/ verifying' = verifying \cup {new}
  BY DEF PostShare
<1>5. /\ new.op = o /\ new.batch = w.batch /\ new.own = TRUE /\ new.orphan = FALSE
      /\ new.valid = (o \in Honest /\ w.headers = BatchCts(w.batch))
      /\ new = [op |-> new.op, batch |-> new.batch, own |-> new.own, orphan |-> new.orphan, valid |-> new.valid]
  BY Zenon
<1> HIDE DEF new
<1>6. new.valid \in BOOLEAN /\ (new.valid <=> new.own /\ new.op \in Honest)
  BY <1>2, <1>5, Zenon
<1>7. new \in Submissions
  BY <1>2, <1>5, <1>6 DEF Submissions
<1>10. Fetched'
  BY <1>0, <1>3, <1>4, <1>6, <1>7, SubmissionAdded
<1> QED BY <1>0, <1>1, <1>10, EngineKept, OpenedKept, OrderedKept, JoinedKept

LEMMA PostInNameStep ==
  ASSUME IInv, NEW o \in Operators, NEW b \in AllBatches, PostInName(o, b)
  PROVE  IInv'
PROOF
<1> USE DEF IInv, tables
<1>0. UNCHANGED <<tables, work, cross, engine, due, faults>>
  BY DEF PostInName
<1>1. IsFiniteSet(shares)
  BY DEF Fetched
<1> DEFINE new == [op |-> o, batch |-> b, own |-> FALSE, orphan |-> TRUE, valid |-> FALSE]
<1>2. verifying' = verifying \cup {new}
  BY DEF PostInName
<1>3. new \in Submissions /\ (new.valid <=> new.own /\ new.op \in Honest)
  BY DEF Submissions
<1> HIDE DEF new
<1>4. work' \in [Operators -> SUBSET {[batch |-> d, headers |-> BatchCts(d)] : d \in AllBatches}]
  BY <1>0 DEF Fetched
<1>5. Fetched'
  BY <1>0, <1>2, <1>3, <1>4, SubmissionAdded
<1> QED BY <1>0, <1>1, <1>5, EngineKept, OpenedKept, OrderedKept, JoinedKept

LEMMA StoreShareStep ==
  ASSUME IInv, NEW v \in verifying, StoreShare(v)
  PROVE  IInv' /\ shares \subseteq shares'
PROOF
<1> USE DEF IInv
<1>0. UNCHANGED <<status, sealed, order, intents, commits, predone, finalized, slots, reveals, cross, engine, due, faults>>
  BY DEF StoreShare
<1> DEFINE new == [batch |-> v.batch, op |-> v.op, own |-> v.own, verified |-> v.valid]
<1>1. v \in Submissions /\ (v.valid <=> v.own /\ v.op \in Honest)
  BY DEF Fetched
<1>2. new \in ShareRows /\ (new.verified <=> new.own /\ new.op \in Honest)
  BY <1>1 DEF Submissions, ShareRows
<1>3. shares' = shares \/ shares' = shares \cup {new}
  BY DEF StoreShare
<1> HIDE DEF new
<1>4. shares \subseteq shares' /\ shares' \subseteq ShareRows
  BY <1>2, <1>3 DEF Fetched
<1>5. IsFiniteSet(shares')
  BY <1>3, FS_AddElement DEF Fetched
<1>6. \A s \in shares' : s.verified <=> s.own /\ s.op \in Honest
  BY <1>2, <1>3 DEF Fetched, OnlyHonestVerify
<1>7. verifying' \subseteq verifying
  BY DEF StoreShare
<1>8. work' \in [Operators -> SUBSET {[batch |-> b, headers |-> BatchCts(b)] : b \in AllBatches}]
  BY <1>1 DEF StoreShare, Fetched, Submissions
<1>9. Fetched'
  BY <1>0, <1>4, <1>5, <1>6, <1>7, <1>8, OrderKept DEF Fetched, OnlyHonestVerify, Submissions, ShareRows
<1> QED BY <1>0, <1>4, <1>5, <1>9, EngineKept, OpenedKept, OrderedKept, JoinedKept

LEMMA RestartStep ==
  ASSUME IInv, CoordinatorRestart \/ \E o \in Operators : OperatorRestart(o)
  PROVE  IInv'
PROOF
<1> USE DEF IInv, tables
<1>0. UNCHANGED <<tables, due>>
  BY DEF CoordinatorRestart, OperatorRestart
<1>1. IsFiniteSet(shares)
  BY DEF Fetched
<1>2. work' \in [Operators -> SUBSET {[batch |-> b, headers |-> BatchCts(b)] : b \in AllBatches}]
  BY DEF Fetched, CoordinatorRestart, OperatorRestart
<1>3. \A v \in verifying' : \E u \in verifying : v = u \/ v = [u EXCEPT !.orphan = TRUE]
  BY DEF CoordinatorRestart, OperatorRestart
<1>4. /\ verifying' \subseteq Submissions
      /\ \A v \in verifying' : v.valid <=> v.own /\ v.op \in Honest
  BY <1>3 DEF Fetched, Submissions
<1>5. Fetched'
  BY <1>0, <1>2, <1>4, OrderKept DEF Fetched, OnlyHonestVerify, Submissions, ShareRows
<1>6. engine' = engine \/ engine' = Idle
  BY DEF CoordinatorRestart, OperatorRestart
<1>7. EngineKeepsUp'
  <2>1. CASE engine' = engine
    BY <1>0, <1>1, <2>1, EngineKept
  <2>2. CASE engine' = Idle
    BY <2>2 DEF EngineKeepsUp, Idle
  <2> QED BY <1>6, <2>1, <2>2
<1> QED BY <1>0, <1>1, <1>5, <1>7, OpenedKept, OrderedKept, JoinedKept

-----------------------------------------------------------------------------
(* The engine's steps keep the invariant *)

\* The steps that only read what is due.
LEMMA ReadStep ==
  ASSUME IInv, ReadDue \/ (\E seen \in SUBSET AtBlock : PollHeads(seen)) \/ ReadReady \/ ReadDone
  PROVE  IInv'
PROOF
<1> USE DEF IInv, tables, nodes
<1>0. UNCHANGED <<tables, nodes, due, faults>>
  BY DEF ReadDue, PollHeads, ReadReady, ReadDone
<1>1. IsFiniteSet(shares) /\ shares \subseteq shares' /\ IsFiniteSet(shares')
  BY <1>0 DEF Fetched
<1>2. Ordered' /\ Joined' /\ Fetched' /\ Opened'
  BY <1>0, <1>1, OpenedKept, OrderedKept, FetchedKept, JoinedKept
<1>3. /\ AllBatches' = AllBatches /\ (\A c : Batches(c)' = Batches(c)) /\ Pending' = Pending /\ Frozen' = Frozen
      /\ ToPublish' = ToPublish /\ \A b : Reached(b)' <=> Reached(b)
  BY <1>0, OrderKept DEF Pending, Frozen, ToPublish, Reached, VerifiedShares
<1>4. ToFinalize' = ToFinalize
  BY <1>0, <1>3 DEF ToFinalize
<1>5. CASE ReadDue \/ \E seen \in SUBSET AtBlock : PollHeads(seen)
  <2>1. PICK todo \in SUBSET Pending, at \in {"due", "heads"} : engine' = [Idle EXCEPT !.at = at, !.todo = todo]
    BY <1>5 DEF ReadDue, PollHeads, Fireable, Pending, Conditions
  <2> QED BY <1>2, <1>3, <2>1 DEF EngineKeepsUp, Idle
<1>6. CASE ReadReady
  <2>1. engine' = [Idle EXCEPT !.at = "ready", !.todo = Ready] /\ Ready \subseteq ToFinalize
    BY <1>6 DEF ReadReady, Ready, Unfinalized, ToFinalize, Reached
  <2> QED BY <1>2, <1>4, <2>1 DEF EngineKeepsUp, Idle
<1>7. CASE ReadDone
  <2>1. engine' = [Idle EXCEPT !.at = "done", !.todo = Done] /\ Done \subseteq ToPublish
    BY <1>7 DEF ReadDone, Done, Unrevealed, ToPublish, Frozen
  <2> QED BY <1>2, <1>3, <2>1 DEF EngineKeepsUp, Idle
<1> QED BY <1>5, <1>6, <1>7

LEMMA RealsAreSeals ==
  ASSUME NEW c, NEW reals \in RealsOf(c)
  PROVE  reals \in Seq(Seals)
PROOF
<1> DEFINE rows == {s \in Seals : sealed[s] = c}
<1>1. IsFiniteSet(rows)
  BY SealAssumption, FS_Subset
<1>2. Cardinality(rows) \in Nat /\ reals \in [1 .. Cardinality(rows) -> rows]
  BY <1>1, FS_CardinalityType DEF RealsOf
<1>3. reals \in [1 .. Cardinality(rows) -> Seals]
  BY <1>2
<1> HIDE DEF rows
<1> QED BY <1>2, <1>3, SeqDef

LEMMA FreezeReadStep ==
  ASSUME IInv, NEW c \in Conditions, FreezeRead(c)
  PROVE  IInv'
PROOF
<1> USE DEF IInv, tables, nodes
<1>0. UNCHANGED <<tables, nodes, cross, due, faults>>
  BY DEF FreezeRead
<1>1. IsFiniteSet(shares) /\ shares \subseteq shares' /\ IsFiniteSet(shares')
  BY <1>0 DEF Fetched
<1>2. Ordered' /\ Joined' /\ Fetched' /\ Opened'
  BY <1>0, <1>1, OpenedKept, OrderedKept, FetchedKept, JoinedKept
<1>3. PICK reals \in Seq(Seals) :
        engine' = [engine EXCEPT !.at = "seal", !.back = engine.at, !.cond = c, !.todo = @ \ {c}, !.reals = reals]
  BY RealsAreSeals DEF FreezeRead
<1>4. engine.at \in {"due", "heads"} /\ c \in engine.todo /\ engine.todo \subseteq Pending
  BY DEF FreezeRead, EngineKeepsUp
<1>5. /\ engine'.at = "seal" /\ engine'.back = engine.at /\ engine'.cond = c
      /\ engine'.todo = engine.todo \ {c} /\ engine'.reals = reals
      /\ engine' = [at |-> engine'.at, back |-> engine'.back, todo |-> engine'.todo,
                    cond |-> engine'.cond, reals |-> engine'.reals, batch |-> engine'.batch]
  BY <1>3 DEF EngineKeepsUp
<1>6. Pending' = Pending
  BY <1>0 DEF Pending
<1>7. EngineKeepsUp'
  BY <1>4, <1>5, <1>6 DEF EngineKeepsUp
<1> QED BY <1>2, <1>7

\* advance_condition_intents, from SUBMITTED to ORDER_COMMITTED.
LEMMA IntentsAdvance ==
  ASSUME Joined, NEW c \in Conditions, \A k \in DOMAIN intents : intents[k].cond = c => intents[k].state = "SUBMITTED"
  PROVE  /\ DOMAIN OrderCommitIntents(c) = DOMAIN intents
         /\ \A k \in DOMAIN intents :
              OrderCommitIntents(c)[k] =
                 IF intents[k].cond = c THEN [intents[k] EXCEPT !.state = "ORDER_COMMITTED"] ELSE intents[k]
PROOF
<1> DEFINE one == Advance(intents, c, "VALIDATED")
           two == Advance(one, c, "BATCHED")
           three == Advance(two, c, "ORDER_COMMITTED")
<1>0. \A k \in DOMAIN intents : intents[k] \in IntentRows
  BY DEF Joined
<1>1. /\ DOMAIN one = DOMAIN intents
      /\ \A k \in DOMAIN intents :
           one[k] = IF intents[k].cond = c THEN [intents[k] EXCEPT !.state = "VALIDATED"] ELSE intents[k]
  BY DEF Advance, NextStates
<1> HIDE DEF one
<1>2. /\ DOMAIN two = DOMAIN intents
      /\ \A k \in DOMAIN intents :
           two[k] = IF intents[k].cond = c THEN [intents[k] EXCEPT !.state = "BATCHED"] ELSE intents[k]
  BY <1>0, <1>1 DEF Advance, NextStates, IntentRows
<1> HIDE DEF two
<1>3. /\ DOMAIN three = DOMAIN intents
      /\ \A k \in DOMAIN intents :
           three[k] = IF intents[k].cond = c THEN [intents[k] EXCEPT !.state = "ORDER_COMMITTED"] ELSE intents[k]
  BY <1>0, <1>2 DEF Advance, NextStates, IntentRows
<1> QED BY <1>3 DEF OrderCommitIntents, one, two

\* What the freeze adds: the batches of its condition, each with its leaves.
LEMMA FreezeAdds ==
  ASSUME Ordered, EngineKeepsUp, FreezeCommit, NEW c \in Conditions, c = engine.cond
  PROVE  /\ c \in Pending /\ engine.todo \subseteq Pending /\ c \notin engine.todo /\ engine.back \in {"due", "heads"}
         /\ order'[c] = Padded(engine.reals) /\ order'[c] \in Seq(Cts) /\ order'[c] # <<>>
         /\ \A d \in Conditions : d # c => order'[d] = order[d] /\ Batches(d)' = Batches(d) /\ BatchCount(d)' = BatchCount(d)
         /\ order' \in [Conditions -> Seq(Cts)]
         /\ AllBatches' = AllBatches \cup Batches(c)'
         /\ \A b \in AllBatches : b[1] # c /\ BatchCts(b)' = BatchCts(b)
PROOF
<1>1. c \in Pending /\ engine.reals \in Seq(Seals) /\ engine.todo \subseteq Pending /\ c \notin engine.todo /\ engine.back \in {"due", "heads"}
  BY DEF FreezeCommit, EngineKeepsUp
<1>2. order' = [order EXCEPT ![c] = Padded(engine.reals)]
  BY DEF FreezeCommit
<1>3. Padded(engine.reals) \in Seq(Cts) /\ Padded(engine.reals) # <<>>
  BY <1>1, PaddedIsOrder
<1>4. /\ order'[c] = Padded(engine.reals)
      /\ \A d \in Conditions : d # c => order'[d] = order[d]
      /\ order' \in [Conditions -> Seq(Cts)]
  BY <1>2, <1>3 DEF Ordered
<1>5. Batches(c) = {}
  BY <1>1, PendingHasNoBatch
<1>6. \A d \in Conditions : d # c => Batches(d)' = Batches(d) /\ BatchCount(d)' = BatchCount(d)
  BY <1>4 DEF Batches, BatchCount
<1>7. AllBatches' = AllBatches \cup Batches(c)'
  <2>1. \A b : b \in AllBatches' <=> \E d \in Conditions : b \in Batches(d)'
    BY DEF AllBatches
  <2>2. \A b : b \in AllBatches <=> \E d \in Conditions : b \in Batches(d)
    BY DEF AllBatches
  <2>3. \A b : b \in AllBatches' => b \in AllBatches \/ b \in Batches(c)'
    BY <1>6, <2>1, <2>2
  <2>4. \A b : b \in AllBatches => b \in AllBatches'
    BY <1>5, <1>6, <2>1, <2>2
  <2>5. \A b : b \in Batches(c)' => b \in AllBatches'
    BY <2>1
  <2> QED BY <2>3, <2>4, <2>5
<1>8. \A b \in AllBatches : b[1] # c /\ BatchCts(b)' = BatchCts(b)
  BY <1>4, <1>5, BatchIsOf DEF BatchCts
<1> QED BY <1>1, <1>3, <1>4, <1>6, <1>7, <1>8

LEMMA LeavesAreCts ==
  ASSUME NEW S, NEW cts \in Seq(S)
  PROVE  [i \in DOMAIN OrderingLeaves(cts) |-> OrderingLeaves(cts)[i].ct] = cts
  BY DEF OrderingLeaves

LEMMA FreezeOrders ==
  ASSUME Ordered, EngineKeepsUp, FreezeCommit, NEW c \in Conditions, c = engine.cond
  PROVE  /\ Ordered'
         /\ \A b \in DOMAIN commits : b \in DOMAIN commits' /\ commits'[b] = commits[b]
PROOF
<1> DEFINE ordered == Padded(engine.reals)
           added == RecordCommitments(c, ordered)
<1>1. /\ c \in Pending /\ order'[c] = ordered /\ ordered \in Seq(Cts) /\ ordered # <<>>
      /\ \A d \in Conditions : d # c => order'[d] = order[d]
      /\ order' \in [Conditions -> Seq(Cts)]
      /\ AllBatches' = AllBatches \cup Batches(c)'
      /\ \A b \in AllBatches : b[1] # c /\ BatchCts(b)' = BatchCts(b)
  BY FreezeAdds
<1>2. status' = [status EXCEPT ![c] = "frozen"] /\ commits' = Over(commits, added)
  BY DEF FreezeCommit
<1> HIDE DEF ordered
<1>3. Batches(c)' = {<<c, k>> : k \in 1 .. (Len(ordered) \div B)}
  BY <1>1 DEF Batches, BatchCount
<1>4. DOMAIN added = Batches(c)' /\ \A b \in Batches(c)' : added[b] = OrderingLeaves(BatchSlice(ordered, b[2]))
  BY <1>3 DEF RecordCommitments
<1> HIDE DEF added
<1>5. DOMAIN commits = AllBatches
  BY DEF Ordered
<1>6. /\ DOMAIN commits' = AllBatches'
      /\ \A b \in AllBatches : commits'[b] = commits[b]
      /\ \A b \in Batches(c)' : b \notin AllBatches => commits'[b] = added[b]
  <2>1. commits' = [b \in DOMAIN commits \cup DOMAIN added |-> IF b \in DOMAIN commits THEN commits[b] ELSE added[b]]
    BY <1>2 DEF Over
  <2>2. AllBatches' = DOMAIN commits \cup DOMAIN added
    BY <1>1, <1>4, <1>5
  <2>3. commits' = [b \in AllBatches' |-> IF b \in AllBatches THEN commits[b] ELSE added[b]]
    BY <1>5, <2>1, <2>2
  <2>4. AllBatches \subseteq AllBatches' /\ Batches(c)' \subseteq AllBatches'
    BY <1>1
  <2> QED BY <2>3, <2>4
<1>7. ASSUME NEW b \in AllBatches'
      PROVE  [i \in DOMAIN commits'[b] |-> commits'[b][i].ct] = BatchCts(b)'
  <2>1. CASE b \in AllBatches
    <3>1. [i \in DOMAIN commits[b] |-> commits[b][i].ct] = BatchCts(b)
      BY <2>1 DEF Ordered
    <3>2. BatchCts(b)' = BatchCts(b) /\ commits'[b] = commits[b]
      BY <1>1, <1>6, <2>1
    <3> QED BY <3>1, <3>2
  <2>2. CASE b \in Batches(c)' /\ b \notin AllBatches
    <3>1. PICK k \in 1 .. (Len(ordered) \div B) : b = <<c, k>>
      BY <1>3, <2>2
    <3>2. BatchCts(b)' = BatchSlice(ordered, k)
      BY <1>1, <3>1 DEF BatchCts, BatchSlice
    <3>3. commits'[b] = OrderingLeaves(BatchSlice(ordered, k))
      BY <1>4, <1>6, <2>2, <3>1
    <3>4. BatchSlice(ordered, k) \in Seq(Cts)
      BY <1>1, SliceIsWhole
    <3> QED BY <3>2, <3>3, <3>4, LeavesAreCts
  <2> QED BY <1>1, <2>1, <2>2
<1>8. status' \in [Conditions -> {"pending", "frozen", "stalled", "revealed"}]
  BY <1>2 DEF Ordered
<1>9. \A d \in Conditions : status'[d] = "pending" <=> order'[d] = <<>>
  BY <1>1, <1>2 DEF Ordered
<1> QED BY <1>1, <1>5, <1>6, <1>7, <1>8, <1>9 DEF Ordered

LEMMA FreezeCommitStep ==
  ASSUME IInv, FreezeCommit
  PROVE  IInv'
PROOF
<1> USE DEF IInv
<1>0. UNCHANGED <<sealed, shares, predone, finalized, slots, reveals, nodes, cross, due, faults>>
  BY DEF FreezeCommit
<1>1. PICK c \in Conditions : c = engine.cond
  BY DEF FreezeCommit, EngineKeepsUp, Pending
<1>2. /\ c \in Pending /\ engine.todo \subseteq Pending /\ c \notin engine.todo /\ engine.back \in {"due", "heads"}
      /\ order'[c] # <<>>
      /\ \A d \in Conditions : d # c => order'[d] = order[d] /\ Batches(d)' = Batches(d) /\ BatchCount(d)' = BatchCount(d)
      /\ AllBatches' = AllBatches \cup Batches(c)'
      /\ \A b \in AllBatches : b[1] # c /\ BatchCts(b)' = BatchCts(b)
  BY <1>1, FreezeAdds
<1>3. Ordered'
  BY <1>1, FreezeOrders
<1>4. Joined'
  <2>1. \A k \in DOMAIN intents : intents[k].cond = c => intents[k].state = "SUBMITTED"
    BY <1>2, PendingHasNoBatch DEF Joined
  <2>2. intents' = OrderCommitIntents(c)
    BY <1>1 DEF FreezeCommit
  <2>3. /\ DOMAIN intents' = DOMAIN intents
        /\ \A k \in DOMAIN intents :
             intents'[k] = IF intents[k].cond = c THEN [intents[k] EXCEPT !.state = "ORDER_COMMITTED"] ELSE intents[k]
    BY <2>1, <2>2, IntentsAdvance
  <2>4. \A k \in DOMAIN intents : intents[k] \in IntentRows
    BY DEF Joined
  <2>5. \A k \in DOMAIN intents' : intents'[k] \in IntentRows /\ intents'[k].cond = intents[k].cond
    BY <2>3, <2>4 DEF IntentRows
  <2>6. intents' \in Seq(IntentRows)
    <3>1. intents \in Seq(IntentRows) /\ Len(intents) \in Nat /\ DOMAIN intents = 1 .. Len(intents)
      BY DEF Joined
    <3>2. intents' = [k \in DOMAIN intents |-> intents'[k]]
      BY <2>2 DEF OrderCommitIntents, Advance
    <3>3. intents' \in [1 .. Len(intents) -> IntentRows]
      BY <2>3, <2>5, <3>1, <3>2
    <3> QED BY <3>1, <3>3, SeqDef
  <2>7. \A k \in DOMAIN intents' : intents'[k].state = "SUBMITTED" <=> order'[intents'[k].cond] = <<>>
    BY <1>2, <2>3, <2>4, <2>5 DEF Joined, IntentRows
  <2> QED BY <1>0, <2>6, <2>7 DEF Joined
<1>5. Fetched'
  <2>1. AllBatches \subseteq AllBatches' /\ \A b \in AllBatches : BatchCts(b)' = BatchCts(b)
    BY <1>2
  <2>2. work' = work /\ verifying' = verifying /\ shares' = shares
    BY <1>0 DEF nodes
  <2>3. {[batch |-> b, headers |-> BatchCts(b)] : b \in AllBatches}
          \subseteq {[batch |-> b, headers |-> BatchCts(b)'] : b \in AllBatches'}
    BY <2>1
  <2>4. work' \in [Operators -> SUBSET {[batch |-> b, headers |-> BatchCts(b)'] : b \in AllBatches'}]
    BY <2>2, <2>3 DEF Fetched
  <2> QED BY <2>1, <2>2, <2>4 DEF Fetched, OnlyHonestVerify, Submissions, ShareRows
<1>6. Opened'
  <2>1. reveals[c] = None
    BY <1>2 DEF Opened, Pending
  <2>3. \A d \in Conditions : d # c => OpenedSlots(d)' = OpenedSlots(d) /\ status'[d] = status[d]
    BY <1>0, <1>1, <1>2 DEF OpenedSlots, FreezeCommit, Ordered
  <2>2. \A b : Reached(b)' <=> Reached(b)
    BY <1>0 DEF Reached, VerifiedShares
  <2>4. reveals' = [d \in Conditions |-> reveals'[d]]
    BY <1>0 DEF Opened
  <2>5. finalized' \subseteq AllBatches' /\ (\A b \in finalized' : Reached(b)') /\ DOMAIN slots' \subseteq finalized'
    BY <1>0, <1>2, <2>2 DEF Opened
  <2>6. \A d \in Conditions : reveals'[d] # None =>
          status'[d] # "pending" /\ Batches(d)' \subseteq finalized' /\ reveals'[d] = OpenedSlots(d)'
    BY <1>0, <1>2, <2>1, <2>3 DEF Opened
  <2> QED BY <2>4, <2>5, <2>6 DEF Opened
<1>7. EngineKeepsUp'
  <2>1. /\ engine'.at = "cross" /\ engine'.back = engine.back /\ engine'.todo = engine.todo
        /\ engine' = [at |-> engine'.at, back |-> engine'.back, todo |-> engine'.todo,
                      cond |-> engine'.cond, reals |-> engine'.reals, batch |-> engine'.batch]
    BY DEF FreezeCommit, EngineKeepsUp
  <2>2. engine.todo \subseteq Pending'
    BY <1>1, <1>2 DEF FreezeCommit, Pending, Ordered
  <2> QED BY <1>2, <2>1, <2>2 DEF EngineKeepsUp
<1> QED BY <1>3, <1>4, <1>5, <1>6, <1>7

\* What the engine does leaves the batches, their shares and what reached the
\* threshold alone.
LEMMA EngineOnly ==
  ASSUME UNCHANGED <<order, shares>>
  PROVE  /\ AllBatches' = AllBatches /\ (\A c : Batches(c)' = Batches(c)) /\ (\A b : Reached(b)' <=> Reached(b))
         /\ (UNCHANGED slots => \A c : OpenedSlots(c)' = OpenedSlots(c))
         /\ (UNCHANGED finalized => ToFinalize' = ToFinalize)
         /\ (UNCHANGED <<status, finalized>> => ToPublish' = ToPublish)
  BY OrderKept DEF Reached, VerifiedShares, ToFinalize, ToPublish, Frozen, OpenedSlots, BatchCount

LEMMA PreDecryptStep ==
  ASSUME IInv, PreDecrypt
  PROVE  IInv'
PROOF
<1> USE DEF IInv
<1>0. UNCHANGED <<status, sealed, order, intents, commits, shares, finalized, slots, reveals, nodes, due, faults>>
  BY DEF PreDecrypt
<1>1. IsFiniteSet(shares)
  BY DEF Fetched
<1>2. Ordered' /\ Joined' /\ Fetched' /\ Opened'
  BY <1>0, <1>1, OpenedKept, OrderedKept, FetchedKept, JoinedKept DEF nodes
<1>3. Pending' = Pending
  BY <1>0 DEF Pending
<1>4. engine.at = "cross" /\ engine.todo \subseteq Pending /\ engine.back \in {"due", "heads"}
  BY DEF PreDecrypt, EngineKeepsUp
<1>5. /\ engine'.at = "cross" \/ engine'.at = engine.back
      /\ engine'.at = "cross" => engine'.back = engine.back
      /\ engine'.todo = engine.todo
      /\ engine' = [at |-> engine'.at, back |-> engine'.back, todo |-> engine'.todo,
                    cond |-> engine'.cond, reals |-> engine'.reals, batch |-> engine'.batch]
  BY <1>4 DEF PreDecrypt, Idle, EngineKeepsUp
<1>6. EngineKeepsUp'
  BY <1>3, <1>4, <1>5 DEF EngineKeepsUp
<1> QED BY <1>2, <1>6

LEMMA RecoverStep ==
  ASSUME IInv, NEW b \in AllBatches, Recover(b)
  PROVE  IInv'
PROOF
<1> USE DEF IInv
<1>0. UNCHANGED <<status, sealed, order, intents, commits, shares, finalized, slots, reveals, nodes, due, faults>>
  BY DEF Recover
<1>1. IsFiniteSet(shares)
  BY DEF Fetched
<1>2. Ordered' /\ Joined' /\ Fetched' /\ Opened'
  BY <1>0, <1>1, OpenedKept, OrderedKept, FetchedKept, JoinedKept DEF nodes
<1>3. ToFinalize' = ToFinalize
  BY <1>0, EngineOnly
<1>4. engine.at = "ready" /\ b \in engine.todo /\ engine.todo \subseteq ToFinalize
  BY DEF Recover, EngineKeepsUp
<1>5. /\ engine'.at = "mark" /\ engine'.todo = engine.todo \ {b} /\ engine'.batch = b
      /\ engine' = [at |-> engine'.at, back |-> engine'.back, todo |-> engine'.todo,
                    cond |-> engine'.cond, reals |-> engine'.reals, batch |-> engine'.batch]
  BY DEF Recover, EngineKeepsUp
<1>6. EngineKeepsUp'
  BY <1>3, <1>4, <1>5 DEF EngineKeepsUp
<1> QED BY <1>2, <1>6

LEMMA MarkFinalizedStep ==
  ASSUME IInv, MarkFinalized
  PROVE  IInv'
PROOF
<1> USE DEF IInv
<1>0. UNCHANGED <<status, sealed, order, intents, commits, shares, predone, slots, reveals, nodes, cross, due, faults>>
  BY DEF MarkFinalized
<1>1. Ordered' /\ Joined' /\ Fetched'
  BY <1>0, OrderedKept, FetchedKept, JoinedKept DEF nodes
<1>2. PICK b \in ToFinalize : b = engine.batch /\ finalized' = finalized \cup {b} /\ b \notin engine.todo
  BY DEF MarkFinalized, EngineKeepsUp
<1>3. /\ AllBatches' = AllBatches /\ (\A c : Batches(c)' = Batches(c)) /\ (\A d : Reached(d)' <=> Reached(d))
      /\ \A c : OpenedSlots(c)' = OpenedSlots(c)
  BY <1>0, EngineOnly
<1>4. Opened'
  BY <1>0, <1>2, <1>3 DEF Opened, ToFinalize
<1>5. ToFinalize' = ToFinalize \ {b}
  BY <1>2, <1>3 DEF ToFinalize
<1>6. reveals[b[1]] = None
  <2>1. b[1] \in Conditions /\ b \in Batches(b[1]) /\ b \notin finalized
    BY <1>2, BatchIsOf DEF ToFinalize
  <2> QED BY <2>1 DEF Opened
<1>7. /\ engine'.at = "slots" /\ engine'.todo = engine.todo /\ engine'.batch = b
      /\ engine.todo \subseteq ToFinalize
      /\ engine' = [at |-> engine'.at, back |-> engine'.back, todo |-> engine'.todo,
                    cond |-> engine'.cond, reals |-> engine'.reals, batch |-> engine'.batch]
  BY <1>2 DEF MarkFinalized, EngineKeepsUp
<1>8. EngineKeepsUp'
  BY <1>0, <1>2, <1>5, <1>6, <1>7 DEF EngineKeepsUp
<1> QED BY <1>1, <1>4, <1>8

LEMMA StoreSlotsStep ==
  ASSUME IInv, StoreSlots
  PROVE  IInv'
PROOF
<1> USE DEF IInv
<1>0. UNCHANGED <<status, sealed, order, intents, commits, shares, predone, finalized, reveals, nodes, due, faults>>
  BY DEF StoreSlots
<1>1. Ordered' /\ Joined' /\ Fetched'
  BY <1>0, OrderedKept, FetchedKept, JoinedKept DEF nodes
<1>2. PICK b \in finalized : b = engine.batch /\ reveals[b[1]] = None
  BY DEF StoreSlots, EngineKeepsUp
<1>3. slots' = Over([d \in {b} |-> engine.reals], slots)
  BY <1>2 DEF StoreSlots
<1>4. DOMAIN slots' = DOMAIN slots \cup {b} /\ \A d \in DOMAIN slots : d # b => slots'[d] = slots[d]
  BY <1>3 DEF Over
<1>5. ASSUME NEW c \in Conditions, reveals[c] # None
      PROVE  OpenedSlots(c)' = OpenedSlots(c)
  <2>1. \A k : <<c, k>> # b
    BY <1>2, <1>5
  <2>2. \A k : <<c, k>> \in DOMAIN slots' <=> <<c, k>> \in DOMAIN slots
    BY <1>4, <2>1
  <2>3. \A k : (IF <<c, k>> \in DOMAIN slots' THEN slots'[<<c, k>>] ELSE <<>>)
                = (IF <<c, k>> \in DOMAIN slots THEN slots[<<c, k>>] ELSE <<>>)
    BY <1>4, <2>1, <2>2
  <2>4. BatchCount(c)' = BatchCount(c)
    BY <1>0, OrderKept
  <2>5. [k \in 1 .. BatchCount(c)' |-> IF <<c, k>> \in DOMAIN slots' THEN slots'[<<c, k>>] ELSE <<>>]
          = [k \in 1 .. BatchCount(c) |-> IF <<c, k>> \in DOMAIN slots THEN slots[<<c, k>>] ELSE <<>>]
    BY <2>3, <2>4
  <2> QED BY <2>5 DEF OpenedSlots
<1>6. /\ AllBatches' = AllBatches /\ (\A c : Batches(c)' = Batches(c)) /\ (\A d : Reached(d)' <=> Reached(d))
      /\ ToFinalize' = ToFinalize
  BY <1>0, EngineOnly
<1>7. Opened'
  BY <1>0, <1>2, <1>4, <1>5, <1>6 DEF Opened
<1>8. EngineKeepsUp'
  BY <1>6 DEF EngineKeepsUp, StoreSlots, Idle
<1> QED BY <1>1, <1>7, <1>8

LEMMA BuildRevealStep ==
  ASSUME IInv, NEW c \in Conditions, BuildReveal(c)
  PROVE  IInv' /\ (reveals[c] # None => reveals' = reveals)
PROOF
<1> USE DEF IInv
<1>0. UNCHANGED <<status, sealed, order, intents, commits, shares, predone, finalized, slots, nodes, cross, due, faults>>
  BY DEF BuildReveal
<1>1. Ordered' /\ Joined' /\ Fetched'
  BY <1>0, OrderedKept, FetchedKept, JoinedKept DEF nodes
<1>2. /\ AllBatches' = AllBatches /\ (\A d : Batches(d)' = Batches(d)) /\ (\A b : Reached(b)' <=> Reached(b))
      /\ (\A d : OpenedSlots(d)' = OpenedSlots(d)) /\ ToPublish' = ToPublish
  BY <1>0, EngineOnly
<1>3. reveals' = [reveals EXCEPT ![c] = OpenedSlots(c)] /\ reveals = [d \in Conditions |-> reveals[d]]
  BY DEF BuildReveal, Opened
<1>4. engine.at = "done" /\ c \in engine.todo /\ engine.todo \subseteq ToPublish
  BY DEF BuildReveal, EngineKeepsUp
<1>5. status[c] # "pending" /\ Batches(c) \subseteq finalized
  BY <1>4 DEF ToPublish, Frozen
<1>6. Opened'
  BY <1>0, <1>2, <1>3, <1>5 DEF Opened
<1>7. /\ engine'.at = "publish" /\ engine'.todo = engine.todo \ {c} /\ engine'.cond = c
      /\ engine' = [at |-> engine'.at, back |-> engine'.back, todo |-> engine'.todo,
                    cond |-> engine'.cond, reals |-> engine'.reals, batch |-> engine'.batch]
  BY DEF BuildReveal, EngineKeepsUp
<1>8. EngineKeepsUp'
  BY <1>2, <1>4, <1>7 DEF EngineKeepsUp
<1>9. reveals[c] # None => reveals' = reveals
  BY <1>3 DEF Opened
<1> QED BY <1>1, <1>6, <1>8, <1>9

\* publish, and mark_stalled, move frozen conditions only.
LEMMA StatusStep ==
  ASSUME IInv, MarkRevealed \/ \E late \in SUBSET Conditions : MarkStalled(late)
  PROVE  IInv' /\ \A c \in Conditions : status[c] = "revealed" => status'[c] = "revealed"
PROOF
<1> USE DEF IInv
<1>0. UNCHANGED <<sealed, order, intents, commits, shares, predone, finalized, slots, reveals, nodes, cross, due, faults>>
  BY DEF MarkRevealed, MarkStalled
<1>1. Joined' /\ Fetched'
  BY <1>0, FetchedKept, JoinedKept DEF nodes
<1>2. /\ AllBatches' = AllBatches /\ (\A d : Batches(d)' = Batches(d)) /\ (\A b : Reached(b)' <=> Reached(b))
      /\ (\A d : OpenedSlots(d)' = OpenedSlots(d))
  BY <1>0, EngineOnly
<1>3. /\ status' \in [Conditions -> {"pending", "frozen", "stalled", "revealed"}]
      /\ \A c \in Conditions : status'[c] = status[c] \/ (c \in Frozen /\ status'[c] \in {"stalled", "revealed"})
      /\ \A c \in Conditions : status[c] = "revealed" => status'[c] = "revealed"
  <2>1. CASE MarkRevealed
    <3>1. PICK c \in Frozen : c = engine.cond
      BY <2>1 DEF MarkRevealed, EngineKeepsUp, ToPublish
    <3> QED BY <2>1, <3>1 DEF MarkRevealed, Ordered, Frozen
  <2>2. CASE \E late \in SUBSET Conditions : MarkStalled(late)
    BY <2>2 DEF MarkStalled, Ordered, Frozen
  <2> QED BY <2>1, <2>2
<1>4. \A c \in Conditions : status'[c] = "pending" <=> status[c] = "pending"
  BY <1>3 DEF Frozen
<1>5. Ordered'
  BY <1>0, <1>2, <1>3, <1>4, OrderKept DEF Ordered
<1>6. Opened'
  BY <1>0, <1>2, <1>4 DEF Opened
<1>7. EngineKeepsUp'
  <2>1. CASE MarkRevealed
    <3>1. /\ engine'.at = "done" /\ engine'.todo = engine.todo
          /\ engine' = [at |-> engine'.at, back |-> engine'.back, todo |-> engine'.todo,
                        cond |-> engine'.cond, reals |-> engine'.reals, batch |-> engine'.batch]
          /\ engine.todo \subseteq ToPublish /\ engine.cond \notin engine.todo
      BY <2>1 DEF MarkRevealed, EngineKeepsUp
    <3>2. \A c \in Conditions : c # engine.cond => status'[c] = status[c]
      BY <2>1 DEF MarkRevealed, Ordered
    <3>3. engine.todo \subseteq ToPublish'
      BY <1>0, <1>2, <3>1, <3>2 DEF ToPublish, Frozen
    <3> QED BY <3>1, <3>3 DEF EngineKeepsUp
  <2>2. CASE \E late \in SUBSET Conditions : MarkStalled(late)
    BY <2>2 DEF MarkStalled, EngineKeepsUp, Idle
  <2> QED BY <2>1, <2>2
<1> QED BY <1>1, <1>3, <1>5, <1>6, <1>7

\* A statement of the engine fails: it goes on, or ends the pass.
LEMMA EngineFailsStep ==
  ASSUME IInv, QueryFails \/ FreezeFails \/ FinalizeFails \/ RevealFails \/ \E x \in engine.todo : ItemFails(x)
  PROVE  IInv'
PROOF
<1> USE DEF IInv, tables, nodes
<1>0. UNCHANGED <<tables, nodes, due>>
  BY DEF QueryFails, FreezeFails, FinalizeFails, RevealFails, ItemFails
<1>1. IsFiniteSet(shares)
  BY DEF Fetched
<1>2. Ordered' /\ Joined' /\ Fetched' /\ Opened'
  BY <1>0, <1>1, OpenedKept, OrderedKept, FetchedKept, JoinedKept
<1>3. Pending' = Pending /\ ToFinalize' = ToFinalize /\ ToPublish' = ToPublish
  BY <1>0, EngineOnly DEF Pending
<1>4. EngineKeepsUp'
  <2>1. CASE QueryFails
    BY <2>1 DEF QueryFails, EngineKeepsUp, Idle
  <2>2. CASE FreezeFails
    BY <1>3, <2>2 DEF FreezeFails, EngineKeepsUp, Idle
  <2>3. CASE FinalizeFails
    BY <1>3, <2>3 DEF FinalizeFails, EngineKeepsUp, Idle
  <2>4. CASE RevealFails
    <3>1. /\ engine.at = "publish" /\ engine'.at = "done" /\ engine'.todo = engine.todo
          /\ engine' = [at |-> engine'.at, back |-> engine'.back, todo |-> engine'.todo,
                        cond |-> engine'.cond, reals |-> engine'.reals, batch |-> engine'.batch]
      BY <2>4 DEF RevealFails, EngineKeepsUp
    <3> QED BY <1>3, <3>1 DEF EngineKeepsUp
  <2>5. CASE \E x \in engine.todo : ItemFails(x)
    <3>1. /\ engine.at \in {"due", "heads", "ready", "done"} /\ engine'.at = engine.at /\ engine'.todo \subseteq engine.todo
          /\ engine' = [at |-> engine'.at, back |-> engine'.back, todo |-> engine'.todo,
                        cond |-> engine'.cond, reals |-> engine'.reals, batch |-> engine'.batch]
      BY <2>5 DEF ItemFails, EngineKeepsUp
    <3> QED BY <1>3, <3>1 DEF EngineKeepsUp
  <2> QED BY <2>1, <2>2, <2>3, <2>4, <2>5
<1> QED BY <1>2, <1>4

\* The row of a share is not written.
LEMMA ShareFailsStep ==
  ASSUME IInv, NEW v \in verifying, ShareFails(v)
  PROVE  IInv'
PROOF
<1> USE DEF IInv, tables
<1>0. UNCHANGED <<tables, cross, engine, due>> /\ verifying' \subseteq verifying
  BY DEF ShareFails
<1>1. IsFiniteSet(shares)
  BY DEF Fetched
<1>2. work' \in [Operators -> SUBSET {[batch |-> b, headers |-> BatchCts(b)] : b \in AllBatches}]
  BY DEF ShareFails, Fetched, Submissions
<1>3. Fetched'
  BY <1>0, <1>2, OrderKept DEF Fetched, OnlyHonestVerify, Submissions, ShareRows
<1> QED BY <1>0, <1>1, <1>3, EngineKept, OpenedKept, OrderedKept, JoinedKept

-----------------------------------------------------------------------------
(* Theorems *)

LEMMA StepKeeps == IInv /\ [Next]_vars => IInv'
PROOF
<1> SUFFICES ASSUME IInv, [Next]_vars PROVE IInv'
  OBVIOUS
<1>1. CASE Tick
  BY <1>1, ReadStep, FreezeReadStep, FreezeCommitStep, PreDecryptStep, RecoverStep, MarkFinalizedStep,
     StoreSlotsStep, BuildRevealStep, StatusStep DEF Tick
<1>2. CASE \E o \in Operators : Answer(o)
  BY <1>2, GetWorkStep, PostShareStep, StoreShareStep DEF Answer
<1>3. CASE \/ \E c \in Conditions : FallDue(c)
           \/ \E c \in Conditions, s \in Seals : SubmitCiphertext(c, s)
           \/ \E i \in IntentIds, s \in Seals : SubmitIntent(i, s)
  BY <1>3, FallDueStep, SubmitCiphertextStep, SubmitIntentStep
<1>4. CASE CoordinatorRestart \/ \E o \in Operators : OperatorRestart(o)
  BY <1>4, RestartStep
<1>6. CASE \E o \in Named, b \in AllBatches : PostInName(o, b)
  BY <1>6, PostInNameStep, CommitteeAssumption
<1>7. CASE QueryFails \/ FreezeFails \/ FinalizeFails \/ RevealFails \/ \E x \in engine.todo : ItemFails(x)
  BY <1>7, EngineFailsStep
<1>8. CASE \E v \in verifying : ShareFails(v)
  BY <1>8, ShareFailsStep
<1>5. CASE UNCHANGED vars
  <2>1. IsFiniteSet(shares)
    BY DEF IInv, Fetched
  <2> QED BY <1>5, <2>1, EngineKept, OpenedKept, OrderedKept, FetchedKept, JoinedKept DEF IInv, vars
<1> QED BY <1>1, <1>2, <1>3, <1>4, <1>5, <1>6, <1>7, <1>8 DEF Next

\* The invariant holds in every reachable state, whatever crashes and however
\* the engine, the clients and the operators interleave.
THEOREM EngineInvariant == Spec => []IInv
PROOF
<1> QED BY InvInit, StepKeeps, PTL DEF Spec

\* No operator is handed, answers or sees opened a batch whose ordering is not
\* committed (freeze_condition's one transaction; get_work; finalize_batch).
THEOREM CommittedAlwaysBeforeWork == Spec => []CommittedBeforeWork
PROOF
<1>1. IInv => CommittedBeforeWork
  <2> SUFFICES ASSUME IInv PROVE CommittedBeforeWork
    OBVIOUS
  <2>1. \A o \in Operators : \A w \in work[o] : w.batch \in AllBatches
    BY DEF IInv, Fetched
  <2>2. \A s \in shares : s.batch \in AllBatches
    BY DEF IInv, Fetched, ShareRows
  <2>3. finalized \subseteq AllBatches
    BY DEF IInv, Opened
  <2> QED BY <2>1, <2>2, <2>3 DEF CommittedBeforeWork, IInv, Ordered
<1> QED BY <1>1, EngineInvariant, PTL

\* Nothing is opened below the threshold, and a share counts exactly when an
\* honest operator made it itself: whatever anybody stores under its name, and
\* however late the batch is read (get_work; submit_share's two locks).
THEOREM SharesAlwaysDecide == Spec => []SharesDecide
PROOF
<1>1. IInv => SharesDecide
  <2> SUFFICES ASSUME IInv, NEW b \in AllBatches, b \in finalized \/ b \in DOMAIN slots \/ reveals[b[1]] # None
               PROVE  Reached(b)
    BY DEF SharesDecide, OpenedByThreshold, Reached, IInv, Fetched
  <2>1. b[1] \in Conditions /\ b \in Batches(b[1])
    BY BatchIsOf
  <2>2. b \in finalized
    BY <2>1 DEF IInv, Opened
  <2> QED BY <2>2 DEF IInv, Opened
<1> QED BY <1>1, EngineInvariant, PTL

Published ==
    /\ \A c \in Conditions : order[c] # <<>> => order'[c] = order[c]
    /\ \A b \in DOMAIN commits : b \in DOMAIN commits' /\ commits'[b] = commits[b]
    /\ \A c \in Conditions : reveals[c] # None => reveals'[c] = reveals[c]
    /\ \A c \in Conditions : status[c] = "revealed" => status'[c] = "revealed"
    /\ shares \subseteq shares'

LEMMA StepPublishes == IInv /\ [Next]_vars => Published
PROOF
<1> SUFFICES ASSUME IInv, [Next]_vars PROVE Published
  OBVIOUS
<1>1. CASE FreezeCommit
  <2>1. PICK c \in Conditions : c = engine.cond /\ c \in Pending
    BY <1>1 DEF FreezeCommit, IInv, EngineKeepsUp, Pending
  <2>2. /\ \A d \in Conditions : d # c => order'[d] = order[d]
        /\ \A b \in DOMAIN commits : b \in DOMAIN commits' /\ commits'[b] = commits[b]
    BY <1>1, <2>1, FreezeAdds, FreezeOrders DEF IInv
  <2>3. order[c] = <<>> /\ status[c] = "pending"
    BY <2>1, PendingHasNoBatch DEF IInv, Pending
  <2>4. \A d \in Conditions : d # c => status'[d] = status[d]
    BY <1>1, <2>1 DEF FreezeCommit, IInv, Ordered
  <2> QED BY <1>1, <2>2, <2>3, <2>4 DEF FreezeCommit, Published
<1>2. CASE \E c \in Conditions : BuildReveal(c)
  <2>1. PICK c \in Conditions : BuildReveal(c)
    BY <1>2
  <2>2. \A d \in Conditions : reveals[d] # None => reveals'[d] = reveals[d]
    BY <2>1, BuildRevealStep DEF BuildReveal, IInv, Opened
  <2> QED BY <2>1, <2>2 DEF BuildReveal, Published
<1>3. CASE MarkRevealed \/ \E late \in SUBSET Conditions : MarkStalled(late)
  BY <1>3, StatusStep DEF MarkRevealed, MarkStalled, Published
<1>4. CASE \E o \in Operators : \E v \in verifying : StoreShare(v)
  BY <1>4, StoreShareStep DEF StoreShare, Published
<1>5. CASE UNCHANGED <<order, commits, reveals, status, shares>>
  BY <1>5 DEF Published
<1>6. [Next]_vars => \/ FreezeCommit
                     \/ \E c \in Conditions : BuildReveal(c)
                     \/ MarkRevealed \/ \E late \in SUBSET Conditions : MarkStalled(late)
                     \/ \E o \in Operators : \E v \in verifying : StoreShare(v)
                     \/ UNCHANGED <<order, commits, reveals, status, shares>>
  <2>1. Tick => \/ FreezeCommit
                \/ \E c \in Conditions : BuildReveal(c)
                \/ MarkRevealed \/ \E late \in SUBSET Conditions : MarkStalled(late)
                \/ UNCHANGED <<order, commits, reveals, status, shares>>
    BY DEF Tick, ReadDue, PollHeads, FreezeRead, PreDecrypt, ReadReady, Recover, MarkFinalized, StoreSlots, ReadDone, tables
  <2>2. \A o \in Operators : Answer(o) => (\E v \in verifying : StoreShare(v)) \/ UNCHANGED <<order, commits, reveals, status, shares>>
    BY DEF Answer, GetWork, PostShare, tables
  <2>3. ASSUME \/ \E c \in Conditions : FallDue(c)
               \/ \E c \in Conditions, s \in Seals : SubmitCiphertext(c, s)
               \/ \E i \in IntentIds, s \in Seals : SubmitIntent(i, s)
               \/ CoordinatorRestart
               \/ \E o \in Named, b \in AllBatches : PostInName(o, b)
               \/ \E o \in Operators : OperatorRestart(o)
               \/ QueryFails \/ FreezeFails \/ FinalizeFails \/ RevealFails
               \/ \E x \in engine.todo : ItemFails(x)
               \/ \E v \in verifying : ShareFails(v)
        PROVE  UNCHANGED <<order, commits, reveals, status, shares>>
    BY <2>3 DEF FallDue, SubmitCiphertext, SubmitIntent, PostInName, CoordinatorRestart, OperatorRestart,
                QueryFails, FreezeFails, FinalizeFails, RevealFails, ItemFails, ShareFails, tables
  <2> QED BY <2>1, <2>2, <2>3 DEF Next, vars
<1> QED BY <1>1, <1>2, <1>3, <1>4, <1>5, <1>6

\* Positions, ordering commitments, reveals, the status opened and verdicts on
\* shares never change once there (freeze_condition; record_commitment;
\* build_reveal's INSERT OR REPLACE; submit_share's INSERT OR IGNORE).
THEOREM PublishedAlwaysStands == Spec => PublishedStands
PROOF
<1>1. IInv /\ [Next]_vars => [Published]_vars
  BY StepPublishes
<1>2. Spec => [][Published]_vars
  BY <1>1, EngineInvariant, PTL DEF Spec
<1> QED BY <1>2 DEF PublishedStands, Published

-----------------------------------------------------------------------------
(* The intents follow the order *)

\* What has a position is what was sealed to the condition, but for what was
\* accepted after the freeze's read; each leaf names the oldest intent.
Placed ==
    /\ \A c \in Conditions, s \in Seals :
          order[c] # <<>> => (s \in ToSet(order[c]) <=> sealed[s] = c /\ s \notin missed)
    /\ engine.at = "seal" => \A s \in Seals : s \in ToSet(engine.reals) <=> sealed[s] = engine.cond /\ s \notin missed
    /\ \A k \in DOMAIN intents : sealed[intents[k].seal] = intents[k].cond
    /\ \A b \in AllBatches : \A p \in DOMAIN commits[b] : commits[b][p].intent = BoundIntent(commits[b][p].ct)

\* The ascending sequence of a condition's seals has all of them.
LEMMA RealsAreAll ==
  ASSUME NEW c, NEW reals \in RealsOf(c)
  PROVE  ToSet(reals) = {s \in Seals : sealed[s] = c}
PROOF
<1> DEFINE rows == {s \in Seals : sealed[s] = c}
           n == Cardinality(rows)
<1>1. IsFiniteSet(rows) /\ rows \subseteq Nat
  BY SealAssumption, FS_Subset
<1>2. n \in Nat /\ reals \in [1 .. n -> rows] /\ \A i, j \in 1 .. n : i < j => reals[i] < reals[j]
  BY <1>1, FS_CardinalityType DEF RealsOf
<1>3. IsFiniteSet(1 .. n) /\ Cardinality(1 .. n) = n
  BY <1>2, FS_Interval
<1> HIDE DEF n
<1>4. ASSUME NEW i \in 1 .. n, NEW j \in 1 .. n, reals[i] = reals[j]
      PROVE  i = j
  <2>1. reals[i] \in Nat /\ reals[j] \in Nat
    BY <1>1, <1>2
  <2>2. ~ (i < j) /\ ~ (j < i)
    BY <1>2, <1>4, <2>1
  <2> QED BY <1>2, <2>2
<1> HIDE DEF rows
<1>5. reals \in Injection(1 .. n, rows)
  BY <1>2, <1>4 DEF Injection, IsInjective
<1>6. reals \in Surjection(1 .. n, rows)
  BY <1>1, <1>3, <1>5, FS_Injection DEF n
<1>7. \A s \in rows : \E i \in 1 .. n : reals[i] = s
  BY <1>6 DEF Surjection
<1>8. ToSet(reals) = rows
  BY <1>2, <1>7 DEF ToSet
<1> QED BY <1>8 DEF rows

\* Padding adds no seal and drops none.
LEMMA PaddedHolds ==
  ASSUME NEW reals \in Seq(Seals), NEW s \in Seals
  PROVE  s \in ToSet(Padded(reals)) <=> s \in ToSet(reals)
PROOF
<1> DEFINE batches == IF reals = <<>> THEN 1 ELSE (Len(reals) + B - 1) \div B
<1>1. B \in Nat \ {0} /\ Len(reals) \in Nat
  BY CommitteeAssumption
<1>2. batches \in Nat /\ Len(reals) <= batches * B
  <2>1. CASE reals = <<>>
    BY <1>1, <2>1
  <2>2. CASE reals # <<>>
    <3> DEFINE m == Len(reals) + B - 1
               q == m \div B
    <3>1. m \in Nat
      BY <1>1
    <3> HIDE DEF m
    <3>2. q \in Nat /\ m < (q + 1) * B
      BY <1>1, <3>1
    <3> HIDE DEF q
    <3>3. (q + 1) * B = q * B + B /\ q * B \in Nat
      BY <1>1, <3>2
    <3>4. Len(reals) <= q * B
      BY <1>1, <3>2, <3>3 DEF m
    <3>5. batches = q
      BY <2>2 DEF q, m
    <3> QED BY <3>2, <3>4, <3>5
  <2> QED BY <2>1, <2>2
<1>3. Padded(reals) = [i \in 1 .. batches * B |-> IF i <= Len(reals) THEN reals[i] ELSE Padding]
  BY DEF Padded, batches
<1> HIDE DEF batches
<1> DEFINE last == batches * B
<1>4. last \in Nat /\ Len(reals) <= last
  BY <1>1, <1>2
<1> HIDE DEF last
<1>5. DOMAIN Padded(reals) = 1 .. last /\ \A i \in 1 .. last : Padded(reals)[i] = IF i <= Len(reals) THEN reals[i] ELSE Padding
  BY <1>3 DEF last
<1>6. s # Padding
  BY SealAssumption
<1>7. DOMAIN reals = 1 .. Len(reals) /\ 1 .. Len(reals) \subseteq 1 .. last
  BY <1>1, <1>4
<1>8. ASSUME NEW i \in 1 .. last, Padded(reals)[i] = s
      PROVE  s \in ToSet(reals)
  BY <1>1, <1>5, <1>6, <1>7, <1>8 DEF ToSet
<1>9. ASSUME NEW i \in 1 .. Len(reals), reals[i] = s
      PROVE  s \in ToSet(Padded(reals))
  BY <1>1, <1>5, <1>7, <1>9 DEF ToSet
<1> QED BY <1>5, <1>7, <1>8, <1>9 DEF ToSet

\* What a leaf is for has a position.
LEMMA LeafInOrder ==
  ASSUME Ordered, NEW b \in AllBatches, NEW p \in DOMAIN commits[b]
  PROVE  order[b[1]] # <<>> /\ commits[b][p].ct \in ToSet(order[b[1]])
PROOF
<1>0. PICK c \in Conditions : b \in Batches(c)
  BY DEF AllBatches
<1>1. PICK k \in 1 .. (Len(order[c]) \div B) : b = <<c, k>>
  BY <1>0 DEF Batches, BatchCount
<1>2. order[c] \in Seq(Cts)
  BY <1>0 DEF Ordered
<1>3. B \in Nat \ {0} /\ Len(order[c]) \in Nat
  BY <1>2, CommitteeAssumption
<1> DEFINE n == Len(order[c])
           q == n \div B
           from == (k - 1) * B
           to == k * B
<1>4. k \in 1 .. q
  BY <1>1
<1> HIDE DEF n
<1>11. n \in Nat /\ B \in Nat \ {0}
  BY <1>3 DEF n
<1>12. q \in Nat /\ q * B <= n
  BY <1>11
<1> HIDE DEF q
<1>13. k \in Nat /\ 1 <= k /\ k <= q
  BY <1>4, <1>12
<1>14. to <= q * B
  BY <1>3, <1>12, <1>13
<1>15. from \in Nat /\ to \in Nat /\ from + B = to
  BY <1>3, <1>13
<1>16. q * B \in Nat
  BY <1>3, <1>12
<1> HIDE DEF from, to
<1>5. to <= Len(order[c])
  BY <1>3, <1>12, <1>14, <1>15, <1>16 DEF n
<1>6. BatchCts(b) = SubSeq(order[c], from + 1, to)
  BY <1>1 DEF BatchCts, BatchSlice, from, to
<1>7. \A i \in from + 1 .. to : order[c][i] \in ToSet(order[c])
  BY <1>2, <1>3, <1>5, <1>15 DEF ToSet
<1>8. BatchCts(b) \in Seq(ToSet(order[c]))
  BY <1>6, <1>7, <1>15, SubSeqProperties
<1>9. p \in DOMAIN BatchCts(b) /\ commits[b][p].ct = BatchCts(b)[p]
  BY DEF Ordered
<1>10. commits[b][p].ct \in ToSet(order[c])
  BY <1>8, <1>9
<1>17. order[c] # <<>>
  BY <1>10 DEF ToSet
<1> QED BY <1>1, <1>10, <1>17

\* The oldest intent of a ciphertext stays what it is while later ones join and
\* states advance.
Oldest(rows) == CHOOSE i \in rows : \A j \in rows : i <= j

LEMMA BoundKept ==
  ASSUME intents \in Seq(IntentRows), NEW ct, DOMAIN intents \subseteq DOMAIN intents',
         \A k \in DOMAIN intents : intents'[k].seal = intents[k].seal /\ intents'[k].id = intents[k].id,
         \A k \in DOMAIN intents' : k \in DOMAIN intents \/ intents'[k].seal # ct
  PROVE  BoundIntent(ct)' = BoundIntent(ct)
PROOF
<1> DEFINE rows == {i \in DOMAIN intents : intents[i].seal = ct}
           later == {i \in DOMAIN intents' : intents'[i].seal = ct}
<1>1. later = rows
  OBVIOUS
<1>2. BoundIntent(ct) = IF rows = {} THEN None ELSE intents[Oldest(rows)].id
  BY Zenon DEF BoundIntent, Oldest
<1>3. BoundIntent(ct)' = IF later = {} THEN None ELSE intents'[Oldest(later)].id
  BY Zenon DEF BoundIntent, Oldest
<1>4. rows \subseteq DOMAIN intents /\ rows \subseteq Nat
  OBVIOUS
<1> HIDE DEF rows, later
<1>5. ASSUME rows # {} PROVE intents'[Oldest(rows)].id = intents[Oldest(rows)].id
  <2>1. \E i \in rows : \A j \in rows : i <= j
    BY <1>4, <1>5, LeastNatural
  <2>2. Oldest(rows) \in rows
    BY <2>1 DEF Oldest
  <2> QED BY <1>4, <2>2
<1>6. Oldest(later) = Oldest(rows)
  BY <1>1
<1> QED BY <1>1, <1>2, <1>3, <1>5, <1>6

\* A statement about every leaf, with its ciphertext named.
LEMMA LeavesBound ==
  ASSUME \A b \in AllBatches' : \A p \in DOMAIN commits'[b] : \A ct :
            ct = commits'[b][p].ct => commits'[b][p].intent = BoundIntent(ct)'
  PROVE  (\A b \in AllBatches : \A p \in DOMAIN commits[b] : commits[b][p].intent = BoundIntent(commits[b][p].ct))'
  BY DEF BoundIntent

LEMMA PlacedInit == Init => Placed
PROOF
<1> SUFFICES ASSUME Init PROVE Placed
  OBVIOUS
<1>1. \A c \in Conditions : Batches(c) = {}
  <2>1. Len(<<>>) \div B = 0
    BY CommitteeAssumption
  <2> QED BY <2>1 DEF Init, Batches, BatchCount
<1>2. AllBatches = {}
  BY <1>1 DEF AllBatches
<1> QED BY <1>2 DEF Init, Placed, Idle

\* Steps that only move the engine, or nothing of this.
LEMMA PlacedKept ==
  ASSUME Placed, UNCHANGED <<sealed, order, intents, commits, missed>>, engine' = engine \/ engine'.at # "seal"
  PROVE  Placed'
PROOF
<1>1. AllBatches' = AllBatches /\ \A ct : BoundIntent(ct)' = BoundIntent(ct)
  BY OrderKept DEF BoundIntent
<1> QED BY <1>1 DEF Placed

LEMMA PlacedSeal ==
  ASSUME IInv, Placed, NEW c \in Conditions, NEW s \in Seals, SubmitCiphertext(c, s)
  PROVE  Placed'
PROOF
<1>1. /\ sealed' = [sealed EXCEPT ![s] = c] /\ UNCHANGED <<order, intents, commits, engine>>
      /\ missed' = IF engine.at = "seal" /\ engine.cond = c THEN missed \cup {s} ELSE missed
      /\ sealed[s] = None /\ status[c] = "pending"
  BY DEF SubmitCiphertext
<1>2. order[c] = <<>> /\ sealed \in [Seals -> Conditions \cup {None}] /\ None \notin Conditions
  BY <1>1, NullAssumption DEF IInv, Ordered, Joined
<1>3. AllBatches' = AllBatches /\ \A ct : BoundIntent(ct)' = BoundIntent(ct)
  BY <1>1, OrderKept DEF BoundIntent
<1>4. sealed'[s] = c /\ \A u \in Seals : u # s => sealed'[u] = sealed[u] /\ (u \in missed' <=> u \in missed)
  BY <1>1, <1>2
<1>5. ASSUME NEW d \in Conditions, NEW u \in Seals, order'[d] # <<>>
      PROVE  u \in ToSet(order'[d]) <=> sealed'[u] = d /\ u \notin missed'
  BY <1>1, <1>2, <1>4, <1>5 DEF Placed
<1>6. ASSUME engine'.at = "seal", NEW u \in Seals
      PROVE  u \in ToSet(engine'.reals) <=> sealed'[u] = engine'.cond /\ u \notin missed'
  <2>1. engine.cond \in Conditions
    BY <1>1, <1>6 DEF IInv, EngineKeepsUp, Pending
  <2> QED BY <1>1, <1>2, <1>4, <1>6, <2>1 DEF Placed
<1>7. \A k \in DOMAIN intents' : sealed'[intents'[k].seal] = intents'[k].cond
  <2>0. \A k \in DOMAIN intents : intents[k] \in IntentRows
    BY DEF IInv, Joined
  <2>1. \A k \in DOMAIN intents : intents[k].seal \in Seals /\ intents[k].cond \in Conditions
    BY <2>0 DEF IntentRows
  <2> QED BY <1>1, <1>2, <1>4, <2>1 DEF Placed
<1> QED BY <1>1, <1>3, <1>5, <1>6, <1>7 DEF Placed

LEMMA PlacedIntent ==
  ASSUME IInv, Placed, NEW i \in IntentIds, NEW s \in Seals, SubmitIntent(i, s)
  PROVE  Placed'
PROOF
<1> DEFINE row == [id |-> i, seal |-> s, cond |-> sealed[s], state |-> "SUBMITTED"]
<1>1. /\ intents' = Append(intents, row) /\ UNCHANGED <<order, sealed, commits, engine, missed>>
      /\ sealed[s] # None /\ status[sealed[s]] = "pending"
  BY DEF SubmitIntent, MayJoin, history
<1>2. intents \in Seq(IntentRows) /\ sealed[s] \in Conditions
  BY <1>1 DEF IInv, Joined
<1>3. row \in IntentRows /\ row.seal = s /\ row.cond = sealed[s]
  BY <1>2 DEF IntentRows
<1> HIDE DEF row
<1>4. /\ DOMAIN intents' = 1 .. Len(intents) + 1 /\ DOMAIN intents = 1 .. Len(intents) /\ Len(intents) \in Nat
      /\ \A k \in DOMAIN intents : intents'[k] = intents[k]
      /\ intents'[Len(intents) + 1] = row
  BY <1>1, <1>2, <1>3
<1>5. \A k \in DOMAIN intents' : k \in DOMAIN intents \/ intents'[k] = row
  BY <1>4
<1>6. order[sealed[s]] = <<>>
  BY <1>1, <1>2 DEF IInv, Ordered
<1>7. AllBatches' = AllBatches
  BY <1>1, OrderKept
<1>8. ASSUME NEW b \in AllBatches, NEW p \in DOMAIN commits[b], NEW ct, ct = commits[b][p].ct
      PROVE  commits[b][p].intent = BoundIntent(ct)'
  <2>1. order[b[1]] # <<>> /\ commits[b][p].ct \in ToSet(order[b[1]]) /\ b[1] \in Conditions
    BY LeafInOrder, BatchIsOf DEF IInv
  <2>2. ct # s
    BY <1>6, <1>8, <2>1 DEF Placed
  <2>3. DOMAIN intents \subseteq DOMAIN intents' /\ \A k \in DOMAIN intents' : k \in DOMAIN intents \/ intents'[k].seal # ct
    BY <1>3, <1>4, <1>5, <2>2
  <2>4. BoundIntent(ct)' = BoundIntent(ct)
    BY <1>2, <1>4, <2>3, BoundKept
  <2> QED BY <1>8, <2>4 DEF Placed
<1>9. \A k \in DOMAIN intents' : sealed'[intents'[k].seal] = intents'[k].cond
  BY <1>1, <1>3, <1>4, <1>5 DEF Placed
<1>10. \A b \in AllBatches' : \A p \in DOMAIN commits'[b] : \A ct :
          ct = commits'[b][p].ct => commits'[b][p].intent = BoundIntent(ct)'
  BY <1>1, <1>7, <1>8
<1>11. (\A b \in AllBatches : \A p \in DOMAIN commits[b] : commits[b][p].intent = BoundIntent(commits[b][p].ct))'
  BY <1>10, LeavesBound
<1> QED BY <1>1, <1>9, <1>11 DEF Placed

LEMMA PlacedRead ==
  ASSUME IInv, Placed, NEW c \in Conditions, FreezeRead(c)
  PROVE  Placed'
PROOF
<1>1. UNCHANGED <<sealed, order, intents, commits>> /\ missed' = {s \in missed : sealed[s] # c}
  BY DEF FreezeRead, tables
<1>2. PICK reals \in RealsOf(c) :
        engine' = [engine EXCEPT !.at = "seal", !.back = engine.at, !.cond = c, !.todo = @ \ {c}, !.reals = reals]
  BY DEF FreezeRead
<1>3. c \in Pending
  BY DEF FreezeRead, IInv, EngineKeepsUp
<1>4. order[c] = <<>>
  BY <1>3, PendingHasNoBatch DEF IInv
<1>5. AllBatches' = AllBatches /\ \A ct : BoundIntent(ct)' = BoundIntent(ct)
  BY <1>1, OrderKept DEF BoundIntent
<1>6. engine'.reals = reals /\ engine'.cond = c
  BY <1>2 DEF IInv, EngineKeepsUp
<1>7. \A s \in Seals : s \in ToSet(engine'.reals) <=> sealed'[s] = engine'.cond /\ s \notin missed'
  BY <1>1, <1>6, RealsAreAll
<1>8. ASSUME NEW d \in Conditions, NEW s \in Seals, order'[d] # <<>>
      PROVE  s \in ToSet(order'[d]) <=> sealed'[s] = d /\ s \notin missed'
  BY <1>1, <1>4, <1>8 DEF Placed
<1> QED BY <1>1, <1>5, <1>7, <1>8 DEF Placed

LEMMA PlacedFreeze ==
  ASSUME IInv, Placed, FreezeCommit
  PROVE  Placed'
PROOF
<1>1. PICK c \in Conditions : c = engine.cond /\ c \in Pending
  BY DEF FreezeCommit, EngineKeepsUp, Pending, IInv
<1> DEFINE ordered == Padded(engine.reals)
           added == RecordCommitments(c, ordered)
<1>2. /\ order'[c] = ordered /\ ordered \in Seq(Cts)
      /\ \A d \in Conditions : d # c => order'[d] = order[d]
      /\ AllBatches' = AllBatches \cup Batches(c)'
      /\ \A b \in AllBatches : b[1] # c
  BY <1>1, FreezeAdds DEF IInv
<1>3. /\ UNCHANGED <<sealed, missed>> /\ commits' = Over(commits, added)
      /\ engine.at = "seal" /\ engine.reals \in Seq(Seals) /\ engine'.at = "cross"
  BY <1>1 DEF FreezeCommit, IInv, EngineKeepsUp, history
<1>4. ASSUME NEW d \in Conditions, NEW s \in Seals, order'[d] # <<>>
      PROVE  s \in ToSet(order'[d]) <=> sealed'[s] = d /\ s \notin missed'
  <2>1. CASE d = c
    BY <1>1, <1>2, <1>3, <2>1, PaddedHolds DEF Placed
  <2>2. CASE d # c
    BY <1>2, <1>3, <1>4, <2>2 DEF Placed
  <2> QED BY <2>1, <2>2
<1>5. /\ DOMAIN intents' = DOMAIN intents
      /\ \A k \in DOMAIN intents : /\ intents'[k].seal = intents[k].seal /\ intents'[k].id = intents[k].id
                                   /\ intents'[k].cond = intents[k].cond
  <2>1. \A k \in DOMAIN intents : intents[k].cond = c => intents[k].state = "SUBMITTED"
    BY <1>1, PendingHasNoBatch DEF Joined, IInv
  <2>2. intents' = OrderCommitIntents(c)
    BY <1>1 DEF FreezeCommit
  <2>3. \A k \in DOMAIN intents : intents[k] \in IntentRows
    BY DEF IInv, Joined
  <2>4. /\ DOMAIN intents' = DOMAIN intents
        /\ \A k \in DOMAIN intents :
             intents'[k] = IF intents[k].cond = c THEN [intents[k] EXCEPT !.state = "ORDER_COMMITTED"] ELSE intents[k]
    BY <2>1, <2>2, IntentsAdvance DEF IInv
  <2> QED BY <2>3, <2>4 DEF IntentRows
<1>6. \A ct : BoundIntent(ct)' = BoundIntent(ct)
  BY <1>5, BoundKept DEF IInv, Joined
<1> HIDE DEF ordered
<1>7. Batches(c)' = {<<c, k>> : k \in 1 .. (Len(ordered) \div B)}
  BY <1>2 DEF Batches, BatchCount
<1>8. DOMAIN added = Batches(c)' /\ \A b \in Batches(c)' : added[b] = OrderingLeaves(BatchSlice(ordered, b[2]))
  BY <1>7 DEF RecordCommitments
<1> HIDE DEF added
<1>9. ASSUME NEW b \in AllBatches', NEW p \in DOMAIN commits'[b], NEW ct, ct = commits'[b][p].ct
      PROVE  commits'[b][p].intent = BoundIntent(ct)'
  <2>0. DOMAIN commits = AllBatches
    BY DEF IInv, Ordered
  <2>1. CASE b \in AllBatches
    <3>1. commits'[b] = commits[b]
      BY <1>3, <2>0, <2>1 DEF Over
    <3>2. commits[b][p].intent = BoundIntent(ct)
      BY <1>9, <2>1, <3>1 DEF Placed
    <3> QED BY <1>6, <3>1, <3>2
  <2>2. CASE b \in Batches(c)' /\ b \notin AllBatches
    <3>1. commits'[b] = OrderingLeaves(BatchSlice(ordered, b[2]))
      BY <1>3, <1>8, <2>0, <2>2 DEF Over
    <3>2. commits'[b][p].intent = BoundIntent(ct)
      BY <1>9, <3>1 DEF OrderingLeaves
    <3> QED BY <1>6, <3>2
  <2> QED BY <1>2, <2>1, <2>2
<1>11. (\A b \in AllBatches : \A p \in DOMAIN commits[b] : commits[b][p].intent = BoundIntent(commits[b][p].ct))'
  BY <1>9, LeavesBound
<1>10. \A k \in DOMAIN intents' : sealed'[intents'[k].seal] = intents'[k].cond
  BY <1>3, <1>5 DEF Placed
<1> QED BY <1>3, <1>4, <1>10, <1>11 DEF Placed

\* After a crash or a failed statement the engine is between two items.
LEMMA FailsGoOn ==
  ASSUME IInv,
         CoordinatorRestart \/ QueryFails \/ FreezeFails \/ FinalizeFails \/ RevealFails \/ \E x \in engine.todo : ItemFails(x)
  PROVE  engine'.at \in {"idle", "due", "heads", "ready", "done"}
PROOF
<1>1. CASE CoordinatorRestart \/ QueryFails
  BY <1>1 DEF CoordinatorRestart, QueryFails, Idle
<1>5. CASE FinalizeFails
  BY <1>5 DEF FinalizeFails, Idle
<1>2. CASE FreezeFails
  BY <1>2 DEF FreezeFails, Idle, IInv, EngineKeepsUp
<1>3. CASE RevealFails
  BY <1>3 DEF RevealFails, IInv, EngineKeepsUp
<1>4. CASE \E x \in engine.todo : ItemFails(x)
  BY <1>4 DEF ItemFails, IInv, EngineKeepsUp
<1> QED BY <1>1, <1>2, <1>3, <1>4, <1>5

LEMMA PlacedStep == IInv /\ Placed /\ [Next]_vars => Placed'
PROOF
<1> SUFFICES ASSUME IInv, Placed, [Next]_vars PROVE Placed'
  OBVIOUS
<1>1. CASE FreezeCommit
  BY <1>1, PlacedFreeze
<1>2. CASE \E c \in Conditions : FreezeRead(c)
  BY <1>2, PlacedRead
<1>3. CASE \E c \in Conditions, s \in Seals : SubmitCiphertext(c, s)
  BY <1>3, PlacedSeal
<1>4. CASE \E i \in IntentIds, s \in Seals : SubmitIntent(i, s)
  BY <1>4, PlacedIntent
<1>5. CASE \/ ReadDue \/ (\E seen \in SUBSET AtBlock : PollHeads(seen)) \/ ReadReady \/ ReadDone
           \/ (\E b \in AllBatches : Recover(b)) \/ MarkFinalized \/ StoreSlots
           \/ (\E c \in Conditions : BuildReveal(c)) \/ MarkRevealed \/ (\E late \in SUBSET Conditions : MarkStalled(late))
  <2>1. UNCHANGED <<sealed, order, intents, commits, missed>>
    BY <1>5 DEF ReadDue, PollHeads, ReadReady, ReadDone, Recover, MarkFinalized, StoreSlots, BuildReveal, MarkRevealed,
                MarkStalled, tables, history
  <2>2. engine'.at # "seal"
    <3>1. CASE ReadDue \/ (\E seen \in SUBSET AtBlock : PollHeads(seen)) \/ ReadReady
      BY <3>1 DEF ReadDue, PollHeads, ReadReady, Idle
    <3>3. CASE ReadDone
      BY <3>3 DEF ReadDone, Idle
    <3>4. CASE StoreSlots
      BY <3>4 DEF StoreSlots, Idle
    <3>5. CASE \E late \in SUBSET Conditions : MarkStalled(late)
      BY <3>5 DEF MarkStalled, Idle
    <3>2. CASE (\E b \in AllBatches : Recover(b)) \/ MarkFinalized \/ (\E c \in Conditions : BuildReveal(c)) \/ MarkRevealed
      BY <3>2 DEF Recover, MarkFinalized, BuildReveal, MarkRevealed, IInv, EngineKeepsUp
    <3> QED BY <1>5, <3>1, <3>2, <3>3, <3>4, <3>5
  <2> QED BY <2>1, <2>2, PlacedKept
<1>6. CASE PreDecrypt
  <2>1. UNCHANGED <<sealed, order, intents, commits, missed>>
    BY <1>6 DEF PreDecrypt, history
  <2>2. engine'.at # "seal"
    BY <1>6 DEF PreDecrypt, Idle, IInv, EngineKeepsUp
  <2> QED BY <2>1, <2>2, PlacedKept
<1>7. CASE \/ UNCHANGED vars
           \/ \E o \in Operators : Answer(o)
           \/ \E c \in Conditions : FallDue(c)
           \/ \E o \in Named, b \in AllBatches : PostInName(o, b)
           \/ \E v \in verifying : ShareFails(v)
           \/ \E o \in Operators : OperatorRestart(o)
  <2>1. UNCHANGED <<sealed, order, intents, commits, missed, engine>>
    BY <1>7 DEF vars, Answer, GetWork, PostShare, StoreShare, FallDue, PostInName, ShareFails, OperatorRestart, tables, nodes, history
  <2> QED BY <2>1, PlacedKept
<1>8. CASE CoordinatorRestart \/ QueryFails \/ FreezeFails \/ FinalizeFails \/ RevealFails \/ \E x \in engine.todo : ItemFails(x)
  <2>1. UNCHANGED <<sealed, order, intents, commits, missed>>
    BY <1>8 DEF CoordinatorRestart, QueryFails, FreezeFails, FinalizeFails, RevealFails, ItemFails, tables, history
  <2>2. engine'.at # "seal"
    BY <1>8, FailsGoOn
  <2> QED BY <2>1, <2>2, PlacedKept
<1> QED BY <1>1, <1>2, <1>3, <1>4, <1>5, <1>6, <1>7, <1>8 DEF Next, Tick

\* The freeze commits the order of every intent of its condition, no intent joins
\* after it, each leaf names the oldest intent for its ciphertext, and the ones
\* left without a position are those for a ciphertext accepted while the freeze
\* was under way (freeze_condition; advance_condition_intents; submit_intent).
THEOREM IntentsAlwaysFollowOrder == Spec => []IntentsFollowOrder
PROOF
<1>1. ASSUME IInv, Placed PROVE IntentsFollowOrder
  <2> SUFFICES ASSUME NEW k \in DOMAIN intents, NEW i, i = intents[k], NEW c, c = i.cond
               PROVE  IF order[c] = <<>> THEN i.state = "SUBMITTED"
                      ELSE /\ i.state = "ORDER_COMMITTED"
                           /\ i.seal \in ToSet(order[c]) <=> i.seal \notin missed
                           /\ \A b \in Batches(c) : \A p \in DOMAIN commits[b] :
                                commits[b][p].ct = i.seal => commits[b][p].intent = BoundIntent(i.seal)
    BY DEF IntentsFollowOrder
  <2>1. i \in IntentRows
    BY <1>1 DEF IInv, Joined
  <2>2. c \in Conditions /\ i.seal \in Seals /\ i.state \in {"SUBMITTED", "ORDER_COMMITTED"}
    BY <2>1 DEF IntentRows
  <2>3. i.state = "SUBMITTED" <=> order[c] = <<>>
    BY <1>1 DEF IInv, Joined
  <2>4. sealed[i.seal] = c
    BY <1>1 DEF Placed
  <2>5. order[c] # <<>> => (i.seal \in ToSet(order[c]) <=> i.seal \notin missed)
    BY <1>1, <2>2, <2>4 DEF Placed
  <2>6. Batches(c) \subseteq AllBatches
    BY <2>2 DEF AllBatches
  <2> QED BY <1>1, <2>2, <2>3, <2>5, <2>6 DEF Placed
<1>2. Spec => [](IInv /\ Placed)
  <2>1. Init => IInv /\ Placed
    BY InvInit, PlacedInit
  <2>2. (IInv /\ Placed) /\ [Next]_vars => (IInv /\ Placed)'
    BY StepKeeps, PlacedStep
  <2> QED BY <2>1, <2>2, PTL DEF Spec
<1>3. IInv /\ Placed => IntentsFollowOrder
  BY <1>1
<1> QED BY <1>2, <1>3, PTL

-----------------------------------------------------------------------------
(* The reveal is whole *)

\* FlattenSeq's own recursion.
Flattens(f, seqs) == f = [i \in 1 .. Len(seqs) |-> IF i = 1 THEN seqs[i] ELSE f[i - 1] \o seqs[i]]

LEMMA FlattenUnfold ==
  ASSUME NEW seqs, Len(seqs) # 0
  PROVE  FlattenSeq(seqs) = (CHOOSE f : Flattens(f, seqs))[Len(seqs)]
  BY DEF FlattenSeq, Flattens

\* The equation has one solution.
LEMMA FlattenUnique ==
  ASSUME NEW seqs, Len(seqs) \in Nat, NEW f, Flattens(f, seqs), NEW g, Flattens(g, seqs)
  PROVE  f = g
PROOF
<1> DEFINE D == {i \in 1 .. Len(seqs) : f[i] # g[i]}
<1>1. ASSUME D # {} PROVE FALSE
  <2>0. D \subseteq Nat /\ D # {}
    BY <1>1
  <2> HIDE DEF D
  <2>1. PICK n \in D : \A m \in D : n <= m
    BY <2>0, LeastNatural
  <2> USE DEF D
  <2>2. n \in 1 .. Len(seqs) /\ f[n] # g[n]
    OBVIOUS
  <2>3. n # 1
    BY <2>2 DEF Flattens
  <2>4. n - 1 \in 1 .. Len(seqs) /\ ~(n <= n - 1)
    BY <2>2, <2>3
  <2>5. n - 1 \notin D
    BY <2>1, <2>4
  <2>6. f[n - 1] = g[n - 1]
    BY <2>4, <2>5
  <2>7. f[n] = f[n - 1] \o seqs[n] /\ g[n] = g[n - 1] \o seqs[n]
    BY <2>2, <2>3 DEF Flattens
  <2> QED BY <2>2, <2>6, <2>7
<1>2. \A i \in 1 .. Len(seqs) : f[i] = g[i]
  BY <1>1
<1> QED BY <1>2 DEF Flattens

\* Slices end to end are the sequence.
LEMMA SlicesFlatten ==
  ASSUME NEW S, NEW seq \in Seq(S), NEW n \in Nat, Len(seq) = n * B
  PROVE  FlattenSeq([k \in 1 .. n |-> BatchSlice(seq, k)]) = seq
PROOF
<1> DEFINE seqs == [k \in 1 .. n |-> BatchSlice(seq, k)]
           g == [i \in 1 .. n |-> SubSeq(seq, 1, i * B)]
<1>1. B \in Nat \ {0} /\ Len(seq) \in Nat
  BY CommitteeAssumption
<1>2. Len(seqs) = n
  OBVIOUS
<1>3. CASE n = 0
  <2>1. Len(seq) = 0 /\ 1 .. n = {}
    BY <1>1, <1>3
  <2>2. seq = <<>> /\ seqs = <<>>
    BY <2>1
  <2> QED BY <1>2, <1>3, <2>2 DEF FlattenSeq
<1>4. CASE n # 0
  <2>1. ASSUME NEW i \in 1 .. n
        PROVE  g[i] = IF i = 1 THEN seqs[i] ELSE g[i - 1] \o seqs[i]
    <3>1. i * B \in Nat /\ (i - 1) * B \in Nat /\ (i - 1) * B + B = i * B
      BY <1>1
    <3>2. i * B <= n * B
      BY <1>1
    <3>3. g[i] = SubSeq(seq, 1, i * B) /\ seqs[i] = SubSeq(seq, (i - 1) * B + 1, i * B)
      BY DEF BatchSlice
    <3>4. CASE i = 1
      <4>1. (i - 1) * B + 1 = 1
        BY <3>4, <1>1
      <4> QED BY <3>3, <3>4, <4>1
    <3>5. CASE i # 1
      <4>0. i - 1 \in 1 .. n
        BY <3>5
      <4>1. g[i - 1] = SubSeq(seq, 1, (i - 1) * B)
        BY <4>0
      <4> DEFINE p == (i - 1) * B  q == i * B
      <4>2. p \in Nat /\ q \in Nat /\ p <= q /\ q <= Len(seq)
        BY <3>1, <3>2, <1>1
      <4> HIDE DEF p, q
      <4>3. SubSeq(seq, 1, p) \o SubSeq(seq, p + 1, q) = SubSeq(seq, 1, q)
        BY <4>2, <1>1, ConcatAdjacentSubSeq
      <4>4. g[i - 1] = SubSeq(seq, 1, p) /\ seqs[i] = SubSeq(seq, p + 1, q) /\ g[i] = SubSeq(seq, 1, q)
        BY <4>1, <3>3 DEF p, q
      <4> QED BY <3>5, <4>3, <4>4
    <3> QED BY <3>4, <3>5
  <2>2. Flattens(g, seqs)
    BY <1>2, <2>1 DEF Flattens
  <2>3. Flattens(CHOOSE f : Flattens(f, seqs), seqs)
    BY <2>2
  <2>4. (CHOOSE f : Flattens(f, seqs)) = g
    BY <1>2, <2>2, <2>3, FlattenUnique
  <2>5. FlattenSeq(seqs) = g[n]
    BY <1>2, <1>4, <2>4, FlattenUnfold
  <2>6. g[n] = SubSeq(seq, 1, Len(seq))
    BY <1>4
  <2> QED BY <2>5, <2>6, SubSeqFull
<1> QED BY <1>3, <1>4

\* Orders are whole batches, what is stored of a batch is the batch, and a
\* finalized batch without its slots is being stored or was torn.
WholeInv ==
    /\ \A c \in Conditions : Len(order[c]) = BatchCount(c) * B
    /\ engine.at \in {"mark", "slots"} => engine.reals = BatchCts(engine.batch)
    /\ \A b \in DOMAIN slots : slots[b] = BatchCts(b)
    /\ \A c \in Conditions : status[c] = "revealed" => Batches(c) \subseteq finalized /\ reveals[c] = OpenedSlots(c)
    /\ engine.at = "slots" =>
          status[engine.batch[1]] # "revealed" /\ engine.batch \notin torn /\ engine.batch \notin DOMAIN slots
    /\ engine.at = "publish" => reveals[engine.cond] = OpenedSlots(engine.cond)
    /\ torn \subseteq finalized /\ torn \cap DOMAIN slots = {}
    /\ \A b \in finalized : b \in DOMAIN slots \/ b \in torn \/ (engine.at = "slots" /\ b = engine.batch)

LEMMA PaddedIsWhole ==
  ASSUME NEW reals \in Seq(Seals)
  PROVE  Len(Padded(reals)) = (Len(Padded(reals)) \div B) * B
PROOF
<1> DEFINE batches == IF reals = <<>> THEN 1 ELSE (Len(reals) + B - 1) \div B
<1>1. B \in Nat \ {0} /\ Len(reals) \in Nat
  BY CommitteeAssumption
<1>2. batches \in Nat
  BY <1>1
<1>3. Padded(reals) = [i \in 1 .. batches * B |-> IF i <= Len(reals) THEN reals[i] ELSE Padding]
  BY DEF Padded, batches
<1> HIDE DEF batches
<1>4. batches * B \in Nat
  BY <1>1, <1>2
<1>5. Len(Padded(reals)) = batches * B
  BY <1>3, <1>4
<1>6. (batches * B) \div B = batches
  BY <1>1, <1>2
<1> QED BY <1>5, <1>6

LEMMA WholeInit == Init => WholeInv
PROOF
<1> SUFFICES ASSUME Init PROVE WholeInv
  OBVIOUS
<1>1. Len(<<>>) = (Len(<<>>) \div B) * B
  BY CommitteeAssumption
<1> QED BY <1>1 DEF Init, WholeInv, Idle, BatchCount

\* Steps that leave the tables of the reveal and the engine's place alone.
LEMMA WholeKept ==
  ASSUME WholeInv, UNCHANGED <<order, slots, finalized, status, reveals, torn>>,
         \/ engine' = engine
         \/ engine.at \notin {"mark", "slots", "publish"} /\ engine'.at \notin {"mark", "slots", "publish"}
  PROVE  WholeInv'
PROOF
<1>1. /\ \A c : Batches(c)' = Batches(c) /\ BatchCount(c)' = BatchCount(c) /\ OpenedSlots(c)' = OpenedSlots(c)
      /\ \A b : BatchCts(b)' = BatchCts(b)
  BY OrderKept DEF OpenedSlots, BatchCount
<1> QED BY <1>1 DEF WholeInv

\* The engine stops, or goes on with something else: what it was storing is torn.
LEMMA WholeTorn ==
  ASSUME IInv, WholeInv, UNCHANGED <<order, slots, finalized, status, reveals>>,
         engine'.at \notin {"mark", "slots", "publish"},
         torn' = IF engine.at = "slots" THEN torn \cup {engine.batch} ELSE torn
  PROVE  WholeInv'
PROOF
<1>1. /\ \A c : Batches(c)' = Batches(c) /\ BatchCount(c)' = BatchCount(c) /\ OpenedSlots(c)' = OpenedSlots(c)
      /\ \A b : BatchCts(b)' = BatchCts(b)
  BY OrderKept DEF OpenedSlots, BatchCount
<1>2. engine.at = "slots" => engine.batch \in finalized
  BY DEF IInv, EngineKeepsUp
<1>3. torn' \subseteq finalized' /\ torn' \cap DOMAIN slots' = {}
  BY <1>2 DEF WholeInv
<1>4. \A b \in finalized' : b \in DOMAIN slots' \/ b \in torn'
  BY DEF WholeInv
<1> QED BY <1>1, <1>3, <1>4 DEF WholeInv

LEMMA WholeFails ==
  ASSUME IInv, WholeInv,
         CoordinatorRestart \/ QueryFails \/ FreezeFails \/ FinalizeFails \/ RevealFails \/ \E x \in engine.todo : ItemFails(x)
  PROVE  WholeInv'
PROOF
<1>1. UNCHANGED <<order, slots, finalized, status, reveals>>
  BY DEF CoordinatorRestart, QueryFails, FreezeFails, FinalizeFails, RevealFails, ItemFails, tables
<1>2. engine'.at \notin {"mark", "slots", "publish"}
  BY FailsGoOn
<1>3. torn' = IF engine.at = "slots" THEN torn \cup {engine.batch} ELSE torn
  BY DEF CoordinatorRestart, QueryFails, FreezeFails, FinalizeFails, RevealFails, ItemFails, history
<1> QED BY <1>1, <1>2, <1>3, WholeTorn

LEMMA WholeFreeze ==
  ASSUME IInv, WholeInv, FreezeCommit
  PROVE  WholeInv'
PROOF
<1>0. UNCHANGED <<finalized, slots, reveals, torn>>
  BY DEF FreezeCommit, history
<1>1. PICK c \in Pending : c = engine.cond
  BY DEF FreezeCommit, EngineKeepsUp, IInv
<1>2. /\ order'[c] = Padded(engine.reals)
      /\ \A d \in Conditions : d # c => order'[d] = order[d] /\ Batches(d)' = Batches(d) /\ BatchCount(d)' = BatchCount(d)
      /\ \A b \in AllBatches : b[1] # c /\ BatchCts(b)' = BatchCts(b)
  BY <1>1, FreezeAdds DEF IInv, Pending
<1>3. engine.reals \in Seq(Seals) /\ engine.at = "seal" /\ engine'.at = "cross"
  BY DEF FreezeCommit, EngineKeepsUp, IInv
<1>4. \A d \in Conditions : Len(order'[d]) = BatchCount(d)' * B
  BY <1>2, <1>3, PaddedIsWhole DEF BatchCount, WholeInv
<1>5. \A d \in Conditions : d # c => status'[d] = status[d] /\ OpenedSlots(d)' = OpenedSlots(d)
  BY <1>0, <1>1, <1>2 DEF FreezeCommit, OpenedSlots, IInv, Ordered
<1>6. status'[c] = "frozen"
  BY <1>1 DEF FreezeCommit, IInv, Ordered, Pending
<1>7. DOMAIN slots \subseteq AllBatches
  BY DEF IInv, Opened
<1>8. \A b \in DOMAIN slots' : slots'[b] = BatchCts(b)'
  BY <1>0, <1>2, <1>7 DEF WholeInv
<1>9. \A d \in Conditions : status'[d] = "revealed" => Batches(d)' \subseteq finalized' /\ reveals'[d] = OpenedSlots(d)'
  BY <1>0, <1>2, <1>5, <1>6 DEF WholeInv
<1> QED BY <1>0, <1>3, <1>4, <1>8, <1>9 DEF WholeInv

LEMMA WholeBatch ==
  ASSUME IInv, WholeInv, (\E b \in AllBatches : Recover(b)) \/ MarkFinalized \/ StoreSlots
  PROVE  WholeInv'
PROOF
<1>0. UNCHANGED <<order, status, reveals, shares, torn>>
  BY DEF Recover, MarkFinalized, StoreSlots, history
<1>1. /\ \A c : Batches(c)' = Batches(c) /\ BatchCount(c)' = BatchCount(c)
      /\ \A b : BatchCts(b)' = BatchCts(b)
  BY <1>0, OrderKept
<1>2. CASE \E b \in AllBatches : Recover(b)
  <2>1. PICK b \in AllBatches : Recover(b)
    BY <1>2
  <2>2. /\ engine.at = "ready" /\ engine'.at = "mark" /\ engine'.batch = b /\ engine'.reals = BatchCts(b)
        /\ UNCHANGED <<slots, finalized>>
    BY <2>1 DEF Recover, IInv, EngineKeepsUp
  <2>3. \A c : OpenedSlots(c)' = OpenedSlots(c)
    BY <1>1, <2>2 DEF OpenedSlots
  <2> QED BY <1>0, <1>1, <2>2, <2>3 DEF WholeInv
<1>3. CASE MarkFinalized
  <2>1. PICK b \in ToFinalize : /\ b = engine.batch /\ engine.at = "mark" /\ finalized' = finalized \cup {b} /\ UNCHANGED slots
                                /\ engine'.at = "slots" /\ engine'.batch = b /\ engine'.reals = engine.reals
    BY <1>3 DEF MarkFinalized, IInv, EngineKeepsUp
  <2>2. \A c : OpenedSlots(c)' = OpenedSlots(c)
    BY <1>1, <2>1 DEF OpenedSlots
  <2>3. b[1] \in Conditions /\ b \in Batches(b[1]) /\ b \notin finalized
    BY <2>1, BatchIsOf DEF ToFinalize
  <2>4. status[b[1]] # "revealed"
    BY <2>3 DEF WholeInv
  <2>5. b \notin torn /\ b \notin DOMAIN slots
    BY <2>3 DEF WholeInv, IInv, Opened
  <2> QED BY <1>0, <1>1, <2>1, <2>2, <2>4, <2>5 DEF WholeInv
<1>4. CASE StoreSlots
  <2>1. PICK b : /\ b = engine.batch /\ engine.at = "slots" /\ UNCHANGED finalized /\ engine'.at = "ready"
                 /\ slots' = Over([d \in {b} |-> engine.reals], slots)
    BY <1>4 DEF StoreSlots, Idle
  <2>2. engine.reals = BatchCts(b) /\ status[b[1]] # "revealed" /\ b \notin torn
    BY <2>1 DEF WholeInv
  <2>3. DOMAIN slots' = DOMAIN slots \cup {b} /\ slots'[b] = BatchCts(b) /\ \A d \in DOMAIN slots : d # b => slots'[d] = slots[d]
    BY <2>1, <2>2 DEF Over
  <2>4. ASSUME NEW c \in Conditions, status[c] = "revealed"
        PROVE  OpenedSlots(c)' = OpenedSlots(c)
    <3>1. \A k : <<c, k>> # b
      BY <2>2, <2>4
    <3>2. \A k : (IF <<c, k>> \in DOMAIN slots' THEN slots'[<<c, k>>] ELSE <<>>)
                  = (IF <<c, k>> \in DOMAIN slots THEN slots[<<c, k>>] ELSE <<>>)
      BY <2>3, <3>1
    <3>3. [k \in 1 .. BatchCount(c)' |-> IF <<c, k>> \in DOMAIN slots' THEN slots'[<<c, k>>] ELSE <<>>]
            = [k \in 1 .. BatchCount(c) |-> IF <<c, k>> \in DOMAIN slots THEN slots[<<c, k>>] ELSE <<>>]
      BY <1>1, <3>2
    <3> QED BY <3>3 DEF OpenedSlots
  <2>5. \A d \in DOMAIN slots' : slots'[d] = BatchCts(d)'
    BY <1>1, <2>3 DEF WholeInv
  <2>6. \A c \in Conditions : status'[c] = "revealed" => Batches(c)' \subseteq finalized' /\ reveals'[c] = OpenedSlots(c)'
    BY <1>0, <1>1, <2>1, <2>4 DEF WholeInv
  <2>7. torn' \subseteq finalized' /\ torn' \cap DOMAIN slots' = {}
    BY <1>0, <2>1, <2>2, <2>3 DEF WholeInv
  <2>8. \A d \in finalized' : d \in DOMAIN slots' \/ d \in torn'
    BY <1>0, <2>1, <2>3 DEF WholeInv
  <2> QED BY <1>0, <1>1, <2>1, <2>3, <2>5, <2>6, <2>7, <2>8 DEF WholeInv
<1> QED BY <1>2, <1>3, <1>4

LEMMA WholePublish ==
  ASSUME IInv, WholeInv, (\E c \in Conditions : BuildReveal(c)) \/ MarkRevealed \/ \E late \in SUBSET Conditions : MarkStalled(late)
  PROVE  WholeInv'
PROOF
<1>0. UNCHANGED <<order, slots, finalized, torn>>
  BY DEF BuildReveal, MarkRevealed, MarkStalled, history
<1>1. /\ \A c : Batches(c)' = Batches(c) /\ BatchCount(c)' = BatchCount(c) /\ OpenedSlots(c)' = OpenedSlots(c)
      /\ \A b : BatchCts(b)' = BatchCts(b)
  BY <1>0, OrderKept DEF OpenedSlots, BatchCount
<1>2. CASE \E c \in Conditions : BuildReveal(c)
  <2>1. PICK c \in Conditions : BuildReveal(c)
    BY <1>2
  <2>2. /\ reveals' = [reveals EXCEPT ![c] = OpenedSlots(c)] /\ reveals = [d \in Conditions |-> reveals[d]]
        /\ engine.at = "done" /\ engine'.at = "publish" /\ engine'.cond = c /\ status' = status
    BY <2>1 DEF BuildReveal, IInv, Opened, EngineKeepsUp
  <2>3. reveals'[c] = OpenedSlots(c) /\ \A d \in Conditions : d # c => reveals'[d] = reveals[d]
    BY <2>2
  <2> QED BY <1>0, <1>1, <2>2, <2>3 DEF WholeInv
<1>3. CASE MarkRevealed
  <2>1. PICK c \in ToPublish : /\ c = engine.cond /\ engine.at = "publish" /\ engine'.at = "done" /\ reveals' = reveals
                               /\ status' = [status EXCEPT ![c] = "revealed"]
    BY <1>3 DEF MarkRevealed, IInv, EngineKeepsUp
  <2>2. \A d \in Conditions : d # c => status'[d] = status[d]
    BY <2>1 DEF IInv, Ordered
  <2>3. Batches(c) \subseteq finalized /\ reveals[c] = OpenedSlots(c)
    BY <2>1 DEF ToPublish, WholeInv
  <2> QED BY <1>0, <1>1, <2>1, <2>2, <2>3 DEF WholeInv
<1>4. CASE \E late \in SUBSET Conditions : MarkStalled(late)
  <2>1. /\ engine.at = "done" /\ engine'.at = "idle" /\ reveals' = reveals
        /\ \A d \in Conditions : status'[d] = "revealed" => status[d] = "revealed"
    BY <1>4 DEF MarkStalled, Idle
  <2> QED BY <1>0, <1>1, <2>1 DEF WholeInv
<1> QED BY <1>2, <1>3, <1>4

LEMMA WholeStep == IInv /\ WholeInv /\ [Next]_vars => WholeInv'
PROOF
<1> SUFFICES ASSUME IInv, WholeInv, [Next]_vars PROVE WholeInv'
  OBVIOUS
<1>1. CASE FreezeCommit
  BY <1>1, WholeFreeze
<1>2. CASE (\E b \in AllBatches : Recover(b)) \/ MarkFinalized \/ StoreSlots
  BY <1>2, WholeBatch
<1>3. CASE (\E c \in Conditions : BuildReveal(c)) \/ MarkRevealed \/ \E late \in SUBSET Conditions : MarkStalled(late)
  BY <1>3, WholePublish
<1>4. CASE CoordinatorRestart \/ QueryFails \/ FreezeFails \/ FinalizeFails \/ RevealFails \/ \E x \in engine.todo : ItemFails(x)
  BY <1>4, WholeFails
<1>5. CASE \/ ReadDue \/ (\E seen \in SUBSET AtBlock : PollHeads(seen))
           \/ (\E c \in Conditions : FreezeRead(c)) \/ PreDecrypt \/ ReadReady \/ ReadDone
  <2>1. UNCHANGED <<order, slots, finalized, status, reveals, torn>>
    BY <1>5 DEF ReadDue, PollHeads, FreezeRead, PreDecrypt, ReadReady, ReadDone, tables, history
  <2>2. engine.at \notin {"mark", "slots", "publish"}
    BY <1>5 DEF ReadDue, PollHeads, FreezeRead, PreDecrypt, ReadReady, ReadDone
  <2>3. engine'.at \notin {"mark", "slots", "publish"}
    <3>1. CASE PreDecrypt
      BY <3>1 DEF PreDecrypt, Idle, IInv, EngineKeepsUp
    <3>2. CASE \E c \in Conditions : FreezeRead(c)
      BY <3>2 DEF FreezeRead, IInv, EngineKeepsUp
    <3>3. CASE ReadDue \/ (\E seen \in SUBSET AtBlock : PollHeads(seen)) \/ ReadReady \/ ReadDone
      BY <3>3 DEF ReadDue, PollHeads, ReadReady, ReadDone, Idle
    <3> QED BY <1>5, <3>1, <3>2, <3>3
  <2> QED BY <2>1, <2>2, <2>3, WholeKept
<1>6. CASE \/ UNCHANGED vars
           \/ \E o \in Operators : Answer(o)
           \/ \E c \in Conditions : FallDue(c)
           \/ \E c \in Conditions, s \in Seals : SubmitCiphertext(c, s)
           \/ \E i \in IntentIds, s \in Seals : SubmitIntent(i, s)
           \/ \E o \in Named, b \in AllBatches : PostInName(o, b)
           \/ \E o \in Operators : OperatorRestart(o)
           \/ \E v \in verifying : ShareFails(v)
  <2>1. UNCHANGED <<order, slots, finalized, status, reveals, torn, engine>>
    BY <1>6 DEF vars, Answer, GetWork, PostShare, StoreShare, FallDue, SubmitCiphertext, SubmitIntent, PostInName,
                OperatorRestart, ShareFails, tables, nodes, history
  <2> QED BY <2>1, WholeKept
<1> QED BY <1>1, <1>2, <1>3, <1>4, <1>5, <1>6 DEF Next, Tick

\* An opened round shows exactly the batches whose payloads were stored, in
\* position order: what was given a position and is missing was torn between the
\* two statements that finalize a batch, and nothing else that crashes or fails
\* costs a payload (finalize_batch; build_reveal concatenates the stored slots).
THEOREM RevealAlwaysExact == Spec => []RevealIsExact
PROOF
<1>1. ASSUME IInv, WholeInv, NEW c \in Conditions, status[c] = "revealed"
      PROVE  /\ Batches(c) \subseteq finalized
             /\ reveals[c] = FlattenSeq([k \in 1 .. BatchCount(c) |-> IF <<c, k>> \in torn THEN <<>> ELSE BatchCts(<<c, k>>)])
             /\ Batches(c) \cap torn = {} => reveals[c] = order[c]
  <2>1. Batches(c) \subseteq finalized /\ reveals[c] = OpenedSlots(c)
    BY <1>1 DEF WholeInv
  <2>2. ASSUME NEW k \in 1 .. BatchCount(c)
        PROVE  (IF <<c, k>> \in DOMAIN slots THEN slots[<<c, k>>] ELSE <<>>)
                 = (IF <<c, k>> \in torn THEN <<>> ELSE BatchCts(<<c, k>>))
    <3>1. <<c, k>> \in finalized
      BY <2>1 DEF Batches
    <3>2. ~ (engine.at = "slots" /\ <<c, k>> = engine.batch)
      BY <1>1 DEF WholeInv
    <3>3. <<c, k>> \in DOMAIN slots <=> <<c, k>> \notin torn
      BY <1>1, <3>1, <3>2 DEF WholeInv
    <3>4. <<c, k>> \in DOMAIN slots => slots[<<c, k>>] = BatchCts(<<c, k>>)
      BY <1>1 DEF WholeInv
    <3> QED BY <3>3, <3>4
  <2>3. reveals[c] = FlattenSeq([k \in 1 .. BatchCount(c) |-> IF <<c, k>> \in torn THEN <<>> ELSE BatchCts(<<c, k>>)])
    <3>1. [k \in 1 .. BatchCount(c) |-> IF <<c, k>> \in DOMAIN slots THEN slots[<<c, k>>] ELSE <<>>]
            = [k \in 1 .. BatchCount(c) |-> IF <<c, k>> \in torn THEN <<>> ELSE BatchCts(<<c, k>>)]
      BY <2>2
    <3> QED BY <2>1, <3>1 DEF OpenedSlots
  <2>4. order[c] \in Seq(Cts) /\ Len(order[c]) = BatchCount(c) * B
    BY <1>1 DEF IInv, Ordered, WholeInv
  <2>5. BatchCount(c) \in Nat
    <3>1. Len(order[c]) \in Nat /\ B \in Nat \ {0}
      BY <2>4, CommitteeAssumption
    <3>2. \A m \in Nat : m \div B \in Nat
      BY <3>1
    <3> QED BY <3>1, <3>2 DEF BatchCount
  <2>6. ASSUME Batches(c) \cap torn = {} PROVE reveals[c] = order[c]
    <3>1. \A k \in 1 .. BatchCount(c) : <<c, k>> \notin torn /\ BatchCts(<<c, k>>) = BatchSlice(order[c], k)
      BY <2>6 DEF Batches, BatchCts
    <3>2. [k \in 1 .. BatchCount(c) |-> IF <<c, k>> \in torn THEN <<>> ELSE BatchCts(<<c, k>>)]
            = [k \in 1 .. BatchCount(c) |-> BatchSlice(order[c], k)]
      BY <3>1
    <3> QED BY <2>3, <2>4, <2>5, <3>2, SlicesFlatten
  <2> QED BY <2>1, <2>3, <2>6
<1>2. IInv /\ WholeInv => RevealIsExact
  BY <1>1 DEF RevealIsExact
<1>3. Spec => [](IInv /\ WholeInv)
  <2>1. Init => IInv /\ WholeInv
    BY InvInit, WholeInit
  <2>2. (IInv /\ WholeInv) /\ [Next]_vars => (IInv /\ WholeInv)'
    BY StepKeeps, WholeStep
  <2> QED BY <2>1, <2>2, PTL DEF Spec
<1> QED BY <1>2, <1>3, PTL

-----------------------------------------------------------------------------
(* The v1 writes: the inductive invariant *)

Steps == Working \cup {"not sent", "answered", "refused", "lost", "failed"}

Specs == {q.spec : q \in Requests}
Rounds == [spec : Specs, status : {"pending", "frozen"}, by : Calls]

\* What a key's row can hold.
Rows == [round : 0 .. MaxRounds, spec : Specs]

CallRecords == [at : Steps, req : Requests \cup {Absent}, round : 0 .. MaxRounds, redeemed : BOOLEAN]

Typed ==
    /\ calls \in [Calls -> CallRecords]
    /\ idempotency \in [Keys -> Rows \cup {Absent}]
    /\ Len(conditions) \in 0 .. MaxRounds
    /\ conditions \in Seq(Rounds)

\* A call past its arrival keeps its request; only a round handler looks a key up.
Sent ==
    \A c \in Calls :
        /\ ~ At(c, {"not sent"}) => calls[c].req \in Requests
        /\ At(c, {"lookup", "create", "remember"}) => calls[c].req.op \in {"round", "lone", "auction"}
        /\ At(c, {"remember"}) => Key(c) # Absent

\* Every step a paying call takes behind the mount, and its answer, is redeemed.
Served == {"lookup", "create", "remember", "seal", "rules", "answered"}
Metered ==
    \A c \in Calls :
        /\ At(c, Served) /\ calls[c].req.pays # Absent => calls[c].redeemed
        /\ calls[c].redeemed => ~ At(c, {"not sent", "verify", "redeem"})

\* The rounds of key k whose maker did not stop.
Live(k) ==
    {r \in DOMAIN conditions : Key(conditions[r].by) = k /\ ~ At(conditions[r].by, Stopped)}

\* The call that made a round has been sent, so its request stands.
MakersSent == \A r \in DOMAIN conditions : ~ At(conditions[r].by, {"not sent"})

\* The calls that made a round for key k and have yet to remember it, and those
\* that know the key's round.
ToRemember(k) == {c \in Calls : At(c, {"remember"}) /\ Key(c) = k}
Informed(k) == {c \in Calls : At(c, {"seal", "rules", "answered"}) /\ Key(c) = k}

\* What a key relies on from its lookup to its row.
Flow(k) ==
    /\ \A c, d \in Creating(k) : c = d
    /\ Creating(k) # {} => idempotency[k] = Absent
    /\ \A r \in Live(k) :
          IF idempotency[k] = Absent
          THEN conditions[r].by \in ToRemember(k) /\ calls[conditions[r].by].round = r
          ELSE r = idempotency[k].round
    /\ \A c \in Informed(k) : idempotency[k] # Absent /\ calls[c].round = idempotency[k].round

KeyFlow == \A k \in Keys \ disturbed : Flow(k)

-----------------------------------------------------------------------------
(* What a step does to the calls *)

\* Where a call goes is a step, whatever its request.
LEMMA EntryIsStep == \A q : Entry(q) \in {"seal", "lookup"}
  BY DEF Entry

LEMMA AfterRoundIsStep ==
  ASSUME NEW op \in {"round", "lone", "auction"}
  PROVE  AfterRound(op) \in {"answered", "seal", "rules"}
  BY DEF AfterRound

\* What a step that moves one call does to every call's fields.
Moves(c, step, round, redeemed) ==
    /\ calls' \in [Calls -> CallRecords]
    /\ \A d \in Calls :
         /\ calls'[d].req = calls[d].req
         /\ calls'[d].at = IF d = c THEN step ELSE calls[d].at
         /\ calls'[d].round = IF d = c THEN round ELSE calls[d].round
         /\ calls'[d].redeemed = IF d = c THEN redeemed ELSE calls[d].redeemed

LEMMA MovesAt ==
  ASSUME Typed, NEW c \in Calls, NEW step \in Steps, calls' = [calls EXCEPT ![c].at = step]
  PROVE  Moves(c, step, calls[c].round, calls[c].redeemed)
  BY DEF Typed, Moves, CallRecords

LEMMA MovesRound ==
  ASSUME Typed, NEW c \in Calls, NEW step \in Steps, NEW r \in 0 .. MaxRounds,
         calls' = [calls EXCEPT ![c].at = step, ![c].round = r]
  PROVE  Moves(c, step, r, calls[c].redeemed)
  BY DEF Typed, Moves, CallRecords

LEMMA MovesRedeemed ==
  ASSUME Typed, NEW c \in Calls, NEW step \in Steps,
         calls' = [calls EXCEPT ![c].at = step, ![c].redeemed = TRUE]
  PROVE  Moves(c, step, calls[c].round, TRUE)
  BY DEF Typed, Moves, CallRecords

LEMMA TypedInit == ApiInit => Typed /\ Sent
PROOF
<1> SUFFICES ASSUME ApiInit PROVE Typed /\ Sent
  OBVIOUS
<1>1. NotSent \in CallRecords
  BY BoundsAssumption DEF NotSent, CallRecords, Steps, Working
<1>2. calls \in [Calls -> CallRecords]
  BY <1>1 DEF ApiInit
<1>3. Typed
  BY <1>2, BoundsAssumption DEF ApiInit, Typed
<1>4. Sent
  BY DEF ApiInit, Sent, At, NotSent
<1> QED BY <1>3, <1>4

\* A call's arrival touches that call alone.
Arrives(c, step, q) ==
    /\ calls' \in [Calls -> CallRecords]
    /\ \A d \in Calls \ {c} : calls'[d] = calls[d]
    /\ calls'[c].at = step /\ calls'[c].req = q /\ calls'[c].redeemed = FALSE

LEMMA ReceiveArrives ==
  ASSUME Typed, NEW c \in Calls, NEW q \in Requests, Receive(c, q)
  PROVE  \E step \in {"verify", "seal", "lookup"} :
            /\ Arrives(c, step, q)
            /\ step = "verify" <=> q.pays # Absent
            /\ step = "lookup" => q.op # "seal"
PROOF
<1> DEFINE step == IF q.pays = Absent THEN Entry(q) ELSE "verify"
<1>1. PICK r \in IF q.op = "seal" THEN DOMAIN conditions ELSE {0} :
        calls' = [calls EXCEPT ![c] = [at |-> step, req |-> q, round |-> r, redeemed |-> FALSE]]
  BY DEF Receive
<1>2. r \in 0 .. MaxRounds
  BY BoundsAssumption DEF Typed
<1>3. step \in {"verify", "seal", "lookup"} /\ (step = "verify" <=> q.pays # Absent)
      /\ (step = "lookup" => q.op # "seal")
  BY DEF Entry
<1>4. [at |-> step, req |-> q, round |-> r, redeemed |-> FALSE] \in CallRecords
  BY <1>2, <1>3 DEF CallRecords, Steps, Working
<1>5. Arrives(c, step, q)
  BY <1>1, <1>4 DEF Arrives, Typed
<1> QED BY <1>3, <1>5

\* Freezing a round changes its status alone.
LEMMA FreezeKeepsType ==
  ASSUME NEW S, NEW q \in Seq([spec : S, status : {"pending", "frozen"}, by : Calls]),
         NEW r \in 1 .. Len(q)
  PROVE  LET p == [q EXCEPT ![r].status = "frozen"] IN
         /\ p \in Seq([spec : S, status : {"pending", "frozen"}, by : Calls])
         /\ Len(p) = Len(q)
         /\ \A i \in 1 .. Len(q) : p[i].by = q[i].by
PROOF
<1> DEFINE x == [q[r] EXCEPT !.status = "frozen"]
<1>0. q[r] \in [spec : S, status : {"pending", "frozen"}, by : Calls]
  BY ElementOfSeq
<1>1. x \in [spec : S, status : {"pending", "frozen"}, by : Calls] /\ x.by = q[r].by
  BY <1>0
<1>2. [q EXCEPT ![r].status = "frozen"] = [q EXCEPT ![r] = x]
  OBVIOUS
<1> HIDE DEF x
<1> QED BY <1>1, <1>2, ExceptSeq

LEMMA CrashLoses ==
  ASSUME Typed, Crash
  PROVE  /\ calls' \in [Calls -> CallRecords]
         /\ \A d \in Calls :
              /\ calls'[d].req = calls[d].req /\ calls'[d].redeemed = calls[d].redeemed /\ calls'[d].round = calls[d].round
              /\ calls'[d].at = IF calls[d].at \in Working THEN "lost" ELSE calls[d].at
PROOF
<1>1. \A d \in Calls : calls[d] \in CallRecords
  BY DEF Typed
<1>2. \A d \in Calls : calls'[d] = IF calls[d].at \in Working THEN [calls[d] EXCEPT !.at = "lost"] ELSE calls[d]
  BY DEF Crash, At
<1>3. calls' = [d \in Calls |-> calls'[d]]
  BY DEF Crash
<1>4. \A d \in Calls :
        /\ calls'[d] \in CallRecords
        /\ calls'[d].req = calls[d].req /\ calls'[d].redeemed = calls[d].redeemed /\ calls'[d].round = calls[d].round
        /\ calls'[d].at = IF calls[d].at \in Working THEN "lost" ELSE calls[d].at
  BY <1>1, <1>2 DEF CallRecords, Steps
<1> QED BY <1>3, <1>4

LEMMA ReplayMoves ==
  ASSUME Typed, Sent, NEW c \in Calls, replay(c)
  PROVE  \/ /\ Moves(c, "create", calls[c].round, calls[c].redeemed)
            /\ Key(c) # Absent => idempotency[Key(c)] = Absent
         \/ \E step \in {"refused", "answered", "seal", "rules"}, r \in 0 .. MaxRounds :
               /\ Moves(c, step, r, calls[c].redeemed)
               /\ step # "refused" => idempotency[Key(c)] # Absent /\ r = idempotency[Key(c)].round
PROOF
<1> DEFINE q == calls[c].req
           found == Replay(q.key, q.spec)
<1>1. q \in Requests /\ AfterRound(q.op) \in {"answered", "seal", "rules"}
  BY AfterRoundIsStep DEF replay, Sent, At
<1>2. CASE found = "Fresh"
  <2>1. calls' = [calls EXCEPT ![c].at = "create"]
    BY <1>2 DEF replay, Goto
  <2>2. q.key # Absent => idempotency[q.key] = Absent
    BY <1>2 DEF Replay
  <2> QED BY <2>1, <2>2, MovesAt DEF Steps, Working, Key
<1>3. CASE found = "Different"
  BY <1>3, MovesAt DEF replay, Goto, Steps, CallRecords, Typed
<1>4. CASE found = "Same"
  <2>1. calls' = [calls EXCEPT ![c].at = AfterRound(q.op), ![c].round = idempotency[q.key].round]
    BY <1>4 DEF replay
  <2>2. q.key \in Keys /\ idempotency[q.key] # Absent
    BY <1>1, <1>4, RequestsAssumption DEF Replay
  <2>3. idempotency[q.key].round \in 0 .. MaxRounds
    BY <2>2 DEF Typed, Rows
  <2> QED BY <1>1, <2>1, <2>2, <2>3, MovesRound DEF Steps, Working, Key
<1> QED BY <1>2, <1>3, <1>4 DEF Replay

\* A call whose write fails goes no further.
LEMMA FailMoves ==
  ASSUME Typed, NEW c \in Calls, WriteFails(c)
  PROVE  \/ calls[c].at = "redeem" /\ Moves(c, "refused", calls[c].round, calls[c].redeemed)
         \/ /\ calls[c].at \in {"create", "remember", "seal", "rules"}
            /\ Moves(c, "failed", calls[c].round, calls[c].redeemed)
  BY MovesAt DEF WriteFails, Goto, Steps, At

LEMMA CreateMoves ==
  ASSUME Typed, Sent, NEW c \in Calls, create_round(c)
  PROVE  \E step \in {"remember", "answered", "seal", "rules"} :
            /\ Moves(c, step, Len(conditions) + 1, calls[c].redeemed)
            /\ step = "remember" <=> Key(c) # Absent
PROOF
<1>1. AfterRound(calls[c].req.op) \in {"answered", "seal", "rules"}
  BY AfterRoundIsStep DEF create_round, Sent, At
<1>2. Len(conditions) + 1 \in 0 .. MaxRounds
  BY DEF create_round, Typed
<1> DEFINE step == IF Key(c) = Absent THEN AfterRound(calls[c].req.op) ELSE "remember"
<1>3. calls' = [calls EXCEPT ![c].at = step, ![c].round = Len(conditions) + 1]
  BY DEF create_round, Key
<1>4. step \in {"remember", "answered", "seal", "rules"} /\ (step = "remember" <=> Key(c) # Absent)
  BY <1>1
<1> HIDE DEF step
<1>5. Moves(c, step, Len(conditions) + 1, calls[c].redeemed)
  BY <1>2, <1>3, <1>4, MovesRound DEF Steps, Working
<1> QED BY <1>4, <1>5

-----------------------------------------------------------------------------
(* Typing *)

\* Every step keeps the types, and the requests of the calls that were sent.
LEMMA TypedStep == Typed /\ Sent /\ [ApiNext]_apiVars => Typed' /\ Sent'
PROOF
<1> SUFFICES ASSUME Typed, Sent, [ApiNext]_apiVars PROVE Typed' /\ Sent'
  OBVIOUS
<1> USE BoundsAssumption
<1>1. ASSUME NEW c \in Calls, NEW q \in Requests, Receive(c, q) PROVE Typed' /\ Sent'
  <2>1. UNCHANGED <<conditions, idempotency>>
    BY <1>1 DEF Receive, apiTables
  <2>2. PICK step \in {"verify", "seal", "lookup"} : Arrives(c, step, q) /\ (step = "lookup" => q.op # "seal")
    BY <1>1, ReceiveArrives
  <2> QED BY <2>1, <2>2, RequestsAssumption DEF Arrives, Typed, Sent, At, Key
<1>2. ASSUME NEW c \in Calls, verify_payment(c) PROVE Typed' /\ Sent'
  <2>1. UNCHANGED <<conditions, idempotency>>
    BY <1>2 DEF verify_payment, apiTables
  <2>2. PICK step \in {"redeem", "refused"} : Moves(c, step, calls[c].round, calls[c].redeemed)
    BY <1>2, MovesAt DEF verify_payment, Goto, Steps, Working
  <2> QED BY <1>2, <2>1, <2>2 DEF verify_payment, Moves, Typed, Sent, At, Key
<1>3. ASSUME NEW c \in Calls, require_payment(c) PROVE Typed' /\ Sent'
  <2>1. UNCHANGED <<conditions, idempotency>>
    BY <1>3 DEF require_payment
  <2>2. calls[c].req \in Requests
    BY <1>3 DEF require_payment, Sent, At
  <2>3. CASE calls' = [calls EXCEPT ![c].at = "refused"]
    <3>1. Moves(c, "refused", calls[c].round, calls[c].redeemed)
      BY <2>3, MovesAt DEF Steps
    <3> QED BY <2>1, <2>2, <3>1 DEF Moves, Typed, Sent, At, Key
  <2>4. CASE calls' = [calls EXCEPT ![c].at = Entry(calls[c].req), ![c].redeemed = TRUE]
    <3>1. PICK step \in {"seal", "lookup"} : step = Entry(calls[c].req)
      BY EntryIsStep
    <3>2. step = "lookup" => calls[c].req.op # "seal"
      BY <3>1 DEF Entry
    <3>3. Moves(c, step, calls[c].round, TRUE)
      BY <2>4, <3>1, MovesRedeemed DEF Steps, Working
    <3>4. calls[c].req.op \in {"round", "lone", "auction", "seal"}
      BY <2>2, RequestsAssumption
    <3>5. Typed'
      BY <2>1, <3>3 DEF Moves, Typed
    <3>6. Sent'
      BY <2>2, <3>2, <3>3, <3>4 DEF Moves, Sent, At, Key
    <3> QED BY <3>5, <3>6
  <2> QED BY <1>3, <2>3, <2>4 DEF require_payment, Goto
<1>4. ASSUME NEW c \in Calls, replay(c) PROVE Typed' /\ Sent'
  <2>1. UNCHANGED <<conditions, idempotency>>
    BY <1>4 DEF replay, apiTables
  <2>2. calls[c].at = "lookup" /\ calls[c].req \in Requests /\ calls[c].req.op \in {"round", "lone", "auction"}
    BY <1>4 DEF replay, Sent, At
  <2>3. \E step \in {"create", "refused", "answered", "seal", "rules"}, r \in 0 .. MaxRounds :
          Moves(c, step, r, calls[c].redeemed)
    BY <1>4, <2>2, ReplayMoves DEF Typed, CallRecords
  <2> QED BY <2>1, <2>2, <2>3 DEF Moves, Typed, Sent, At, Key
<1>5. ASSUME NEW c \in Calls, create_round(c) PROVE Typed' /\ Sent'
  <2>1. calls[c].at = "create" /\ calls[c].req \in Requests /\ calls[c].req.op \in {"round", "lone", "auction"}
    BY <1>5 DEF create_round, Sent, At
  <2>2. \E step \in {"remember", "answered", "seal", "rules"} :
          /\ Moves(c, step, Len(conditions) + 1, calls[c].redeemed)
          /\ step = "remember" => Key(c) # Absent
    BY <1>5, <2>1, CreateMoves
  <2>3. /\ conditions' \in Seq(Rounds)
        /\ Len(conditions') \in 0 .. MaxRounds /\ idempotency' = idempotency
    BY <1>5, <2>1 DEF create_round, Typed, Specs, Rounds
  <2> QED BY <2>1, <2>2, <2>3 DEF Moves, Typed, Sent, At, Key
<1>6. ASSUME NEW c \in Calls, remember(c) PROVE Typed' /\ Sent'
  <2>1. calls[c].at = "remember" /\ calls[c].req \in Requests /\ calls[c].req.op \in {"round", "lone", "auction"}
    BY <1>6 DEF remember, Sent, At
  <2>2. PICK step \in {"answered", "seal", "rules"} : Moves(c, step, calls[c].round, calls[c].redeemed)
    BY <1>6, <2>1, AfterRoundIsStep, MovesAt DEF remember, Goto, Steps, Working
  <2>3. conditions' = conditions /\ idempotency' \in [Keys -> Rows \cup {Absent}]
    BY <1>6, <2>1 DEF remember, Remembered, apiTables, Typed, Rows, Specs, CallRecords
  <2> QED BY <2>1, <2>2, <2>3 DEF Moves, Typed, Sent, At, Key
<1>7. ASSUME NEW c \in Calls, create_seal(c) \/ create_auction(c) \/ HangUp(c) PROVE Typed' /\ Sent'
  <2>1. UNCHANGED <<conditions, idempotency>>
    BY <1>7 DEF create_seal, create_auction, HangUp, apiTables
  <2>2. PICK step \in {"answered", "refused", "lost"} : Moves(c, step, calls[c].round, calls[c].redeemed)
    BY <1>7, MovesAt DEF create_seal, create_auction, HangUp, Goto, Steps, Working
  <2>3. calls[c].at # "not sent"
    BY <1>7 DEF create_seal, create_auction, HangUp, At, Metered, Typed
  <2> QED BY <2>1, <2>2, <2>3 DEF Moves, Typed, Sent, At, Key
<1>8. ASSUME NEW r \in 1 .. MaxRounds, Freeze(r) PROVE Typed' /\ Sent'
  <2>1. UNCHANGED <<calls, idempotency>>
    BY <1>8 DEF Freeze
  <2>2. r \in 1 .. Len(conditions)
    BY <1>8, LenProperties DEF Freeze, Typed
  <2>3. /\ conditions' \in Seq(Rounds)
        /\ Len(conditions') = Len(conditions)
    <3>1. conditions' = [conditions EXCEPT ![r].status = "frozen"]
      BY <1>8 DEF Freeze
    <3>2. conditions \in Seq(Rounds)
      BY DEF Typed
    <3> QED BY <2>2, <3>1, <3>2, FreezeKeepsType DEF Rounds
  <2> QED BY <2>1, <2>3 DEF Typed, Sent, At, Key
<1>9. ASSUME NEW k \in Keys, Expire(k) PROVE Typed' /\ Sent'
  BY <1>9 DEF Expire, Typed, Sent, At, Key, apiTables
<1>10. CASE Crash
  <2>1. UNCHANGED <<conditions, idempotency>>
    BY <1>10 DEF Crash, apiTables
  <2> QED BY <1>10, <2>1, CrashLoses DEF Typed, Sent, At, Key, Working
<1>11. CASE UNCHANGED apiVars
  BY <1>11 DEF apiVars, apiTables, Typed, Sent, At, Key
<1>12. ASSUME NEW c \in Calls, LookupFails(c) PROVE Typed' /\ Sent'
  <2>1. UNCHANGED <<conditions, idempotency>> /\ calls[c].at = "lookup"
    BY <1>12 DEF LookupFails, apiTables, At
  <2>2. Moves(c, "create", calls[c].round, calls[c].redeemed)
    BY <1>12, MovesAt DEF LookupFails, Goto, Steps, Working
  <2> QED BY <2>1, <2>2 DEF Moves, Typed, Sent, At, Key
<1>13. ASSUME NEW c \in Calls, WriteFails(c) PROVE Typed' /\ Sent'
  <2>1. UNCHANGED <<conditions, idempotency>> /\ calls[c].at # "not sent"
    BY <1>13 DEF WriteFails, apiTables, At
  <2>2. \E step \in {"refused", "failed"} : Moves(c, step, calls[c].round, calls[c].redeemed)
    BY <1>13, FailMoves
  <2> QED BY <2>1, <2>2 DEF Moves, Typed, Sent, At, Key
<1> QED
  BY <1>1, <1>2, <1>3, <1>4, <1>5, <1>6, <1>7, <1>8, <1>9, <1>10, <1>11, <1>12, <1>13 DEF ApiNext

-----------------------------------------------------------------------------
(* Payments *)

PaymentInv == Typed /\ Sent /\ Metered /\ EachPaymentBuysOne

\* A step that redeems nothing and serves no call that did not redeem.
LEMMA NothingRedeemed ==
  ASSUME PaymentInv, x402_payments' = x402_payments,
         NEW c \in Calls, NEW step \in Steps \ {"not sent", "verify"}, NEW r,
         Moves(c, step, r, calls[c].redeemed),
         calls[c].redeemed => step # "redeem",
         step \in Served => calls[c].at \in Served
  PROVE  Metered' /\ EachPaymentBuysOne'
PROOF
<1> USE DEF PaymentInv
<1>1. /\ \A d \in Calls : calls'[d].redeemed = calls[d].redeemed /\ calls'[d].req = calls[d].req
      /\ \A d \in Calls \ {c} : calls'[d].at = calls[d].at
      /\ calls'[c].at = step
  BY DEF Moves
<1>2. Metered'
  BY <1>1 DEF Metered, At, Served
<1>3. ASSUME NEW d \in Calls, calls'[d].at = "answered", calls'[d].req.pays # Absent
      PROVE  calls'[d].redeemed
  BY <1>2, <1>3 DEF Metered, At, Served
<1>4. EachPaymentBuysOne'
  BY <1>1, <1>3 DEF EachPaymentBuysOne, At
<1> QED BY <1>2, <1>4

LEMMA PaymentStep == PaymentInv /\ [ApiNext]_apiVars => Metered' /\ EachPaymentBuysOne'
PROOF
<1> SUFFICES ASSUME PaymentInv, [ApiNext]_apiVars PROVE Metered' /\ EachPaymentBuysOne'
  OBVIOUS
<1> USE DEF PaymentInv
<1>1. ASSUME NEW c \in Calls, NEW q \in Requests, Receive(c, q) PROVE Metered' /\ EachPaymentBuysOne'
  <2>1. x402_payments' = x402_payments /\ calls[c].at = "not sent"
    BY <1>1 DEF Receive, apiTables, At
  <2>2. PICK step \in {"verify", "seal", "lookup"} : Arrives(c, step, q) /\ (step = "verify" <=> q.pays # Absent)
    BY <1>1, ReceiveArrives
  <2>3. /\ \A d \in Calls \ {c} : calls'[d] = calls[d]
        /\ calls'[c].redeemed = FALSE /\ calls'[c].at = step /\ calls'[c].req.pays = q.pays
    BY <2>2 DEF Arrives
  <2>4. Metered'
    <3>1. ASSUME NEW d \in Calls, d # c
          PROVE  /\ At(d, Served)' /\ calls'[d].req.pays # Absent => calls'[d].redeemed
                 /\ calls'[d].redeemed => ~ At(d, {"not sent", "verify", "redeem"})'
      BY <2>3, <3>1 DEF Metered, At
    <3>2. /\ At(c, Served)' /\ calls'[c].req.pays # Absent => calls'[c].redeemed
          /\ calls'[c].redeemed => ~ At(c, {"not sent", "verify", "redeem"})'
      BY <2>2, <2>3 DEF At, Served
    <3> QED BY <3>1, <3>2 DEF Metered
  <2>5. ASSUME NEW d \in Calls
        PROVE  /\ calls'[d].redeemed =>
                    /\ calls'[d].req.pays \in x402_payments
                    /\ \A e \in Calls : calls'[e].redeemed /\ calls'[e].req.pays = calls'[d].req.pays => e = d
               /\ At(d, {"answered"})' /\ calls'[d].req.pays # Absent => calls'[d].redeemed
    <3>1. CASE d = c
      BY <2>2, <2>3, <3>1 DEF At
    <3>2. CASE d # c
      BY <2>3, <3>2 DEF EachPaymentBuysOne, At
    <3> QED BY <3>1, <3>2
  <2>6. EachPaymentBuysOne'
    BY <2>1, <2>5 DEF EachPaymentBuysOne
  <2> QED BY <2>4, <2>6
<1>2. ASSUME NEW c \in Calls, verify_payment(c) PROVE Metered' /\ EachPaymentBuysOne'
  <2>1. PICK step \in {"redeem", "refused"} : Moves(c, step, calls[c].round, calls[c].redeemed)
    BY <1>2, MovesAt DEF verify_payment, Goto, Steps, Working
  <2>2. x402_payments' = x402_payments /\ ~ calls[c].redeemed
    BY <1>2 DEF verify_payment, apiTables, Metered, At
  <2> QED BY <2>1, <2>2, NothingRedeemed DEF Steps, Working, Served
<1>3. ASSUME NEW c \in Calls, require_payment(c) PROVE Metered' /\ EachPaymentBuysOne'
  <2>1. calls[c].at = "redeem" /\ ~ calls[c].redeemed
    BY <1>3 DEF require_payment, Metered, At
  <2>2. CASE Redeemable(calls[c].req.pays)
    <3>1. x402_payments' = x402_payments \cup {calls[c].req.pays} /\ calls[c].req.pays \notin x402_payments
      BY <1>3, <2>2 DEF require_payment, Redeemable
    <3>2. PICK step \in {"seal", "lookup"} : Moves(c, step, calls[c].round, TRUE)
      BY <1>3, <2>2, EntryIsStep, MovesRedeemed DEF require_payment, Steps, Working
    <3>3. Metered'
      BY <2>1, <3>2 DEF Moves, Metered, At
    <3>4. /\ \A d \in Calls : calls'[d].req = calls[d].req
          /\ \A d \in Calls \ {c} : calls'[d].redeemed = calls[d].redeemed /\ calls'[d].at = calls[d].at
          /\ calls'[c].redeemed = TRUE
      BY <3>2 DEF Moves
    <3>5. \A d \in Calls : calls[d].redeemed => calls[d].req.pays # calls[c].req.pays
      BY <3>1 DEF EachPaymentBuysOne
    <3>6. EachPaymentBuysOne'
      BY <2>1, <3>1, <3>4, <3>5 DEF EachPaymentBuysOne, At
    <3> QED BY <3>3, <3>6
  <2>3. CASE ~ Redeemable(calls[c].req.pays)
    BY <1>3, <2>3, MovesAt, NothingRedeemed DEF require_payment, Goto, Steps, Served
  <2> QED BY <2>2, <2>3
<1>4. ASSUME NEW c \in Calls, replay(c) PROVE Metered' /\ EachPaymentBuysOne'
  <2>1. x402_payments' = x402_payments /\ calls[c].at = "lookup"
    BY <1>4 DEF replay, apiTables, At
  <2>2. PICK step, r : /\ step \in {"create", "refused", "answered", "seal", "rules"}
                         /\ Moves(c, step, r, calls[c].redeemed)
    BY <1>4, ReplayMoves
  <2> QED BY <2>1, <2>2, NothingRedeemed DEF Steps, Working, Served
<1>5. ASSUME NEW c \in Calls, create_round(c) PROVE Metered' /\ EachPaymentBuysOne'
  <2>1. x402_payments' = x402_payments /\ calls[c].at = "create"
    BY <1>5 DEF create_round, At
  <2>2. PICK step \in {"remember", "answered", "seal", "rules"} : Moves(c, step, Len(conditions) + 1, calls[c].redeemed)
    BY <1>5, CreateMoves
  <2> QED BY <2>1, <2>2, NothingRedeemed DEF Steps, Working, Served
<1>6. ASSUME NEW c \in Calls, remember(c) PROVE Metered' /\ EachPaymentBuysOne'
  <2>1. x402_payments' = x402_payments /\ calls[c].at = "remember"
    BY <1>6 DEF remember, apiTables, At
  <2>2. PICK step \in {"answered", "seal", "rules"} : Moves(c, step, calls[c].round, calls[c].redeemed)
    BY <1>6, <2>1, AfterRoundIsStep, MovesAt DEF remember, Goto, Steps, Working, Sent, At
  <2> QED BY <2>1, <2>2, NothingRedeemed DEF Steps, Working, Served
<1>7. ASSUME NEW c \in Calls, create_seal(c) \/ create_auction(c) \/ HangUp(c) PROVE Metered' /\ EachPaymentBuysOne'
  <2>1. x402_payments' = x402_payments
    BY <1>7 DEF create_seal, create_auction, HangUp, apiTables
  <2>2. PICK step \in {"answered", "refused", "lost"} :
          Moves(c, step, calls[c].round, calls[c].redeemed) /\ (step = "answered" => calls[c].at \in {"seal", "rules"})
    BY <1>7, MovesAt DEF create_seal, create_auction, HangUp, Goto, Steps, Working, At
  <2> QED BY <2>1, <2>2, NothingRedeemed DEF Steps, Working, Served
<1>8. ASSUME NEW r \in 1 .. MaxRounds, Freeze(r) PROVE Metered' /\ EachPaymentBuysOne'
  BY <1>8 DEF Freeze, Metered, EachPaymentBuysOne, At
<1>9. ASSUME NEW k \in Keys, Expire(k) PROVE Metered' /\ EachPaymentBuysOne'
  BY <1>9 DEF Expire, apiTables, Metered, EachPaymentBuysOne, At
<1>10. CASE Crash
  <2>1. x402_payments' = x402_payments
    BY <1>10 DEF Crash, apiTables
  <2>2. \A d \in Calls :
          /\ calls'[d].req = calls[d].req /\ calls'[d].redeemed = calls[d].redeemed
          /\ calls'[d].at = IF calls[d].at \in Working THEN "lost" ELSE calls[d].at
    BY <1>10, CrashLoses
  <2>3. Metered'
    BY <2>2 DEF Metered, At, Working, Served
  <2>4. EachPaymentBuysOne'
    BY <2>1, <2>2 DEF EachPaymentBuysOne, At, Working
  <2> QED BY <2>3, <2>4
<1>11. CASE UNCHANGED apiVars
  BY <1>11 DEF apiVars, apiTables, Metered, EachPaymentBuysOne, At
<1>12. ASSUME NEW c \in Calls, LookupFails(c) PROVE Metered' /\ EachPaymentBuysOne'
  <2>1. x402_payments' = x402_payments /\ calls[c].at = "lookup"
    BY <1>12 DEF LookupFails, apiTables, At
  <2>2. Moves(c, "create", calls[c].round, calls[c].redeemed)
    BY <1>12, MovesAt DEF LookupFails, Goto, Steps, Working
  <2> QED BY <2>1, <2>2, NothingRedeemed DEF Steps, Working, Served
<1>13. ASSUME NEW c \in Calls, WriteFails(c) PROVE Metered' /\ EachPaymentBuysOne'
  <2>1. x402_payments' = x402_payments
    BY <1>13 DEF WriteFails, apiTables
  <2>2. PICK step \in {"refused", "failed"} : Moves(c, step, calls[c].round, calls[c].redeemed)
    BY <1>13, FailMoves
  <2> QED BY <2>1, <2>2, NothingRedeemed DEF Steps, Working, Served
<1> QED
  BY <1>1, <1>2, <1>3, <1>4, <1>5, <1>6, <1>7, <1>8, <1>9, <1>10, <1>11, <1>12, <1>13 DEF ApiNext

(* Every payment buys one call, however many calls present it and whenever the *)
(* coordinator stops (x402.rs, require_payment).                               *)
THEOREM PaymentAlwaysBuysOne == ApiSpec => []EachPaymentBuysOne
PROOF
<1>1. ApiInit => PaymentInv
  <2> SUFFICES ASSUME ApiInit PROVE PaymentInv
    OBVIOUS
  <2>1. \A c \in Calls : calls[c].at = "not sent" /\ calls[c].redeemed = FALSE
    BY DEF ApiInit, NotSent
  <2> QED BY <2>1, TypedInit DEF PaymentInv, Metered, EachPaymentBuysOne, At, Served
<1>2. PaymentInv /\ [ApiNext]_apiVars => PaymentInv'
  BY TypedStep, PaymentStep DEF PaymentInv
<1>3. PaymentInv => EachPaymentBuysOne
  BY DEF PaymentInv
<1> QED BY <1>1, <1>2, <1>3, PTL DEF ApiSpec

-----------------------------------------------------------------------------
(* Keys *)

KeyInv == Typed /\ Sent /\ MakersSent /\ KeyFlow

\* Every round was made by one of the calls.
LEMMA MakersAreCalls ==
  ASSUME Typed
  PROVE  /\ Len(conditions) \in Nat /\ DOMAIN conditions = 1 .. Len(conditions)
         /\ \A r \in DOMAIN conditions : conditions[r] \in Rounds /\ conditions[r].by \in Calls
PROOF
<1>1. conditions \in Seq(Rounds)
  BY DEF Typed
<1>2. Len(conditions) \in Nat /\ DOMAIN conditions = 1 .. Len(conditions)
  BY <1>1, LenProperties
<1>3. \A r \in 1 .. Len(conditions) : conditions[r] \in Rounds
  BY <1>1, ElementOfSeq
<1> QED BY <1>2, <1>3 DEF Rounds

\* No round is added, and those that a stopped maker leaves stay left.
LEMMA LiveKept ==
  ASSUME Typed, MakersSent, DOMAIN conditions' = DOMAIN conditions,
         \A r \in DOMAIN conditions : conditions'[r].by = conditions[r].by,
         \A d \in Calls : calls[d].at # "not sent" =>
            /\ calls'[d].req = calls[d].req /\ calls'[d].at # "not sent"
            /\ calls[d].at \in Stopped => calls'[d].at \in Stopped
  PROVE  /\ MakersSent'
         /\ \A k : \A r \in Live(k)' : r \in Live(k) /\ conditions'[r].by = conditions[r].by
PROOF
<1>1. \A r \in DOMAIN conditions :
        /\ calls'[conditions'[r].by].req = calls[conditions[r].by].req
        /\ calls'[conditions'[r].by].at # "not sent"
        /\ calls[conditions[r].by].at \in Stopped => calls'[conditions'[r].by].at \in Stopped
  BY MakersAreCalls DEF MakersSent, At
<1>2. MakersSent'
  BY <1>1 DEF MakersSent, At
<1>3. \A k : \A r \in Live(k)' : r \in Live(k) /\ conditions'[r].by = conditions[r].by
  BY <1>1 DEF Live, Key, At
<1> QED BY <1>2, <1>3

\* What keeps a key's flow: nobody new creates, whoever is to remember is still
\* to or has stopped, and whoever is told is told the round of the row.
LEMMA FlowKept ==
  ASSUME KeyInv, NEW k \in Keys, Flow(k), idempotency'[k] = idempotency[k],
         \A r \in Live(k)' : r \in Live(k) /\ conditions'[r].by = conditions[r].by,
         Creating(k)' \subseteq Creating(k),
         \A d \in ToRemember(k) : \/ d \in ToRemember(k)' /\ calls'[d].round = calls[d].round
                                 \/ calls'[d].at \in Stopped,
         \A d \in Informed(k)' : \/ d \in Informed(k) /\ calls'[d].round = calls[d].round
                                 \/ idempotency[k] # Absent /\ calls'[d].round = idempotency[k].round
  PROVE  Flow(k)'
PROOF
<1>1. \A c, d \in Creating(k)' : c = d
  BY DEF Flow
<1>2. Creating(k)' # {} => idempotency'[k] = Absent
  BY DEF Flow
<1>3. ASSUME NEW r \in Live(k)'
      PROVE  IF idempotency'[k] = Absent
             THEN conditions'[r].by \in ToRemember(k)' /\ calls'[conditions'[r].by].round = r
             ELSE r = idempotency'[k].round
  <2>1. CASE idempotency[k] # Absent
    BY <2>1 DEF Flow
  <2>2. CASE idempotency[k] = Absent
    <3>1. conditions[r].by \in ToRemember(k) /\ calls[conditions[r].by].round = r /\ conditions'[r].by = conditions[r].by
      BY <2>2 DEF Flow
    <3>2. calls'[conditions'[r].by].at \notin Stopped
      BY DEF Live, At
    <3> QED BY <2>2, <3>1, <3>2
  <2> QED BY <2>1, <2>2
<1>4. \A c \in Informed(k)' : idempotency'[k] # Absent /\ calls'[c].round = idempotency'[k].round
  BY DEF Flow
<1> QED BY <1>1, <1>2, <1>3, <1>4 DEF Flow

\* One call moves: the keys of the others keep their flow, and so does its own
\* unless it starts or ends its creation.
LEMMA MoveKeeps ==
  ASSUME KeyInv, NEW k \in Keys, Flow(k), idempotency'[k] = idempotency[k],
         \A r \in Live(k)' : r \in Live(k) /\ conditions'[r].by = conditions[r].by,
         NEW c \in Calls, NEW step \in Steps, NEW n \in 0 .. MaxRounds, NEW b \in BOOLEAN,
         Moves(c, step, n, b),
         Key(c) = k =>
            /\ step \notin {"create", "remember"}
            /\ calls[c].at = "remember" => step \in Stopped
            /\ step \in {"seal", "rules", "answered"} =>
                 \/ calls[c].at \in {"seal", "rules"} /\ n = calls[c].round
                 \/ idempotency[k] # Absent /\ n = idempotency[k].round
  PROVE  Flow(k)'
PROOF
<1>1. \A d \in Calls :
        /\ calls'[d].req = calls[d].req
        /\ d # c => calls'[d].at = calls[d].at /\ calls'[d].round = calls[d].round
        /\ d = c => calls'[d].at = step /\ calls'[d].round = n
  BY DEF Moves
<1>2. Creating(k)' \subseteq Creating(k)
  BY <1>1 DEF Creating, At, Key
<1>3. \A d \in ToRemember(k) : \/ d \in ToRemember(k)' /\ calls'[d].round = calls[d].round
                              \/ calls'[d].at \in Stopped
  BY <1>1 DEF ToRemember, At, Key
<1>4. \A d \in Informed(k)' : \/ d \in Informed(k) /\ calls'[d].round = calls[d].round
                              \/ idempotency[k] # Absent /\ calls'[d].round = idempotency[k].round
  BY <1>1 DEF Informed, At, Key
<1> QED BY <1>2, <1>3, <1>4, FlowKept

\* A step of one call, past its arrival, that starts and ends no creation.
LEMMA QuietStep ==
  ASSUME KeyInv, UNCHANGED <<conditions, idempotency, disturbed>>,
         NEW c \in Calls, NEW step \in Steps \ {"not sent", "create", "remember"},
         NEW n \in 0 .. MaxRounds, NEW b \in BOOLEAN, Moves(c, step, n, b),
         calls[c].at \notin {"not sent"} \cup Stopped,
         calls[c].at = "remember" => step \in Stopped,
         step \in {"seal", "rules", "answered"} =>
            \/ calls[c].at \in {"seal", "rules"} /\ n = calls[c].round
            \/ Key(c) \notin Keys
            \/ idempotency[Key(c)] # Absent /\ n = idempotency[Key(c)].round
  PROVE  MakersSent' /\ KeyFlow'
PROOF
<1> USE DEF KeyInv
<1>1. \A d \in Calls : /\ calls'[d].req = calls[d].req
                       /\ calls'[d].at = IF d = c THEN step ELSE calls[d].at
  BY DEF Moves
<1>2. MakersSent' /\ \A k : \A r \in Live(k)' : r \in Live(k) /\ conditions'[r].by = conditions[r].by
  BY <1>1, LiveKept
<1>3. ASSUME NEW k \in Keys \ disturbed'
      PROVE  Flow(k)'
  <2>1. Flow(k)
    BY DEF KeyFlow
  <2>2. Key(c) = k => Key(c) \in Keys
    OBVIOUS
  <2> QED BY <1>2, <2>1, <2>2, MoveKeeps
<1> QED BY <1>2, <1>3 DEF KeyFlow

\* A call arrives: it has made nothing and knows nothing.
LEMMA ArriveStep ==
  ASSUME KeyInv, NEW c \in Calls, NEW q \in Requests, Receive(c, q)
  PROVE  MakersSent' /\ KeyFlow'
PROOF
<1> USE DEF KeyInv
<1>1. UNCHANGED <<conditions, idempotency, disturbed>> /\ calls[c].at = "not sent"
  BY DEF Receive, apiTables, At
<1>2. PICK step \in {"verify", "seal", "lookup"} : Arrives(c, step, q)
  BY ReceiveArrives
<1>3. /\ \A d \in Calls \ {c} : calls'[d] = calls[d]
      /\ calls'[c].at = step /\ calls'[c].req = q
  BY <1>2 DEF Arrives
<1>4. MakersSent' /\ \A k : \A r \in Live(k)' : r \in Live(k) /\ conditions'[r].by = conditions[r].by
  BY <1>1, <1>3, LiveKept
<1>5. step = "seal" => q.key \notin Keys
  <2> DEFINE entry == IF q.pays = Absent THEN Entry(q) ELSE "verify"
  <2>1. PICK r \in IF q.op = "seal" THEN DOMAIN conditions ELSE {0} :
          calls' = [calls EXCEPT ![c] = [at |-> entry, req |-> q, round |-> r, redeemed |-> FALSE]]
    BY DEF Receive
  <2>2. calls'[c].at = entry
    BY <2>1 DEF Typed
  <2>3. step = "seal" => q.op = "seal"
    BY <1>3, <2>2 DEF Entry
  <2> QED BY <2>3, RequestsAssumption, NoneAssumption
<1>6. ASSUME NEW k \in Keys \ disturbed'
      PROVE  Flow(k)'
  <2>1. Flow(k) /\ idempotency'[k] = idempotency[k]
    BY <1>1 DEF KeyFlow
  <2>2. Creating(k)' \subseteq Creating(k)
    BY <1>3 DEF Creating, At, Key
  <2>3. \A d \in ToRemember(k) : d \in ToRemember(k)' /\ calls'[d].round = calls[d].round
    BY <1>1, <1>3 DEF ToRemember, At, Key
  <2>4. \A d \in Informed(k)' : d \in Informed(k) /\ calls'[d].round = calls[d].round
    BY <1>3, <1>5 DEF Informed, At, Key
  <2> QED BY <1>4, <2>1, <2>2, <2>3, <2>4, FlowKept
<1> QED BY <1>4, <1>6 DEF KeyFlow

\* The key of a call that was sent is a key, or there is none.
LEMMA SentKey ==
  ASSUME Sent, NEW c \in Calls, ~ At(c, {"not sent"}), Key(c) # Absent
  PROVE  Key(c) \in Keys
  BY RequestsAssumption DEF Sent, At, Key

\* Taking a key for new: unless it is disturbed by that, it has no round.
LEMMA LookupStep ==
  ASSUME KeyInv, NEW c \in Calls, replay(c) \/ LookupFails(c),
         Moves(c, "create", calls[c].round, calls[c].redeemed)
  PROVE  MakersSent' /\ KeyFlow'
PROOF
<1> USE DEF KeyInv
<1>1. UNCHANGED <<conditions, idempotency>> /\ calls[c].at = "lookup" /\ disturbed \subseteq disturbed'
  BY DEF replay, LookupFails, apiTables, At
<1>2. \A d \in Calls : /\ calls'[d].req = calls[d].req
                       /\ calls'[d].at = IF d = c THEN "create" ELSE calls[d].at
                       /\ calls'[d].round = calls[d].round
  BY DEF Moves
<1>3. MakersSent' /\ \A k : \A r \in Live(k)' : r \in Live(k) /\ conditions'[r].by = conditions[r].by
  BY <1>1, <1>2, LiveKept DEF Stopped
<1>4. ASSUME NEW k \in Keys \ disturbed', k # Key(c)
      PROVE  Flow(k)'
  <2>1. Flow(k) /\ calls[c].round \in 0 .. MaxRounds /\ calls[c].redeemed \in BOOLEAN
    BY <1>1 DEF KeyFlow, Typed, CallRecords
  <2> QED BY <1>1, <1>3, <1>4, <2>1, MoveKeeps DEF Steps, Working
<1>5. ASSUME NEW k \in Keys \ disturbed', k = Key(c)
      PROVE  Flow(k)'
  <2>1. k # Absent /\ k = calls[c].req.key
    BY <1>5, NoneAssumption DEF Key
  <2>2. replay(c)
    BY <1>5 DEF LookupFails
  <2>3. Replay(k, calls[c].req.spec) = "Fresh"
    <3> SUFFICES ASSUME Replay(k, calls[c].req.spec) # "Fresh" PROVE FALSE
      OBVIOUS
    <3>1. calls'[c].at = "create"
      BY <1>2
    <3>2. CASE Replay(k, calls[c].req.spec) = "Different"
      <4>1. calls' = [calls EXCEPT ![c].at = "refused"]
        BY <2>1, <2>2, <3>2 DEF replay, Goto
      <4> QED BY <3>1, <4>1 DEF Typed
    <3>3. CASE Replay(k, calls[c].req.spec) = "Same"
      <4>1. calls' = [calls EXCEPT ![c].at = AfterRound(calls[c].req.op), ![c].round = idempotency[k].round]
        BY <2>1, <2>2, <3>3 DEF replay
      <4>2. AfterRound(calls[c].req.op) \in {"answered", "seal", "rules"}
        BY <1>1, AfterRoundIsStep DEF Sent, At
      <4>3. calls'[c].at = AfterRound(calls[c].req.op)
        BY <4>1 DEF Typed, CallRecords
      <4> QED BY <3>1, <4>2, <4>3
    <3> QED BY <3>2, <3>3 DEF Replay
  <2>4. idempotency[k] = Absent
    BY <2>1, <2>3 DEF Replay
  <2>5. Creating(k) = {}
    BY <1>5, <2>1, <2>2, <2>3 DEF replay
  <2>6. Flow(k)
    BY <1>1 DEF KeyFlow
  <2>7. Live(k)' = {} /\ Informed(k)' = {}
    <3>1. Live(k) = {} /\ Informed(k) = {}
      BY <2>4, <2>5, <2>6 DEF Flow, ToRemember, Creating, At
    <3>2. Informed(k)' \subseteq Informed(k)
      BY <1>2 DEF Informed, At, Key
    <3> QED BY <1>3, <3>1, <3>2
  <2>8. \A d \in Creating(k)' : d = c
    BY <1>2, <2>5 DEF Creating, At, Key
  <2> QED BY <1>1, <2>4, <2>7, <2>8 DEF Flow
<1> QED BY <1>3, <1>4, <1>5 DEF KeyFlow

\* Storing the round: it is the key's first that stands.
LEMMA CreateStep ==
  ASSUME KeyInv, NEW c \in Calls, create_round(c)
  PROVE  MakersSent' /\ KeyFlow'
PROOF
<1> USE DEF KeyInv
<1> DEFINE n == Len(conditions) + 1
<1>1. UNCHANGED <<idempotency, disturbed>> /\ calls[c].at = "create" /\ n \in 0 .. MaxRounds
      /\ calls[c].redeemed \in BOOLEAN
  BY DEF create_round, At, Typed, CallRecords
<1>2. PICK step \in {"remember", "answered", "seal", "rules"} :
        /\ Moves(c, step, n, calls[c].redeemed)
        /\ step = "remember" <=> Key(c) # Absent
  BY CreateMoves
<1>3. \A d \in Calls : /\ calls'[d].req = calls[d].req
                       /\ calls'[d].at = IF d = c THEN step ELSE calls[d].at
                       /\ calls'[d].round = IF d = c THEN n ELSE calls[d].round
  BY <1>2 DEF Moves
<1>4. /\ DOMAIN conditions' = DOMAIN conditions \cup {n} /\ n \notin DOMAIN conditions
      /\ \A r \in DOMAIN conditions : conditions[r].by \in Calls /\ conditions'[r] = conditions[r]
      /\ conditions'[n].by = c
  <2> DEFINE x == [spec |-> calls[c].req.spec, status |-> "pending", by |-> c]
  <2>1. conditions' = Append(conditions, x)
    BY DEF create_round
  <2>2. x \in Rounds /\ x.by = c
    BY <1>1 DEF Sent, At, Rounds, Specs
  <2> HIDE DEF x
  <2>3. conditions \in Seq(Rounds)
    BY DEF Typed
  <2>4. /\ n \in Nat \ {0} /\ DOMAIN conditions = 1 .. n - 1 /\ DOMAIN conditions' = 1 .. n
        /\ \A r \in DOMAIN conditions : conditions[r].by \in Calls /\ conditions'[r] = conditions[r]
        /\ conditions'[n].by = c
    BY <2>1, <2>2, <2>3, MakersAreCalls, AppendProperties
  <2> HIDE DEF n
  <2>5. 1 .. n = (1 .. n - 1) \cup {n} /\ n \notin 1 .. n - 1
    BY <2>4
  <2> QED BY <2>4, <2>5
<1> HIDE DEF n
<1>5. MakersSent'
  <2> SUFFICES ASSUME NEW r \in DOMAIN conditions' PROVE calls'[conditions'[r].by].at # "not sent"
    BY DEF MakersSent, At
  <2>1. CASE r = n
    BY <1>3, <1>4, <2>1
  <2>2. CASE r \in DOMAIN conditions
    BY <1>3, <1>4, <2>2 DEF MakersSent, At
  <2> QED BY <1>4, <2>1, <2>2
<1>6. ASSUME NEW k, NEW r \in Live(k)', r # n
      PROVE  r \in Live(k) /\ conditions'[r].by = conditions[r].by
  <2>1. r \in DOMAIN conditions /\ conditions'[r].by = conditions[r].by /\ conditions[r].by \in Calls
    BY <1>4, <1>6 DEF Live
  <2>2. calls'[conditions[r].by].req.key = k /\ calls'[conditions[r].by].at \notin Stopped
    BY <2>1 DEF Live, Key, At
  <2>3. calls[conditions[r].by].req.key = k /\ calls[conditions[r].by].at \notin Stopped
    BY <1>1, <1>3, <2>1, <2>2 DEF Stopped
  <2> QED BY <2>1, <2>3 DEF Live, Key, At
<1>7. ASSUME NEW k \in Keys \ disturbed', k # Key(c)
      PROVE  Flow(k)'
  <2>1. Flow(k) /\ idempotency'[k] = idempotency[k]
    BY <1>1 DEF KeyFlow
  <2>2. n \notin Live(k)'
    BY <1>3, <1>4, <1>7 DEF Live, Key
  <2>3. \A r \in Live(k)' : r \in Live(k) /\ conditions'[r].by = conditions[r].by
    BY <1>6, <2>2
  <2> QED BY <1>1, <1>2, <1>7, <2>1, <2>3, MoveKeeps DEF Steps, Working
<1>8. ASSUME NEW k \in Keys \ disturbed', k = Key(c)
      PROVE  Flow(k)'
  <2>1. step = "remember" /\ Flow(k)
    BY <1>1, <1>2, <1>8, NoneAssumption DEF KeyFlow
  <2>2. c \in Creating(k)
    BY <1>1, <1>8 DEF Creating, At
  <2>3. idempotency[k] = Absent /\ \A d \in Creating(k) : d = c
    BY <2>1, <2>2 DEF Flow
  <2>4. ToRemember(k) = {}
    BY <1>1, <2>3 DEF ToRemember, Creating, At
  <2>5. Live(k) = {} /\ Informed(k) = {}
    BY <2>1, <2>3, <2>4 DEF Flow
  <2>6. \A r \in Live(k)' : r = n
    BY <1>6, <2>5
  <2>7. \A d \in Creating(k)' : d = c
    BY <1>3, <2>3 DEF Creating, At, Key
  <2>8. c \in ToRemember(k)' /\ calls'[c].round = n
    BY <1>3, <1>8, <2>1 DEF ToRemember, At, Key
  <2>9. Informed(k)' = {}
    BY <1>3, <2>1, <2>5 DEF Informed, At, Key
  <2> QED BY <1>1, <1>4, <2>3, <2>6, <2>7, <2>8, <2>9 DEF Flow
<1> QED BY <1>5, <1>7, <1>8 DEF KeyFlow

\* Remembering the key: its row answers every later call.
LEMMA RememberStep ==
  ASSUME KeyInv, NEW c \in Calls, remember(c)
  PROVE  MakersSent' /\ KeyFlow'
PROOF
<1> USE DEF KeyInv
<1>1. UNCHANGED <<conditions, disturbed>> /\ calls[c].at = "remember"
      /\ calls[c].round \in 0 .. MaxRounds /\ calls[c].redeemed \in BOOLEAN
  BY DEF remember, apiTables, At, Typed, CallRecords
<1>2. calls[c].req \in Requests /\ calls[c].req.op \in {"round", "lone", "auction"} /\ Key(c) \in Keys
  BY <1>1, SentKey DEF Sent, At
<1>3. PICK step \in {"answered", "seal", "rules"} : Moves(c, step, calls[c].round, calls[c].redeemed)
  BY <1>2, AfterRoundIsStep, MovesAt DEF remember, Goto, Steps, Working
<1>4. \A d \in Calls : /\ calls'[d].req = calls[d].req
                       /\ calls'[d].at = IF d = c THEN step ELSE calls[d].at
                       /\ calls'[d].round = calls[d].round
  BY <1>3 DEF Moves
<1>5. /\ idempotency'[Key(c)] # Absent /\ idempotency'[Key(c)].round = calls[c].round
      /\ \A k \in Keys \ {Key(c)} : idempotency'[k] = idempotency[k]
  <2>1. [round |-> calls[c].round, spec |-> calls[c].req.spec] # Absent
    BY <1>1, <1>2, NoneAssumption
  <2>2. idempotency' = [idempotency EXCEPT ![Key(c)] = [round |-> calls[c].round, spec |-> calls[c].req.spec]]
    BY DEF remember, Remembered
  <2>3. DOMAIN idempotency = Keys
    BY DEF Typed
  <2> QED BY <1>2, <2>1, <2>2, <2>3
<1>6. MakersSent' /\ \A k : \A r \in Live(k)' : r \in Live(k) /\ conditions'[r].by = conditions[r].by
  BY <1>1, <1>4, LiveKept DEF Stopped
<1>7. ASSUME NEW k \in Keys \ disturbed', k # Key(c)
      PROVE  Flow(k)'
  <2>1. Flow(k)
    BY <1>1 DEF KeyFlow
  <2> QED BY <1>1, <1>3, <1>5, <1>6, <1>7, <2>1, MoveKeeps DEF Steps, Working
<1>8. ASSUME NEW k \in Keys \ disturbed', k = Key(c)
      PROVE  Flow(k)'
  <2>1. Flow(k) /\ c \in Creating(k)
    BY <1>1, <1>8 DEF KeyFlow, Creating, At
  <2>2. idempotency[k] = Absent /\ \A d \in Creating(k) : d = c
    BY <2>1 DEF Flow
  <2>3. Creating(k)' = {}
    BY <1>4, <2>2 DEF Creating, At, Key
  <2>4. \A r \in Live(k)' : r = calls[c].round
    <3> SUFFICES ASSUME NEW r \in Live(k)' PROVE r = calls[c].round
      OBVIOUS
    <3>1. conditions[r].by \in ToRemember(k) /\ calls[conditions[r].by].round = r
      BY <1>6, <2>1, <2>2 DEF Flow
    <3>2. conditions[r].by = c
      BY <2>2, <3>1 DEF ToRemember, Creating, At
    <3> QED BY <3>1, <3>2
  <2>5. \A d \in Informed(k)' : d = c
    BY <1>4, <2>1, <2>2 DEF Flow, Informed, At, Key
  <2> QED BY <1>4, <1>5, <1>8, <2>3, <2>4, <2>5 DEF Flow
<1> QED BY <1>6, <1>7, <1>8 DEF KeyFlow

\* Every step keeps the flow of the keys it does not disturb.
LEMMA KeyStep == KeyInv /\ [ApiNext]_apiVars => MakersSent' /\ KeyFlow'
PROOF
<1> SUFFICES ASSUME KeyInv, [ApiNext]_apiVars PROVE MakersSent' /\ KeyFlow'
  OBVIOUS
<1> USE DEF KeyInv
<1>0. \A c \in Calls : calls[c].round \in 0 .. MaxRounds /\ calls[c].redeemed \in BOOLEAN
  BY DEF Typed, CallRecords
<1>1. ASSUME NEW c \in Calls, NEW q \in Requests, Receive(c, q) PROVE MakersSent' /\ KeyFlow'
  BY <1>1, ArriveStep
<1>2. ASSUME NEW c \in Calls, verify_payment(c) \/ require_payment(c) PROVE MakersSent' /\ KeyFlow'
  <2>1. UNCHANGED <<conditions, idempotency, disturbed>> /\ calls[c].at \in {"verify", "redeem"}
    BY <1>2 DEF verify_payment, require_payment, apiTables, At
  <2>1a. \/ \E step \in {"redeem", "refused"} : calls' = [calls EXCEPT ![c].at = step]
         \/ calls' = [calls EXCEPT ![c].at = Entry(calls[c].req), ![c].redeemed = TRUE]
    BY <1>2 DEF verify_payment, require_payment, Goto
  <2>2. CASE \E step \in {"redeem", "refused"} : calls' = [calls EXCEPT ![c].at = step]
    <3>1. \/ Moves(c, "redeem", calls[c].round, calls[c].redeemed)
          \/ Moves(c, "refused", calls[c].round, calls[c].redeemed)
      BY <2>2, MovesAt DEF Steps, Working
    <3>2. CASE Moves(c, "redeem", calls[c].round, calls[c].redeemed)
      BY <1>0, <2>1, <3>2, QuietStep DEF Steps, Working, Stopped
    <3>3. CASE Moves(c, "refused", calls[c].round, calls[c].redeemed)
      BY <1>0, <2>1, <3>3, QuietStep DEF Steps, Working, Stopped
    <3> QED BY <3>1, <3>2, <3>3
  <2>3. CASE calls' = [calls EXCEPT ![c].at = Entry(calls[c].req), ![c].redeemed = TRUE]
    <3>1. PICK step \in {"seal", "lookup"} : step = Entry(calls[c].req)
      BY EntryIsStep
    <3>2. Moves(c, step, calls[c].round, TRUE)
      BY <2>3, <3>1, MovesRedeemed DEF Steps, Working
    <3>3. step = "seal" => Key(c) \notin Keys
      BY <2>1, <3>1, RequestsAssumption, NoneAssumption DEF Entry, Key, Sent, At
    <3> QED BY <1>0, <2>1, <3>2, <3>3, QuietStep DEF Steps, Working, Stopped
  <2> QED BY <2>1a, <2>2, <2>3
<1>3. ASSUME NEW c \in Calls, replay(c) PROVE MakersSent' /\ KeyFlow'
  <2>1. CASE Moves(c, "create", calls[c].round, calls[c].redeemed)
    BY <1>3, <2>1, LookupStep
  <2>2. ASSUME NEW step \in {"refused", "answered", "seal", "rules"}, NEW r \in 0 .. MaxRounds,
               Moves(c, step, r, calls[c].redeemed),
               step # "refused" => idempotency[Key(c)] # Absent /\ r = idempotency[Key(c)].round
        PROVE  MakersSent' /\ KeyFlow'
    <3>1. UNCHANGED <<conditions, idempotency>> /\ calls[c].at = "lookup"
      BY <1>3 DEF replay, apiTables, At
    <3>2. calls'[c].at = step
      BY <2>2 DEF Moves
    <3>3. Replay(calls[c].req.key, calls[c].req.spec) # "Fresh"
      <4> SUFFICES ASSUME Replay(calls[c].req.key, calls[c].req.spec) = "Fresh" PROVE FALSE
        OBVIOUS
      <4>1. calls' = [calls EXCEPT ![c].at = "create"]
        BY <1>3 DEF replay, Goto
      <4>2. Moves(c, "create", calls[c].round, calls[c].redeemed)
        BY <4>1, MovesAt DEF Steps, Working
      <4> QED BY <2>2, <3>2, <4>2 DEF Moves
    <3>4. disturbed' = disturbed
      BY <1>3, <3>3 DEF replay
    <3> QED BY <1>0, <2>2, <3>1, <3>4, QuietStep DEF Steps, Working, Stopped
  <2> QED BY <1>3, <2>1, <2>2, ReplayMoves
<1>4. ASSUME NEW c \in Calls, create_round(c) PROVE MakersSent' /\ KeyFlow'
  BY <1>4, CreateStep
<1>5. ASSUME NEW c \in Calls, remember(c) PROVE MakersSent' /\ KeyFlow'
  BY <1>5, RememberStep
<1>6. ASSUME NEW c \in Calls, create_seal(c) \/ create_auction(c) \/ HangUp(c) PROVE MakersSent' /\ KeyFlow'
  <2>1. /\ UNCHANGED <<conditions, idempotency, disturbed>>
        /\ calls[c].at \in {"verify", "lookup", "seal", "rules"}
    BY <1>6 DEF create_seal, create_auction, HangUp, apiTables, At
  <2>1a. \/ /\ calls[c].at \in {"seal", "rules"}
            /\ \E step \in {"answered", "refused"} : calls' = [calls EXCEPT ![c].at = step]
         \/ calls' = [calls EXCEPT ![c].at = "lost"]
    BY <1>6 DEF create_seal, create_auction, HangUp, Goto, At
  <2>2. \/ Moves(c, "answered", calls[c].round, calls[c].redeemed) /\ calls[c].at \in {"seal", "rules"}
        \/ Moves(c, "refused", calls[c].round, calls[c].redeemed)
        \/ Moves(c, "lost", calls[c].round, calls[c].redeemed)
    BY <2>1a, MovesAt DEF Steps, Working
  <2>3. CASE Moves(c, "answered", calls[c].round, calls[c].redeemed) /\ calls[c].at \in {"seal", "rules"}
    BY <1>0, <2>1, <2>3, QuietStep DEF Steps, Working, Stopped
  <2>4. CASE Moves(c, "refused", calls[c].round, calls[c].redeemed)
    BY <1>0, <2>1, <2>4, QuietStep DEF Steps, Working, Stopped
  <2>5. CASE Moves(c, "lost", calls[c].round, calls[c].redeemed)
    BY <1>0, <2>1, <2>5, QuietStep DEF Steps, Working, Stopped
  <2> QED BY <2>2, <2>3, <2>4, <2>5
<1>7. ASSUME NEW r \in 1 .. MaxRounds, Freeze(r) PROVE MakersSent' /\ KeyFlow'
  <2>1. UNCHANGED <<calls, idempotency, disturbed>> /\ r \in DOMAIN conditions
    BY <1>7 DEF Freeze
  <2>2. DOMAIN conditions' = DOMAIN conditions /\ \A i \in DOMAIN conditions : conditions'[i].by = conditions[i].by
    <3>1. conditions' = [conditions EXCEPT ![r].status = "frozen"]
      BY <1>7 DEF Freeze
    <3>2. conditions \in Seq(Rounds)
      BY DEF Typed
    <3> QED BY <2>1, <3>1, <3>2, MakersAreCalls, FreezeKeepsType, LenProperties DEF Rounds
  <2>3. MakersSent' /\ \A k : \A i \in Live(k)' : i \in Live(k) /\ conditions'[i].by = conditions[i].by
    BY <2>1, <2>2, LiveKept
  <2>4. ASSUME NEW k \in Keys \ disturbed' PROVE Flow(k)'
    BY <2>1, <2>3, <2>4, FlowKept DEF KeyFlow, Creating, ToRemember, Informed, At, Key
  <2> QED BY <2>3, <2>4 DEF KeyFlow
<1>8. ASSUME NEW k \in Keys, Expire(k) PROVE MakersSent' /\ KeyFlow'
  <2>1. UNCHANGED <<calls, conditions>>
    BY <1>8 DEF Expire, apiTables
  <2>2. MakersSent' /\ \A j : \A r \in Live(j)' : r \in Live(j) /\ conditions'[r].by = conditions[r].by
    BY <2>1, LiveKept
  <2>3. ASSUME NEW j \in Keys \ disturbed' PROVE Flow(j)'
    <3>1. Flow(j) /\ idempotency'[j] = idempotency[j]
      BY <1>8, <2>3 DEF Expire, KeyFlow, Typed
    <3> QED BY <2>1, <2>2, <3>1, FlowKept DEF Creating, ToRemember, Informed, At, Key
  <2> QED BY <2>2, <2>3 DEF KeyFlow
<1>9. CASE Crash
  <2>1. UNCHANGED <<conditions, idempotency, disturbed>>
    BY <1>9 DEF Crash, apiTables
  <2>2. \A d \in Calls : /\ calls'[d].req = calls[d].req /\ calls'[d].round = calls[d].round
                         /\ calls'[d].at = IF calls[d].at \in Working THEN "lost" ELSE calls[d].at
    BY <1>9, CrashLoses
  <2>3. MakersSent' /\ \A k : \A r \in Live(k)' : r \in Live(k) /\ conditions'[r].by = conditions[r].by
    BY <2>1, <2>2, LiveKept DEF Stopped, Working
  <2>4. ASSUME NEW k \in Keys \ disturbed' PROVE Flow(k)'
    <3>1. Flow(k) /\ idempotency'[k] = idempotency[k]
      BY <2>1, <2>4 DEF KeyFlow
    <3>2. Creating(k)' \subseteq Creating(k)
      BY <2>2 DEF Creating, At, Key, Working
    <3>3. \A d \in ToRemember(k) : calls'[d].at \in Stopped
      BY <2>2 DEF ToRemember, At, Working, Stopped
    <3>4. \A d \in Informed(k)' : d \in Informed(k) /\ calls'[d].round = calls[d].round
      BY <2>2 DEF Informed, At, Key, Working
    <3> QED BY <2>3, <3>1, <3>2, <3>3, <3>4, FlowKept
  <2> QED BY <2>3, <2>4 DEF KeyFlow
<1>10. CASE UNCHANGED apiVars
  <2>1. UNCHANGED <<calls, conditions, idempotency, disturbed>>
    BY <1>10 DEF apiVars, apiTables
  <2>2. MakersSent' /\ \A k : \A r \in Live(k)' : r \in Live(k) /\ conditions'[r].by = conditions[r].by
    BY <2>1, LiveKept
  <2>3. ASSUME NEW k \in Keys \ disturbed' PROVE Flow(k)'
    BY <2>1, <2>2, <2>3, FlowKept DEF KeyFlow, Creating, ToRemember, Informed, At, Key
  <2> QED BY <2>2, <2>3 DEF KeyFlow
<1>11. ASSUME NEW c \in Calls, LookupFails(c) PROVE MakersSent' /\ KeyFlow'
  <2>1. Moves(c, "create", calls[c].round, calls[c].redeemed)
    BY <1>11, MovesAt DEF LookupFails, Goto, Steps, Working
  <2> QED BY <1>11, <2>1, LookupStep
<1>12. ASSUME NEW c \in Calls, WriteFails(c) PROVE MakersSent' /\ KeyFlow'
  <2>1. UNCHANGED <<conditions, idempotency, disturbed>>
    BY <1>12 DEF WriteFails, apiTables
  <2>2. CASE calls[c].at = "redeem" /\ Moves(c, "refused", calls[c].round, calls[c].redeemed)
    BY <1>0, <2>1, <2>2, QuietStep DEF Steps, Working, Stopped
  <2>3. CASE /\ calls[c].at \in {"create", "remember", "seal", "rules"}
             /\ Moves(c, "failed", calls[c].round, calls[c].redeemed)
    BY <1>0, <2>1, <2>3, QuietStep DEF Steps, Working, Stopped
  <2> QED BY <1>12, <2>2, <2>3, FailMoves
<1> QED
  BY <1>1, <1>2, <1>3, <1>4, <1>5, <1>6, <1>7, <1>8, <1>9, <1>10, <1>11, <1>12 DEF ApiNext

(* However often its request is sent again, also after a crash or a failed     *)
(* statement in any hold, a key that no failed lookup, overlap or expiry       *)
(* disturbed answers with one round, and no other of its rounds is or will be  *)
(* named (v1.rs, create_round).                                                *)
THEOREM KeyAlwaysMakesOneRound == ApiSpec => []KeyMakesOneRound
PROOF
<1>1. ApiInit => KeyInv
  <2> SUFFICES ASSUME ApiInit PROVE KeyInv
    OBVIOUS
  <2>1. DOMAIN conditions = {} /\ \A c \in Calls : calls[c].at = "not sent"
    <3>1. Len(conditions) = 0
      BY DEF ApiInit
    <3>2. DOMAIN conditions = {}
      BY <3>1, TypedInit, MakersAreCalls
    <3> QED BY <3>2 DEF ApiInit, NotSent
  <2> QED BY <2>1, TypedInit DEF KeyInv, MakersSent, KeyFlow, Flow, Live, Creating, ToRemember, Informed, At
<1>2. KeyInv /\ [ApiNext]_apiVars => KeyInv'
  BY TypedStep, KeyStep DEF KeyInv
<1>3. KeyInv => KeyMakesOneRound
  <2> SUFFICES ASSUME KeyInv, NEW k \in Keys \ disturbed
               PROVE  /\ \A c, d \in Calls :
                            At(c, {"answered"}) /\ At(d, {"answered"}) /\ Key(c) = k /\ Key(d) = k
                                => calls[c].round = calls[d].round
                      /\ Cardinality(Standing(k)) <= 1
    BY DEF KeyMakesOneRound
  <2>1. Flow(k)
    BY DEF KeyInv, KeyFlow
  <2>2. \A c, d \in Calls :
           At(c, {"answered"}) /\ At(d, {"answered"}) /\ Key(c) = k /\ Key(d) = k
               => calls[c].round = calls[d].round
    BY <2>1 DEF Flow, Informed, At
  <2>3. \A r, s \in Standing(k) : r = s
    <3>1. CASE idempotency[k] # Absent
      BY <2>1, <3>1 DEF Standing, Flow, Live
    <3>2. CASE idempotency[k] = Absent
      <4>1. \A r \in Standing(k) : r \in Live(k)
        BY <3>2 DEF Standing, Live
      <4>2. \A r \in Live(k) : conditions[r].by \in ToRemember(k) /\ calls[conditions[r].by].round = r
        BY <2>1, <3>2 DEF Flow
      <4>3. \A c, d \in ToRemember(k) : c = d
        BY <2>1 DEF Flow, ToRemember, Creating, At
      <4> QED BY <4>1, <4>2, <4>3
    <3> QED BY <3>1, <3>2
  <2>4. CASE Standing(k) = {}
    BY <2>2, <2>4, FS_EmptySet
  <2>5. CASE Standing(k) # {}
    <3>1. PICK r \in Standing(k) : Standing(k) = {r}
      BY <2>3, <2>5
    <3> QED BY <2>2, <3>1, FS_Singleton
  <2> QED BY <2>4, <2>5
<1> QED BY <1>1, <1>2, <1>3, PTL DEF ApiSpec

==============================================================================
