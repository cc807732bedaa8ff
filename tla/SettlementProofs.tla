-------------------------- MODULE SettlementProofs --------------------------
(***************************************************************************)
(* Theorems about the withdrawal settlement: for every committee with a    *)
(* threshold above half of it, every number of claims and every depth of   *)
(* reorganisation the confirmations cover, certificates agree and payments *)
(* are burns.                                                              *)
(***************************************************************************)
EXTENDS Settlement, FiniteSetTheorems, SequenceTheorems, TLAPS

-----------------------------------------------------------------------------
(* The inductive invariant *)

Messages == [position : Positions, amount : {b.amount : b \in Burns}, recipient : Recipients, epoch : Nat]

Txs == {[kind |-> k] : k \in {"empty", "rotate", "close", "open"}}
          \cup [kind : {"withdraw"}, message : Messages]
Blocks == [tx : Txs, fork : Nat]

CallRecords ==
    [node : Nodes, burn : Burns, recipient : Recipients, epoch : Nat,
     phase : {"row", "check", "gather"}, recertify : BOOLEAN, signers : SUBSET Nodes]

RowRecords == [message : Messages, status : {"certificate_ready", "confirmed"}]

ChainTyped ==
    /\ chain \in Seq(Blocks)
    /\ peak \in Nat /\ forks \in Nat
    /\ Len(chain) <= peak

StoreTyped ==
    /\ attested \in [Nodes -> SUBSET Messages]
    /\ rows \in [Nodes -> [Positions -> RowRecords \cup {None}]]
    /\ watched \in [Nodes -> Nat]
    /\ calls \in [Requests -> CallRecords \cup {None}]
    /\ ledger \in [Nodes -> SUBSET burned]

\* The signatures a call has gathered were recorded before they were made.
Signed ==
    \A q \in Requests :
        calls[q] # None /\ calls[q].phase = "gather" =>
            /\ calls[q].burn \in burned
            /\ \A n \in calls[q].signers : MessageOf(calls[q]) \in attested[n]

\* A validator attests one message per position and epoch.
OncePerEpoch ==
    \A n \in Nodes : \A l, m \in attested[n] :
        l.position = m.position /\ l.epoch = m.epoch => l = m

\* A threshold of validators stands behind m, and m pays a burn.
Backed(m) ==
    /\ m \in Messages
    /\ [position |-> m.position, amount |-> m.amount] \in burned
    /\ \E s \in SUBSET Nodes : Cardinality(s) >= Threshold /\ \A n \in s : m \in attested[n]

Certified == \A c \in certificates : Backed(c.message)

Released ==
    \A h \in Has("withdraw") :
        /\ Backed(chain[h].tx.message)
        /\ \A k \in Has("withdraw") :
              chain[k].tx.message.position = chain[h].tx.message.position => k = h

\* What a watcher has processed is out of the reach of a reorganisation.
Watched ==
    \A n \in Nodes : watched[n] <= Len(chain) /\ (watched[n] > 0 => watched[n] + Confirmations <= peak)

ConfirmedBelow ==
    \A n \in Nodes, p \in Positions :
        rows[n][p] # None /\ rows[n][p].status = "confirmed" =>
            \E h \in Has("withdraw") : h <= watched[n] /\ chain[h].tx.message.position = p

IInv ==
    /\ ChainTyped /\ StoreTyped
    /\ Signed /\ OncePerEpoch /\ Certified /\ Released
    /\ Watched /\ ConfirmedBelow

-----------------------------------------------------------------------------
(* Lemmas *)

LEMMA FiniteParts == IsFiniteSet(Nodes) /\ \A s \in SUBSET Nodes : IsFiniteSet(s) /\ Cardinality(s) \in Nat
  BY SettlementAssumption, FS_Subset, FS_CardinalityType

LEMMA HasIsFinite ==
  ASSUME ChainTyped, NEW kind
  PROVE  IsFiniteSet(Has(kind)) /\ Cardinality(Has(kind)) \in Nat
PROOF
<1>1. Has(kind) \subseteq 1 .. Len(chain) /\ Len(chain) \in Nat
  BY DEF Has, ChainTyped
<1>2. IsFiniteSet(1 .. Len(chain))
  BY <1>1, FS_Interval
<1> QED BY <1>1, <1>2, FS_Subset, FS_CardinalityType

LEMMA EpochIsNat == ChainTyped => Epoch \in Nat
  BY HasIsFinite DEF Epoch

\* A validator in both thresholds attested both messages.
LEMMA BackedAgree ==
  ASSUME OncePerEpoch, NEW l, NEW m, Backed(l), Backed(m),
         l.position = m.position, l.epoch = m.epoch
  PROVE  l = m
PROOF
<1>1. PICK s \in SUBSET Nodes : Cardinality(s) >= Threshold /\ \A n \in s : l \in attested[n]
  BY DEF Backed
<1>2. PICK t \in SUBSET Nodes : Cardinality(t) >= Threshold /\ \A n \in t : m \in attested[n]
  BY DEF Backed
<1>3. Cardinality(s) + Cardinality(t) > Cardinality(Nodes)
  BY <1>1, <1>2, FiniteParts, SettlementAssumption, ChainAssumption, FS_CardinalityType
<1>4. s \cap t # {}
  BY <1>3, FiniteParts, FS_MajoritiesIntersect
<1> QED BY <1>1, <1>2, <1>4 DEF OncePerEpoch

\* Backing is only ever added to.
LEMMA BackedGrows ==
  ASSUME NEW m, Backed(m), burned \subseteq burned', \A n \in Nodes : attested[n] \subseteq attested'[n]
  PROVE  Backed(m)'
  BY DEF Backed

\* A block on top leaves the others where they are.
LEMMA MinedOnTop ==
  ASSUME ChainTyped, NEW tx \in Txs, Mine(tx)
  PROVE  /\ ChainTyped'
         /\ Len(chain') = Len(chain) + 1
         /\ peak <= peak'
         /\ \A h \in DOMAIN chain : h \in DOMAIN chain' /\ chain'[h] = chain[h]
         /\ chain'[Len(chain) + 1].tx = tx
         /\ \A h \in DOMAIN chain' : h \in DOMAIN chain \/ h = Len(chain) + 1
PROOF
<1>1. chain' = Append(chain, [tx |-> tx, fork |-> forks]) /\ [tx |-> tx, fork |-> forks] \in Blocks
  BY DEF Mine, Blocks, ChainTyped
<1>2. chain' \in Seq(Blocks) /\ Len(chain') = Len(chain) + 1
  BY <1>1 DEF ChainTyped
<1>3. peak' \in Nat /\ Len(chain') <= peak' /\ peak <= peak' /\ forks' \in Nat
  BY <1>2 DEF Mine, ChainTyped
<1>4. /\ \A h \in DOMAIN chain : h \in DOMAIN chain' /\ chain'[h] = chain[h]
      /\ chain'[Len(chain) + 1].tx = tx
      /\ \A h \in DOMAIN chain' : h \in DOMAIN chain \/ h = Len(chain) + 1
  BY <1>1, <1>2 DEF ChainTyped
<1> QED BY <1>2, <1>3, <1>4 DEF ChainTyped

\* The chain and the ledgers' part of the invariant, under a step of the chain.
LEMMA ChainGrows ==
  ASSUME IInv, NEW tx \in Txs, Mine(tx), UNCHANGED settleVars,
         tx.kind = "withdraw" =>
            Backed(tx.message) /\ \A h \in Has("withdraw") : chain[h].tx.message.position # tx.message.position
  PROVE  IInv'
PROOF
<1> USE DEF IInv
<1>1. /\ ChainTyped' /\ Len(chain') = Len(chain) + 1 /\ peak <= peak'
      /\ \A h \in DOMAIN chain : h \in DOMAIN chain' /\ chain'[h] = chain[h]
      /\ chain'[Len(chain) + 1].tx = tx
      /\ \A h \in DOMAIN chain' : h \in DOMAIN chain \/ h = Len(chain) + 1
  BY MinedOnTop
<1>2. Len(chain) \in Nat /\ peak \in Nat /\ peak' \in Nat /\ Confirmations \in Nat
  BY <1>1, SettlementAssumption DEF ChainTyped
<1>3. StoreTyped' /\ Signed' /\ OncePerEpoch' /\ Certified'
  BY DEF settleVars, StoreTyped, Signed, OncePerEpoch, Certified, Backed, MessageOf
<1>4. \A m : Backed(m) => Backed(m)'
  BY DEF settleVars, Backed
<1>5. Released'
  <2> SUFFICES ASSUME NEW h \in Has("withdraw")'
               PROVE  (/\ Backed(chain[h].tx.message)
                       /\ \A k \in Has("withdraw") :
                             chain[k].tx.message.position = chain[h].tx.message.position => k = h)'
    BY DEF Released
  <2>1. \A k \in Has("withdraw")' : k \in Has("withdraw") \/ (k = Len(chain) + 1 /\ tx.kind = "withdraw")
    BY <1>1 DEF Has
  <2>2. \A k \in Has("withdraw") : chain'[k] = chain[k]
    BY <1>1 DEF Has
  <2>3. Backed(chain'[h].tx.message)
    BY <1>1, <2>1, <2>2 DEF Released
  <2>4. Backed(chain[h].tx.message)'
    BY <2>3 DEF Backed, settleVars
  <2>5. Len(chain) + 1 \notin Has("withdraw")
    BY <1>2 DEF Has, ChainTyped
  <2> QED BY <1>1, <2>1, <2>2, <2>4, <2>5 DEF Released
<1>6. Watched'
  BY <1>1, <1>2 DEF Watched, StoreTyped, settleVars
<1>7. ConfirmedBelow'
  BY <1>1 DEF ConfirmedBelow, Has, settleVars
<1> QED BY <1>1, <1>3, <1>5, <1>6, <1>7

-----------------------------------------------------------------------------
(* The invariant holds at the start and every step keeps it *)

LEMMA InvInit == Init => IInv
PROOF
<1> SUFFICES ASSUME Init PROVE IInv
  OBVIOUS
<1>1. chain = <<>> /\ peak = 0 /\ forks = 0
  BY DEF Init, ChainInit
<1>2. ChainTyped /\ \A kind : Has(kind) = {}
  BY <1>1 DEF ChainTyped, Has
<1>3. StoreTyped /\ Signed /\ OncePerEpoch /\ Certified
  BY DEF Init, StoreTyped, Signed, OncePerEpoch, Certified
<1>4. Released /\ ConfirmedBelow
  BY <1>2 DEF Released, ConfirmedBelow, Init
<1> QED BY <1>1, <1>2, <1>3, <1>4 DEF IInv, Watched, Init

\* The ledger's side: a burn, a validator that catches up.
LEMMA LedgerStep ==
  ASSUME IInv, (\E b \in Burns : Burn(b)) \/ (\E n \in Nodes : CatchUp(n))
  PROVE  IInv'
PROOF
<1> USE DEF IInv
<1>1. /\ burned \subseteq burned'
      /\ UNCHANGED <<chainVars, attested, rows, calls, certificates, watched>>
      /\ ledger' \in [Nodes -> SUBSET burned']
  BY DEF Burn, CatchUp, StoreTyped
<1>2. \A m : Backed(m) => Backed(m)'
  BY <1>1 DEF Backed
<1>3. ChainTyped' /\ StoreTyped'
  BY <1>1 DEF ChainTyped, chainVars, StoreTyped
<1>4. Signed' /\ OncePerEpoch'
  BY <1>1 DEF Signed, OncePerEpoch, MessageOf
<1>5. Certified' /\ Released'
  BY <1>1, <1>2 DEF Certified, Released, Has, chainVars
<1>6. Watched' /\ ConfirmedBelow'
  BY <1>1 DEF Watched, ConfirmedBelow, Has, chainVars
<1> QED BY <1>3, <1>4, <1>5, <1>6

\* The gateway's side: a release, the other transactions, an empty block.
LEMMA MineStep ==
  ASSUME IInv, Submit \/ Reopen \/ Chain
  PROVE  IInv'
PROOF
<1> USE DEF IInv
<1>1. ASSUME Submit PROVE IInv'
  <2>1. PICK c \in certificates : withdraw(c.message, c.valid)
    BY <1>1 DEF Submit
  <2>2. Backed(c.message) /\ c.message \in Messages
    BY DEF Certified, Backed
  <2>3. /\ Mine([kind |-> "withdraw", message |-> c.message])
        /\ c.message.position \notin Consumed
    BY <2>1 DEF withdraw
  <2>4. [kind |-> "withdraw", message |-> c.message] \in Txs
    BY <2>2 DEF Txs
  <2>5. \A h \in Has("withdraw") : chain[h].tx.message.position # c.message.position
    BY <2>3 DEF Consumed
  <2>6. UNCHANGED settleVars
    BY <1>1 DEF Submit
  <2> QED BY <2>2, <2>3, <2>4, <2>5, <2>6, ChainGrows
<1>2. ASSUME Reopen \/ Chain PROVE IInv'
  <2>1. PICK k \in {"empty", "rotate", "close", "open"} : Mine([kind |-> k])
    BY <1>2 DEF Reopen, Chain, openGateway, MineEmpty, Empty, rotateSigners, closeGateway
  <2>2. [kind |-> k] \in Txs /\ [kind |-> k].kind # "withdraw"
    BY DEF Txs
  <2>3. UNCHANGED settleVars
    BY <1>2 DEF Reopen, Chain
  <2> QED BY <2>1, <2>2, <2>3, ChainGrows
<1> QED BY <1>1, <1>2

\* A reorganisation leaves what a watcher has processed.
LEMMA ReorgStep ==
  ASSUME IInv, Reorg
  PROVE  IInv'
PROOF
<1> USE DEF IInv
<1>1. PICK keep \in 0 .. Len(chain) : ReorgTo(keep)
  BY DEF Reorg
<1>2. UNCHANGED settleVars
  BY DEF Reorg
<1>3. /\ chain' = SubSeq(chain, 1, keep) /\ keep < Len(chain) /\ keep + MaxReorg >= peak
      /\ peak' = peak /\ forks' = forks + 1
  BY <1>1 DEF ReorgTo
<1>4. Len(chain) \in Nat /\ keep \in Nat /\ peak \in Nat /\ Confirmations \in Nat /\ MaxReorg \in Nat
  BY <1>1, SettlementAssumption, ChainAssumption DEF ChainTyped
<1>5. /\ chain' \in Seq(Blocks) /\ Len(chain') = keep
      /\ \A h \in 1 .. keep : chain'[h] = chain[h]
  BY <1>3, <1>4, SubSeqProperties DEF ChainTyped
<1>6. ChainTyped'
  BY <1>3, <1>4, <1>5 DEF ChainTyped
<1>7. \A h \in Has("withdraw")' : h \in Has("withdraw") /\ chain'[h] = chain[h]
  BY <1>3, <1>4, <1>5 DEF Has, ChainTyped
<1>8. \A h \in Has("withdraw") : h <= keep => h \in Has("withdraw")' /\ chain'[h] = chain[h]
  BY <1>3, <1>4, <1>5 DEF Has, ChainTyped
<1>9. StoreTyped' /\ Signed' /\ OncePerEpoch' /\ Certified' /\ \A m : Backed(m) => Backed(m)'
  BY <1>2 DEF settleVars, StoreTyped, Signed, OncePerEpoch, Certified, Backed, MessageOf
<1>10. Released'
  BY <1>7, <1>9 DEF Released
<1>11. \A n \in Nodes : watched[n] \in Nat /\ watched[n] <= keep
  BY <1>3, <1>4, SettlementAssumption DEF Watched, StoreTyped
<1>12. Watched'
  BY <1>2, <1>3, <1>5, <1>11 DEF Watched, settleVars
<1>13. ConfirmedBelow'
  <2> SUFFICES ASSUME NEW n \in Nodes, NEW p \in Positions,
                      rows[n][p] # None, rows[n][p].status = "confirmed"
               PROVE  \E h \in Has("withdraw")' : h <= watched[n] /\ chain'[h].tx.message.position = p
    BY <1>2 DEF ConfirmedBelow, settleVars
  <2>1. PICK h \in Has("withdraw") : h <= watched[n] /\ chain[h].tx.message.position = p
    BY DEF ConfirmedBelow
  <2>2. h <= keep
    BY <1>4, <1>11, <2>1 DEF Has, ChainTyped
  <2> QED BY <1>8, <2>1, <2>2
<1> QED BY <1>6, <1>9, <1>10, <1>12, <1>13

\* The parts of the invariant that do not read the calls.
LEMMA OutsideCalls ==
  ASSUME IInv, UNCHANGED <<chainVars, burned, watched>>,
         \A n \in Nodes : attested[n] \subseteq attested'[n],
         rows' = rows, certificates' = certificates
  PROVE  ChainTyped' /\ Certified' /\ Released' /\ Watched' /\ ConfirmedBelow'
PROOF
<1> USE DEF IInv
<1>1. \A m : Backed(m) => Backed(m)'
  BY DEF Backed
<1>2. ChainTyped' /\ Watched' /\ ConfirmedBelow'
  BY DEF chainVars, ChainTyped, Watched, ConfirmedBelow, Has
<1>3. Certified' /\ Released'
  BY <1>1 DEF chainVars, Certified, Released, Has
<1> QED BY <1>2, <1>3

\* Calls come and go, and read the row.
LEMMA CallStep ==
  ASSUME IInv, \/ \E q \in Requests, n \in Entry, b \in Burns, r \in Recipients : Settle(q, n, b, r)
               \/ \E q \in Requests : ReadRow(q) \/ Abandon(q)
  PROVE  IInv'
PROOF
<1> USE DEF IInv
<1>1. UNCHANGED <<chainVars, burned, ledger, attested, rows, certificates, watched>>
  BY DEF Settle, ReadRow, Abandon
<1>2. /\ calls' \in [Requests -> CallRecords \cup {None}]
      /\ \A q \in Requests : calls'[q] = calls[q] \/ calls'[q] = None \/ calls'[q].phase # "gather"
  <2>1. CASE \E q \in Requests, n \in Entry, b \in Burns, r \in Recipients : Settle(q, n, b, r)
    <3>1. PICK q \in Requests, n \in Entry, b \in Burns, r \in Recipients : Settle(q, n, b, r)
      BY <2>1
    <3>2. [node |-> n, burn |-> b, recipient |-> r, epoch |-> Epoch,
           phase |-> "row", recertify |-> FALSE, signers |-> {}] \in CallRecords
      BY EpochIsNat, SettlementAssumption DEF CallRecords
    <3> QED BY <3>1, <3>2 DEF Settle, StoreTyped
  <2>2. ASSUME NEW q \in Requests, ReadRow(q)
        PROVE  /\ calls' \in [Requests -> CallRecords \cup {None}]
               /\ \A p \in Requests : calls'[p] = calls[p] \/ calls'[p] = None \/ calls'[p].phase # "gather"
    <3>1. calls[q] \in CallRecords /\ Recertifies(calls[q]) \in BOOLEAN
      BY <2>2 DEF ReadRow, StoreTyped, Recertifies
    <3> QED BY <2>2, <3>1 DEF ReadRow, Return, StoreTyped, CallRecords
  <2>3. ASSUME NEW q \in Requests, Abandon(q)
        PROVE  /\ calls' \in [Requests -> CallRecords \cup {None}]
               /\ \A p \in Requests : calls'[p] = calls[p] \/ calls'[p] = None \/ calls'[p].phase # "gather"
    BY <2>3 DEF Abandon, Return, StoreTyped
  <2> QED BY <2>1, <2>2, <2>3
<1>3. ChainTyped' /\ Certified' /\ Released' /\ Watched' /\ ConfirmedBelow'
  BY <1>1, OutsideCalls
<1>4. StoreTyped' /\ OncePerEpoch'
  BY <1>1, <1>2 DEF StoreTyped, OncePerEpoch
<1>5. Signed'
  BY <1>1, <1>2 DEF Signed, MessageOf
<1> QED BY <1>3, <1>4, <1>5

\* What a call's message is.
LEMMA MessageIsMessage ==
  ASSUME NEW call \in CallRecords
  PROVE  /\ MessageOf(call) \in Messages
         /\ [position |-> MessageOf(call).position, amount |-> MessageOf(call).amount] = call.burn
  BY SettlementAssumption DEF MessageOf, Messages, CallRecords, Positions

\* A validator records a message it may attest and signs it for call q.
LEMMA SignStep ==
  ASSUME IInv, NEW q \in Requests, calls[q] # None, NEW n \in Nodes,
         SignerPolicy(n, calls[q].burn), MayAttest(n, MessageOf(calls[q])), Record(n, MessageOf(calls[q])),
         UNCHANGED <<chainVars, burned, ledger, rows, certificates, watched>>,
         \/ calls' = calls
         \/ /\ calls' = [calls EXCEPT ![q] = calls'[q]] /\ calls'[q] \in CallRecords
            /\ MessageOf(calls'[q]) = MessageOf(calls[q]) /\ calls'[q].burn = calls[q].burn
            /\ \/ calls'[q].signers = {n}
               \/ calls[q].phase = "gather" /\ calls'[q].signers = calls[q].signers \cup {n}
  PROVE  IInv'
PROOF
<1> USE DEF IInv
<1>1. calls[q] \in CallRecords /\ MessageOf(calls[q]) \in Messages
  BY MessageIsMessage DEF StoreTyped
<1>2. attested' = [attested EXCEPT ![n] = @ \cup {MessageOf(calls[q])}]
  BY DEF Record
<1>3. /\ attested' \in [Nodes -> SUBSET Messages]
      /\ \A k \in Nodes : attested[k] \subseteq attested'[k]
      /\ MessageOf(calls[q]) \in attested'[n]
      /\ \A k \in Nodes : \A m \in attested'[k] : m \in attested[k] \/ (k = n /\ m = MessageOf(calls[q]))
  BY <1>1, <1>2 DEF StoreTyped
<1>4. ChainTyped' /\ Certified' /\ Released' /\ Watched' /\ ConfirmedBelow'
  BY <1>3, OutsideCalls
<1>5. OncePerEpoch'
  BY <1>3 DEF OncePerEpoch, MayAttest
<1>6. calls' \in [Requests -> CallRecords \cup {None}] /\ \A p \in Requests \ {q} : calls'[p] = calls[p]
  BY DEF StoreTyped
<1>7. StoreTyped'
  BY <1>3, <1>6 DEF StoreTyped
<1>8. calls[q].burn \in burned
  BY <1>1 DEF SignerPolicy, StoreTyped
<1>9. Signed'
  <2> SUFFICES ASSUME NEW p \in Requests, calls'[p] # None, calls'[p].phase = "gather"
               PROVE  /\ calls'[p].burn \in burned
                      /\ \A k \in calls'[p].signers : MessageOf(calls'[p]) \in attested'[k]
    BY DEF Signed, MessageOf
  <2>1. calls'[p] \in CallRecords
    BY <1>6 DEF StoreTyped
  <2>2. CASE calls'[p] = calls[p]
    BY <1>3, <2>1, <2>2 DEF Signed, CallRecords
  <2>3. CASE calls'[p] # calls[p]
    <3>1. p = q /\ calls' # calls
      BY <1>6, <2>3
    <3>2. CASE calls'[q].signers = {n}
      BY <1>3, <1>8, <3>1, <3>2
    <3>3. CASE calls[q].phase = "gather" /\ calls'[q].signers = calls[q].signers \cup {n}
      BY <1>1, <1>3, <1>8, <3>1, <3>3 DEF Signed, CallRecords
    <3> QED BY <3>1, <3>2, <3>3
  <2> QED BY <2>2, <2>3
<1> QED BY <1>4, <1>5, <1>7, <1>9

LEMMA OwnSigned ==
  ASSUME NEW c \in CallRecords, NEW n \in Nodes
  PROVE  /\ [c EXCEPT !.phase = "gather", !.signers = {n}] \in CallRecords
         /\ [c EXCEPT !.phase = "gather", !.signers = {n}].signers = {n}
PROOF
<1>1. {n} \in SUBSET Nodes
  OBVIOUS
<1> QED BY <1>1 DEF CallRecords

LEMMA OwnAndPeerStep ==
  ASSUME IInv, NEW q \in Requests, SignOwn(q) \/ \E n \in Nodes : CoSign(q, n)
  PROVE  IInv'
PROOF
<1> calls[q] # None /\ calls[q] \in CallRecords
  BY DEF SignOwn, CoSign, IInv, StoreTyped
<1>1. ASSUME SignOwn(q) PROVE IInv'
  <2> DEFINE n == calls[q].node
  <2>0. n \in Nodes
    BY DEF CallRecords
  <2> HIDE DEF n
  <2>1. calls'[q] = [calls[q] EXCEPT !.phase = "gather", !.signers = {n}]
    BY <1>1 DEF SignOwn, IInv, StoreTyped, n
  <2>2. calls'[q] \in CallRecords /\ calls'[q].signers = {n}
    BY <2>0, <2>1, OwnSigned
  <2>3. MessageOf(calls'[q]) = MessageOf(calls[q]) /\ calls'[q].burn = calls[q].burn
    BY <2>1 DEF MessageOf, CallRecords
  <2>4. calls' = [calls EXCEPT ![q] = calls'[q]]
    BY <1>1, <2>1 DEF SignOwn, IInv, StoreTyped, n
  <2>5. /\ SignerPolicy(n, calls[q].burn) /\ MayAttest(n, MessageOf(calls[q])) /\ Record(n, MessageOf(calls[q]))
        /\ UNCHANGED <<chainVars, burned, ledger, rows, certificates, watched>>
    BY <1>1 DEF SignOwn, n
  <2> QED BY <2>0, <2>2, <2>3, <2>4, <2>5, SignStep
<1>2. ASSUME NEW n \in Nodes, CoSign(q, n) PROVE IInv'
  <2>1. /\ SignerPolicy(n, calls[q].burn) /\ MayAttest(n, MessageOf(calls[q])) /\ Record(n, MessageOf(calls[q]))
        /\ UNCHANGED <<chainVars, burned, ledger, rows, certificates, watched>>
        /\ calls[q].phase = "gather"
        /\ calls' \in {calls, [calls EXCEPT ![q].signers = @ \cup {n}]}
    BY <1>2 DEF CoSign
  <2>2. CASE calls' = calls
    BY <2>1, <2>2, SignStep
  <2>3. CASE calls' = [calls EXCEPT ![q].signers = @ \cup {n}]
    <3>1. calls'[q] = [calls[q] EXCEPT !.signers = @ \cup {n}]
      BY <2>3 DEF IInv, StoreTyped
    <3>2. calls'[q] \in CallRecords /\ calls'[q].signers = calls[q].signers \cup {n}
      BY <3>1 DEF CallRecords
    <3>3. MessageOf(calls'[q]) = MessageOf(calls[q]) /\ calls'[q].burn = calls[q].burn
      BY <3>1 DEF MessageOf, CallRecords
    <3>4. calls' = [calls EXCEPT ![q] = calls'[q]]
      BY <2>3, <3>1 DEF IInv, StoreTyped
    <3> QED BY <2>1, <3>2, <3>3, <3>4, SignStep
  <2> QED BY <2>1, <2>2, <2>3
<1> QED BY <1>1, <1>2

\* A certificate is made of a threshold's signatures.
LEMMA StoreStep ==
  ASSUME IInv, NEW q \in Requests, Store(q)
  PROVE  IInv'
PROOF
<1> USE DEF IInv
<1> DEFINE m == MessageOf(calls[q])
<1>1. /\ calls[q] # None /\ calls[q] \in CallRecords /\ calls[q].phase = "gather"
      /\ Cardinality(calls[q].signers) >= Threshold
      /\ calls' = [calls EXCEPT ![q] = None]
      /\ UNCHANGED <<chainVars, burned, ledger, attested, watched>>
  BY DEF Store, StoreTyped, Return
<1>2. m \in Messages /\ [position |-> m.position, amount |-> m.amount] = calls[q].burn
  BY <1>1, MessageIsMessage
<1>3. Backed(m)
  BY <1>1, <1>2 DEF Signed, Backed, CallRecords
<1>4. /\ \A c \in certificates' : c \in certificates \/ c.message = m
      /\ rows' \in [Nodes -> [Positions -> RowRecords \cup {None}]]
      /\ \A n \in Nodes, p \in Positions :
            rows'[n][p] = rows[n][p] \/ rows'[n][p].status = "certificate_ready"
  <2>1. CASE UNCHANGED <<rows, certificates>>
    BY <2>1 DEF StoreTyped
  <2>2. CASE /\ rows' = [rows EXCEPT ![calls[q].node][calls[q].burn.position] = NewRow(calls[q])]
             /\ certificates' = certificates \cup {[message |-> m, valid |-> Cardinality(calls[q].signers)]}
    <3>1. NewRow(calls[q]) \in RowRecords /\ NewRow(calls[q]).status = "certificate_ready"
      BY <1>2 DEF NewRow, RowRecords
    <3> DEFINE n == calls[q].node
               p == calls[q].burn.position
               row == NewRow(calls[q])
    <3>2. n \in Nodes /\ p \in Positions
      BY <1>1 DEF CallRecords, Positions
    <3>3. rows[n] \in [Positions -> RowRecords \cup {None}]
      BY <3>2 DEF StoreTyped
    <3>4. rows' = [rows EXCEPT ![n] = [rows[n] EXCEPT ![p] = row]]
      BY <2>2
    <3> HIDE DEF n, p, row
    <3>5. [rows[n] EXCEPT ![p] = row] \in [Positions -> RowRecords \cup {None}]
      BY <3>1, <3>2, <3>3 DEF row
    <3>6. rows' \in [Nodes -> [Positions -> RowRecords \cup {None}]]
      BY <3>2, <3>4, <3>5 DEF StoreTyped
    <3>7. \A k \in Nodes, o \in Positions : rows'[k][o] = rows[k][o] \/ rows'[k][o] = row
      BY <3>2, <3>3, <3>4 DEF StoreTyped
    <3> QED BY <2>2, <3>1, <3>6, <3>7 DEF row
  <2> QED BY <2>1, <2>2 DEF Store
<1>5. \A l : Backed(l) => Backed(l)'
  BY <1>1 DEF Backed
<1>6. Certified'
  BY <1>3, <1>4, <1>5 DEF Certified
<1>7. ChainTyped' /\ Released' /\ Watched'
  BY <1>1, <1>5 DEF chainVars, ChainTyped, Released, Has, Watched
<1>8. ConfirmedBelow'
  BY <1>1, <1>4 DEF chainVars, ConfirmedBelow, Has
<1>9. StoreTyped' /\ OncePerEpoch' /\ Signed'
  BY <1>1, <1>4 DEF StoreTyped, OncePerEpoch, Signed, MessageOf
<1> QED BY <1>6, <1>7, <1>8, <1>9

\* A watcher moves on when the next block is final.
LEMMA ConfirmStep ==
  ASSUME IInv, NEW n \in Nodes, ConfirmNext(n)
  PROVE  IInv'
PROOF
<1> USE DEF IInv
<1> DEFINE h == watched[n] + 1
           tx == chain[h].tx
<1>1. /\ h \in DOMAIN chain /\ h + Confirmations <= Len(chain)
      /\ watched' = [watched EXCEPT ![n] = h]
      /\ UNCHANGED <<chainVars, burned, ledger, attested, calls, certificates>>
      /\ \/ /\ tx.kind = "withdraw" /\ rows[n][tx.message.position] # None
            /\ rows' = [rows EXCEPT ![n][tx.message.position].status = "confirmed"]
         \/ rows' = rows
  BY DEF ConfirmNext, IsFinal, BuriedBy, Height
<1>2. /\ watched \in [Nodes -> Nat] /\ h \in Nat /\ peak \in Nat /\ Len(chain) \in Nat /\ Len(chain) <= peak
      /\ Confirmations \in Nat
  BY SettlementAssumption DEF ChainTyped, StoreTyped
<1>3. \A m : Backed(m) => Backed(m)'
  BY <1>1 DEF Backed
<1>4. ChainTyped' /\ Certified' /\ Released' /\ OncePerEpoch' /\ Signed'
  BY <1>1, <1>3 DEF chainVars, ChainTyped, Certified, Released, Has, OncePerEpoch, Signed, MessageOf
<1>5. Watched'
  BY <1>1, <1>2 DEF Watched, chainVars
<1>6. StoreTyped' /\ ConfirmedBelow'
  <2>1. CASE rows' = rows
    <3>1. StoreTyped'
      BY <1>1, <1>2, <2>1 DEF StoreTyped
    <3>2. \A k \in Nodes : watched[k] <= watched'[k] /\ watched'[k] \in Nat
      BY <1>1, <1>2
    <3>3. ConfirmedBelow'
      <4> SUFFICES ASSUME NEW k \in Nodes, NEW p \in Positions,
                          rows[k][p] # None, rows[k][p].status = "confirmed"
                   PROVE  \E i \in Has("withdraw")' : i <= watched'[k] /\ chain'[i].tx.message.position = p
        BY <2>1 DEF ConfirmedBelow
      <4>1. PICK i \in Has("withdraw") : i <= watched[k] /\ chain[i].tx.message.position = p
        BY DEF ConfirmedBelow
      <4>2. i \in Nat
        BY <4>1 DEF Has, ChainTyped
      <4> QED BY <1>1, <1>2, <3>2, <4>1, <4>2 DEF Has, chainVars
    <3> QED BY <3>1, <3>3
  <2>2. CASE /\ tx.kind = "withdraw" /\ rows[n][tx.message.position] # None
             /\ rows' = [rows EXCEPT ![n][tx.message.position].status = "confirmed"]
    <3> DEFINE at == tx.message.position
    <3>1. h \in Has("withdraw") /\ at \in Positions
      BY <1>1, <2>2 DEF Has, Released, Backed, Messages
    <3>a. rows[n] \in [Positions -> RowRecords \cup {None}] /\ rows \in [Nodes -> [Positions -> RowRecords \cup {None}]]
      BY DEF StoreTyped
    <3>b. rows[n][at] \in RowRecords
      BY <2>2, <3>1, <3>a
    <3>2. /\ rows'[n][at] = [rows[n][at] EXCEPT !.status = "confirmed"]
          /\ rows[n][at] \in RowRecords
      BY <2>2, <3>1, <3>a, <3>b
    <3>3. rows'[n][at] \in RowRecords
      BY <3>2 DEF RowRecords
    <3>4. rows' \in [Nodes -> [Positions -> RowRecords \cup {None}]]
      BY <2>2, <3>1, <3>2, <3>3 DEF StoreTyped
    <3>5. \A k \in Nodes, p \in Positions : (k = n /\ p = at) \/ rows'[k][p] = rows[k][p]
      BY <2>2, <3>1 DEF StoreTyped
    <3>6. StoreTyped'
      BY <1>1, <1>2, <3>4 DEF StoreTyped
    <3>7. \A k \in Nodes : watched[k] <= watched'[k] /\ watched'[k] \in Nat
      BY <1>1, <1>2
    <3>8. ConfirmedBelow'
      <4> SUFFICES ASSUME NEW k \in Nodes, NEW p \in Positions,
                          rows'[k][p] # None, rows'[k][p].status = "confirmed"
                   PROVE  \E i \in Has("withdraw")' : i <= watched'[k] /\ chain'[i].tx.message.position = p
        BY DEF ConfirmedBelow
      <4>1. CASE k = n /\ p = at
        <5>1. Has("withdraw")' = Has("withdraw") /\ chain' = chain
          BY <1>1 DEF Has, chainVars
        <5>2. h <= watched'[k]
          BY <1>1, <1>2, <4>1
        <5>3. chain'[h].tx.message.position = p
          BY <4>1, <5>1
        <5> QED BY <3>1, <5>1, <5>2, <5>3
      <4>2. CASE rows'[k][p] = rows[k][p]
        <5>1. PICK i \in Has("withdraw") : i <= watched[k] /\ chain[i].tx.message.position = p
          BY <4>2 DEF ConfirmedBelow
        <5>2. i \in Nat
          BY <5>1 DEF Has, ChainTyped
        <5> QED BY <1>1, <1>2, <3>7, <5>1, <5>2 DEF Has, chainVars
      <4> QED BY <3>5, <4>1, <4>2
    <3> QED BY <3>6, <3>8
  <2> QED BY <1>1, <2>1, <2>2
<1> QED BY <1>4, <1>5, <1>6

LEMMA InvStep == IInv /\ [Next]_vars => IInv'
PROOF
<1> SUFFICES ASSUME IInv, [Next]_vars PROVE IInv'
  OBVIOUS
<1>1. CASE (\E b \in Burns : Burn(b)) \/ (\E n \in Nodes : CatchUp(n))
  BY <1>1, LedgerStep
<1>2. CASE \E n \in Entry : ConfirmNext(n)
  BY <1>2, ConfirmStep, SettlementAssumption
<1>3. CASE Submit \/ Reopen \/ Chain
  BY <1>3, MineStep
<1>4. CASE Reorg
  BY <1>4, ReorgStep
<1>5. CASE \/ \E q \in Requests, n \in Entry, b \in Burns, r \in Recipients : Settle(q, n, b, r)
           \/ \E q \in Requests : ReadRow(q) \/ Abandon(q)
  BY <1>5, CallStep
<1>6. CASE \E q \in Requests : SignOwn(q) \/ \E n \in Nodes : CoSign(q, n)
  BY <1>6, OwnAndPeerStep
<1>7. CASE \E q \in Requests : Store(q)
  BY <1>7, StoreStep
<1>8. CASE UNCHANGED vars
  <2>1. UNCHANGED <<chainVars, burned, ledger, attested, rows, calls, certificates, watched>>
    BY <1>8 DEF vars, settleVars
  <2>2. ChainTyped' /\ Certified' /\ Released' /\ Watched' /\ ConfirmedBelow'
    BY <2>1, OutsideCalls
  <2>3. StoreTyped' /\ Signed' /\ OncePerEpoch'
    BY <2>1 DEF IInv, StoreTyped, Signed, OncePerEpoch, MessageOf
  <2> QED BY <2>2, <2>3 DEF IInv
<1> QED BY <1>1, <1>2, <1>3, <1>4, <1>5, <1>6, <1>7, <1>8 DEF Next

-----------------------------------------------------------------------------
(* Theorems *)

\* The invariant implies the payments' property: the positions released and the
\* blocks that release them are as many, since no position is released twice.
LEMMA InvPays == IInv => PaymentsAreBurned
PROOF
<1> SUFFICES ASSUME IInv PROVE PaymentsAreBurned
  OBVIOUS
<1> USE DEF IInv
<1>1. ASSUME NEW h \in Has("withdraw")
      PROVE  LET m == chain[h].tx.message IN
             /\ [position |-> m.position, amount |-> m.amount] \in burned
             /\ Cardinality({n \in Nodes : m \in attested[n]}) >= Threshold
  <2> DEFINE m == chain[h].tx.message
             all == {n \in Nodes : m \in attested[n]}
  <2>1. [position |-> m.position, amount |-> m.amount] \in burned
    BY DEF Released, Backed
  <2>2. PICK s \in SUBSET Nodes : Cardinality(s) >= Threshold /\ \A n \in s : m \in attested[n]
    BY DEF Released, Backed
  <2>3. s \subseteq all /\ IsFiniteSet(all) /\ Cardinality(all) \in Nat /\ Cardinality(s) \in Nat
    BY <2>2, FiniteParts
  <2>4. Cardinality(s) <= Cardinality(all)
    BY <2>3, FS_Subset
  <2>5. Cardinality(all) >= Threshold
    BY <2>2, <2>3, <2>4, ChainAssumption
  <2> HIDE DEF m, all
  <2> QED BY <2>1, <2>5 DEF m, all
<1>2. Cardinality(Has("withdraw")) = Cardinality(Consumed)
  <2> DEFINE f == [h \in Has("withdraw") |-> chain[h].tx.message.position]
  <2>1. f \in Bijection(Has("withdraw"), Consumed)
    <3>1. f \in [Has("withdraw") -> Consumed]
      BY DEF Consumed
    <3>2. \A h, k \in Has("withdraw") : f[h] = f[k] => h = k
      BY DEF Released
    <3>3. \A p \in Consumed : \E h \in Has("withdraw") : f[h] = p
      BY DEF Consumed
    <3> HIDE DEF f
    <3> QED BY <3>1, <3>2, <3>3 DEF Bijection, Injection, Surjection, IsInjective
  <2>2. IsFiniteSet(Has("withdraw"))
    BY HasIsFinite
  <2> QED BY <2>1, <2>2, FS_Bijection DEF ExistsBijection
<1>3. ASSUME NEW n \in Nodes, NEW p \in Positions, rows[n][p] # None, rows[n][p].status = "confirmed"
      PROVE  p \in Consumed
  BY <1>3 DEF ConfirmedBelow, Consumed
<1> QED BY <1>1, <1>2, <1>3 DEF PaymentsAreBurned

\* Two certificates of one position and epoch are the same, whichever
\* validators made them (settle, attest, sign_for_peer).
THEOREM CertificatesAlwaysAgree == Spec => []CertificatesAgree
PROOF
<1>1. IInv => CertificatesAgree
  BY BackedAgree DEF IInv, Certified, CertificatesAgree
<1> QED BY InvInit, InvStep, <1>1, PTL DEF Spec

\* A release pays a finalized burn once, to the recipient a threshold attested,
\* and a withdrawal reported as confirmed stays released (withdraw, tick).
THEOREM PaymentsAlwaysBurned == Spec => []PaymentsAreBurned
  BY InvInit, InvStep, InvPays, PTL DEF Spec

-----------------------------------------------------------------------------
(* An unpaid burn stays payable *)

\* What a validator attests is a burn of its ledger.
AttestedAreBurns ==
    /\ burned \subseteq Burns
    /\ \A n \in Nodes : \A m \in attested[n] : [position |-> m.position, amount |-> m.amount] \in burned

LEMMA AttestedStep ==
  ASSUME IInv, AttestedAreBurns, [Next]_vars
  PROVE  AttestedAreBurns'
PROOF
<1>a. /\ attested \in [Nodes -> SUBSET Messages] /\ ledger \in [Nodes -> SUBSET burned]
      /\ calls \in [Requests -> CallRecords \cup {None}]
  BY DEF IInv, StoreTyped
<1>b. attested' = attested /\ burned \subseteq burned' /\ burned' \subseteq Burns => AttestedAreBurns'
  BY DEF AttestedAreBurns
<1>1. ASSUME NEW q \in Requests, NEW n \in Nodes, calls[q] # None,
             SignerPolicy(n, calls[q].burn), Record(n, MessageOf(calls[q])), burned' = burned
      PROVE  AttestedAreBurns'
  <2>1. calls[q] \in CallRecords /\ calls[q].burn \in burned
    BY <1>a, <1>1 DEF SignerPolicy
  <2>2. \A k \in Nodes : \A m \in attested'[k] : m \in attested[k] \/ m = MessageOf(calls[q])
    BY <1>a, <1>1 DEF Record
  <2> QED BY <1>1, <2>1, <2>2, MessageIsMessage DEF AttestedAreBurns
<1>2. CASE \E q \in Requests : SignOwn(q) \/ \E n \in Nodes : CoSign(q, n)
  <2>1. PICK q \in Requests : SignOwn(q) \/ \E n \in Nodes : CoSign(q, n)
    BY <1>2
  <2>2. CASE SignOwn(q)
    <3>1. calls[q].node \in Nodes
      BY <1>a, <2>2 DEF SignOwn, CallRecords
    <3> QED BY <1>1, <2>2, <3>1 DEF SignOwn
  <2>3. CASE \E n \in Nodes : CoSign(q, n)
    BY <1>1, <2>3 DEF CoSign
  <2> QED BY <2>1, <2>2, <2>3
<1>3. CASE Submit \/ Reopen \/ Chain \/ Reorg
  BY <1>b, <1>3 DEF Submit, Reopen, Chain, Reorg, settleVars, AttestedAreBurns
<1>4. CASE (\E b \in Burns : Burn(b)) \/ (\E n \in Nodes : CatchUp(n)) \/ (\E n \in Entry : ConfirmNext(n))
  BY <1>b, <1>4 DEF Burn, CatchUp, ConfirmNext, AttestedAreBurns
<1>5. CASE \/ \E q \in Requests, n \in Entry, b \in Burns, r \in Recipients : Settle(q, n, b, r)
           \/ \E q \in Requests : ReadRow(q) \/ Store(q) \/ Abandon(q)
  BY <1>b, <1>5 DEF Settle, ReadRow, Store, Abandon, AttestedAreBurns
<1>6. CASE UNCHANGED vars
  BY <1>b, <1>6 DEF vars, settleVars, AttestedAreBurns
<1> QED BY <1>2, <1>3, <1>4, <1>5, <1>6 DEF Next

\* A message attested for a burn's position in the current epoch is the one
\* that pays the recipient it named.
LEMMA InvPayable == IInv /\ AttestedAreBurns => StillPayable
PROOF
<1> SUFFICES ASSUME IInv, AttestedAreBurns, NEW b \in burned, \A r, s \in Named(b.position) : r = s
             PROVE  \E r \in Recipients : \A n \in Nodes :
                       MayAttest(n, [position |-> b.position, amount |-> b.amount, recipient |-> r, epoch |-> Epoch])
  BY DEF StillPayable
<1>a. attested \in [Nodes -> SUBSET Messages]
  BY DEF IInv, StoreTyped
<1>b. \A n \in Nodes : \A m \in attested[n] : m.position = b.position => m.amount = b.amount
  <2>1. ASSUME NEW n \in Nodes, NEW m \in attested[n], m.position = b.position
        PROVE  m.amount = b.amount
    <3>1. b \in Burns /\ [position |-> m.position, amount |-> m.amount] \in Burns
      BY DEF AttestedAreBurns
    <3>2. [position |-> m.position, amount |-> m.amount] = b
      BY <2>1, <3>1, SettlementAssumption
    <3> QED BY <3>2
  <2> QED BY <2>1
<1>1. PICK r \in Recipients : \A s \in Named(b.position) : s = r
  <2>1. Named(b.position) \subseteq Recipients
    BY <1>a DEF Named, Messages
  <2>2. CASE Named(b.position) = {}
    BY <2>2, SettlementAssumption
  <2>3. CASE Named(b.position) # {}
    BY <2>1, <2>3
  <2> QED BY <2>2, <2>3
<1>2. ASSUME NEW n \in Nodes, NEW m \in attested[n], m.position = b.position, m.epoch = Epoch
      PROVE  m = [position |-> b.position, amount |-> b.amount, recipient |-> r, epoch |-> Epoch]
  <2>1. m \in Messages /\ m.amount = b.amount
    BY <1>a, <1>b, <1>2
  <2>2. m.recipient \in Named(b.position)
    BY <1>2 DEF Named
  <2> QED BY <1>1, <1>2, <2>1, <2>2 DEF Messages
<1> QED BY <1>2 DEF MayAttest

\* As long as the claims of an epoch name one recipient, every validator can
\* sign for a burn that is not paid, after rotations, lost answers and
\* reorganisations (attest, settle).
THEOREM AlwaysPayable == Spec => []StillPayable
PROOF
<1>1. Init => AttestedAreBurns
  BY DEF Init, AttestedAreBurns
<1>2. IInv /\ AttestedAreBurns /\ [Next]_vars => IInv' /\ AttestedAreBurns'
  BY InvStep, AttestedStep
<1> QED BY InvInit, <1>1, <1>2, InvPayable, PTL DEF Spec

=============================================================================
