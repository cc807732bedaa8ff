----------------------------- MODULE Settlement -----------------------------
(***************************************************************************)
(* How a burn on the private ledger becomes a release on the gateway       *)
(* (crates/peal-links-node/src/settlement.rs, with the withdrawals part of *)
(* watcher.rs): validators sign the withdrawal message, each against its   *)
(* own copy of the ledger and its own view of the gateway's epoch.         *)
(*                                                                         *)
(* The message a claim gives is [position, amount, recipient, epoch].  A   *)
(* settle call waits for the RPC, for the ledger and for its peers; other  *)
(* calls, rotations and reorganisations come in between.  After a rotation *)
(* the same validators sign, for the new epoch.  The chain keeps what has  *)
(* Confirmations blocks on it, so the watcher is its cursor alone.         *)
(***************************************************************************)
EXTENDS GatewayChain

CONSTANTS
    Nodes,          \* validators, one settlement key each
    Entry,          \* bound: validators that clients call and whose watcher runs
    MaxEpoch,       \* bound: the gateway's epoch
    Burns,          \* [position, amount] of the withdrawal sends
    Recipients,     \* addresses the account signs a claim for
    Requests,       \* settle calls at a time
    Confirmations   \* ns.confirmations

\* A threshold above half is the operator's to configure; a position is a
\* leaf of the receipt tree and discloses one amount.
ASSUME SettlementAssumption ==
    /\ IsFiniteSet(Nodes)
    /\ Entry \subseteq Nodes
    /\ 2 * Threshold > Cardinality(Nodes)
    /\ Burns \subseteq [position : Nat, amount : Nat]
    /\ \A b, c \in Burns : b.position = c.position => b = c
    /\ Recipients # {}
    /\ MaxReorg <= Confirmations
    /\ Confirmations \in Nat
    /\ MaxEpoch \in Nat

Positions == {b.position : b \in Burns}

VARIABLES
    burned,         \* burns the ledger finalized
    ledger,         \* the burns each validator's copy of the ledger holds
    attested,       \* withdrawal_attestations, per validator
    rows,           \* withdrawals, per validator and position; None for no row
    calls,          \* settle calls under way
    certificates,   \* certificates handed out
    watched         \* per validator: last block its watcher processed

settleVars == <<burned, ledger, attested, rows, calls, certificates, watched>>
vars == <<chainVars, settleVars>>

Init ==
    /\ ChainInit
    /\ burned = {}
    /\ ledger = [n \in Nodes |-> {}]
    /\ attested = [n \in Nodes |-> {}]
    /\ rows = [n \in Nodes |-> [p \in Positions |-> None]]
    /\ calls = [q \in Requests |-> None]
    /\ certificates = {}
    /\ watched = [n \in Nodes |-> 0]

-----------------------------------------------------------------------------
(* Ledger and chain *)

\* A send to the withdraw identifier is finalized.
Burn(b) ==
    /\ b \notin burned
    /\ burned' = burned \cup {b}
    /\ UNCHANGED <<chainVars, ledger, attested, rows, calls, certificates, watched>>

\* A validator applies the blocks it was behind.
CatchUp(n) ==
    /\ ledger[n] # burned
    /\ ledger' = [ledger EXCEPT ![n] = burned]
    /\ UNCHANGED <<chainVars, burned, attested, rows, calls, certificates, watched>>

\* Anyone submits a certificate that was handed out.
Submit ==
    /\ \E c \in certificates : withdraw(c.message, c.valid)
    /\ UNCHANGED settleVars

Reopen == openGateway /\ UNCHANGED settleVars

Chain ==
    /\ MineEmpty \/ (Epoch < MaxEpoch /\ rotateSigners) \/ closeGateway
    /\ UNCHANGED settleVars

Reorg ==
    /\ \E keep \in 0 .. Len(chain) : ReorgTo(keep)
    /\ UNCHANGED settleVars

-----------------------------------------------------------------------------
(* Signing *)

\* SignerPolicy::check: the leaf at the position is the disclosed burn.
SignerPolicy(n, b) == b \in ledger[n]

\* Variant: any number of messages is attested.
AttestsAnything(n, message) == TRUE

\* Variant: one message per position, whatever the epoch.
AttestsOncePerPosition(n, message) ==
    \A m \in attested[n] : m.position = message.position => m = message

\* attest: one message per position and epoch.
MayAttest(n, message) ==
    \A m \in attested[n] :
        (m.position = message.position /\ m.epoch = message.epoch) => m = message

Record(n, message) == attested' = [attested EXCEPT ![n] = @ \cup {message}]

MessageOf(call) ==
    [position |-> call.burn.position, amount |-> call.burn.amount,
     recipient |-> call.recipient, epoch |-> call.epoch]

-----------------------------------------------------------------------------
(* A settle call *)

\* A claim signed for one recipient, of a burn that may not be on the
\* ledger; the gateway's epoch is read.
Settle(q, n, b, recipient) ==
    /\ calls[q] = None
    /\ calls' = [calls EXCEPT ![q] =
                    [node |-> n, burn |-> b, recipient |-> recipient, epoch |-> Epoch,
                     phase |-> "row", recertify |-> FALSE, signers |-> {}]]
    /\ UNCHANGED <<chainVars, burned, ledger, attested, rows, certificates, watched>>

RowOf(call) == rows[call.node][call.burn.position]

Return(q) == calls' = [calls EXCEPT ![q] = None]

IsSettled(call) == RowOf(call) # None /\ RowOf(call).message.epoch = call.epoch

Recertifies(call) == RowOf(call) # None

\* A certificate of this epoch is returned as it was stored.
ReadRow(q) ==
    /\ calls[q] # None /\ calls[q].phase = "row"
    /\ IF IsSettled(calls[q])
       THEN Return(q)
       ELSE calls' = [calls EXCEPT ![q].phase = "check", ![q].recertify = Recertifies(calls[q])]
    /\ UNCHANGED <<chainVars, burned, ledger, attested, rows, certificates, watched>>

\* The node checks the claim and attests first.
SignOwn(q) ==
    /\ calls[q] # None /\ calls[q].phase = "check"
    /\ LET n == calls[q].node IN
        /\ SignerPolicy(n, calls[q].burn)
        /\ MayAttest(n, MessageOf(calls[q]))
        /\ Record(n, MessageOf(calls[q]))
        /\ calls' = [calls EXCEPT ![q].phase = "gather", ![q].signers = {n}]
    /\ UNCHANGED <<chainVars, burned, ledger, rows, certificates, watched>>

\* sign_for_peer: the peer's own ledger, epoch and attestations; its answer
\* may be lost.  No more are asked for than the threshold needs.
CoSign(q, n) ==
    /\ calls[q] # None /\ calls[q].phase = "gather"
    /\ n \notin calls[q].signers
    /\ Cardinality(calls[q].signers) < Threshold
    /\ SignerPolicy(n, calls[q].burn)
    /\ calls[q].epoch = Epoch
    /\ MayAttest(n, MessageOf(calls[q]))
    /\ Record(n, MessageOf(calls[q]))
    /\ calls' \in {calls, [calls EXCEPT ![q].signers = @ \cup {n}]}
    /\ UNCHANGED <<chainVars, burned, ledger, rows, certificates, watched>>

NewRow(call) == [message |-> MessageOf(call), status |-> "certificate_ready"]

\* The update replaces the row; the insert of a second call conflicts with
\* the first one's, and its certificate is thrown away.
Store(q) ==
    /\ calls[q] # None /\ calls[q].phase = "gather"
    /\ Cardinality(calls[q].signers) >= Threshold
    /\ IF RowOf(calls[q]) = None \/ calls[q].recertify
       THEN /\ rows' = [rows EXCEPT ![calls[q].node][calls[q].burn.position] = NewRow(calls[q])]
            /\ certificates' = certificates \cup
                    {[message |-> MessageOf(calls[q]), valid |-> Cardinality(calls[q].signers)]}
       ELSE UNCHANGED <<rows, certificates>>
    /\ Return(q)
    /\ UNCHANGED <<chainVars, burned, ledger, attested, watched>>

\* Every other end of a call: a refusal, an RPC that does not answer, too
\* few signatures, a crash of the node.
Abandon(q) ==
    /\ calls[q] # None
    /\ Return(q)
    /\ UNCHANGED <<chainVars, burned, ledger, attested, rows, certificates, watched>>

-----------------------------------------------------------------------------
(* The watcher *)

\* Variant: a block counts as soon as it is mined.
IsFinalAtOnce(h) == BuriedBy(h, 0)

IsFinal(h) == BuriedBy(h, Confirmations)

\* A release in a final block confirms the node's row for it.
ConfirmNext(n) ==
    /\ IsFinal(watched[n] + 1)
    /\ watched' = [watched EXCEPT ![n] = @ + 1]
    /\ LET tx == chain[watched[n] + 1].tx IN
        IF tx.kind = "withdraw" /\ rows[n][tx.message.position] # None
        THEN rows' = [rows EXCEPT ![n][tx.message.position].status = "confirmed"]
        ELSE UNCHANGED rows
    /\ UNCHANGED <<chainVars, burned, ledger, attested, calls, certificates>>

-----------------------------------------------------------------------------
Next ==
    \/ \E b \in Burns : Burn(b)
    \/ \E n \in Nodes : CatchUp(n)
    \/ \E n \in Entry : ConfirmNext(n)
    \/ Submit
    \/ Reopen
    \/ Chain
    \/ Reorg
    \/ \E q \in Requests, n \in Entry, b \in Burns, r \in Recipients : Settle(q, n, b, r)
    \/ \E q \in Requests : ReadRow(q) \/ SignOwn(q) \/ Store(q) \/ Abandon(q)
    \/ \E q \in Requests, n \in Nodes : CoSign(q, n)

Spec == Init /\ [][Next]_vars

-----------------------------------------------------------------------------
(* Properties *)

\* What the gateway releases is a finalized burn with the burn's amount, to
\* the recipient a threshold of validators attested; one release per burn; and
\* a withdrawal reported as confirmed was released, and stays released.
PaymentsAreBurned ==
    /\ \A h \in Has("withdraw") :
        LET m == chain[h].tx.message IN
        /\ [position |-> m.position, amount |-> m.amount] \in burned
        /\ Cardinality({n \in Nodes : m \in attested[n]}) >= Threshold
    /\ Cardinality(Has("withdraw")) = Cardinality(Consumed)
    /\ \A n \in Nodes, p \in Positions :
        (rows[n][p] # None /\ rows[n][p].status = "confirmed") => p \in Consumed

\* Two certificates for one position and epoch, made by whichever
\* validators, pay the same recipient.
CertificatesAgree ==
    \A c, d \in certificates :
        (c.message.position = d.message.position /\ c.message.epoch = d.message.epoch)
            => c.message = d.message

\* The recipients a validator attested for a position in the current epoch.
Named(position) ==
    {m.recipient : m \in {m \in UNION {attested[n] : n \in Nodes} :
                              m.position = position /\ m.epoch = Epoch}}

\* An unpaid burn stays payable as long as the claims of the current epoch
\* named one recipient: whatever was attested before a rotation, or by a call
\* whose answer was lost, and when a reorganisation brings an epoch back,
\* every validator can still sign (attest, settle's certificates again).
StillPayable ==
    \A b \in burned :
        b.position \notin Consumed /\ (\A r, s \in Named(b.position) : r = s) =>
            \E r \in Recipients : \A n \in Nodes :
                MayAttest(n, [position |-> b.position, amount |-> b.amount, recipient |-> r, epoch |-> Epoch])

=============================================================================
