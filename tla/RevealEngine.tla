---------------------------- MODULE RevealEngine ----------------------------
(***************************************************************************)
(* The coordinator of sealed rounds: conditions that fall due are frozen   *)
(* into ordered batches, operators submit decryption shares, and the       *)
(* engine task finalizes batches and publishes the reveal                  *)
(* (crates/bte-coordinator/src/engine.rs, api.rs, intents.rs, and the      *)
(* polling loop of crates/bte-node/src/main.rs).                           *)
(*                                                                         *)
(* One action is one hold of the database mutex, or less where a crash can *)
(* fall between two statements of one hold: then the mutex stays held      *)
(* (Locked) and no handler runs in between.  The engine is one task, so    *)
(* its program counter is one variable.                                    *)
(*                                                                         *)
(* A ciphertext is its hash, a natural number; the padding the engine      *)
(* seals itself is Padding.  Positions count from 1 (the code's from 0)    *)
(* and are the indices of order[c].  Batches, commitments and opened slots *)
(* are functions on <<condition, batch index>>.                            *)
(***************************************************************************)
EXTENDS Naturals, Sequences, FiniteSets, SequencesExt

CONSTANTS
    AtTime,         \* conditions of kind at_time
    AtBlock,        \* conditions of kind at_block
    Seals,          \* hashes of the ciphertexts clients may seal
    IntentIds,      \* ids of the intents agents may submit
    Operators,      \* the committee's members
    Honest,         \* operators running without --byzantine
    B,              \* batch size of the committee
    T,              \* decryption threshold of the committee
    Named,          \* operators that submissions made by others may name
    MaxFaults,      \* bound: crashes and failed statements in a behaviour
    Padding,        \* a ciphertext sealed by the coordinator to fill a batch
    None            \* NULL, or no row

ASSUME CommitteeAssumption ==
    /\ B \in Nat \ {0}
    /\ T \in Nat \ {0}
    /\ Honest \subseteq Operators /\ Named \subseteq Operators
ASSUME SealAssumption == Seals \subseteq Nat /\ IsFiniteSet(Seals) /\ Padding \notin Seals

Conditions == AtTime \cup AtBlock

ASSUME NullAssumption == None \notin Conditions

VARIABLES
    status,     \* conditions.status
    sealed,     \* ciphertexts: hash -> its condition, or None
    order,      \* ciphertexts.position: condition -> its ciphertexts in position order
    intents,    \* the intents rows, in insertion order
    commits,    \* batch_commitments: batch -> leaves of the ordering root, or None
    shares,     \* the shares rows
    predone,    \* batches with a predecrypt_ms
    finalized,  \* batches with a finalized_at
    slots,      \* batch_slots: batch -> the ciphertexts it opened, or None
    reveals,    \* reveals: condition -> the opened ciphertexts, or None
    cross,      \* memory: batches whose cross-terms are cached
    engine,     \* memory: where the engine task is
    verifying,  \* memory: share submissions whose proof is being verified
    work,       \* operators: batches fetched from /v0/work, not yet answered
    due,        \* environment: conditions whose time or height has come
    faults,     \* crashes and failed statements so far
    missed,     \* history: seals accepted after the read their freeze used
    torn        \* history: batches finalized whose slots were never stored

tables  == <<status, sealed, order, intents, commits, shares, predone, finalized, slots, reveals>>
nodes   == <<verifying, work>>
history == <<missed, torn>>
vars    == <<status, sealed, order, intents, commits, shares, predone, finalized, slots, reveals,
             cross, engine, verifying, work, due, faults, missed, torn>>

-----------------------------------------------------------------------------
(* Batches *)

BatchCount(c) == Len(order[c]) \div B
Batches(c) == {<<c, k>> : k \in 1 .. BatchCount(c)}
AllBatches == UNION {Batches(c) : c \in Conditions}

\* Real ciphertexts in hash order, padding after them, a multiple of B and at
\* least one batch.
Padded(reals) ==
    LET batches == IF reals = <<>> THEN 1 ELSE (Len(reals) + B - 1) \div B
    IN  [i \in 1 .. batches * B |-> IF i <= Len(reals) THEN reals[i] ELSE Padding]

\* SELECT ... ORDER BY hash: the one ascending sequence of a condition's seals.
RealsOf(c) ==
    LET rows == {s \in Seals : sealed[s] = c}
    IN  {q \in [1 .. Cardinality(rows) -> rows] : \A i, j \in DOMAIN q : i < j => q[i] < q[j]}

BatchSlice(seq, k) == SubSeq(seq, (k - 1) * B + 1, k * B)

\* batch_cts: the rows whose position falls in the batch.
BatchCts(b) == BatchSlice(order[b[1]], b[2])

VerifiedShares(b) == {s \in shares : s.batch = b /\ s.verified}
HasShare(b, o) == \E s \in shares : s.batch = b /\ s.op = o

-----------------------------------------------------------------------------
(* Intents *)

NextStates(from) ==
    CASE from = "SUBMITTED"       -> {"VALIDATED", "FAILED", "CANCELLED", "EXPIRED"}
      [] from = "VALIDATED"       -> {"BATCHED", "FAILED", "CANCELLED", "EXPIRED"}
      [] from = "BATCHED"         -> {"ORDER_COMMITTED", "FAILED", "EXPIRED"}
      [] from = "ORDER_COMMITTED" -> {"COLLECTING_SHARES", "FAILED"}
      [] OTHER -> {}

\* advance_condition_intents: intents that may not make the move stay.
Advance(rows, c, to) ==
    [i \in DOMAIN rows |->
        IF rows[i].cond = c /\ to \in NextStates(rows[i].state)
          THEN [rows[i] EXCEPT !.state = to] ELSE rows[i]]

OrderCommitIntents(c) ==
    Advance(Advance(Advance(intents, c, "VALIDATED"), c, "BATCHED"), c, "ORDER_COMMITTED")

\* SELECT id FROM intents WHERE ciphertext_hash = ?: the oldest row.
BoundIntent(ct) ==
    LET rows == {i \in DOMAIN intents : intents[i].seal = ct}
    IN  IF rows = {} THEN None
        ELSE intents[CHOOSE i \in rows : \A j \in rows : i <= j].id

\* The leaves under a batch's ordering root.
OrderingLeaves(cts) == [i \in DOMAIN cts |-> [intent |-> BoundIntent(cts[i]), ct |-> cts[i]]]

\* Variant: only the first batch's ordering is committed.
RecordFirstCommitment(c, ordered) == [b \in {<<c, 1>>} |-> OrderingLeaves(BatchSlice(ordered, b[2]))]

\* record_commitment, once per batch.
RecordCommitments(c, ordered) ==
    [b \in {<<c, k>> : k \in 1 .. Len(ordered) \div B} |-> OrderingLeaves(BatchSlice(ordered, b[2]))]

\* f's rows before g's, by batch: INSERT OR REPLACE puts the new rows first,
\* INSERT OR IGNORE the old ones.
Over(f, g) == [b \in DOMAIN f \cup DOMAIN g |-> IF b \in DOMAIN f THEN f[b] ELSE g[b]]

-----------------------------------------------------------------------------

Idle == [at |-> "idle", back |-> "idle", todo |-> {}, cond |-> None, reals |-> <<>>, batch |-> None]

Init ==
    /\ status = [c \in Conditions |-> "pending"]
    /\ sealed = [s \in Seals |-> None]
    /\ order = [c \in Conditions |-> <<>>]
    /\ intents = <<>>
    /\ commits = <<>>
    /\ shares = {}
    /\ predone = {}
    /\ finalized = {}
    /\ slots = <<>>
    /\ reveals = [c \in Conditions |-> None]
    /\ cross = {}
    /\ engine = Idle
    /\ verifying = {}
    /\ work = [o \in Operators |-> {}]
    /\ due = {}
    /\ faults = 0
    /\ missed = {}
    /\ torn = {}

\* The engine holds the database mutex between two statements.
Locked == engine.at \in {"slots", "publish"}

-----------------------------------------------------------------------------
(* Clients and time *)

\* fires_at passes, or the chain reaches the height.
FallDue(c) ==
    /\ c \notin due
    /\ due' = due \cup {c}
    /\ UNCHANGED <<tables, nodes, cross, engine, faults, history>>

\* submit_ciphertext, create_seal: a hash already stored is ignored.  The
\* status is all that is looked at, so a freeze under way does not keep it out.
SubmitCiphertext(c, s) ==
    /\ ~Locked
    /\ status[c] = "pending"
    /\ sealed[s] = None
    /\ sealed' = [sealed EXCEPT ![s] = c]
    /\ missed' = IF engine.at = "seal" /\ engine.cond = c THEN missed \cup {s} ELSE missed
    /\ UNCHANGED <<status, order, intents, commits, shares, predone, finalized, slots, reveals,
                   nodes, cross, engine, due, faults, torn>>

\* Variant: an intent may join a condition that has frozen.
MayJoinLate(i, s) ==
    /\ sealed[s] # None
    /\ \A k \in DOMAIN intents : intents[k].id # i

\* submit_intent joins a stored ciphertext of a pending condition; a repeated
\* id is a replay.
MayJoin(i, s) ==
    /\ sealed[s] # None
    /\ status[sealed[s]] = "pending"
    /\ \A k \in DOMAIN intents : intents[k].id # i

SubmitIntent(i, s) ==
    /\ ~Locked
    /\ MayJoin(i, s)
    /\ intents' = Append(intents, [id |-> i, seal |-> s, cond |-> sealed[s], state |-> "SUBMITTED"])
    /\ UNCHANGED <<status, sealed, order, commits, shares, predone, finalized, slots, reveals,
                   nodes, cross, engine, due, faults, history>>

-----------------------------------------------------------------------------
(* tick, first half: freezing what is due *)

\* Variant: the query forgets the status.
FireableAgain(kind) == kind \cap due

\* What is due and still pending.
Fireable(kind) == {c \in kind \cap due : status[c] = "pending"}

\* The at_time conditions whose time has passed.
ReadDue ==
    /\ engine.at = "idle"
    /\ engine' = [Idle EXCEPT !.at = "due", !.todo = Fireable(AtTime)]
    /\ UNCHANGED <<tables, nodes, cross, due, faults, history>>

\* fire_at_block: the pending at_block conditions whose chain answered with a
\* head at or past their height; an RPC error leaves a condition for later.
PollHeads(seen) ==
    /\ engine.at = "due"
    /\ engine.todo = {}
    /\ seen \subseteq Fireable(AtBlock)
    /\ engine' = [Idle EXCEPT !.at = "heads", !.todo = seen]
    /\ UNCHANGED <<tables, nodes, cross, due, faults, history>>

\* freeze_condition reads the real ciphertexts, then lets go of the mutex and
\* seals padding for the tail batch.
FreezeRead(c) ==
    /\ engine.at \in {"due", "heads"}
    /\ c \in engine.todo
    /\ \E reals \in RealsOf(c) :
        engine' = [engine EXCEPT !.at = "seal", !.back = engine.at, !.cond = c,
                                 !.todo = @ \ {c}, !.reals = reals]
    /\ missed' = {s \in missed : sealed[s] # c}
    /\ UNCHANGED <<tables, nodes, cross, due, faults, torn>>

\* freeze_condition's transaction: padding, positions, batches, status, ordering
\* commitments, and the intents' moves, all or none.
FreezeCommit ==
    LET c == engine.cond
        ordered == Padded(engine.reals)
    IN  /\ engine.at = "seal"
        /\ order' = [order EXCEPT ![c] = ordered]
        /\ status' = [status EXCEPT ![c] = "frozen"]
        /\ commits' = Over(commits, RecordCommitments(c, ordered))
        /\ intents' = OrderCommitIntents(c)
        /\ engine' = [engine EXCEPT !.at = "cross", !.reals = <<>>, !.batch = <<c, 1>>]
        /\ UNCHANGED <<sealed, shares, predone, finalized, slots, reveals, nodes, cross, due, faults, history>>

\* run_pre_decrypt for the next batch of the condition just frozen.
PreDecrypt ==
    LET b == engine.batch
        next == <<b[1], b[2] + 1>>
    IN  /\ engine.at = "cross"
        /\ cross' = cross \cup {b}
        /\ predone' = predone \cup {b}
        /\ engine' = IF next \in AllBatches
                       THEN [engine EXCEPT !.batch = next]
                       ELSE [Idle EXCEPT !.at = engine.back, !.todo = engine.todo]
        /\ UNCHANGED <<status, sealed, order, intents, commits, shares, finalized, slots, reveals,
                       nodes, due, faults, history>>

-----------------------------------------------------------------------------
(* tick, second half: finalizing and publishing *)

Unfinalized == AllBatches \ finalized

\* Variant: a rejected share counts towards the threshold.
ReadyOnAny == {b \in Unfinalized : Cardinality({s \in shares : s.batch = b}) >= T}

\* Variant: one share more than the threshold.
ReadyLate == {b \in Unfinalized : Cardinality(VerifiedShares(b)) > T}

Ready == {b \in Unfinalized : Cardinality(VerifiedShares(b)) >= T}

\* finalize_ready's first query.
ReadReady ==
    /\ engine.at = "heads"
    /\ engine.todo = {}
    /\ engine' = [Idle EXCEPT !.at = "ready", !.todo = Ready]
    /\ UNCHANGED <<tables, nodes, cross, due, faults, history>>

\* finalize_batch up to its last lock: cross-terms cached or recomputed after a
\* restart, then the payloads recovered off-thread.
Recover(b) ==
    /\ engine.at = "ready"
    /\ b \in engine.todo
    /\ cross' = cross \cup {b}
    /\ predone' = predone \cup {b}
    /\ engine' = [engine EXCEPT !.at = "mark", !.todo = @ \ {b}, !.batch = b, !.reals = BatchCts(b)]
    /\ UNCHANGED <<status, sealed, order, intents, commits, shares, finalized, slots, reveals,
                   nodes, due, faults, history>>

\* UPDATE batches SET finalized_at ...
MarkFinalized ==
    /\ engine.at = "mark"
    /\ finalized' = finalized \cup {engine.batch}
    /\ engine' = [engine EXCEPT !.at = "slots"]
    /\ UNCHANGED <<status, sealed, order, intents, commits, shares, predone, slots, reveals,
                   nodes, cross, due, faults, history>>

\* ... then INSERT OR REPLACE INTO batch_slots, under the same lock; the cached
\* cross-terms go.
StoreSlots ==
    /\ engine.at = "slots"
    /\ slots' = Over([b \in {engine.batch} |-> engine.reals], slots)
    /\ cross' = cross \ {engine.batch}
    /\ engine' = [Idle EXCEPT !.at = "ready", !.todo = engine.todo]
    /\ UNCHANGED <<status, sealed, order, intents, commits, shares, predone, finalized, reveals,
                   nodes, due, faults, history>>

Unrevealed == {c \in Conditions : status[c] \in {"frozen", "stalled"} /\ Batches(c) # {}}

\* Variant: one finalized batch is enough.
DoneOnAny == {c \in Unrevealed : Batches(c) \cap finalized # {}}

Done == {c \in Unrevealed : Batches(c) \subseteq finalized}

\* finalize_ready's second query.
ReadDone ==
    /\ engine.at = "ready"
    /\ engine.todo = {}
    /\ engine' = [Idle EXCEPT !.at = "done", !.todo = Done]
    /\ UNCHANGED <<tables, nodes, cross, due, faults, history>>

\* batches JOIN batch_slots, in batch_index order.
OpenedSlots(c) ==
    FlattenSeq([k \in 1 .. BatchCount(c) |->
        IF <<c, k>> \in DOMAIN slots THEN slots[<<c, k>>] ELSE <<>>])

\* build_reveal writes the reveals row ...
BuildReveal(c) ==
    /\ engine.at = "done"
    /\ c \in engine.todo
    /\ reveals' = [reveals EXCEPT ![c] = OpenedSlots(c)]
    /\ engine' = [engine EXCEPT !.at = "publish", !.todo = @ \ {c}, !.cond = c]
    /\ UNCHANGED <<status, sealed, order, intents, commits, shares, predone, finalized, slots,
                   nodes, cross, due, faults, history>>

\* ... then the status, under the same lock.
MarkRevealed ==
    /\ engine.at = "publish"
    /\ status' = [status EXCEPT ![engine.cond] = "revealed"]
    /\ engine' = [engine EXCEPT !.at = "done", !.cond = None]
    /\ UNCHANGED <<sealed, order, intents, commits, shares, predone, finalized, slots, reveals,
                   nodes, cross, due, faults, history>>

\* mark_stalled: the frozen conditions with an unfinalized batch older than
\* REVEAL_TIMEOUT_SECS.  The pass ends.
MarkStalled(late) ==
    /\ engine.at = "done"
    /\ engine.todo = {}
    /\ late \subseteq {c \in Conditions : status[c] = "frozen" /\ ~ Batches(c) \subseteq finalized}
    /\ status' = [c \in Conditions |-> IF c \in late THEN "stalled" ELSE status[c]]
    /\ engine' = Idle
    /\ UNCHANGED <<sealed, order, intents, commits, shares, predone, finalized, slots, reveals,
                   nodes, cross, due, faults, history>>

-----------------------------------------------------------------------------
(* Operators: poll_once against /v0/work and /v0/shares *)

\* The node is waiting for the answer to a share it posted.
Waiting(o) == \E v \in verifying : v.op = o /\ ~v.orphan

\* get_work: batches without a finalized_at and without a row of this operator.
GetWork(o) ==
    LET open == {b \in AllBatches \ finalized : ~HasShare(b, o)}
    IN  /\ ~Locked
        /\ work[o] = {}
        /\ ~Waiting(o)
        /\ open # {}
        /\ work' = [work EXCEPT ![o] = {[batch |-> b, headers |-> BatchCts(b)] : b \in open}]
        /\ UNCHANGED <<tables, verifying, cross, engine, due, faults, history>>

\* submit_share, first lock: refused once the batch is finalized (the node gives
\* up this poll), answered at once if the operator has a row.  Otherwise the
\* headers are read and the proof is verified off-lock.
PostShare(o, w) ==
    /\ ~Locked
    /\ w \in work[o]
    /\ ~Waiting(o)
    /\ \/ /\ w.batch \in finalized
          /\ work' = [work EXCEPT ![o] = {}]
          /\ UNCHANGED verifying
       \/ /\ w.batch \notin finalized
          /\ HasShare(w.batch, o)
          /\ work' = [work EXCEPT ![o] = @ \ {w}]
          /\ UNCHANGED verifying
       \/ /\ w.batch \notin finalized
          /\ ~HasShare(w.batch, o)
          /\ verifying' = verifying \cup
                 {[op |-> o, batch |-> w.batch, own |-> TRUE, orphan |-> FALSE,
                   valid |-> o \in Honest /\ w.headers = BatchCts(w.batch)]}
          /\ UNCHANGED work
    /\ UNCHANGED <<tables, cross, engine, due, faults, history>>

\* The same first lock for a share that names an operator and comes from
\* somebody else: the route asks for no credential, and without the operator's
\* secret the share cannot verify.  No node waits for the answer.
PostInName(o, b) ==
    /\ ~Locked
    /\ b \in AllBatches \ finalized
    /\ ~HasShare(b, o)
    /\ verifying' = verifying \cup
           {[op |-> o, batch |-> b, own |-> FALSE, orphan |-> TRUE, valid |-> FALSE]}
    /\ UNCHANGED <<tables, work, cross, engine, due, faults, history>>

\* submit_share, second lock: INSERT OR IGNORE.
StoreShare(v) ==
    /\ ~Locked
    /\ v \in verifying
    /\ shares' = IF HasShare(v.batch, v.op) THEN shares
                 ELSE shares \cup {[batch |-> v.batch, op |-> v.op, own |-> v.own, verified |-> v.valid]}
    /\ verifying' = verifying \ {v}
    /\ work' = IF v.orphan THEN work
               ELSE [work EXCEPT ![v.op] = {w \in @ : w.batch # v.batch}]
    /\ UNCHANGED <<status, sealed, order, intents, commits, predone, finalized, slots, reveals,
                   cross, engine, due, faults, history>>

-----------------------------------------------------------------------------
(* Crashes and failed statements *)

\* The coordinator dies and comes back: only the tables survive, and the
\* connections of waiting nodes break, which ends their poll.
CoordinatorRestart ==
    /\ faults < MaxFaults
    /\ faults' = faults + 1
    /\ engine' = Idle
    /\ cross' = {}
    /\ work' = [o \in Operators |-> IF Waiting(o) THEN {} ELSE work[o]]
    /\ verifying' = {}
    /\ torn' = IF engine.at = "slots" THEN torn \cup {engine.batch} ELSE torn
    /\ UNCHANGED <<tables, due, missed>>

\* An operator dies and comes back: a request it had posted may still be served.
OperatorRestart(o) ==
    /\ faults < MaxFaults
    /\ faults' = faults + 1
    /\ work[o] # {}
    /\ work' = [work EXCEPT ![o] = {}]
    /\ verifying' = {IF v.op = o THEN [v EXCEPT !.orphan = TRUE] ELSE v : v \in verifying}
    /\ UNCHANGED <<tables, cross, engine, due, history>>

MayFail == faults < MaxFaults /\ faults' = faults + 1

\* One of tick's own queries, or mark_stalled's update, fails: the pass ends.
QueryFails ==
    /\ MayFail
    /\ engine.at \in {"due", "heads", "ready", "done"}
    /\ engine.todo = {}
    /\ engine' = Idle
    /\ UNCHANGED <<tables, nodes, cross, due, history>>

\* What one condition's freeze, one batch's finalizing or one condition's reveal
\* does before its first write, or that write, fails: it is logged and the pass
\* goes on with the next one.
ItemFails(x) ==
    /\ MayFail
    /\ engine.at \in {"due", "heads", "ready", "done"}
    /\ x \in engine.todo
    /\ engine' = [engine EXCEPT !.todo = @ \ {x}]
    /\ \/ UNCHANGED cross
       \/ engine.at = "ready" /\ cross' = cross \cup {x}
    /\ UNCHANGED <<tables, nodes, due, history>>

\* The freeze transaction rolls back, or the time of a pre-decryption is not
\* written: freeze_condition gives up there, its batches already frozen or not.
FreezeFails ==
    /\ MayFail
    /\ engine.at \in {"seal", "cross"}
    /\ cross' = IF engine.at = "cross" THEN cross \cup {engine.batch} ELSE cross
    /\ engine' = [Idle EXCEPT !.at = engine.back, !.todo = engine.todo]
    /\ UNCHANGED <<tables, nodes, due, history>>

\* finalize_batch gives up at its UPDATE, or after it at the INSERT of the slots:
\* then the batch is finalized, and no later pass takes it up again.
FinalizeFails ==
    /\ MayFail
    /\ engine.at \in {"mark", "slots"}
    /\ torn' = IF engine.at = "slots" THEN torn \cup {engine.batch} ELSE torn
    /\ engine' = [Idle EXCEPT !.at = "ready", !.todo = engine.todo]
    /\ UNCHANGED <<tables, nodes, cross, due, missed>>

\* build_reveal gives up at its UPDATE: the reveal is stored, the status is not.
RevealFails ==
    /\ MayFail
    /\ engine.at = "publish"
    /\ engine' = [engine EXCEPT !.at = "done", !.cond = None]
    /\ UNCHANGED <<tables, nodes, cross, due, history>>

\* submit_share's INSERT fails: the answer is an error, which ends a node's poll.
ShareFails(v) ==
    /\ MayFail
    /\ ~Locked
    /\ v \in verifying
    /\ verifying' = verifying \ {v}
    /\ work' = IF v.orphan THEN work ELSE [work EXCEPT ![v.op] = {}]
    /\ UNCHANGED <<tables, cross, engine, due, history>>

-----------------------------------------------------------------------------

Tick ==
    \/ ReadDue
    \/ \E seen \in SUBSET AtBlock : PollHeads(seen)
    \/ \E c \in Conditions : FreezeRead(c)
    \/ FreezeCommit
    \/ PreDecrypt
    \/ ReadReady
    \/ \E b \in AllBatches : Recover(b)
    \/ MarkFinalized
    \/ StoreSlots
    \/ ReadDone
    \/ \E c \in Conditions : BuildReveal(c)
    \/ MarkRevealed
    \/ \E late \in SUBSET Conditions : MarkStalled(late)

Answer(o) ==
    \/ GetWork(o)
    \/ \E w \in work[o] : PostShare(o, w)
    \/ \E v \in verifying : v.op = o /\ StoreShare(v)

Next ==
    \/ Tick
    \/ \E o \in Operators : Answer(o)
    \/ \E c \in Conditions : FallDue(c)
    \/ \E c \in Conditions, s \in Seals : SubmitCiphertext(c, s)
    \/ \E i \in IntentIds, s \in Seals : SubmitIntent(i, s)
    \/ \E o \in Named, b \in AllBatches : PostInName(o, b)
    \/ CoordinatorRestart
    \/ \E o \in Operators : OperatorRestart(o)
    \/ QueryFails \/ FreezeFails \/ FinalizeFails \/ RevealFails
    \/ \E x \in engine.todo : ItemFails(x)
    \/ \E v \in verifying : ShareFails(v)

Spec == Init /\ [][Next]_vars

\* main.rs spawns the engine loop on a 500 ms interval; an honest node polls
\* forever; a chain's RPC endpoint that is asked forever answers in the end.
Fairness ==
    /\ WF_vars(Tick)
    /\ \A o \in Honest : WF_vars(Answer(o))
    /\ \A c \in AtBlock : SF_vars(\E seen \in SUBSET AtBlock : c \in seen /\ PollHeads(seen))

FairSpec == Spec /\ Fairness

-----------------------------------------------------------------------------
(* Correctness *)

\* No operator is handed a batch, holds a share of it or has it opened, whose
\* ordering is not committed, ciphertext by ciphertext (engine.rs 179-185).
CommittedBeforeWork ==
    \A b \in {w.batch : w \in UNION {work[o] : o \in Operators}}
               \cup {s.batch : s \in shares} \cup finalized :
        /\ b \in DOMAIN commits
        /\ [i \in DOMAIN commits[b] |-> commits[b][i].ct] = BatchCts(b)

\* Nothing of a batch is opened on fewer than T shares that verified
\* (spec/index.md invariants 2 and 4).
OpenedByThreshold ==
    \A b \in AllBatches :
        (b \in finalized \/ b \in DOMAIN slots \/ reveals[b[1]] # None)
            => Cardinality(VerifiedShares(b)) >= T

\* A share verifies exactly when an honest operator made it: the headers it was
\* computed over are the ones it is verified against, however long it took
\* (get_work and submit_share read the batch at different times).
OnlyHonestVerify == \A s \in shares : s.verified <=> s.own /\ s.op \in Honest

\* Both: what opens a batch is T honest operators' own shares, whatever else is
\* stored under their names (submit_share, finalize_ready).
SharesDecide == OpenedByThreshold /\ OnlyHonestVerify

\* The freeze commits the order of every intent of its condition; the leaf of
\* each position names the oldest intent for the ciphertext there; and the
\* intents left without a position, although the freeze moved them, are exactly
\* those for a ciphertext accepted between the freeze's read and its commit
\* (freeze_condition; advance_condition_intents).
IntentsFollowOrder ==
    \A k \in DOMAIN intents : \E i \in {intents[k]} : \E c \in {i.cond} :
        IF order[c] = <<>> THEN i.state = "SUBMITTED"
        ELSE /\ i.state = "ORDER_COMMITTED"
             /\ i.seal \in ToSet(order[c]) <=> i.seal \notin missed
             /\ \A b \in Batches(c) : \A p \in DOMAIN commits[b] :
                   commits[b][p].ct = i.seal => commits[b][p].intent = BoundIntent(i.seal)

\* Every intent whose order is committed is for a ciphertext that has a position
\* (intents.rs 325-327: an intent that points at nothing would claim inclusion
\* in a batch it is not in).
CommittedIsIncluded ==
    \A k \in DOMAIN intents :
        intents[k].state = "ORDER_COMMITTED" => intents[k].seal \in ToSet(order[intents[k].cond])

\* An opened round shows every ciphertext that was given a position, in position
\* order (v1.rs 1204: `opened` always means the payloads are there).
RevealIsWhole == \A c \in Conditions : status[c] = "revealed" => reveals[c] = order[c]

\* It shows exactly the batches whose payloads were stored, in order: what is
\* missing is what was lost between finalizing a batch and storing its payloads,
\* by a crash or by the second statement failing, and without that the round is
\* whole, whatever else crashed or failed (finalize_batch, build_reveal).
RevealIsExact ==
    \A c \in Conditions : status[c] = "revealed" =>
        /\ Batches(c) \subseteq finalized
        /\ reveals[c] = FlattenSeq([k \in 1 .. BatchCount(c) |->
                            IF <<c, k>> \in torn THEN <<>> ELSE BatchCts(<<c, k>>)])
        /\ Batches(c) \cap torn = {} => reveals[c] = order[c]

\* What was published stays, across crashes, retries and late submissions:
\* positions and ordering commitments, a reveal once served, the status opened
\* and each verdict on a share (freeze_condition; record_commitment;
\* build_reveal's INSERT OR REPLACE; submit_share's INSERT OR IGNORE).
PublishedStands ==
    [][ /\ \A c \in Conditions : order[c] # <<>> => order'[c] = order[c]
        /\ \A b \in DOMAIN commits : b \in DOMAIN commits' /\ commits'[b] = commits[b]
        /\ \A c \in Conditions : reveals[c] # None => reveals'[c] = reveals[c]
        /\ \A c \in Conditions : status[c] = "revealed" => status'[c] = "revealed"
        /\ shares \subseteq shares' ]_vars

\* A batch with fewer than T honest operators that can still give it a share: a
\* rejected share stored under an operator's name keeps out the operator's own.
Blocked(b) ==
    Cardinality({o \in Honest : \A s \in shares :
                    s.batch = b /\ s.op = o => s.verified}) < T

\* A condition that falls due is opened in the end, stalled or not, through
\* crashes and failed statements, unless one of its batches is blocked (tick;
\* mark_stalled: stalled conditions still finalize; submit_share, get_work).
DueIsRevealed ==
    \A c \in Conditions :
        c \in due ~> status[c] = "revealed" \/ \E b \in Batches(c) : Blocked(b)

=============================================================================
