----------------------------- MODULE LinksAccount -----------------------------
(***************************************************************************)
(* A private account and the copies its owner holds of it: the SDK's       *)
(* LinksAccount (packages/links/src/account.ts) over the wallet of         *)
(* crates/peal-bonsai/src/wallet.rs.  Pages of one browser share a store   *)
(* and a lock; browsers share nothing but the ledger and the backup the    *)
(* node keeps.  An operation is proved, journaled in the store, submitted  *)
(* and settled by its answer, or by reconciling with the ledger when no    *)
(* answer comes; pages close at any point.                                 *)
(*                                                                         *)
(* An operation is its number; the account's commitment is the number of   *)
(* the operation that set it, 0 at registration.  A wallet opens the       *)
(* commitment of the last operation it recorded and, while one is pending, *)
(* the commitment that one would set.  The balance is always enough.       *)
(***************************************************************************)
EXTENDS Naturals, Sequences, FiniteSets, SequencesExt

CONSTANTS Page, Browser,
          BrowserOf,  \* [Page -> Browser]
          First,      \* the browser the account was set up in
          Receipts,   \* payments others make to the account
          MaxOps,     \* bound: operations proved in a behaviour
          MaxFaults,  \* bound: pages closed, answers and requests lost
          None

(* The wallet: the operations it recorded, the receipts it holds and the   *)
(* operation it has pending, or 0.                                         *)
Wallet == [log : Seq(Nat), receipts : SUBSET Receipts, pending : Nat]

ASSUME AccountAssumption == /\ BrowserOf \in [Page -> Browser]
                            /\ First \in Browser
                            /\ None \notin Page \union Receipts
                            /\ None \notin Wallet

VARIABLES
  \* the node
  ledger,   \* the account's operations the ledger accepted, in order
  pool,     \* operations it holds and has not decided
  inbox,    \* the sends whose receivers were given their openings
  incoming, \* the receipts posted to this account's own inbox
  backup,   \* the backup it serves: [seq, wallet]
  \* the browsers
  store,    \* per browser: the saved wallet, or None
  outbox,   \* per browser: accepted sends still to be delivered
  cursor,   \* per browser: the inbox items behind the inbox cursor
  lock,     \* per browser: the page in locked(), or None
  \* the pages
  pc, mem,  \* where the page is, and its copy of the wallet
  job,      \* the operation it is carrying out
  seen,     \* the commitment it read from the ledger
  fetched,  \* the inbox items it read
  \* the operations, and what became of them
  ops,       \* every operation proved: [base, claims]
  abandoned, \* operations given up while the node held or had accepted them
  dropped,   \* recorded sends whose page closed before it delivered or queued them
  overwritten, \* operations a save dropped from the store, its page knowing none
  lacking,     \* browsers where a save dropped receipts from the store
  faults

node == <<ledger, pool, inbox, incoming, backup>>
history == <<abandoned, dropped, overwritten, lacking>>
vars == <<ledger, pool, inbox, incoming, backup, store, outbox, cursor, lock,
          pc, mem, job, seen, fetched, ops, abandoned, dropped, overwritten, lacking, faults>>

----------------------------------------------------------------------------
(* The wallet.                                                             *)

Com(log) == IF log = <<>> THEN 0 ELSE Last(log)
LedgerCom == Com(ledger)
Commitment(w) == Com(w.log)

Pristine == [log |-> <<>>, receipts |-> {}, pending |-> 0]

prepare(w, o) == [w EXCEPT !.pending = o]
commit_pending(w) == [w EXCEPT !.log = Append(@, w.pending), !.pending = 0]
abort_pending(w) == [w EXCEPT !.pending = 0]

(* Variant: any change of the ledger is taken for the pending operation.   *)
ResolutionOnChange(w, com) ==
  IF w.pending = 0 THEN (IF com = Commitment(w) THEN "in_sync" ELSE "conflict")
  ELSE IF com = ops[w.pending].base THEN "aborted" ELSE "committed"

(* Variant: only acceptance ends a pending operation.                      *)
ResolutionOnSuccess(w, com) ==
  IF w.pending = 0 THEN (IF com = Commitment(w) THEN "in_sync" ELSE "conflict")
  ELSE IF com = w.pending THEN "committed" ELSE "conflict"

Resolution(w, com) ==
  IF w.pending = 0 THEN (IF com = Commitment(w) THEN "in_sync" ELSE "conflict")
  ELSE IF com = w.pending THEN "committed"
  ELSE IF com = ops[w.pending].base THEN "aborted"
  ELSE "conflict"

reconcile(w, com) ==
  CASE Resolution(w, com) = "committed" -> commit_pending(w)
    [] Resolution(w, com) = "aborted" -> abort_pending(w)
    [] OTHER -> w

Known(w) == ToSet(w.log) \union ({w.pending} \ {0})
Claimed(w) == {ops[w.log[i]].claims : i \in DOMAIN w.log}
IsSend(o) == ops[o].claims = None

(* The sequence number a backup of w is stored under.                      *)
backupSeq(w) == Len(w.log) + Cardinality(w.receipts)

Init ==
  /\ ledger = <<>> /\ pool = {} /\ inbox = {} /\ incoming = {}
  /\ backup = [seq |-> 0, wallet |-> Pristine]
  /\ store = [b \in Browser |-> IF b = First THEN Pristine ELSE None]
  /\ outbox = [b \in Browser |-> {}]
  /\ cursor = [b \in Browser |-> {}]
  /\ lock = [b \in Browser |-> None]
  /\ pc = [p \in Page |-> "closed"]
  /\ mem = [p \in Page |-> Pristine]
  /\ job = [p \in Page |-> 0]
  /\ seen = [p \in Page |-> 0]
  /\ fetched = [p \in Page |-> {}]
  /\ ops = <<>>
  /\ abandoned = {} /\ dropped = {} /\ overwritten = {} /\ lacking = {}
  /\ faults = 0

Fault == /\ faults < MaxFaults
         /\ faults' = faults + 1

----------------------------------------------------------------------------
(* The node.                                                               *)

Decide(o) ==
  /\ o \in pool
  /\ pool' = pool \ {o}
  /\ ledger' = IF ops[o].base = LedgerCom THEN Append(ledger, o) ELSE ledger
  /\ UNCHANGED <<inbox, incoming, backup, store, outbox, cursor, lock, pc, mem, job,
                 seen, fetched, ops, history, faults>>

(* Somebody pays this account and posts the opening.                       *)
PostReceipt(r) ==
  /\ r \notin incoming
  /\ incoming' = incoming \union {r}
  /\ UNCHANGED <<ledger, pool, inbox, backup, store, outbox, cursor, lock, pc, mem, job,
                 seen, fetched, ops, history, faults>>

(* store_backup: an upload with a lower sequence number is refused.        *)
store_backup(w) ==
  backup' = IF backupSeq(w) < backup.seq THEN backup
            ELSE [seq |-> backupSeq(w), wallet |-> w]

----------------------------------------------------------------------------
(* Pages.  Goto moves p on, Save writes its wallet to the store whatever    *)
(* another tab has put there, Leave ends the locked operation.             *)

B(p) == BrowserOf[p]
Goto(p, l) == pc' = [pc EXCEPT ![p] = l]
Hold(p, w) == mem' = [mem EXCEPT ![p] = w]
Save(p, w) ==
  /\ Hold(p, w)
  /\ store' = [store EXCEPT ![B(p)] = w]
  /\ IF store[B(p)] = None THEN UNCHANGED <<overwritten, lacking>>
     ELSE /\ overwritten' = overwritten \union (Known(store[B(p)]) \ (Known(mem[p]) \union Known(w)))
          /\ lacking' = IF store[B(p)].receipts \subseteq w.receipts THEN lacking
                        ELSE lacking \union {B(p)}
Leave(p) ==
  /\ Goto(p, "idle")
  /\ lock' = [lock EXCEPT ![B(p)] = None]
  /\ job' = [job EXCEPT ![p] = 0]

(* What giving up the pending operation leaves behind: the node holds it,  *)
(* or another tab is about to submit it.                                   *)
GivenUp(p, w) ==
  abandoned' = IF /\ mem[p].pending # 0 /\ w = abort_pending(mem[p])
                  /\ \/ mem[p].pending \in pool \union ToSet(ledger)
                     \/ \E q \in Page \ {p} : job[q] = mem[p].pending
               THEN abandoned \union {mem[p].pending} ELSE abandoned

(* A returning visit: unlock, and reconcile what is pending.               *)
unlock(p) ==
  /\ pc[p] = "closed" /\ store[B(p)] # None
  /\ Hold(p, store[B(p)])
  /\ Goto(p, IF store[B(p)].pending = 0 THEN "idle" ELSE "opening")
  /\ UNCHANGED <<node, store, outbox, cursor, lock, job, seen, fetched, ops, history, faults>>

(* A fresh browser: take the backup, and reconcile it.                     *)
recover(p) ==
  /\ pc[p] = "closed" /\ store[B(p)] = None
  /\ Save(p, backup.wallet)
  /\ Goto(p, "opening")
  /\ UNCHANGED <<node, outbox, cursor, lock, job, seen, fetched, ops, abandoned, dropped, faults>>

(* reconcile() runs outside locked() here; submitPending calls it inside.  *)
Look(p, from, to) ==
  /\ pc[p] = from
  /\ seen' = [seen EXCEPT ![p] = LedgerCom]
  /\ Goto(p, to)
  /\ UNCHANGED <<node, store, outbox, cursor, lock, mem, job, fetched, ops, history, faults>>

reconcile_read(p) == Look(p, "opening", "opened") \/ Look(p, "lost", "looked")

reconcile_open(p) ==
  /\ pc[p] = "opened"
  /\ LET w == reconcile(mem[p], seen[p])
     IN Save(p, w) /\ GivenUp(p, w)
  /\ Goto(p, "idle")
  /\ seen' = [seen EXCEPT ![p] = 0]
  /\ UNCHANGED <<node, outbox, cursor, lock, job, fetched, ops, dropped, faults>>

(* A click or an event of the checkout reconciles what an open page kept   *)
(* pending; a call that fails changes nothing.                             *)
refreshBalance(p) ==
  /\ pc[p] = "idle" /\ mem[p].pending # 0
  /\ Goto(p, "opening")
  /\ UNCHANGED <<node, store, outbox, cursor, lock, mem, job, seen, fetched, ops, history, faults>>

(* locked(): take the lock and reload what another page saved.             *)
Enter(p, l) ==
  /\ pc[p] = "idle" /\ lock[B(p)] = None
  /\ lock' = [lock EXCEPT ![B(p)] = p]
  /\ Hold(p, store[B(p)])
  /\ Goto(p, l)
  /\ UNCHANGED <<node, store, outbox, cursor, job, seen, fetched, ops, history, faults>>

(* pay, withdraw and claim refuse to start while an operation is pending.  *)
begin(p) ==
  /\ pc[p] = "idle" /\ store[B(p)].pending = 0
  /\ Len(ops) + Cardinality({q \in Page : pc[q] = "proving"}) < MaxOps
  /\ Enter(p, "proving")

(* Variant: the operation is saved with its answer.                        *)
JournalInMemory(p, w) == Hold(p, w) /\ UNCHANGED <<store, overwritten, lacking>>

Journal(p, w) == Save(p, w)

(* pay and claim: prove on the wallet's commitment and save the pending    *)
(* operation before anything is sent.                                      *)
journal(p) ==
  /\ pc[p] = "proving"
  /\ \E c \in {None} \union (mem[p].receipts \ Claimed(mem[p])) :
       ops' = Append(ops, [base |-> Commitment(mem[p]), claims |-> c])
  /\ Journal(p, prepare(mem[p], Len(ops) + 1))
  /\ job' = [job EXCEPT ![p] = Len(ops) + 1]
  /\ Goto(p, "journaled")
  /\ UNCHANGED <<node, outbox, cursor, lock, seen, fetched, abandoned, dropped, faults>>

submit(p) ==
  /\ pc[p] = "journaled"
  /\ pool' = pool \union {job[p]}
  /\ Goto(p, "waiting")
  /\ UNCHANGED <<ledger, inbox, incoming, backup, store, outbox, cursor, lock, mem, job,
                 seen, fetched, ops, history, faults>>

(* The three answers: accepted; any other answer of the node, the one for  *)
(* a submission that took too long among them; none.                       *)
submitPending_applied(p) ==
  /\ pc[p] = "waiting" /\ job[p] \in ToSet(ledger)
  /\ Save(p, commit_pending(mem[p]))
  /\ Goto(p, "committed")
  /\ UNCHANGED <<node, outbox, cursor, lock, job, seen, fetched, ops, abandoned, dropped, faults>>

submitPending_refused(p) ==
  /\ pc[p] = "waiting"
  /\ \/ job[p] \notin pool \union ToSet(ledger) /\ UNCHANGED faults
     \/ job[p] \in pool /\ Fault
  /\ Save(p, abort_pending(mem[p]))
  /\ GivenUp(p, abort_pending(mem[p]))
  /\ Leave(p)
  /\ UNCHANGED <<node, outbox, cursor, seen, fetched, ops, dropped>>

submitPending_unknown(p) ==
  /\ \/ pc[p] = "waiting"
     \/ pc[p] = "journaled"
  /\ Fault
  /\ Goto(p, "lost")
  /\ UNCHANGED <<node, store, outbox, cursor, lock, mem, job, seen, fetched, ops, history>>

(* The outage that lost the answer outlasts it: the journal stays.         *)
submitPending_unresolved(p) ==
  /\ pc[p] = "lost"
  /\ Leave(p)
  /\ UNCHANGED <<node, store, outbox, cursor, mem, seen, fetched, ops, history, faults>>

submitPending_reconciled(p) ==
  /\ pc[p] = "looked"
  /\ LET w == reconcile(mem[p], seen[p])
     IN Save(p, w) /\ GivenUp(p, w)
  /\ IF Resolution(mem[p], seen[p]) = "committed"
     THEN Goto(p, "accepted") /\ UNCHANGED <<lock, job>>
     ELSE Leave(p)
  /\ seen' = [seen EXCEPT ![p] = 0]
  /\ UNCHANGED <<node, outbox, cursor, fetched, ops, dropped, faults>>

(* backupNow: its failure is not an error.                                 *)
backupNow(p) ==
  \/ store_backup(mem[p]) /\ UNCHANGED faults
  \/ UNCHANGED backup /\ Fault

submitPending_backup(p) ==
  /\ pc[p] = "committed"
  /\ backupNow(p)
  /\ Goto(p, "accepted")
  /\ UNCHANGED <<ledger, pool, inbox, incoming, store, outbox, cursor, lock, mem, job,
                 seen, fetched, ops, history>>

(* Variant: a failed delivery is not remembered.                           *)
NotQueued(entries, o) == entries

Queued(entries, o) == entries \union {o}

(* The opening of an accepted send goes to its receiver, or to the outbox. *)
deliver(p) ==
  /\ pc[p] = "accepted"
  /\ IF ~IsSend(job[p]) THEN UNCHANGED <<inbox, outbox, faults>>
     ELSE \/ inbox' = inbox \union {job[p]} /\ UNCHANGED <<outbox, faults>>
          \/ /\ outbox' = [outbox EXCEPT ![B(p)] = Queued(@, job[p])]
             /\ UNCHANGED inbox /\ Fault
  /\ Leave(p)
  /\ UNCHANGED <<ledger, pool, incoming, backup, store, cursor, mem, seen, fetched,
                 ops, history>>

----------------------------------------------------------------------------
(* sync: check against the ledger, read the inbox, flush the outbox.       *)

sync(p) ==
  /\ pc[p] = "idle"
  /\ Enter(p, IF store[B(p)].pending = 0 THEN "checking" ELSE "fetching")

sync_check(p) ==
  /\ pc[p] = "checking"
  /\ Save(p, mem[p])
  /\ Goto(p, IF Resolution(mem[p], LedgerCom) = "conflict" THEN "behind" ELSE "fetching")
  /\ UNCHANGED <<node, outbox, cursor, lock, job, seen, fetched, ops, abandoned, dropped, faults>>

refreshFromBackup(p) ==
  /\ pc[p] = "behind"
  /\ IF backup.seq > backupSeq(mem[p])
     THEN Save(p, backup.wallet)
     ELSE UNCHANGED <<mem, store, overwritten, lacking>>
  /\ Goto(p, "fetching")
  /\ UNCHANGED <<node, outbox, cursor, lock, job, seen, fetched, ops, abandoned, dropped, faults>>

(* Variant: the discovered receipts are not saved.                         *)
DiscoverInMemory(p, items) ==
  /\ Hold(p, [mem[p] EXCEPT !.receipts = @ \union items])
  /\ UNCHANGED <<store, overwritten, lacking>>

Discover(p, items) == Save(p, [mem[p] EXCEPT !.receipts = @ \union items])

syncInbox(p) ==
  /\ pc[p] = "fetching"
  /\ LET items == incoming \ cursor[B(p)]
     IN IF items = {}
        THEN Goto(p, "flushing") /\ UNCHANGED <<mem, store, overwritten, lacking, fetched>>
        ELSE /\ Discover(p, items)
             /\ fetched' = [fetched EXCEPT ![p] = items]
             /\ Goto(p, "fetched")
  /\ UNCHANGED <<node, outbox, cursor, lock, job, seen, ops, abandoned, dropped, faults>>

syncInbox_cursor(p) ==
  /\ pc[p] = "fetched"
  /\ backupNow(p)
  /\ cursor' = [cursor EXCEPT ![B(p)] = @ \union fetched[p]]
  /\ fetched' = [fetched EXCEPT ![p] = {}]
  /\ Goto(p, "flushing")
  /\ UNCHANGED <<ledger, pool, inbox, incoming, store, outbox, lock, mem, job, seen,
                 ops, history>>

flushOutbox(p) ==
  /\ pc[p] = "flushing"
  /\ \E posted \in SUBSET outbox[B(p)] :
       /\ inbox' = inbox \union posted
       /\ outbox' = [outbox EXCEPT ![B(p)] = @ \ posted]
       /\ IF posted = outbox[B(p)] THEN UNCHANGED faults ELSE Fault
  /\ Leave(p)
  /\ UNCHANGED <<ledger, pool, incoming, backup, store, cursor, mem, seen, fetched,
                 ops, history>>

(* A page is closed, reloaded or crashes.                                  *)
close(p) ==
  /\ pc[p] # "closed" /\ Fault
  /\ Goto(p, "closed")
  /\ lock' = [lock EXCEPT ![B(p)] = IF @ = p THEN None ELSE @]
  /\ dropped' = IF pc[p] \in {"committed", "accepted"} /\ IsSend(job[p])
                THEN dropped \union {job[p]} ELSE dropped
  /\ mem' = [mem EXCEPT ![p] = Pristine]
  /\ job' = [job EXCEPT ![p] = 0]
  /\ seen' = [seen EXCEPT ![p] = 0]
  /\ fetched' = [fetched EXCEPT ![p] = {}]
  /\ UNCHANGED <<node, store, outbox, cursor, ops, abandoned, overwritten, lacking>>

----------------------------------------------------------------------------
Settles(p) ==
  \/ submitPending_applied(p) \/ submitPending_refused(p) \/ submitPending_unknown(p)

Proceed(p) ==
  \/ reconcile_read(p) \/ reconcile_open(p)
  \/ journal(p) \/ submit(p)
  \/ submitPending_reconciled(p) \/ submitPending_backup(p) \/ deliver(p)
  \/ sync_check(p) \/ refreshFromBackup(p)
  \/ syncInbox(p) \/ syncInbox_cursor(p) \/ flushOutbox(p)

Next ==
  \/ \E o \in pool : Decide(o)
  \/ \E r \in Receipts : PostReceipt(r)
  \/ \E p \in Page :
       \/ unlock(p) \/ recover(p) \/ refreshBalance(p) \/ begin(p) \/ sync(p)
       \/ Settles(p) \/ Proceed(p) \/ submitPending_unresolved(p) \/ close(p)

SafeSpec == Init /\ [][Next]_vars

(* The scheduler: the node decides, a page that waits is answered, a page  *)
(* that is open carries on and syncs every few seconds (the account's app  *)
(* does, the checkout alone does not), and a closed one is opened again.   *)
(* Nothing makes an open page reconcile: sync does not while an operation  *)
(* is pending, and refreshBalance is up to its user.  How often the network *)
(* fails and pages close is bounded by MaxFaults.                          *)
Fairness ==
  /\ WF_vars(\E o \in pool : Decide(o))
  /\ \A p \in Page :
       /\ WF_vars(unlock(p) \/ recover(p))
       /\ WF_vars(Settles(p))
       /\ WF_vars(Proceed(p))
       /\ WF_vars(sync(p))

Spec == SafeSpec /\ Fairness

----------------------------------------------------------------------------
(* Properties.                                                             *)

PendingIn(b) == IF store[b] = None THEN 0 ELSE store[b].pending
Copies == {store[b] : b \in {c \in Browser : store[c] # None}} \union {backup.wallet}

(* No copy of the wallet, in a browser or in the backup, has recorded an   *)
(* operation the ledger did not accept, or recorded them in another order, *)
(* whatever answers were lost and pages closed between the submission and  *)
(* the save (submitPending and reconcile).                                 *)
CopiesFollowLedger ==
  \A w \in Copies : IsPrefix(w.log, ledger)

(* Some browser can open the account's commitment on the ledger: the       *)
(* journal is written before the envelope leaves, so the money of an       *)
(* operation accepted behind the page's back is still reachable, unless a  *)
(* page gave the operation up while it could still be accepted (abortPending *)
(* on an answer that came too late, reconcile before the ledger decided),  *)
(* or a tab's stale wallet was saved over it.                              *)
FundsReachable ==
  \/ LedgerCom \in abandoned \union overwritten
  \/ \E b \in Browser : /\ store[b] # None
                         /\ LedgerCom \in {Commitment(store[b]), store[b].pending}

(* What the inbox cursor has passed is in the saved wallet, since it will  *)
(* not be read again: the cursor is written after the wallet.  The         *)
(* exception is a browser where a wallet with fewer receipts, a stale      *)
(* tab's or the backup, was saved over a fuller one.                       *)
CursorIsSaved ==
  \A b \in Browser \ lacking : store[b] # None => cursor[b] \subseteq store[b].receipts

(* An operation a page left in the journal when it closed, or reconciles   *)
(* now, is recorded or dropped, unless the account's commitment moves on   *)
(* past both of its own: reconcile calls that a conflict and leaves the    *)
(* operation pending, sync only repairs a copy with nothing pending.  A    *)
(* page that stays open with its outcome unknown may keep it for as long   *)
(* (unlock, activate and reconcile; submitPending's own reconcile failed). *)
Resolving == {"closed", "opening", "opened", "looked"}

PendingIsResolved ==
  \A p \in Page, o \in 1 .. MaxOps :
    (pc[p] \in Resolving /\ PendingIn(B(p)) = o)
      ~> (PendingIn(B(p)) # o \/ LedgerCom \notin {o, ops[o].base})

(* The page p is paying o, and has recorded that the ledger accepted it.   *)
Recorded(p, o) == job[p] = o /\ pc[p] \in {"committed", "accepted"}

(* "The send is never reported as failed" (account.ts): once pay or its    *)
(* reconcile has recorded a send as accepted, the opening reaches its      *)
(* receiver's inbox, at once or from the outbox of whatever page is opened *)
(* next, unless the page closed before it delivered or queued it.  A send  *)
(* found accepted by a reconcile outside pay is nobody's to deliver.       *)
SendsReachReceivers ==
  \A p \in Page, o \in 1 .. MaxOps :
    (Recorded(p, o) /\ IsSend(o)) ~> (o \in inbox \union dropped)

============================================================================
