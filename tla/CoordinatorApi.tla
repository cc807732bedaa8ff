--------------------------- MODULE CoordinatorApi ---------------------------
(* The coordinator's v1 writes: rounds, single seals, auctions and seals      *)
(* (v1.rs, auction.rs), the retry safety of an Idempotency-Key, and the       *)
(* metered mount of the same routes (x402.rs).                                *)
(*                                                                            *)
(* One member of Calls is one HTTP request. A handler takes the database      *)
(* mutex several times and lets go of it in between, so every hold is an      *)
(* action of its own: other requests, the engine closing a round, a crash     *)
(* and, where the handler really waits, a client that hangs up come between.  *)
(* A client that got no answer sends its request again: a second call with    *)
(* the same request.                                                          *)
EXTENDS Naturals, Sequences, FiniteSets

CONSTANTS
    Calls,      \* the HTTP requests, in no order
    Keys,       \* values of the Idempotency-Key header
    Hashes,     \* ciphertexts, named by their hash
    Payments,   \* transactions that paid the price of one call
    Requests,   \* the requests clients send: [op, key, spec, seal, rules, pays]
    MaxRounds,  \* bound: rounds created
    MaxFailures, \* bound: crashes of the coordinator and failed statements
    Absent

ASSUME RequestsAssumption ==
    \A q \in Requests :
        /\ q.op \in {"round", "lone", "auction", "seal"}
        /\ q.key \in Keys \cup {Absent} /\ (q.op = "seal" => q.key = Absent)
        /\ q.seal \in Hashes \cup {Absent}
        /\ q.pays \in Payments \cup {Absent}
ASSUME BoundsAssumption == MaxRounds \in Nat /\ MaxFailures \in Nat
(* No header is no key, and no row is no row.                                 *)
ASSUME NoneAssumption ==
    /\ Absent \notin Keys
    /\ \A r \in 0 .. MaxRounds, q \in Requests : [round |-> r, spec |-> q.spec] # Absent

VARIABLES
    conditions,    \* sequence of rounds [spec, status, by]; by: the call that made it (history)
    ciphertexts,   \* seal -> the round its row names, 0 for no row
    idempotency,   \* key -> [round, spec] of the row, or Absent
    auctions,      \* round -> its rules, or Absent
    x402_payments, \* the payments redeemed
    calls,         \* call -> [at, req, round, redeemed]
    disturbed,     \* history: keys taken for new while a call was creating, after a failed lookup, or expired
    failures       \* crashes and failed statements so far

apiTables == <<conditions, ciphertexts, auctions, x402_payments>>
apiVars   == <<apiTables, idempotency, calls, disturbed, failures>>

NotSent == [at |-> "not sent", req |-> Absent, round |-> 0, redeemed |-> FALSE]

ApiInit ==
    /\ conditions = <<>>
    /\ ciphertexts = [e \in Hashes |-> 0]
    /\ idempotency = [k \in Keys |-> Absent]
    /\ auctions = [r \in 1 .. MaxRounds |-> Absent]
    /\ x402_payments = {}
    /\ calls = [c \in Calls |-> NotSent]
    /\ disturbed = {}
    /\ failures = 0

Key(c) == calls[c].req.key
At(c, steps) == calls[c].at \in steps
Goto(c, step) == calls' = [calls EXCEPT ![c].at = step]

(* The calls with key k that have looked it up and not yet remembered it.     *)
Creating(k) == {c \in Calls : At(c, {"create", "remember"}) /\ Key(c) = k}

(* What a round handler does next, once the round is known.                   *)
AfterRound(op) ==
    CASE op = "round"   -> "answered"
      [] op = "lone"    -> "seal"
      [] op = "auction" -> "rules"

(* The first step inside the routes: a seal has no key to look up.            *)
Entry(q) == IF q.op = "seal" THEN "seal" ELSE "lookup"

-----------------------------------------------------------------------------

(* A request arrives. A seal names a round that exists; a payment puts the    *)
(* call in front of the metered mount.                                        *)
Receive(c, q) ==
    /\ At(c, {"not sent"})
    /\ \E r \in IF q.op = "seal" THEN DOMAIN conditions ELSE {0} :
         calls' = [calls EXCEPT ![c] =
             [at |-> IF q.pays = Absent THEN Entry(q) ELSE "verify", req |-> q, round |-> r, redeemed |-> FALSE]]
    /\ UNCHANGED <<apiTables, idempotency, disturbed, failures>>

(* verify_payment asks the chain about the transaction: no lock is held, and  *)
(* other calls with the same transaction may be asking too.                   *)
verify_payment(c) ==
    /\ At(c, {"verify"})
    /\ \E step \in {"redeem", "refused"} : Goto(c, step)
    /\ UNCHANGED <<apiTables, idempotency, disturbed, failures>>

(* Variant: the row is inserted OR REPLACEd, and nothing is refused.          *)
RedeemableAgain(p) == p \in Payments

(* The insert decides: the transaction is the primary key.                    *)
Redeemable(p) == p \notin x402_payments

require_payment(c) ==
    LET p == calls[c].req.pays IN
    /\ At(c, {"redeem"})
    /\ IF Redeemable(p)
       THEN /\ x402_payments' = x402_payments \cup {p}
            /\ calls' = [calls EXCEPT ![c].at = Entry(calls[c].req), ![c].redeemed = TRUE]
       ELSE Goto(c, "refused") /\ UNCHANGED x402_payments
    /\ UNCHANGED <<conditions, ciphertexts, auctions, idempotency, disturbed, failures>>

(* Variant: a key used with another request counts as not seen.               *)
ReplayOrCreate(k, spec) ==
    IF k = Absent \/ idempotency[k] = Absent \/ idempotency[k].spec # spec THEN "Fresh" ELSE "Same"

(* What the row of the key means for this request.                            *)
Replay(k, spec) ==
    IF k = Absent \/ idempotency[k] = Absent THEN "Fresh"
    ELSE IF idempotency[k].spec = spec THEN "Same" ELSE "Different"

(* First hold of create_round. The fingerprint covers what makes the round:   *)
(* neither the seal of a single seal nor the rules of an auction are in it.   *)
replay(c) ==
    LET q == calls[c].req
        found == Replay(q.key, q.spec) IN
    /\ At(c, {"lookup"})
    /\ CASE found = "Fresh"     -> Goto(c, "create")
         [] found = "Different" -> Goto(c, "refused")
         [] found = "Same"      -> calls' = [calls EXCEPT ![c].at = AfterRound(q.op),
                                                          ![c].round = idempotency[q.key].round]
    /\ disturbed' = IF found = "Fresh" /\ q.key # Absent /\ Creating(q.key) # {}
                    THEN disturbed \cup {q.key} ELSE disturbed
    /\ UNCHANGED <<apiTables, idempotency, failures>>

(* Second hold: the round's row.                                              *)
create_round(c) ==
    LET q == calls[c].req
        r == Len(conditions) + 1 IN
    /\ At(c, {"create"})
    /\ r <= MaxRounds
    /\ conditions' = Append(conditions, [spec |-> q.spec, status |-> "pending", by |-> c])
    /\ calls' = [calls EXCEPT ![c].at = IF q.key = Absent THEN AfterRound(q.op) ELSE "remember",
                              ![c].round = r]
    /\ UNCHANGED <<ciphertexts, auctions, x402_payments, idempotency, disturbed, failures>>

(* Third hold: the key's row, replacing one that is there.                    *)
Remembered(c) ==
    [idempotency EXCEPT ![Key(c)] = [round |-> calls[c].round, spec |-> calls[c].req.spec]]

remember(c) ==
    /\ At(c, {"remember"})
    /\ idempotency' = Remembered(c)
    /\ Goto(c, AfterRound(calls[c].req.op))
    /\ UNCHANGED <<apiTables, disturbed, failures>>

(* create_seal, for a bid, a seal and the second half of a single seal: one   *)
(* hold, closed rounds refused, a row that is there kept as it is.            *)
create_seal(c) ==
    LET e == calls[c].req.seal
        r == calls[c].round IN
    /\ At(c, {"seal"})
    /\ IF conditions[r].status = "pending"
       THEN /\ ciphertexts' = [ciphertexts EXCEPT ![e] = IF @ = 0 THEN r ELSE @]
            /\ Goto(c, "answered")
       ELSE Goto(c, "refused") /\ UNCHANGED ciphertexts
    /\ UNCHANGED <<conditions, auctions, x402_payments, idempotency, disturbed, failures>>

(* create_auction stores the rules beside the round, replacing what is there. *)
create_auction(c) ==
    /\ At(c, {"rules"})
    /\ auctions' = [auctions EXCEPT ![calls[c].round] = calls[c].req.rules]
    /\ Goto(c, "answered")
    /\ UNCHANGED <<conditions, ciphertexts, x402_payments, idempotency, disturbed, failures>>

-----------------------------------------------------------------------------

(* The engine closes a round that has fallen due.                             *)
Freeze(r) ==
    /\ r \in DOMAIN conditions /\ conditions[r].status = "pending"
    /\ conditions' = [conditions EXCEPT ![r].status = "frozen"]
    /\ UNCHANGED <<ciphertexts, auctions, x402_payments, idempotency, calls, disturbed, failures>>

(* A row older than a day no longer counts.                                   *)
Expire(k) ==
    /\ idempotency[k] # Absent
    /\ idempotency' = [idempotency EXCEPT ![k] = Absent]
    /\ disturbed' = disturbed \cup {k}
    /\ UNCHANGED <<apiTables, calls, failures>>

(* A client that hangs up cancels its handler where the handler awaits: while *)
(* the chain is asked, and while the body is read behind the metered mount,   *)
(* after the payment is redeemed.                                             *)
HangUp(c) ==
    /\ \/ At(c, {"verify"})
       \/ calls[c].redeemed /\ At(c, {"lookup", "seal"}) /\ At(c, {Entry(calls[c].req)})
    /\ Goto(c, "lost")
    /\ UNCHANGED <<apiTables, idempotency, disturbed, failures>>

Working == {"verify", "redeem", "lookup", "create", "remember", "seal", "rules"}

MayStop == failures < MaxFailures /\ failures' = failures + 1

(* A failed lookup reads as no row: the key counts as not seen.               *)
LookupFails(c) ==
    /\ MayStop
    /\ At(c, {"lookup"}) /\ Key(c) # Absent
    /\ Goto(c, "create")
    /\ disturbed' = disturbed \cup {Key(c)}
    /\ UNCHANGED <<apiTables, idempotency>>

(* A write that fails ends its call, and keeps what the holds before it did:  *)
(* a payment is refused as redeemed, the others answer 500.                   *)
WriteFails(c) ==
    /\ MayStop
    /\ \/ At(c, {"redeem"}) /\ Goto(c, "refused")
       \/ At(c, {"create", "remember", "seal", "rules"}) /\ Goto(c, "failed")
    /\ UNCHANGED <<apiTables, idempotency, disturbed>>

(* The coordinator stops and starts again: the database has every hold that   *)
(* was done, and no call that was in progress is ever answered.               *)
Crash ==
    /\ MayStop
    /\ \E c \in Calls : At(c, Working)
    /\ calls' = [c \in Calls |-> IF At(c, Working) THEN [calls[c] EXCEPT !.at = "lost"] ELSE calls[c]]
    /\ UNCHANGED <<apiTables, idempotency, disturbed>>

ApiNext ==
    \/ \E c \in Calls :
         \/ \E q \in Requests : Receive(c, q)
         \/ verify_payment(c) \/ require_payment(c)
         \/ replay(c) \/ create_round(c) \/ remember(c)
         \/ create_seal(c) \/ create_auction(c)
         \/ HangUp(c) \/ LookupFails(c) \/ WriteFails(c)
    \/ \E r \in 1 .. MaxRounds : Freeze(r)
    \/ \E k \in Keys : Expire(k)
    \/ Crash

ApiSpec == ApiInit /\ [][ApiNext]_apiVars

-----------------------------------------------------------------------------

Stopped == {"lost", "failed"}

(* The rounds that calls with key k have made, leaving out those of calls that*)
(* stopped before the key's row: no answer ever names these.                  *)
Standing(k) ==
    {r \in DOMAIN conditions :
        /\ Key(conditions[r].by) = k
        /\ At(conditions[r].by, Stopped) => idempotency[k] # Absent /\ idempotency[k].round = r}

(* However often a request is sent again, with whatever body, after an answer *)
(* or without one, after a 500, a crash or a hang-up: every call with its key *)
(* is answered with the same round, and the key has no other that a call has  *)
(* named or will name (create_round: lookup, round and row in three holds).   *)
(* Only a key that two calls took for new at once, whose lookup failed, or    *)
(* whose row expired, may be given two.                                       *)
KeyMakesOneRound ==
    \A k \in Keys \ disturbed :
        /\ \A c, d \in Calls :
              At(c, {"answered"}) /\ At(d, {"answered"}) /\ Key(c) = k /\ Key(d) = k
                  => calls[c].round = calls[d].round
        /\ Cardinality(Standing(k)) <= 1

(* The same for every key that did not expire, also when a call is sent again *)
(* while the first is at work ("RETRIES ARE SAFE. Idempotency-Key on round    *)
(* creation returns the original round rather than making a second one",      *)
(* v1.rs).                                                                    *)
RetriesAreSafe ==
    \A c, d \in Calls :
        At(c, {"answered"}) /\ At(d, {"answered"}) /\ Key(c) # Absent /\ Key(c) = Key(d)
            => calls[c].round = calls[d].round

(* A transaction buys one call, also when several ask the chain about it at   *)
(* once and when the coordinator stops in between; and no metered call is     *)
(* served that did not redeem its own ("two requests racing on the same hash  *)
(* cannot both win", db.rs).                                                  *)
EachPaymentBuysOne ==
    \A c \in Calls :
        /\ calls[c].redeemed =>
             /\ calls[c].req.pays \in x402_payments
             /\ \A d \in Calls : calls[d].redeemed /\ calls[d].req.pays = calls[c].req.pays => d = c
        /\ At(c, {"answered"}) /\ calls[c].req.pays # Absent => calls[c].redeemed

=============================================================================
