---------------------------- MODULE GatewayChain ----------------------------
(***************************************************************************)
(* The backing chain of one namespace and the gateway contract on it       *)
(* (contracts/src/links/PealLinksGateway.sol), as the node's RPC shows     *)
(* them.                                                                   *)
(*                                                                         *)
(* A block carries at most one gateway transaction.  What the contract     *)
(* stores follows from the transactions before it, so a reorganisation     *)
(* takes the contract's state back with the blocks.  A block's hash is its *)
(* height and the fork it was mined on.  "close" and "open" stand for      *)
(* everything that stops and restarts the gateway for the token: pause,    *)
(* unpause and configureToken.  Amounts are below the withdrawal cap.      *)
(***************************************************************************)
EXTENDS Naturals, Sequences, FiniteSets

CONSTANTS
    Threshold,      \* signatures the gateway asks for
    MaxReorg,       \* bound: blocks below the highest one ever seen that may be replaced
    MaxHeight,      \* bound: blocks
    MaxForks,       \* bound: reorganisations
    None            \* no hash

ASSUME ChainAssumption ==
    /\ Threshold \in Nat \ {0}
    /\ MaxReorg \in Nat
    /\ MaxHeight \in Nat
    /\ MaxForks \in Nat
    /\ None \notin Nat \X Nat

VARIABLES
    chain,          \* the canonical chain: a transaction and a fork per block
    peak,           \* the highest block there ever was
    forks           \* reorganisations so far

chainVars == <<chain, peak, forks>>

ChainInit ==
    /\ chain = <<>>
    /\ peak = 0
    /\ forks = 0

Empty == [kind |-> "empty"]

Has(kind) == {h \in DOMAIN chain : chain[h].tx.kind = kind}

\* epoch: the constructor's signer set is the first.
Epoch == 1 + Cardinality(Has("rotate"))

\* whenNotPaused and tokens[token].allowed.
IsOpen == \A h \in Has("close") : \E k \in Has("open") : k > h

\* consumed
Consumed == {chain[h].tx.message.position : h \in Has("withdraw")}

Mine(tx) ==
    /\ Len(chain) < MaxHeight
    /\ chain' = Append(chain, [tx |-> tx, fork |-> forks])
    /\ peak' = IF Len(chain) = peak THEN peak + 1 ELSE peak
    /\ UNCHANGED forks

MineEmpty == Mine(Empty)

\* deposit: one transaction is mined once.
deposit(d) ==
    /\ IsOpen
    /\ d.amount > 0
    /\ \A h \in Has("deposit") : chain[h].tx.deposit # d
    /\ Mine([kind |-> "deposit", deposit |-> d])

\* withdraw: anyone may submit a certificate with `valid` signatures; it
\* counts in its own epoch only, and for an id that was not consumed.
withdraw(message, valid) ==
    /\ IsOpen
    /\ message.epoch = Epoch
    /\ message.amount > 0
    /\ message.position \notin Consumed
    /\ valid >= Threshold
    /\ Mine([kind |-> "withdraw", message |-> message])

rotateSigners == Mine([kind |-> "rotate"])

closeGateway ==
    /\ IsOpen
    /\ Mine([kind |-> "close"])

openGateway ==
    /\ ~IsOpen
    /\ Mine([kind |-> "open"])

\* The blocks above `keep` are replaced by others still to be mined.
ReorgTo(keep) ==
    /\ forks < MaxForks
    /\ keep < Len(chain)
    /\ keep + MaxReorg >= peak
    /\ chain' = SubSeq(chain, 1, keep)
    /\ forks' = forks + 1
    /\ UNCHANGED peak

-----------------------------------------------------------------------------
(* The node's RPC *)

\* eth_blockNumber
Height == Len(chain)

\* eth_getBlockByNumber: no hash for a block the chain does not have.
HashOf(h) == IF h \in DOMAIN chain THEN <<h, chain[h].fork>> ELSE None

\* eth_getLogs from block a to block b.
LogsIn(kind, a, b) ==
    {[height |-> h, tx |-> chain[h].tx] : h \in {h \in Has(kind) : a <= h /\ h <= b}}

\* At least n blocks were mined on top of block h.
BuriedBy(h, n) == h \in DOMAIN chain /\ h + n <= Height
=============================================================================
