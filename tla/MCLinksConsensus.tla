--------------------------- MODULE MCLinksConsensus ---------------------------
(* Instances of the validators for TLC: MCLinksConsensus*.cfg.             *)
EXTENDS LinksConsensus

First  == [account |-> "alice", from |-> 0, to |-> 1]
Second == [account |-> "alice", from |-> 1, to |-> 2]
Mint   == [account |-> "deposit", from |-> 0, to |-> 1]

(* Two operations of one account, the second on top of the first: enough   *)
(* for a rejection and for an order that matters.                          *)
TwoOps == {First, Second}
OneMint == {Mint}

NodeSymmetry == Permutations(Node)

(* After the last proposal of a behaviour no step but those that change a  *)
(* mempool reads one, and the invariants of MCLinksConsensus.cfg never do: *)
(* states that differ in the mempools alone are then one state, and the    *)
(* expiry of a transaction is that of its submitter only.                  *)
View == IF Len(blocks) = MaxBlocks
        THEN <<engine, durable, confirmed, head, cache, asked, known, unknown, applying,
               waiting, promised, torn, skipped, faults, submits>>
        ELSE vars
NoIdleExpiry == Len(blocks) = MaxBlocks /\ UNCHANGED <<head, submits>> => UNCHANGED mempool
=============================================================================
