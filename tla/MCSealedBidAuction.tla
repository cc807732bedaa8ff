-------------------------- MODULE MCSealedBidAuction --------------------------
(* Small instances of the auction for TLC: MCSealedBidAuction*.cfg.          *)
EXTENDS SealedBidAuction

Bid(q, t) == [quantity |-> q, tick |-> t]

\* Two bids at the reserve, one above it, one on a tick that does not exist.
FourPlaintexts == {Bid(1, 0), Bid(2, 0), Bid(2, 1), Bid(1, 2)}
=============================================================================
