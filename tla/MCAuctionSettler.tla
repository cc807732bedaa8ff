--------------------------- MODULE MCAuctionSettler ---------------------------
(* A small instance of the auction with its settler: MCAuctionSettler.cfg.   *)
EXTENDS AuctionSettler

Bid(q, t) == [quantity |-> q, tick |-> t]

\* One bid on each of the two ticks, one on a tick that does not exist.
ThreePlaintexts == {Bid(2, 0), Bid(2, 1), Bid(1, 2)}
=============================================================================
