-------------------------- MODULE MCCoordinatorApi --------------------------
(* CoordinatorApi with the requests that meet: one key on two specs, the same *)
(* request again, an auction with other rules, a single seal with another     *)
(* ciphertext, a bid for whichever round exists, and a payment on two calls.  *)
EXTENDS CoordinatorApi, TLC

Request(op, key, spec, seal, rules, pays) ==
    [op |-> op, key |-> key, spec |-> spec, seal |-> seal, rules |-> rules, pays |-> pays]

MCRequests ==
    {Request("round",   "k1", "s1", Absent, Absent, Absent),
     Request("round",   "k1", "s2", Absent, Absent, "p1"),
     Request("lone",    "k1", "s1", "e1", Absent, "p1"),
     Request("lone",    "k1", "s1", "e2", Absent, Absent),
     Request("auction", "k1", "s1", Absent, "u1", Absent),
     Request("auction", "k1", "s1", Absent, "u2", Absent),
     Request("auction", Absent, "s1", Absent, "u1", Absent),
     Request("seal",    Absent, Absent, "e1", Absent, "p1")}

SymmetricCalls == Permutations(Calls)
=============================================================================
