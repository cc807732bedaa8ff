---------------------------- MODULE MCLinksAccount ----------------------------
(* Instances of the account for TLC: MCLinksAccount*.cfg.                  *)
EXTENDS LinksAccount

(* One page in each of two browsers.                                       *)
Apart == [p \in Page |-> IF p = "page" THEN "laptop" ELSE "phone"]
(* Two tabs of one browser.                                                *)
Together == [p \in Page |-> "laptop"]
=============================================================================
