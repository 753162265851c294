---------------------------- MODULE MCRiskAnalysis ----------------------------
(* Instances of RiskAnalysis for TLC: a domain and its parent. *)
EXTENDS RiskAnalysis, TLC

CONSTANTS shop, wwwShop  \* shop.example and www.shop.example

BothNames == {shop, wwwShop}

Suffixes == [d \in Domains |-> IF d = shop THEN <<shop>> ELSE <<wwwShop, shop>>]

\* The lexical analyzer sees nothing wrong.
Unsuspected == [d \in Domains |-> {"SAFE"}]

RequestSymmetry == Permutations(Requests)
=============================================================================
