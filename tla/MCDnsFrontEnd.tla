------------------------------ MODULE MCDnsFrontEnd ------------------------------
(* Instance of DnsFrontEnd for TLC. *)
EXTENDS DnsFrontEnd

CONSTANTS r1, r2

MCRequests == {r1, r2}
MCOverTLS == {r2}
MCQuestions == {
    [name |-> "shop", type |-> "A"],
    [name |-> "bad", type |-> "AAAA"],
    [name |-> "odd", type |-> "other"]}
=============================================================================
