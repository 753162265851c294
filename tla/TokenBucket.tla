------------------------------ MODULE TokenBucket ------------------------------
(***************************************************************************)
(* What a per-client rate limit promises: every client has a bucket that   *)
(* fills as time passes, a request is admitted exactly when the bucket     *)
(* holds a token, and nothing else changes it.  There is no table of       *)
(* buckets, no lazy refill and no cleanup.  One token is Cost units, and   *)
(* every tick of the clock adds one unit, up to Full.                      *)
(***************************************************************************)
EXTENDS Naturals

CONSTANTS Keys, Cost, Full

VARIABLES
    level,    \* what each key's bucket holds
    answer    \* the last answer given: to whom, and whether it was a yes

vars == <<level, answer>>

Least(a, b) == IF a <= b THEN a ELSE b

Init ==
    /\ level = [k \in Keys |-> Full]
    /\ answer \in [key: Keys, yes: {TRUE}]

Pass ==
    /\ level' = [k \in Keys |-> Least(Full, level[k] + 1)]
    /\ UNCHANGED answer

Admit(k) ==
    /\ level[k] >= Cost
    /\ level' = [level EXCEPT ![k] = @ - Cost]
    /\ answer' = [key |-> k, yes |-> TRUE]

Refuse(k) ==
    /\ level[k] < Cost
    /\ answer' = [key |-> k, yes |-> FALSE]
    /\ UNCHANGED level

Next == Pass \/ \E k \in Keys : Admit(k) \/ Refuse(k)

Spec == Init /\ [][Next]_vars
=============================================================================
