--------------------------- MODULE RateLimiterProofs ---------------------------
(***************************************************************************)
(* Proofs about RateLimiter, for every set of clients, rate, burst and     *)
(* idle threshold.  The argument is about Refilled(k), what a bucket would *)
(* hold if it were refilled now: it grows with the clock, and the cleanup  *)
(* does not change it, because a bucket that has been idle for as long as  *)
(* it takes to earn a burst is as good as a new one.                       *)
(***************************************************************************)
EXTENDS RateLimiter, TLAPS

USE LimiterAssumption

-----------------------------------------------------------------------------
(* Arithmetic *)

\* The seconds of Retry-After cover the wait they were computed from.
LEMMA RetryAfterCovers ==
    ASSUME NEW d \in Nat
    PROVE  RetryAfter(d) \in Nat /\ RetryAfter(d) * Second >= d
<1>1. CASE d <= Second
    BY <1>1 DEF RetryAfter
<1>2. CASE ~(d <= Second)
    <2> DEFINE q == (d + Second - 1) \div Second
               r == (d + Second - 1) % Second
    <2>1. q \in Nat /\ r \in 0..(Second - 1) /\ d + Second - 1 = q * Second + r
        OBVIOUS
    <2>2. RetryAfter(d) = q
        BY <1>2 DEF RetryAfter
    <2> HIDE DEF q, r
    <2>3. q * Second \in Nat
        BY <2>1
    <2> QED
        BY <2>1, <2>2, <2>3
<1> QED
    BY <1>1, <1>2

-----------------------------------------------------------------------------
(* The invariant *)

\* Buckets were checked in the past, and a cleanup works with a cutoff that was
\* idleThreshold ago when it was computed.
ClockOK ==
    /\ \A k \in Keys : lastCheck[k] <= now
    /\ cleaner = "cleaning" => cutoff <= now - Idle
    /\ window.since <= now

\* What the watched key was admitted and what it could still be admitted.
WindowOK == window.spent + Refilled(window.key) <= Full + (now - window.since)

\* A promise leaves enough time to earn what is missing of a token.
PromiseOK ==
    \A k \in promised :
        Refilled(k) < Cost => Cost - Refilled(k) <= retryAt[k] - now

BaseInv == TypeOK /\ ClockOK

LEMMA RefilledType ==
    ASSUME BaseInv, NEW k \in Keys
    PROVE  Refilled(k) \in 0..Full
BY DEF BaseInv, TypeOK, ClockOK, Refilled, Least

LEMMA InitBase == Init => BaseInv
<1> SUFFICES ASSUME Init PROVE BaseInv
    OBVIOUS
<1>1. answer \in [key: Keys, yes: BOOLEAN]
    BY DEF Init
<1>2. window \in [key: Keys, since: Nat, spent: Nat] /\ window.since = 0
    BY DEF Init
<1>3. /\ now = 0 /\ cutoff = 0 /\ cleaner = "waiting" /\ closed = FALSE
      /\ buckets = {} /\ promised = {}
    BY DEF Init
<1>4. /\ tokens \in [Keys -> 0..Full] /\ lastCheck \in [Keys -> Nat]
      /\ refused \in [Keys -> Nat] /\ retryAt \in [Keys -> Nat]
    BY DEF Init
<1>5. \A k \in Keys : lastCheck[k] = 0
    BY DEF Init
<1>6. TypeOK
    <2>1. now \in Nat /\ cutoff \in Int
        BY <1>3
    <2>2. cleaner \in {"waiting", "cleaning", "stopped"}
        BY <1>3
    <2>3. closed \in BOOLEAN
        BY <1>3
    <2>4. buckets \subseteq Keys /\ promised \subseteq Keys
        BY <1>3
    <2> QED
        BY <1>1, <1>2, <1>4, <2>1, <2>2, <2>3, <2>4 DEF TypeOK
<1>7. ClockOK
    BY <1>2, <1>3, <1>5 DEF ClockOK
<1> QED
    BY <1>6, <1>7 DEF BaseInv

LEMMA StepBase == BaseInv /\ [Next]_vars => BaseInv'
<1> SUFFICES ASSUME BaseInv, [Next]_vars PROVE BaseInv'
    OBVIOUS
<1> USE DEF BaseInv
<1>1. ASSUME NEW k \in Keys, Admit(k) PROVE BaseInv'
    <2>1. Refilled(k) \in 0..Full
        BY RefilledType
    <2>2. Refilled(k) - Cost \in 0..Full
        BY <1>1, <2>1 DEF Admit
    <2>3. TypeOK'
        BY <1>1, <2>2 DEF Admit, Store, TypeOK, cleanerVars
    <2>4. ClockOK'
        BY <1>1, <2>1 DEF Admit, Store, TypeOK, ClockOK, cleanerVars
    <2> QED
        BY <2>3, <2>4
<1>2. ASSUME NEW k \in Keys, Refuse(k) PROVE BaseInv'
    <2>1. Refilled(k) \in 0..Full
        BY RefilledType
    <2> QED
        BY <1>2, <2>1 DEF Refuse, Store, TypeOK, ClockOK, cleanerVars, promiseVars
<1>3. ASSUME NEW k \in Keys, Hint(k) PROVE BaseInv'
    <2>1. Deficit(k) \in Nat
        BY DEF Deficit, TypeOK
    <2>2. now + RetryAfter(Deficit(k)) * Second \in Nat
        BY <2>1, RetryAfterCovers DEF TypeOK
    <2>3. retryAt' \in [Keys -> Nat]
        BY <1>3, <2>2 DEF Hint, TypeOK, Least
    <2> QED
        BY <1>3, <2>3 DEF Hint, TypeOK, ClockOK, bucketVars, cleanerVars
<1>4. ASSUME NEW k \in Keys, Watch(k) PROVE BaseInv'
    BY <1>4 DEF Watch, TypeOK, ClockOK, bucketVars, cleanerVars, promiseVars
<1>5. CASE StartCleanup
    BY <1>5 DEF StartCleanup, TypeOK, ClockOK, bucketVars, promiseVars
<1>6. CASE Cleanup
    BY <1>6 DEF Cleanup, TypeOK, ClockOK, promiseVars
<1>7. CASE Close
    BY <1>7 DEF Close, TypeOK, ClockOK, bucketVars, promiseVars
<1>8. CASE StopCleaner
    BY <1>8 DEF StopCleaner, TypeOK, ClockOK, bucketVars, promiseVars
<1>9. CASE Tick
    BY <1>9 DEF Tick, TypeOK, ClockOK, bucketVars, cleanerVars, promiseVars
<1>10. CASE UNCHANGED vars
    BY <1>10 DEF vars, TypeOK, ClockOK
<1> QED
    BY <1>1, <1>2, <1>3, <1>4, <1>5, <1>6, <1>7, <1>8, <1>9, <1>10 DEF Next

\* Every state of the limiter is well typed; in particular no bucket ever holds
\* less than nothing or more than its burst (limiter.go:61-71).
THEOREM LimiterTypeCorrect == Spec => []TypeOK
<1>1. BaseInv => TypeOK
    BY DEF BaseInv
<1> QED
    BY InitBase, StepBase, <1>1, PTL DEF Spec

-----------------------------------------------------------------------------
(* How each step changes what a bucket would hold *)

\* The clock adds a tick to every bucket that is not full.
LEMMA TickRefills ==
    ASSUME BaseInv, Tick, NEW k \in Keys
    PROVE  Refilled(k)' = Least(Full, Refilled(k) + 1)
BY DEF BaseInv, TypeOK, ClockOK, Tick, bucketVars, Refilled, Least

\* A bucket that has just been stored holds what was stored.
LEMMA StoreRefilled ==
    ASSUME BaseInv, NEW k \in Keys, NEW t \in 0..Full, Store(k, t), now' = now
    PROVE  \A j \in Keys : Refilled(j)' = IF j = k THEN t ELSE Refilled(j)
BY DEF BaseInv, TypeOK, ClockOK, Store, Refilled, Least

\* An idle bucket is a full one, so that dropping it changes nothing.
LEMMA CleanupKeepsRefilled ==
    ASSUME Full <= Idle, BaseInv, Cleanup, NEW k \in Keys
    PROVE  Refilled(k)' = Refilled(k)
<1>1. CASE k \in buckets /\ Expired(k)
    <2>1. now - lastCheck[k] >= Full
        BY <1>1 DEF BaseInv, TypeOK, ClockOK, Cleanup, Expired
    <2>2. Refilled(k) = Full
        BY <1>1, <2>1 DEF BaseInv, TypeOK, Refilled, Least
    <2>3. k \notin buckets'
        BY <1>1 DEF Cleanup
    <2> QED
        BY <2>2, <2>3 DEF Refilled
<1>2. CASE k \in buckets /\ ~Expired(k)
    BY <1>2 DEF Cleanup, Refilled
<1>3. CASE k \notin buckets
    BY <1>3 DEF Cleanup, Refilled
<1> QED
    BY <1>1, <1>2, <1>3

\* Every other step leaves the buckets and the clock alone.
LEMMA OthersKeepRefilled ==
    ASSUME UNCHANGED <<now, bucketVars>>, NEW k \in Keys
    PROVE  Refilled(k)' = Refilled(k)
BY DEF bucketVars, Refilled

-----------------------------------------------------------------------------
(* The rate is kept *)

LEMMA InitWindow == Init => WindowOK
BY DEF Init, WindowOK, Refilled, Least

LEMMA StepWindow ==
    Full <= Idle /\ BaseInv /\ WindowOK /\ [Next]_vars => WindowOK'
<1> SUFFICES ASSUME Full <= Idle, BaseInv, WindowOK, [Next]_vars PROVE WindowOK'
    OBVIOUS
<1> DEFINE w == window.key
<1>0. w \in Keys /\ window.since \in Nat /\ window.spent \in Nat /\ now \in Nat
    BY DEF BaseInv, TypeOK
<1>00. \A k \in Keys : Refilled(k) \in 0..Full
    BY RefilledType
<1>1. ASSUME NEW k \in Keys, Admit(k) PROVE WindowOK'
    <2>1. Refilled(k) - Cost \in 0..Full /\ now' = now
        BY <1>1, <1>00 DEF Admit
    <2>2. Refilled(w)' = IF w = k THEN Refilled(k) - Cost ELSE Refilled(w)
        BY <1>0, <1>1, <2>1, StoreRefilled DEF Admit
    <2>3. /\ window'.key = w /\ window'.since = window.since
          /\ window'.spent = IF w = k THEN window.spent + Cost ELSE window.spent
        BY <1>1 DEF Admit, BaseInv, TypeOK
    <2> QED
        BY <1>0, <1>00, <2>1, <2>2, <2>3 DEF WindowOK
<1>2. ASSUME NEW k \in Keys, Refuse(k) PROVE WindowOK'
    <2>1. Refilled(w)' = Refilled(w)
        BY <1>0, <1>2, <1>00, StoreRefilled DEF Refuse
    <2> QED
        BY <1>2, <2>1 DEF Refuse, WindowOK
<1>3. ASSUME NEW k \in Keys, Watch(k) PROVE WindowOK'
    <2>1. Refilled(k)' = Refilled(k) /\ now' = now
        BY <1>3, OthersKeepRefilled DEF Watch, bucketVars
    <2> QED
        BY <1>0, <1>00, <1>3, <2>1 DEF Watch, WindowOK
<1>4. CASE Tick
    <2>1. Refilled(w)' = Least(Full, Refilled(w) + 1) /\ now' = now + 1
        BY <1>0, <1>4, TickRefills DEF Tick
    <2> QED
        BY <1>0, <1>00, <1>4, <2>1 DEF Tick, WindowOK, Least
<1>5. CASE Cleanup
    <2>1. \A k \in Keys : Refilled(k)' = Refilled(k)
        BY <1>5, CleanupKeepsRefilled
    <2>2. window' = window
        BY <1>5 DEF Cleanup
    <2> QED
        BY <1>0, <1>5, <2>1, <2>2 DEF Cleanup, WindowOK
<1>6. ASSUME UNCHANGED <<now, bucketVars, window>> PROVE WindowOK'
    <2>1. Refilled(w)' = Refilled(w)
        BY <1>0, <1>6, OthersKeepRefilled
    <2> QED
        BY <1>6, <2>1 DEF WindowOK
<1> QED
    BY <1>1, <1>2, <1>3, <1>4, <1>5, <1>6
    DEF Next, vars, bucketVars, Hint, StartCleanup, Close, StopCleaner

\* No client is admitted more than a burst plus the rate times the length of any
\* stretch of time, as long as cleanup waits for a burst to be earned.
THEOREM RateIsKept == ASSUME Full <= Idle PROVE Spec => []WithinRate
<1>1. BaseInv /\ WindowOK => WithinRate
    <2> SUFFICES ASSUME BaseInv, WindowOK PROVE WithinRate
        OBVIOUS
    <2>1. window.key \in Keys
        BY DEF BaseInv, TypeOK
    <2>2. Refilled(window.key) \in 0..Full
        BY <2>1, RefilledType
    <2> QED
        BY <2>2 DEF BaseInv, TypeOK, WindowOK, WithinRate
<1>2. BaseInv /\ WindowOK /\ [Next]_vars => WindowOK'
    BY StepWindow
<1> QED
    BY InitBase, StepBase, InitWindow, <1>1, <1>2, PTL DEF Spec

-----------------------------------------------------------------------------
(* Retry hints are honest *)

LEMMA StepPromise ==
    Cost <= Full /\ Full <= Idle /\ BaseInv /\ PromiseOK /\ [Next]_vars => PromiseOK'
<1> SUFFICES ASSUME Cost <= Full, Full <= Idle, BaseInv, PromiseOK, [Next]_vars,
                    NEW j \in promised', (Refilled(j) < Cost)'
             PROVE  (Cost - Refilled(j) <= retryAt[j] - now)'
    BY DEF PromiseOK
<1>0. BaseInv'
    BY StepBase
<1>00. j \in Keys /\ now \in Nat
    BY <1>0 DEF BaseInv, TypeOK
<1>000. \A k \in Keys : Refilled(k) \in 0..Full
    BY RefilledType
<1>1. ASSUME NEW k \in Keys, Admit(k) PROVE (Cost - Refilled(j) <= retryAt[j] - now)'
    <2>1. j # k /\ j \in promised
        BY <1>1 DEF Admit
    <2>2. Refilled(k) - Cost \in 0..Full /\ now' = now
        BY <1>1, <1>000 DEF Admit
    <2>3. Refilled(j)' = Refilled(j)
        BY <1>00, <1>1, <2>1, <2>2, StoreRefilled DEF Admit
    <2>4. retryAt'[j] = retryAt[j]
        BY <1>00, <1>1, <2>1 DEF Admit, BaseInv, TypeOK
    <2> QED
        BY <2>1, <2>2, <2>3, <2>4 DEF PromiseOK
<1>2. ASSUME NEW k \in Keys, Refuse(k) PROVE (Cost - Refilled(j) <= retryAt[j] - now)'
    <2>1. Refilled(j)' = Refilled(j)
        BY <1>00, <1>2, <1>000, StoreRefilled DEF Refuse
    <2> QED
        BY <1>2, <2>1 DEF Refuse, PromiseOK, promiseVars
<1>3. ASSUME NEW k \in Keys, Hint(k) PROVE (Cost - Refilled(j) <= retryAt[j] - now)'
    <2>1. Refilled(j)' = Refilled(j) /\ now' = now
        BY <1>00, <1>3, OthersKeepRefilled DEF Hint, bucketVars
    <2> DEFINE at == now + RetryAfter(Deficit(k)) * Second
    <2>2. Deficit(k) \in Nat
        BY DEF Deficit, BaseInv, TypeOK
    <2>3. at \in Nat /\ at >= now + Deficit(k)
        BY <1>00, <2>2, RetryAfterCovers
    <2>4. Refilled(k) < Cost => Cost - Refilled(k) <= Deficit(k)
        BY DEF Deficit, Refilled, Least, BaseInv, TypeOK, ClockOK
    <2>5. CASE j = k
        <3>1. retryAt'[k] = IF k \in promised THEN Least(retryAt[k], at) ELSE at
            BY <1>3 DEF Hint, BaseInv, TypeOK
        <3> HIDE DEF at
        <3>2. retryAt'[k] = at \/ (k \in promised /\ retryAt'[k] = retryAt[k])
            BY <3>1 DEF Least
        <3>3. CASE retryAt'[k] = at
            BY <3>3, <2>1, <2>2, <2>3, <2>4, <2>5, <1>00, <1>000
        <3>4. CASE k \in promised /\ retryAt'[k] = retryAt[k]
            BY <3>4, <2>1, <2>5 DEF PromiseOK
        <3> QED
            BY <3>2, <3>3, <3>4
    <2>6. CASE j # k
        <3>1. j \in promised /\ retryAt'[j] = retryAt[j]
            BY <1>00, <1>3, <2>6 DEF Hint, BaseInv, TypeOK
        <3> QED
            BY <3>1, <2>1 DEF PromiseOK
    <2> QED
        BY <2>5, <2>6
<1>4. CASE Tick
    <2>1. Refilled(j)' = Least(Full, Refilled(j) + 1) /\ now' = now + 1
        BY <1>00, <1>4, TickRefills DEF Tick
    <2>2. Refilled(j)' = Refilled(j) + 1
        BY <1>00, <1>000, <2>1 DEF Least
    <2>3. j \in promised /\ retryAt' = retryAt
        BY <1>4 DEF Tick, promiseVars
    <2>4. retryAt[j] \in Nat
        BY <1>00 DEF BaseInv, TypeOK
    <2> QED
        BY <1>00, <1>000, <2>1, <2>2, <2>3, <2>4 DEF PromiseOK
<1>5. CASE Cleanup
    <2>1. Refilled(j)' = Refilled(j)
        BY <1>00, <1>5, CleanupKeepsRefilled
    <2> QED
        BY <1>5, <2>1 DEF Cleanup, PromiseOK, promiseVars
<1>6. ASSUME UNCHANGED <<now, bucketVars, promiseVars>>
      PROVE  (Cost - Refilled(j) <= retryAt[j] - now)'
    <2>1. Refilled(j)' = Refilled(j)
        BY <1>00, <1>6, OthersKeepRefilled
    <2> QED
        BY <1>6, <2>1 DEF PromiseOK, promiseVars
<1> QED
    BY <1>1, <1>2, <1>3, <1>4, <1>5, <1>6
    DEF Next, vars, bucketVars, promiseVars, Watch, StartCleanup, Close, StopCleaner

\* A client that waits as long as it was told to finds a token, unless its
\* address was admitted meanwhile, for any rate and any burst of at least one.
THEOREM HintsAreHonest ==
    ASSUME Cost <= Full, Full <= Idle PROVE Spec => []HintSuffices
<1>1. Init => PromiseOK
    BY DEF Init, PromiseOK
<1>2. BaseInv /\ PromiseOK => HintSuffices
    <2> SUFFICES ASSUME BaseInv, PromiseOK, NEW k \in promised, now >= retryAt[k]
                 PROVE  Refilled(k) >= Cost
        BY DEF HintSuffices
    <2>1. k \in Keys /\ now \in Nat /\ retryAt[k] \in Nat
        BY DEF BaseInv, TypeOK
    <2>2. Refilled(k) \in 0..Full
        BY <2>1, RefilledType
    <2> QED
        BY <2>1, <2>2 DEF PromiseOK
<1>3. BaseInv /\ PromiseOK /\ [Next]_vars => PromiseOK'
    BY StepPromise
<1> QED
    BY InitBase, StepBase, <1>1, <1>2, <1>3, PTL DEF Spec

-----------------------------------------------------------------------------
(* The limiter implements one token bucket per client *)

LEMMA InitIdeal == Init => Ideal!Init
BY DEF Init, Ideal!Init, Refilled

LEMMA StepIdeal ==
    Full <= Idle /\ BaseInv /\ BaseInv' /\ [Next]_vars => [Ideal!Next]_(Ideal!vars)
<1> SUFFICES ASSUME Full <= Idle, BaseInv, [Next]_vars
             PROVE  [Ideal!Next]_(Ideal!vars)
    OBVIOUS
<1> DEFINE level == [k \in Keys |-> Refilled(k)]
<1>0. \A k \in Keys : Refilled(k) \in 0..Full
    BY RefilledType
<1>1. ASSUME NEW k \in Keys, Admit(k) PROVE Ideal!Admit(k)
    <2>1. Refilled(k) - Cost \in 0..Full /\ now' = now
        BY <1>0, <1>1 DEF Admit
    <2>2. \A j \in Keys :
            Refilled(j)' = IF j = k THEN Refilled(k) - Cost ELSE Refilled(j)
        BY <1>1, <2>1, StoreRefilled DEF Admit
    <2>3. level' = [level EXCEPT ![k] = Refilled(k) - Cost]
        BY <2>2
    <2> QED
        BY <1>1, <2>3 DEF Admit, Ideal!Admit
<1>2. ASSUME NEW k \in Keys, Refuse(k) PROVE Ideal!Refuse(k)
    <2>1. \A j \in Keys : Refilled(j)' = Refilled(j)
        BY <1>0, <1>2, StoreRefilled DEF Refuse
    <2>2. level' = level
        BY <2>1
    <2> QED
        BY <1>2, <2>2 DEF Refuse, Ideal!Refuse
<1>3. ASSUME Tick PROVE Ideal!Pass
    <2>1. \A k \in Keys : Refilled(k)' = Least(Full, Refilled(k) + 1)
        BY <1>3, TickRefills
    <2>2. level' = [k \in Keys |-> Least(Full, level[k] + 1)]
        BY <2>1
    <2> QED
        BY <1>3, <2>2 DEF Tick, Ideal!Pass, Ideal!Least, Least
<1>4. CASE Cleanup
    <2>1. \A k \in Keys : Refilled(k)' = Refilled(k)
        BY <1>4, CleanupKeepsRefilled
    <2>2. level' = level
        BY <2>1
    <2> QED
        BY <1>4, <2>2 DEF Cleanup, Ideal!vars
<1>5. ASSUME UNCHANGED <<now, bucketVars, answer>> PROVE UNCHANGED Ideal!vars
    <2>1. \A k \in Keys : Refilled(k)' = Refilled(k)
        BY <1>5, OthersKeepRefilled
    <2>2. level' = level
        BY <2>1
    <2> QED
        BY <1>5, <2>2 DEF Ideal!vars
<1> QED
    BY <1>1, <1>2, <1>3, <1>4, <1>5
    DEF Next, vars, bucketVars, Hint, Watch, StartCleanup, Close, StopCleaner, Ideal!Next

\* Table, lazy refill and cleanup implement the ideal token bucket: they admit
\* and refuse exactly when it does.
THEOREM LimiterImplementsIdeal == ASSUME Full <= Idle PROVE Spec => IdealSpec
<1>1. BaseInv /\ BaseInv' /\ [Next]_vars => [Ideal!Next]_(Ideal!vars)
    BY StepIdeal
<1> QED
    BY InitBase, StepBase, InitIdeal, <1>1, PTL DEF Spec, IdealSpec, Ideal!Spec
=============================================================================
