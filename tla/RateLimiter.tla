------------------------------ MODULE RateLimiter ------------------------------
(***************************************************************************)
(* The in-memory rate limiter of both servers: ratelimit.Limiter and the   *)
(* middleware around it (internal/ratelimit).  Allow and                   *)
(* SecondsUntilNextToken take the lock one after the other, and a cleanup  *)
(* goroutine computes its cutoff before it takes the lock, so each of      *)
(* these is a step of its own.  A bucket's tokens are counted in ticks of  *)
(* the clock: a token is Cost ticks of refill, the burst is Full ticks     *)
(* (float rounding is left out).  A limiter with rate <= 0 has no state.   *)
(***************************************************************************)
EXTENDS Integers

CONSTANTS
    Keys,        \* client addresses, one limiter each
    Cost,        \* ticks it takes to earn one token: 1 / rate
    Full,        \* ticks it takes to earn a burst of tokens: burst / rate
    Second,      \* ticks in one second, the unit of Retry-After
    Idle,        \* idleThreshold of cleanup
    MaxNow,      \* bound: the clock stops here
    MaxRefused   \* bound: refused requests of a key that wait for their hint

ASSUME LimiterAssumption ==
    /\ Cost \in Nat \ {0}
    /\ Full \in Nat
    /\ Second \in Nat \ {0}
    /\ Idle \in Nat
    /\ MaxNow \in Nat
    /\ MaxRefused \in Nat

VARIABLES
    now,         \* the monotonic clock
    buckets,     \* the keys of Limiter.buckets
    tokens,      \* bucket.tokens
    lastCheck,   \* bucket.lastCheck
    refused,     \* requests of a key between Allow = false and their hint
    cutoff,      \* the cutoff of the cleanup in progress
    cleaner,     \* the cleanup goroutine: "waiting", "cleaning" or "stopped"
    closed,      \* Close has been called
    answer,      \* what Allow last returned, and for which key
    promised,    \* history: keys told when to retry and not admitted since
    retryAt,     \* history: the earliest such time
    window       \* history: a key, a start and the ticks admitted to it since

bucketVars == <<buckets, tokens, lastCheck>>
cleanerVars == <<cutoff, cleaner, closed>>
promiseVars == <<promised, retryAt>>
vars == <<now, buckets, tokens, lastCheck, refused, cutoff, cleaner, closed,
          answer, promised, retryAt, window>>

TypeOK ==
    /\ now \in Nat
    /\ buckets \subseteq Keys
    /\ tokens \in [Keys -> 0..Full]
    /\ lastCheck \in [Keys -> Nat]
    /\ refused \in [Keys -> Nat]
    /\ cutoff \in Int
    /\ cleaner \in {"waiting", "cleaning", "stopped"}
    /\ closed \in BOOLEAN
    /\ answer \in [key: Keys, yes: BOOLEAN]
    /\ promised \subseteq Keys
    /\ retryAt \in [Keys -> Nat]
    /\ window \in [key: Keys, since: Nat, spent: Nat]

Init ==
    /\ now = 0
    /\ buckets = {}
    /\ tokens = [k \in Keys |-> 0]
    /\ lastCheck = [k \in Keys |-> 0]
    /\ refused = [k \in Keys |-> 0]
    /\ cutoff = 0
    /\ cleaner = "waiting"
    /\ closed = FALSE
    /\ answer \in [key: Keys, yes: {TRUE}]
    /\ promised = {}
    /\ retryAt = [k \in Keys |-> 0]
    /\ window \in [key: Keys, since: {0}, spent: {0}]

-----------------------------------------------------------------------------
Least(a, b) == IF a <= b THEN a ELSE b

\* What key k's bucket holds once Allow has created or refilled it.
Refilled(k) ==
    IF k \in buckets THEN Least(Full, tokens[k] + (now - lastCheck[k])) ELSE Full

\* The bucket of k holds t from now on.
Store(k, t) ==
    /\ buckets' = buckets \cup {k}
    /\ tokens' = [tokens EXCEPT ![k] = t]
    /\ lastCheck' = [lastCheck EXCEPT ![k] = now]

\* Allow finds a token, and the request goes on to its handler.
Admit(k) ==
    /\ Refilled(k) >= Cost
    /\ Store(k, Refilled(k) - Cost)
    /\ answer' = [key |-> k, yes |-> TRUE]
    /\ promised' = promised \ {k}
    /\ retryAt' = [retryAt EXCEPT ![k] = 0]
    /\ window' = [window EXCEPT !.spent = IF window.key = k THEN @ + Cost ELSE @]
    /\ UNCHANGED <<now, refused, cleanerVars>>

\* Mutant: a refused request adds the refill and does not move lastCheck.
RefuseUnmarked(k) ==
    /\ Refilled(k) < Cost
    /\ tokens' = [tokens EXCEPT ![k] = Refilled(k)]
    /\ refused[k] < MaxRefused
    /\ refused' = [refused EXCEPT ![k] = @ + 1]
    /\ answer' = [key |-> k, yes |-> FALSE]
    /\ UNCHANGED <<now, buckets, lastCheck, cleanerVars, promiseVars, window>>

\* Allow finds none; its caller will ask for the time until the next token.
Refuse(k) ==
    /\ Refilled(k) < Cost
    /\ Store(k, Refilled(k))
    /\ refused[k] < MaxRefused
    /\ refused' = [refused EXCEPT ![k] = @ + 1]
    /\ answer' = [key |-> k, yes |-> FALSE]
    /\ UNCHANGED <<now, cleanerVars, promiseVars, window>>

\* SecondsUntilNextToken: the deficit as of the bucket's last check.
Deficit(k) == IF k \in buckets /\ tokens[k] < Cost THEN Cost - tokens[k] ELSE 0

\* Mutant: Retry-After is rounded down.
SecondsBegun(d) == IF d < Second THEN 1 ELSE d \div Second

\* The seconds written to Retry-After for a wait of d ticks.
RetryAfter(d) == IF d <= Second THEN 1 ELSE (d + Second - 1) \div Second

\* Wrap asks for the deficit and sends the 429 response.
Hint(k) ==
    /\ refused[k] > 0
    /\ refused' = [refused EXCEPT ![k] = @ - 1]
    /\ LET at == now + RetryAfter(Deficit(k)) * Second
       IN  retryAt' = [retryAt EXCEPT ![k] =
                         IF k \in promised THEN Least(@, at) ELSE at]
    /\ promised' = promised \cup {k}
    /\ UNCHANGED <<now, bucketVars, cleanerVars, answer, window>>

\* The ticker fires; cleanup reads the clock before it waits for the lock.  A
\* closed limiter's select may still choose the ticker.
StartCleanup ==
    /\ cleaner = "waiting"
    /\ cutoff' = now - Idle
    /\ cleaner' = "cleaning"
    /\ UNCHANGED <<now, bucketVars, refused, closed, answer, promiseVars, window>>

\* Mutant: cleanup drops every bucket that was not used since the last tick.
AnyUnused(k) == lastCheck[k] < now

Expired(k) == lastCheck[k] < cutoff

\* cleanup drops the idle buckets under the lock.
Cleanup ==
    /\ cleaner = "cleaning"
    /\ buckets' = {k \in buckets : ~Expired(k)}
    /\ tokens' = [k \in Keys |-> IF k \in buckets' THEN tokens[k] ELSE 0]
    /\ lastCheck' = [k \in Keys |-> IF k \in buckets' THEN lastCheck[k] ELSE 0]
    /\ cutoff' = 0
    /\ cleaner' = "waiting"
    /\ UNCHANGED <<now, refused, closed, answer, promiseVars, window>>

Close ==
    /\ closed' = TRUE
    /\ UNCHANGED <<now, bucketVars, refused, cutoff, cleaner, answer, promiseVars, window>>

\* cleanupLoop returns.
StopCleaner ==
    /\ cleaner = "waiting" /\ closed
    /\ cleaner' = "stopped"
    /\ UNCHANGED <<now, bucketVars, refused, cutoff, closed, answer, promiseVars, window>>

Tick ==
    /\ now < MaxNow
    /\ now' = now + 1
    /\ UNCHANGED <<bucketVars, refused, cleanerVars, answer, promiseVars, window>>

\* Start counting the admissions of a key (observes, changes nothing else).
Watch(k) ==
    /\ window' = [key |-> k, since |-> now, spent |-> 0]
    /\ UNCHANGED <<now, bucketVars, refused, cleanerVars, answer, promiseVars>>

Next ==
    \/ \E k \in Keys : Admit(k) \/ Refuse(k) \/ Hint(k) \/ Watch(k)
    \/ StartCleanup \/ Cleanup \/ Close \/ StopCleaner \/ Tick

Spec == Init /\ [][Next]_vars
-----------------------------------------------------------------------------
(* Properties *)

\* In any stretch of time a client is admitted at most a burst plus what the
\* rate yields in that time (limiter.go:24-25), although idle buckets are thrown
\* away and come back full.  Needs Full <= Idle.
WithinRate == window.spent <= Full + (now - window.since)

\* A client that waits as long as a 429 response told it to finds a token, if
\* nobody has used its address up meanwhile (middleware.go:45-51): the hint is
\* computed in a second lock section, after other requests and the cleanup may
\* have touched the bucket.
HintSuffices == \A k \in promised : now >= retryAt[k] => Refilled(k) >= Cost

\* Lazy refill, the table of buckets and its cleanup together are one ideal
\* token bucket per client: it admits exactly when that one would.
Ideal == INSTANCE TokenBucket WITH level <- [k \in Keys |-> Refilled(k)]
IdealSpec == Ideal!Spec
=============================================================================
