-------------------------- MODULE RiskAnalysisProofs --------------------------
(***************************************************************************)
(* Proofs about FeedSync, for every set of names, writers and failures,    *)
(* and then about RiskAnalysis, which extends it: analyze never caches,    *)
(* and never serves, a verdict laxer than the announced feed, for any      *)
(* number of domains, requests and feed writers.                           *)
(***************************************************************************)
EXTENDS RiskAnalysis, FiniteSetTheorems, TLAPS

-----------------------------------------------------------------------------
(* The feed writers: typing *)

LEMMA TargetIsNames ==
    ASSUME SyncTypeOK, NEW s \in Syncers, NEW B \in SUBSET Names
    PROVE  Cardinality(B \ Target(s)) \in Nat
<1>1. B \ Target(s) \subseteq Names  OBVIOUS
<1>2. IsFiniteSet(B \ Target(s))
  BY <1>1, SyncAssumption, FS_Subset
<1>3. QED  BY <1>2, FS_CardinalityType

LEMMA FeedBecomesType ==
    ASSUME SyncTypeOK, NEW S \in SUBSET Names, FeedBecomes(S)
    PROVE  /\ feed' \subseteq Names
           /\ revision' \in Nat
           /\ announced' \in [Names -> Nat]
BY DEF SyncTypeOK, FeedBecomes

LEMMA BumpType ==
    ASSUME SyncTypeOK, NEW k \in Nat, Bump(k)
    PROVE  /\ feed' \subseteq Names
           /\ revision' \in Nat
           /\ announced' \in [Names -> Nat]
BY DEF SyncTypeOK, Bump

LEMMA AddToTargetType ==
    ASSUME SyncTypeOK, NEW s \in Syncers, NEW B \in SUBSET Names, AddToTarget(s, B)
    PROVE  /\ feed' \subseteq Names
           /\ revision' \in Nat
           /\ announced' \in [Names -> Nat]
           /\ staged' \in [Syncers -> SUBSET Names]
<1>1. CASE s \in Replacing
  BY <1>1 DEF SyncTypeOK, AddToTarget, redisVars
<1>2. CASE s \notin Replacing
  <2>1. feed \cup B \in SUBSET Names  BY DEF SyncTypeOK
  <2>2. FeedBecomes(feed \cup B) /\ UNCHANGED staged  BY <1>2 DEF AddToTarget
  <2>3. QED  BY <2>1, <2>2, FeedBecomesType DEF SyncTypeOK
<1>3. QED  BY <1>1, <1>2

LEMMA ReturnType ==
    ASSUME SyncTypeOK, NEW s \in Syncers, NEW how \in {"ok", "error", "crashed"},
           Return(s, how)
    PROVE  /\ phase' \in [Syncers -> Phases]
           /\ outcome' \in [Syncers -> {"none", "ok", "error", "crashed"}]
           /\ listed' \in [Syncers -> SUBSET Names]
           /\ source' \in [Syncers -> SUBSET Names]
           /\ ending' \in [Syncers -> {"eof", "broken", "oversize"}]
           /\ seen' \in [Syncers -> SUBSET Names]
           /\ written' \in [Syncers -> Nat]
           /\ expired' \in [Syncers -> BOOLEAN]
BY DEF SyncTypeOK, Return, Goto, Phases

LEMMA SyncTypeInit == SyncInit => SyncTypeOK
BY SyncAssumption DEF SyncInit, SyncTypeOK, Phases

LEMMA SyncTypeStep == SyncTypeOK /\ [SyncNext]_syncVars => SyncTypeOK'
<1> SUFFICES ASSUME SyncTypeOK, [SyncNext]_syncVars PROVE SyncTypeOK'
  OBVIOUS
<1> USE DEF redisVars, readerVars, runVars
<1>1. ASSUME NEW s \in Syncers, Open(s) PROVE SyncTypeOK'
  <2>1. PICK L \in SUBSET Names, how \in {"eof", "broken", "oversize"} :
          /\ listed' = [listed EXCEPT ![s] = L]
          /\ ending' = [ending EXCEPT ![s] = how]
          /\ \E D \in SUBSET L : source' = [source EXCEPT ![s] = D]
    BY <1>1 DEF Open
  <2>2. /\ listed' \in [Syncers -> SUBSET Names]
        /\ ending' \in [Syncers -> {"eof", "broken", "oversize"}]
        /\ source' \in [Syncers -> SUBSET Names]
    BY <2>1 DEF SyncTypeOK
  <2>3. QED  BY <1>1, <2>2 DEF SyncTypeOK, Open, Goto, Phases
<1>2. ASSUME NEW s \in Syncers, OpenFails(s) PROVE SyncTypeOK'
  BY <1>2 DEF SyncTypeOK, OpenFails, Goto, Phases
<1>3. ASSUME NEW s \in Syncers, FlushBatch(s) PROVE SyncTypeOK'
  <2>1. PICK B \in Batches(s) :
          /\ AddToTarget(s, B)
          /\ seen' = [seen EXCEPT ![s] = @ \cup B]
          /\ \/ written' = [written EXCEPT ![s] = @ + Cardinality(B \ Target(s))]
             \/ UNCHANGED written
    BY <1>3 DEF FlushBatch
  <2>2. B \in SUBSET Names  BY DEF Batches, Unread, SyncTypeOK
  <2>3. written' \in [Syncers -> Nat]
    <3>1. Cardinality(B \ Target(s)) \in Nat  BY <2>2, TargetIsNames
    <3>2. QED  BY <2>1, <3>1 DEF SyncTypeOK
  <2>4. seen' \in [Syncers -> SUBSET Names]
    BY <2>1, <2>2 DEF SyncTypeOK
  <2>5. QED
    BY <1>3, <2>1, <2>2, <2>3, <2>4, AddToTargetType DEF SyncTypeOK, FlushBatch
<1>4. ASSUME NEW s \in Syncers, FlushFails(s) PROVE SyncTypeOK'
  <2>1. phase' \in [Syncers -> Phases]
    BY <1>4 DEF FlushFails, Goto, SyncTypeOK, Phases
  <2>2. CASE UNCHANGED <<redisVars, staged>>
    BY <1>4, <2>1, <2>2 DEF SyncTypeOK, FlushFails
  <2>3. CASE \E B \in Batches(s) : AddToTarget(s, B)
    <3>1. PICK B \in Batches(s) : AddToTarget(s, B)  BY <2>3
    <3>2. B \in SUBSET Names  BY DEF Batches, Unread, SyncTypeOK
    <3>3. QED
      BY <1>4, <2>1, <3>1, <3>2, AddToTargetType DEF SyncTypeOK, FlushFails
  <2>4. QED  BY <1>4, <2>2, <2>3 DEF FlushFails
<1>5. ASSUME NEW s \in Syncers, EndOfSource(s) PROVE SyncTypeOK'
  BY <1>5 DEF SyncTypeOK, EndOfSource, Goto, Phases
<1>6. ASSUME NEW s \in Syncers, SourceError(s) PROVE SyncTypeOK'
  BY <1>6 DEF SyncTypeOK, SourceError, Goto, Phases
<1>7. ASSUME NEW s \in Syncers, Publish(s) PROVE SyncTypeOK'
  <2>1. staged[s] \in SUBSET Names  BY DEF SyncTypeOK
  <2>2. FeedBecomes(staged[s])  BY <1>7 DEF Publish
  <2>3. QED
    BY <1>7, <2>1, <2>2, FeedBecomesType DEF SyncTypeOK, Publish, Goto, Phases
<1>8. ASSUME NEW s \in Syncers, PublishFails(s) PROVE SyncTypeOK'
  <2>1. staged[s] \in SUBSET Names  BY DEF SyncTypeOK
  <2>2. CASE UNCHANGED <<redisVars, staged>>
    BY <1>8, <2>2 DEF SyncTypeOK, PublishFails, Goto, Phases
  <2>3. CASE FeedBecomes(staged[s]) /\ staged' = [staged EXCEPT ![s] = {}]
    BY <1>8, <2>1, <2>3, FeedBecomesType DEF SyncTypeOK, PublishFails, Goto, Phases
  <2>4. QED  BY <1>8, <2>2, <2>3 DEF PublishFails
<1>9. ASSUME NEW s \in Syncers, Announce(s) PROVE SyncTypeOK'
  <2>1. phase' \in [Syncers -> Phases]
    BY <1>9 DEF Announce, Goto, SyncTypeOK, Phases
  <2>2. CASE UNCHANGED redisVars
    BY <1>9, <2>1, <2>2 DEF SyncTypeOK, Announce
  <2>3. CASE \E k \in {1, 2} : Bump(k)
    BY <1>9, <2>1, <2>3, BumpType DEF SyncTypeOK, Announce
  <2>4. QED  BY <1>9, <2>2, <2>3 DEF Announce
<1>10. ASSUME NEW s \in Syncers, AnnounceFails(s) PROVE SyncTypeOK'
  <2>1. phase' \in [Syncers -> Phases]
    BY <1>10 DEF AnnounceFails, Goto, SyncTypeOK, Phases
  <2>2. CASE UNCHANGED redisVars
    BY <1>10, <2>1, <2>2 DEF SyncTypeOK, AnnounceFails
  <2>3. CASE Bump(1)
    BY <1>10, <2>1, <2>3, BumpType DEF SyncTypeOK, AnnounceFails
  <2>4. QED  BY <1>10, <2>2, <2>3 DEF AnnounceFails
<1>11. ASSUME NEW s \in Syncers, RecordSuccess(s) PROVE SyncTypeOK'
  BY <1>11, ReturnType DEF SyncTypeOK, RecordSuccess
<1>12. ASSUME NEW s \in Syncers, RecordSuccessFails(s) PROVE SyncTypeOK'
  BY <1>12 DEF SyncTypeOK, RecordSuccessFails, Goto, Phases
<1>13. ASSUME NEW s \in Syncers, Discard(s) PROVE SyncTypeOK'
  BY <1>13 DEF SyncTypeOK, Discard, Goto, Phases
<1>14. ASSUME NEW s \in Syncers, Fail(s) PROVE SyncTypeOK'
  BY <1>14, ReturnType DEF SyncTypeOK, Fail
<1>15. ASSUME NEW s \in Syncers, Expire(s) PROVE SyncTypeOK'
  BY <1>15 DEF SyncTypeOK, Expire, Unread
<1>16. ASSUME NEW s \in Syncers, Crash(s) PROVE SyncTypeOK'
  BY <1>16, ReturnType DEF SyncTypeOK, Crash
<1>17. CASE EvictFeed
  BY <1>17, FeedBecomesType DEF SyncTypeOK, EvictFeed
<1>18. CASE EvictRevision
  BY <1>18 DEF SyncTypeOK, EvictRevision
<1>19. CASE UNCHANGED syncVars
  BY <1>19 DEF SyncTypeOK, syncVars
<1>20. QED
  BY <1>1, <1>2, <1>3, <1>4, <1>5, <1>6, <1>7, <1>8, <1>9, <1>10, <1>11, <1>12,
     <1>13, <1>14, <1>15, <1>16, <1>17, <1>18, <1>19 DEF SyncNext, Progress

\* Every state of the feed writers is well typed.
THEOREM SyncTypeCorrect == SyncSpec => []SyncTypeOK
BY SyncTypeInit, SyncTypeStep, PTL DEF SyncSpec
-----------------------------------------------------------------------------
(* What the writers do to the feed and its revision *)

\* Every step leaves the shared keys alone, replaces the members of the feed, or
\* increments the revision.
FeedEffect ==
    \/ UNCHANGED redisVars
    \/ \E S \in SUBSET Names : FeedBecomes(S)
    \/ \E k \in {1, 2} : Bump(k)

LEMMA AddToTargetEffect ==
    ASSUME SyncTypeOK, NEW s \in Syncers, NEW B \in Batches(s), AddToTarget(s, B)
    PROVE  FeedEffect
<1>1. B \in SUBSET Names  BY DEF Batches, Unread, SyncTypeOK
<1>2. feed \cup B \in SUBSET Names  BY <1>1 DEF SyncTypeOK
<1>3. QED  BY <1>2 DEF AddToTarget, FeedEffect, redisVars

LEMMA SyncStepEffect ==
    ASSUME SyncTypeOK, [SyncNext]_syncVars, "evictRevision" \notin Faults
    PROVE  FeedEffect
<1>1. ASSUME NEW s \in Syncers, FlushBatch(s) PROVE FeedEffect
  BY <1>1, AddToTargetEffect DEF FlushBatch
<1>2. ASSUME NEW s \in Syncers, FlushFails(s) PROVE FeedEffect
  BY <1>2, AddToTargetEffect DEF FlushFails, FeedEffect, redisVars
<1>3. ASSUME NEW s \in Syncers, Publish(s) \/ PublishFails(s) PROVE FeedEffect
  <2>1. staged[s] \in SUBSET Names  BY DEF SyncTypeOK
  <2>2. QED
    BY <1>3, <2>1 DEF Publish, PublishFails, FeedEffect, redisVars
<1>4. ASSUME NEW s \in Syncers, Announce(s) \/ AnnounceFails(s) PROVE FeedEffect
  BY <1>4 DEF Announce, AnnounceFails, FeedEffect
<1>5. ASSUME NEW s \in Syncers,
             \/ Open(s) \/ OpenFails(s) \/ EndOfSource(s) \/ SourceError(s)
             \/ RecordSuccess(s) \/ RecordSuccessFails(s) \/ Discard(s) \/ Fail(s)
             \/ Expire(s) \/ Crash(s)
      PROVE  FeedEffect
  BY <1>5 DEF Open, OpenFails, EndOfSource, SourceError, RecordSuccess,
     RecordSuccessFails, Discard, Fail, Expire, Crash, FeedEffect, redisVars
<1>6. CASE EvictFeed
  BY <1>6 DEF EvictFeed, FeedEffect
<1>7. ~EvictRevision
  BY DEF EvictRevision
<1>8. CASE UNCHANGED syncVars
  BY <1>8 DEF syncVars, FeedEffect, redisVars
<1>9. QED
  BY <1>1, <1>2, <1>3, <1>4, <1>5, <1>6, <1>7, <1>8 DEF SyncNext, Progress

LEMMA AnnouncedStep ==
    ASSUME SyncTypeOK, AnnouncedOK, FeedEffect
    PROVE  AnnouncedOK'
<1>1. CASE UNCHANGED redisVars
  BY <1>1 DEF AnnouncedOK, redisVars
<1>2. ASSUME NEW S \in SUBSET Names, FeedBecomes(S) PROVE AnnouncedOK'
  BY <1>2 DEF SyncTypeOK, AnnouncedOK, FeedBecomes
<1>3. ASSUME NEW k \in {1, 2}, Bump(k) PROVE AnnouncedOK'
  BY <1>3 DEF SyncTypeOK, AnnouncedOK, Bump
<1>4. QED  BY <1>1, <1>2, <1>3 DEF FeedEffect

-----------------------------------------------------------------------------
(* One run at a time *)

SyncStep(s) == Open(s) \/ OpenFails(s) \/ Progress(s) \/ Expire(s) \/ Crash(s)

\* A step of one run leaves the others where they are.
LEMMA OtherRuns ==
    ASSUME SyncTypeOK, NEW s \in Syncers, SyncStep(s), NEW t \in Syncers, t # s
    PROVE  /\ phase'[t] = phase[t] /\ listed'[t] = listed[t] /\ source'[t] = source[t]
           /\ ending'[t] = ending[t] /\ seen'[t] = seen[t] /\ staged'[t] = staged[t]
           /\ written'[t] = written[t] /\ expired'[t] = expired[t]
           /\ outcome'[t] = outcome[t] /\ status'[t] = status[t]
<1> USE DEF SyncTypeOK, Goto, Return, readerVars, runVars
<1>1. CASE Open(s) \/ OpenFails(s)
  BY <1>1 DEF Open, OpenFails
<1>2. CASE FlushBatch(s) \/ FlushFails(s)
  BY <1>2 DEF FlushBatch, FlushFails, AddToTarget
<1>3. CASE EndOfSource(s) \/ SourceError(s) \/ Publish(s) \/ PublishFails(s)
  BY <1>3 DEF EndOfSource, SourceError, Publish, PublishFails
<1>4. CASE Announce(s) \/ AnnounceFails(s) \/ RecordSuccess(s)
             \/ RecordSuccessFails(s) \/ Discard(s) \/ Fail(s)
  BY <1>4 DEF Announce, AnnounceFails, RecordSuccess, RecordSuccessFails, Discard, Fail
<1>5. CASE Expire(s) \/ Crash(s)
  BY <1>5 DEF Expire, Crash
<1>6. QED  BY <1>1, <1>2, <1>3, <1>4, <1>5 DEF SyncStep, Progress

\* What the runs cannot have met when the environment does not cause it.
Spared(s) ==
    /\ "timeout" \notin Faults => ~expired[s]
    /\ {"source", "oversize", "timeout"} \cap Faults = {} => ending[s] = "eof"
    /\ phase[s] = "publishing" => s \in Replacing

SparedAll == \A s \in Syncers : Spared(s)

LEMMA SparedStep ==
    ASSUME SyncTypeOK, SparedAll, [SyncNext]_syncVars
    PROVE  SparedAll'
<1> USE DEF Spared, Goto, Return, readerVars, runVars
<1>1. ASSUME NEW s \in Syncers, SyncStep(s) PROVE Spared(s)'
  <2> USE DEF SparedAll, SyncTypeOK, Phases
  <2>1. CASE Open(s)
    <3>1. PICK how \in {"eof", "broken", "oversize"} :
            /\ ending' = [ending EXCEPT ![s] = how]
            /\ how = "broken" => "source" \in Faults
            /\ how = "oversize" => "oversize" \in Faults
      BY <2>1 DEF Open
    <3>2. QED  BY <2>1, <3>1 DEF Open
  <2>2. CASE \/ OpenFails(s) \/ FlushBatch(s) \/ FlushFails(s) \/ EndOfSource(s)
             \/ SourceError(s)
    BY <2>2 DEF OpenFails, FlushBatch, FlushFails, EndOfSource, SourceError
  <2>3. CASE Publish(s) \/ PublishFails(s) \/ Announce(s) \/ AnnounceFails(s)
    BY <2>3 DEF Publish, PublishFails, Announce, AnnounceFails
  <2>4. CASE \/ RecordSuccess(s) \/ RecordSuccessFails(s) \/ Discard(s) \/ Fail(s)
             \/ Crash(s)
    BY <2>4 DEF RecordSuccess, RecordSuccessFails, Discard, Fail, Crash
  <2>5. CASE Expire(s)
    BY <2>5 DEF Expire
  <2>6. QED  BY <1>1, <2>1, <2>2, <2>3, <2>4, <2>5 DEF SyncStep, Progress
<1>2. ASSUME NEW s \in Syncers, SyncStep(s) PROVE SparedAll'
  <2>1. \A t \in Syncers \ {s} : Spared(t)'
    BY <1>2, OtherRuns DEF SparedAll
  <2>2. QED  BY <1>1, <1>2, <2>1 DEF SparedAll
<1>3. CASE EvictFeed \/ EvictRevision \/ UNCHANGED syncVars
  BY <1>3 DEF EvictFeed, EvictRevision, syncVars, SparedAll
<1>4. QED  BY <1>2, <1>3 DEF SyncNext, SyncStep

LEMMA SparedInit == SyncInit => SparedAll
BY DEF SyncInit, SparedAll, Spared

-----------------------------------------------------------------------------
(* Runs announce what they add *)

\* What an additive run relies on, which does not write its names again: every
\* addition counts, no command fails, and no parser stops in the middle.
AdditionsSafe ==
    /\ MinWrites <= 1
    /\ Faults \cap {"redis", "lostReply", "retry", "timeout", "crash"} = {}
    /\ Faults \cap {"source", "oversize"} = {} \/ Syncers \subseteq Replacing \cup CsvSources

\* A run that is on its way to the bump or, if it replaces the feed, has reported
\* that it failed.
Owing(s) ==
    IF s \in Replacing
    THEN /\ phase[s] # "recording"
         /\ phase[s] = "idle" => outcome[s] \in {"error", "crashed"}
    ELSE phase[s] \in {"reading", "announcing"} /\ written[s] >= 1

Unannounced(n) == n \in feed /\ announced[n] = 0

\* While a listed name is unannounced, some run owes the bump, unless the revision
\* key is missing after an eviction.
SomeoneOwes ==
    /\ revision # 0 \/ "evictRevision" \notin Faults
    /\ \E n \in Names : Unannounced(n)
    => \E s \in Syncers : Owing(s)

\* A run that owes a bump owes it until it has bumped.
LEMMA OwingStays ==
    ASSUME SyncTypeOK, SparedAll, Replacing = Syncers \/ AdditionsSafe,
           NEW s \in Syncers, SyncStep(s), ~Announce(s), NEW u \in Syncers, Owing(u)
    PROVE  Owing(u)'
<1> USE DEF readerVars, runVars
<1>1. CASE u # s
  BY <1>1, OtherRuns DEF Owing
<1>2. CASE u = s /\ s \in Replacing
  <2> USE DEF SyncTypeOK, Phases, Goto, Return
  <2>1. CASE \/ Open(s) \/ OpenFails(s) \/ FlushFails(s) \/ EndOfSource(s)
             \/ SourceError(s) \/ FlushBatch(s)
    BY <1>2, <2>1 DEF Owing, Open, OpenFails, FlushFails, EndOfSource, SourceError,
       FlushBatch
  <2>2. CASE Publish(s) \/ PublishFails(s) \/ AnnounceFails(s) \/ RecordSuccessFails(s)
    BY <1>2, <2>2 DEF Owing, Publish, PublishFails, AnnounceFails, RecordSuccessFails
  <2>3. CASE Discard(s) \/ Fail(s) \/ Expire(s) \/ Crash(s)
    BY <1>2, <2>3 DEF Owing, Discard, Fail, Expire, Crash
  <2>4. CASE RecordSuccess(s)
    BY <1>2, <2>4 DEF Owing, RecordSuccess
  <2>5. QED  BY <2>1, <2>2, <2>3, <2>4 DEF SyncStep, Progress
<1>3. CASE u = s /\ s \notin Replacing
  <2>1. /\ phase[s] \in {"reading", "announcing"} /\ written[s] >= 1 /\ written[s] \in Nat
        /\ AdditionsSafe /\ Spared(s) /\ ~expired[s]
    BY <1>3 DEF Owing, SparedAll, Spared, SyncTypeOK, AdditionsSafe
  <2>2. ~Rejected(s) /\ ~ReplyLost(s)
    BY <2>1 DEF Rejected, ReplyLost, AdditionsSafe
  <2>3. ~(FlushFails(s) \/ AnnounceFails(s) \/ Expire(s) \/ Crash(s))
    BY <2>1, <2>2 DEF FlushFails, AnnounceFails, Expire, Crash, AdditionsSafe
  <2>4. ~SourceError(s)
    <3>1. CASE Faults \cap {"source", "oversize"} = {}
      <4>1. ending[s] = "eof"
        BY <2>1, <3>1 DEF Spared, AdditionsSafe
      <4>2. QED  BY <4>1 DEF SourceError
    <3>2. CASE s \in CsvSources
      BY <3>2 DEF SourceError
    <3>3. QED  BY <1>3, <2>1, <3>1, <3>2 DEF AdditionsSafe
  <2>5. CASE FlushBatch(s)
    <3>1. PICK B \in Batches(s) : \/ written' = [written EXCEPT ![s] =
                                                    @ + Cardinality(B \ Target(s))]
                                  \/ UNCHANGED written
      BY <2>5 DEF FlushBatch
    <3>2. Cardinality(B \ Target(s)) \in Nat
      BY TargetIsNames DEF Batches, Unread, SyncTypeOK
    <3>3. written'[s] >= 1
      BY <2>1, <3>1, <3>2 DEF SyncTypeOK
    <3>4. QED  BY <1>3, <2>1, <2>5, <3>3 DEF FlushBatch, Owing
  <2>6. CASE EndOfSource(s)
    BY <1>3, <2>1, <2>6 DEF EndOfSource, Goto, Owing, SyncTypeOK
  <2>7. ~(\/ Open(s) \/ OpenFails(s) \/ Publish(s) \/ PublishFails(s) \/ RecordSuccess(s)
          \/ RecordSuccessFails(s) \/ Discard(s) \/ Fail(s))
    BY <2>1 DEF Open, OpenFails, Publish, PublishFails, RecordSuccess,
       RecordSuccessFails, Discard, Fail
  <2>8. QED  BY <2>3, <2>4, <2>5, <2>6, <2>7 DEF SyncStep, Progress
<1>4. QED  BY <1>1, <1>2, <1>3

\* A run that puts a name in the feed owes its bump.
LEMMA AddingOwes ==
    ASSUME SyncTypeOK, SparedAll, Replacing = Syncers \/ AdditionsSafe,
           NEW s \in Syncers, SyncStep(s), ~Announce(s),
           NEW n \in Names, ~Unannounced(n), Unannounced(n)'
    PROVE  Owing(s)' /\ UNCHANGED revision
<1> USE DEF Unannounced
<1>1. ~UNCHANGED redisVars
  BY DEF redisVars
<1>2. CASE Publish(s) \/ PublishFails(s)
  <2>1. s \in Replacing /\ (Goto(s, "announcing") \/ Goto(s, "discarding"))
    BY <1>2 DEF Publish, PublishFails, SparedAll, Spared
  <2>2. FeedBecomes(staged[s])
    BY <1>1, <1>2 DEF Publish, PublishFails
  <2>3. QED  BY <2>1, <2>2 DEF Goto, Owing, SyncTypeOK, FeedBecomes
<1>3. CASE FlushBatch(s)
  <2>1. PICK B \in Batches(s) :
          /\ AddToTarget(s, B)
          /\ \/ written' = [written EXCEPT ![s] = @ + Cardinality(B \ Target(s))]
             \/ "retry" \in Faults
    BY <1>3 DEF FlushBatch
  <2>2. s \notin Replacing /\ FeedBecomes(feed \cup B)
    BY <1>1, <2>1 DEF AddToTarget
  <2>3. n \in B \ feed
    BY <2>2 DEF FeedBecomes
  <2>4. B \ feed \subseteq Names /\ IsFiniteSet(B \ feed)
    <3>1. B \ feed \subseteq Names
      BY DEF Batches, Unread, SyncTypeOK
    <3>2. QED  BY <3>1, SyncAssumption, FS_Subset
  <2>5. Cardinality(B \ feed) \in Nat /\ Cardinality(B \ feed) # 0
    BY <2>3, <2>4, FS_CardinalityType, FS_EmptySet
  <2>6. written' = [written EXCEPT ![s] = @ + Cardinality(B \ feed)]
    BY <2>1, <2>2 DEF Target, AdditionsSafe
  <2>7. written'[s] >= 1
    BY <2>5, <2>6 DEF SyncTypeOK
  <2>8. phase'[s] = "reading"
    BY <1>3 DEF FlushBatch
  <2>9. QED  BY <2>2, <2>7, <2>8 DEF Owing, FeedBecomes
<1>4. CASE FlushFails(s)
  <2>1. s \notin Replacing /\ ReplyLost(s)
    BY <1>1, <1>4 DEF FlushFails, AddToTarget
  <2>2. QED  BY <2>1 DEF ReplyLost, AdditionsSafe
<1>5. CASE AnnounceFails(s)
  <2>1. Bump(1)
    BY <1>1, <1>5 DEF AnnounceFails
  <2>2. QED  BY <2>1 DEF Bump, SyncTypeOK
<1>6. ~(\/ Open(s) \/ OpenFails(s) \/ EndOfSource(s) \/ SourceError(s)
        \/ RecordSuccess(s) \/ RecordSuccessFails(s) \/ Discard(s) \/ Fail(s)
        \/ Expire(s) \/ Crash(s))
  BY <1>1 DEF Open, OpenFails, EndOfSource, SourceError, RecordSuccess,
     RecordSuccessFails, Discard, Fail, Expire, Crash
<1>7. QED  BY <1>2, <1>3, <1>4, <1>5, <1>6 DEF SyncStep, Progress

\* A run that bumps pays for all; one that need not owes nothing.
LEMMA AnnounceOwes ==
    ASSUME SyncTypeOK, SomeoneOwes, Replacing = Syncers \/ AdditionsSafe,
           NEW s \in Syncers, Announce(s)
    PROVE  SomeoneOwes'
<1>1. ASSUME NEW k \in {1, 2}, Bump(k) PROVE \A n \in Names : ~Unannounced(n)'
  BY <1>1 DEF Bump, SyncTypeOK, Unannounced
<1>2. CASE MustInvalidate(s)
  BY <1>1, <1>2 DEF Announce, SomeoneOwes
<1>3. CASE ~MustInvalidate(s)
  <2>1. UNCHANGED redisVars /\ s \notin Replacing /\ ~(written[s] >= InvalidationMinWrites)
    BY <1>3 DEF Announce, MustInvalidate
  <2>2. InvalidationMinWrites = 1
    BY <2>1, SyncAssumption DEF AdditionsSafe, InvalidationMinWrites
  <2>3. ~Owing(s)
    BY <2>1, <2>2 DEF Owing
  <2>4. \A u \in Syncers : Owing(u) => Owing(u)'
    BY <2>3, OtherRuns DEF Owing, SyncStep, Progress
  <2>5. \A n : Unannounced(n)' = Unannounced(n)
    BY <2>1 DEF redisVars, Unannounced
  <2>6. QED  BY <2>1, <2>4, <2>5 DEF SomeoneOwes, redisVars
<1>4. QED  BY <1>2, <1>3

LEMMA SomeoneOwesStep ==
    ASSUME SyncTypeOK, SparedAll, SomeoneOwes, Replacing = Syncers \/ AdditionsSafe,
           [SyncNext]_syncVars
    PROVE  SomeoneOwes'
<1>1. ASSUME NEW s \in Syncers, SyncStep(s), ~Announce(s) PROVE SomeoneOwes'
  <2> SUFFICES ASSUME revision' # 0 \/ "evictRevision" \notin Faults,
                      NEW n \in Names, Unannounced(n)'
               PROVE  \E u \in Syncers : Owing(u)'
    BY DEF SomeoneOwes
  <2>1. CASE ~Unannounced(n)
    BY <1>1, <2>1, AddingOwes
  <2>2. CASE Unannounced(n) /\ UNCHANGED revision
    <3>1. PICK u \in Syncers : Owing(u)
      BY <2>2 DEF SomeoneOwes
    <3>2. QED  BY <1>1, <3>1, OwingStays
  <2>3. CASE ~UNCHANGED revision
    <3>1. AnnounceFails(s)
      BY <1>1, <2>3 DEF SyncStep, Progress, redisVars, FeedBecomes, AddToTarget,
         Open, OpenFails, FlushBatch, FlushFails, EndOfSource, SourceError, Publish,
         PublishFails, RecordSuccess, RecordSuccessFails, Discard, Fail, Expire, Crash
    <3>2. Bump(1)
      BY <2>3, <3>1 DEF AnnounceFails, redisVars
    <3>3. QED  BY <3>2 DEF Bump, SyncTypeOK, Unannounced
  <2>4. QED  BY <2>1, <2>2, <2>3
<1>2. ASSUME NEW s \in Syncers, Announce(s) PROVE SomeoneOwes'
  BY <1>2, AnnounceOwes
<1>3. CASE EvictFeed
  BY <1>3 DEF EvictFeed, FeedBecomes, SomeoneOwes, Unannounced
<1>4. CASE EvictRevision
  BY <1>4 DEF EvictRevision, SomeoneOwes
<1>5. CASE UNCHANGED syncVars
  BY <1>5 DEF syncVars, SomeoneOwes, Unannounced, Owing
<1>6. QED
  BY <1>1, <1>2, <1>3, <1>4, <1>5 DEF SyncNext, SyncStep

OwesInv == SyncTypeOK /\ SparedAll /\ SomeoneOwes

LEMMA OwesInit == SyncInit => OwesInv
<1>1. SyncInit => SomeoneOwes
  BY DEF SyncInit, SomeoneOwes, Unannounced
<1>2. QED  BY <1>1, SyncTypeInit, SparedInit DEF OwesInv

LEMMA OwesStep ==
    ASSUME OwesInv, Replacing = Syncers \/ AdditionsSafe, [SyncNext]_syncVars
    PROVE  OwesInv'
BY SyncTypeStep, SparedStep, SomeoneOwesStep DEF OwesInv

LEMMA OwesQuiet == OwesInv => QuietMeansAnnounced
BY DEF OwesInv, SyncTypeOK, SomeoneOwes, Owing, Unannounced, QuietMeansAnnounced

\* Whenever every writer rests after a run that succeeded, the feed is wholly
\* announced, although Redis may have evicted the feed or the revision: for Replace
\* writers whatever commands, runs and processes have failed before; beside additive
\* writers if every addition counts, no command fails and no text source breaks off.
THEOREM RunsAnnounce ==
    ASSUME Replacing = Syncers \/ AdditionsSafe
    PROVE  SyncSpec => []QuietMeansAnnounced
<1>1. OwesInv /\ [SyncNext]_syncVars => OwesInv'
  BY OwesStep
<1>2. QED
  BY <1>1, OwesInit, OwesQuiet, PTL DEF SyncSpec

-----------------------------------------------------------------------------
(* What a run leaves behind *)

\* What is not a step of a run leaves the runs, their staging keys and the stored
\* statuses alone: evictions, and all that goes on beside the writers.
RunsUntouched == UNCHANGED <<phase, readerVars, runVars, expired, outcome, status>>

WriterStep == (\E s \in Syncers : SyncStep(s)) \/ RunsUntouched

LEMMA WriterSteps == [SyncNext]_syncVars => WriterStep
BY DEF SyncNext, SyncStep, WriterStep, RunsUntouched, EvictFeed, EvictRevision, syncVars,
   readerVars, runVars

\* How a step of a run may leave it at rest.
LEMMA RunRests ==
    ASSUME SyncTypeOK, NEW s \in Syncers, SyncStep(s), phase'[s] = "idle"
    PROVE  /\ \/ outcome'[s] = "crashed" /\ "crash" \in Faults
              \/ outcome'[s] = "ok" /\ status'[s] = "ok" /\ phase[s] = "recording"
              \/ /\ outcome'[s] = "error" /\ phase[s] = "failing"
                 /\ status'[s] = "error" \/ Rejected(s)
           /\ staged' = staged
<1> USE DEF SyncTypeOK, Goto, Return
<1>1. CASE RecordSuccess(s)
  BY <1>1 DEF RecordSuccess
<1>2. CASE Fail(s)
  BY <1>2 DEF Fail
<1>3. CASE Crash(s)
  BY <1>3 DEF Crash
<1>4. ~(\/ Open(s) \/ OpenFails(s) \/ FlushBatch(s) \/ FlushFails(s) \/ EndOfSource(s)
        \/ SourceError(s) \/ Expire(s))
  BY DEF Open, OpenFails, FlushBatch, FlushFails, EndOfSource, SourceError, Expire
<1>5. ~(\/ Publish(s) \/ PublishFails(s) \/ Announce(s) \/ AnnounceFails(s)
        \/ RecordSuccessFails(s) \/ Discard(s))
  BY DEF Publish, PublishFails, Announce, AnnounceFails, RecordSuccessFails, Discard
<1>6. QED  BY <1>1, <1>2, <1>3, <1>4, <1>5 DEF SyncStep, Progress

\* A run that returned nil has had its success stored.
OkRecorded ==
    \A s \in Syncers : phase[s] = "idle" /\ outcome[s] = "ok" => status[s] = "ok"

LEMMA OkRecordedStep ==
    ASSUME SyncTypeOK, OkRecorded, WriterStep
    PROVE  OkRecorded'
<1>1. ASSUME NEW s \in Syncers, SyncStep(s) PROVE OkRecorded'
  BY <1>1, OtherRuns, RunRests DEF OkRecorded
<1>2. CASE RunsUntouched
  BY <1>2 DEF RunsUntouched, OkRecorded
<1>3. QED  BY <1>1, <1>2 DEF WriterStep

\* While no deadline passes and Redis answers, how a run ended is stored.
EndRecorded ==
    \A s \in Syncers :
        /\ ~expired[s]
        /\ phase[s] = "idle" /\ outcome[s] \in {"ok", "error"} => status[s] = outcome[s]

LEMMA EndRecordedStep ==
    ASSUME SyncTypeOK, EndRecorded, WriterStep, Faults \cap {"redis", "timeout"} = {}
    PROVE  EndRecorded'
<1>1. ASSUME NEW s \in Syncers, SyncStep(s) PROVE EndRecorded'
  <2>1. ~expired'[s]
    BY <1>1 DEF EndRecorded, SyncTypeOK, SyncStep, Progress, Return, Open, OpenFails,
       FlushBatch, FlushFails, EndOfSource, SourceError, Publish, PublishFails, Announce,
       AnnounceFails, RecordSuccess, RecordSuccessFails, Discard, Fail, Expire, Crash
  <2>2. ~Rejected(s)
    BY DEF EndRecorded, Rejected
  <2>3. QED  BY <1>1, <2>1, <2>2, OtherRuns, RunRests DEF EndRecorded
<1>2. CASE RunsUntouched
  BY <1>2 DEF RunsUntouched, EndRecorded
<1>3. QED  BY <1>1, <1>2 DEF WriterStep

\* Only a run that is filling, publishing or discarding its staging key has one.
StagingInUse ==
    \A s \in Syncers :
        /\ ~expired[s]
        /\ staged[s] # {} => /\ s \in Replacing
                             /\ phase[s] \in {"reading", "publishing", "discarding"}

LEMMA StagingStep ==
    ASSUME SyncTypeOK, StagingInUse, WriterStep,
           Faults \cap {"redis", "timeout", "crash"} = {}
    PROVE  StagingInUse'
<1>1. ASSUME NEW s \in Syncers, SyncStep(s)
      PROVE  /\ ~expired'[s]
             /\ staged'[s] # {} => /\ s \in Replacing
                                   /\ phase'[s] \in {"reading", "publishing", "discarding"}
  <2> USE DEF StagingInUse, SyncTypeOK, Phases, Goto, Return, readerVars, runVars
  <2>1. ~Rejected(s)
    BY DEF Rejected
  <2>2. CASE Open(s) \/ OpenFails(s)
    BY <2>2 DEF Open, OpenFails
  <2>3. CASE FlushBatch(s) \/ FlushFails(s)
    BY <2>1, <2>3 DEF FlushBatch, FlushFails, AddToTarget
  <2>4. CASE EndOfSource(s) \/ SourceError(s)
    BY <2>4 DEF EndOfSource, SourceError
  <2>5. CASE Publish(s) \/ PublishFails(s)
    BY <2>1, <2>5 DEF Publish, PublishFails
  <2>6. CASE Announce(s) \/ AnnounceFails(s) \/ RecordSuccess(s) \/ RecordSuccessFails(s)
    BY <2>6 DEF Announce, AnnounceFails, RecordSuccess, RecordSuccessFails
  <2>7. CASE Discard(s) \/ Fail(s)
    BY <2>1, <2>7 DEF Discard, Fail
  <2>8. ~Expire(s) /\ ~Crash(s)
    BY DEF Expire, Crash
  <2>9. QED
    BY <1>1, <2>2, <2>3, <2>4, <2>5, <2>6, <2>7, <2>8 DEF SyncStep, Progress
<1>2. ASSUME NEW s \in Syncers, SyncStep(s) PROVE StagingInUse'
  BY <1>1, <1>2, OtherRuns DEF StagingInUse
<1>3. CASE RunsUntouched
  BY <1>3 DEF RunsUntouched, runVars, StagingInUse
<1>4. QED  BY <1>2, <1>3 DEF WriterStep

LEMMA RestInit == SyncInit => OkRecorded /\ EndRecorded /\ StagingInUse
BY DEF SyncInit, OkRecorded, EndRecorded, StagingInUse

\* Whatever fails, a run that returned nil has had its success stored: the status of
\* its source is "ok" until another run of it ends.
THEOREM OkIsRecorded == SyncSpec => []OkRecorded
<1>1. SyncTypeOK /\ OkRecorded /\ [SyncNext]_syncVars => OkRecorded'
  BY OkRecordedStep, WriterSteps
<1>2. QED
  BY <1>1, RestInit, SyncTypeCorrect, PTL DEF SyncSpec

\* While no deadline passes and Redis answers, though its replies may be lost, the
\* stored status of a source tells how its last run ended.
THEOREM StatusIsTold ==
    ASSUME Faults \cap {"redis", "timeout"} = {}
    PROVE  SyncSpec => []StatusTellsOutcome
<1>1. SyncTypeOK /\ EndRecorded /\ [SyncNext]_syncVars => EndRecorded'
  BY EndRecordedStep, WriterSteps
<1>2. EndRecorded => StatusTellsOutcome
  BY DEF EndRecorded, StatusTellsOutcome
<1>3. QED
  BY <1>1, <1>2, RestInit, SyncTypeCorrect, PTL DEF SyncSpec

\* Unless a process dies, a deadline passes or Redis rejects its DEL, a run leaves
\* no staging key behind, however its source or its parser fails.
THEOREM StagingIsDiscarded ==
    ASSUME Faults \cap {"redis", "timeout", "crash"} = {}
    PROVE  SyncSpec => []NoOrphanStaging
<1>1. SyncTypeOK /\ StagingInUse /\ [SyncNext]_syncVars => StagingInUse'
  BY StagingStep, WriterSteps
<1>2. StagingInUse => NoOrphanStaging
  BY DEF StagingInUse, NoOrphanStaging
<1>3. QED
  BY <1>1, <1>2, RestInit, SyncTypeCorrect, PTL DEF SyncSpec

-----------------------------------------------------------------------------
(* Runs read their whole source, and Replace runs publish it as one snapshot *)

WholeSource(s) ==
    /\ phase[s] = "idle" => seen[s] = {}
    /\ phase[s] = "reading" =>
         /\ seen[s] \subseteq source[s] /\ source[s] \subseteq listed[s]
         /\ ParsesToEnd(s) => source[s] = listed[s]
    /\ phase[s] \in {"publishing", "announcing", "recording"} => seen[s] = listed[s]

\* A run in Replace mode has staged what it has flushed, until it publishes.
WholeStaging(s) ==
    s \in Replacing /\ phase[s] \in {"reading", "publishing"} => staged[s] = seen[s]

SourcesOK == \A s \in Syncers : WholeSource(s) /\ WholeStaging(s)

LEMMA OwnRun ==
    ASSUME SyncTypeOK, NEW s \in Syncers, WholeSource(s), WholeStaging(s), SyncStep(s),
           "oversize" \notin Faults \/ CsvSources = {}
    PROVE  WholeSource(s)' /\ WholeStaging(s)'
<1> USE DEF SyncTypeOK, Goto, readerVars, runVars, WholeSource, WholeStaging, ParsesToEnd
<1>1. CASE Open(s)
  <2>1. PICK L \in SUBSET Names, how \in {"eof", "broken", "oversize"} :
          /\ listed' = [listed EXCEPT ![s] = L]
          /\ ending' = [ending EXCEPT ![s] = how]
          /\ \E D \in SUBSET L : /\ source' = [source EXCEPT ![s] = D]
                                 /\ how = "eof" => D = L
                                 /\ how = "oversize" => "oversize" \in Faults
    BY <1>1 DEF Open
  <2>2. s \in CsvSources => "oversize" \notin Faults  OBVIOUS
  <2>3. seen'[s] = {} /\ staged'[s] = {} /\ phase'[s] = "reading"
    BY <1>1 DEF Open
  <2>4. QED  BY <2>1, <2>2, <2>3
<1>2. CASE FlushBatch(s)
  <2>1. PICK B \in Batches(s) : AddToTarget(s, B) /\ seen' = [seen EXCEPT ![s] = @ \cup B]
    BY <1>2 DEF FlushBatch
  <2>2. s \in Replacing => staged' = [staged EXCEPT ![s] = @ \cup B]
    BY <2>1 DEF AddToTarget
  <2>3. B \subseteq source[s]  BY DEF Batches, Unread
  <2>4. phase[s] = "reading"  BY <1>2 DEF FlushBatch
  <2>5. QED  BY <1>2, <2>1, <2>2, <2>3, <2>4 DEF FlushBatch
<1>3. CASE EndOfSource(s)
  <2>1. seen[s] = source[s] /\ source[s] = listed[s]
    BY <1>3 DEF EndOfSource, Unread
  <2>2. QED  BY <1>3, <2>1 DEF EndOfSource
<1>4. CASE Publish(s) \/ Announce(s)
  BY <1>4 DEF Publish, Announce
<1>5. CASE \/ OpenFails(s) \/ FlushFails(s) \/ SourceError(s) \/ PublishFails(s)
           \/ AnnounceFails(s) \/ RecordSuccess(s) \/ RecordSuccessFails(s)
           \/ Discard(s) \/ Fail(s) \/ Crash(s)
  <2>1. \/ phase'[s] \in {"discarding", "failing"}
        \/ phase'[s] = "idle" /\ seen'[s] = {}
    BY <1>5 DEF Return, OpenFails, FlushFails, SourceError, PublishFails,
       AnnounceFails, RecordSuccess, RecordSuccessFails, Discard, Fail, Crash
  <2>2. QED  BY <2>1
<1>6. CASE Expire(s)
  <2>1. /\ phase'[s] = phase[s] /\ listed'[s] = listed[s] /\ seen'[s] = seen[s]
        /\ staged'[s] = staged[s]
    BY <1>6 DEF Expire
  <2>2. \/ source'[s] = source[s] /\ ending'[s] = ending[s]
        \/ /\ ending'[s] = "broken"
           /\ \E D \in SUBSET Unread(s) : source'[s] = seen[s] \cup D
    BY <1>6 DEF Expire
  <2>3. QED  BY <2>1, <2>2 DEF Unread
<1>7. QED
  BY <1>1, <1>2, <1>3, <1>4, <1>5, <1>6 DEF SyncStep, Progress

LEMMA SourcesStep ==
    ASSUME SyncTypeOK, SourcesOK, WriterStep, "oversize" \notin Faults \/ CsvSources = {}
    PROVE  SourcesOK'
<1>1. ASSUME NEW s \in Syncers, SyncStep(s) PROVE SourcesOK'
  <2>1. ASSUME NEW t \in Syncers, t # s PROVE WholeSource(t)' /\ WholeStaging(t)'
    BY <1>1, <2>1, OtherRuns DEF SourcesOK, WholeSource, WholeStaging, ParsesToEnd
  <2>2. QED  BY <1>1, <2>1, OwnRun DEF SourcesOK
<1>2. CASE RunsUntouched
  BY <1>2 DEF RunsUntouched, readerVars, runVars, SourcesOK, WholeSource, WholeStaging,
     ParsesToEnd
<1>3. QED  BY <1>1, <1>2 DEF WriterStep

LEMMA SourcesInit == SyncInit => SourcesOK
BY DEF SyncInit, SourcesOK, WholeSource, WholeStaging

\* Where the parser reports an oversized source, that is unless it is a CSV, no run
\* succeeds with less than its whole source, whatever fails.
THEOREM WholeSourceOnSuccess ==
    ASSUME "oversize" \notin Faults \/ CsvSources = {}
    PROVE  SyncSpec => []OkMeansWholeSource
<1>1. SyncTypeOK /\ SourcesOK /\ [SyncNext]_syncVars => SourcesOK'
  BY SourcesStep, WriterSteps
<1>2. SourcesOK => OkMeansWholeSource
  BY DEF SourcesOK, WholeSource, OkMeansWholeSource
<1>3. QED
  BY <1>1, <1>2, SourcesInit, SyncTypeCorrect, PTL DEF SyncSpec

-----------------------------------------------------------------------------
(* Runs come nearer to their end with every step they take *)

\* The commands a run that is in phase p may still take, besides its batches.
StepsFrom(p) == CASE p \in {"failing"} -> 1
                  [] p \in {"discarding", "recording"} -> 2
                  [] p \in {"announcing"} -> 3
                  [] p \in {"publishing"} -> 4
                  [] p \in {"reading"} -> 5
                  [] OTHER -> 0

\* While it reads, each name it has not parsed may take a batch of its own.
StepsLeft(s) ==
    StepsFrom(phase[s]) + (IF phase[s] = "reading" THEN Cardinality(Unread(s)) ELSE 0)

\* No step sends a run that has begun back, and its own bring it on.
RunsGetOn ==
    \A s \in Syncers :
        phase[s] # "idle" => IF Progress(s) THEN StepsLeft(s)' < StepsLeft(s)
                                            ELSE StepsLeft(s)' <= StepsLeft(s)

\* Of a finite set of names some are left out.
LEMMA FewerNames ==
    ASSUME NEW S \in SUBSET Names, NEW R \in SUBSET S
    PROVE  /\ Cardinality(S) \in Nat /\ Cardinality(R) \in Nat
           /\ Cardinality(R) <= Cardinality(S)
           /\ R # S => Cardinality(R) < Cardinality(S)
<1>1. IsFiniteSet(S)
  BY SyncAssumption, FS_Subset
<1>2. IsFiniteSet(R) /\ Cardinality(R) <= Cardinality(S)
      /\ (Cardinality(R) = Cardinality(S) => R = S)
  BY <1>1, FS_Subset
<1>3. Cardinality(S) \in Nat /\ Cardinality(R) \in Nat
  BY <1>1, <1>2, FS_CardinalityType
<1>4. QED  BY <1>2, <1>3

LEMMA UnreadNames ==
    ASSUME SyncTypeOK, NEW s \in Syncers
    PROVE  Unread(s) \in SUBSET Names /\ Cardinality(Unread(s)) \in Nat
<1>1. Unread(s) \in SUBSET Names
  BY DEF SyncTypeOK, Unread
<1>2. QED  BY <1>1, FewerNames

\* A run that leaves its reading has at most four commands to go.
LEMMA LeavingReads ==
    ASSUME SyncTypeOK, NEW s \in Syncers, phase[s] = "reading",
           phase'[s] \in {"discarding", "publishing", "announcing"}
    PROVE  StepsLeft(s)' < StepsLeft(s)
<1>1. StepsLeft(s)' <= 4
  BY DEF StepsLeft, StepsFrom
<1>2. StepsLeft(s) >= 5
  BY UnreadNames DEF StepsLeft, StepsFrom
<1>3. StepsLeft(s) \in Nat /\ StepsLeft(s)' \in Nat
  BY UnreadNames DEF StepsLeft, StepsFrom
<1>4. QED  BY <1>1, <1>2, <1>3

\* A batch that has been flushed is not read again.
LEMMA FlushReads ==
    ASSUME SyncTypeOK, NEW s \in Syncers, FlushBatch(s)
    PROVE  StepsLeft(s)' < StepsLeft(s)
<1>1. PICK B \in Batches(s) : seen' = [seen EXCEPT ![s] = @ \cup B]
  BY DEF FlushBatch
<1>2. B \subseteq Unread(s) /\ B # {}
  BY DEF Batches
<1>3. /\ phase'[s] = "reading" /\ phase[s] = "reading"
      /\ source'[s] = source[s] /\ seen'[s] = seen[s] \cup B
  BY <1>1 DEF FlushBatch, SyncTypeOK, readerVars
<1>4. Unread(s)' \in SUBSET Unread(s) /\ Unread(s)' # Unread(s)
  BY <1>2, <1>3 DEF Unread
<1>5. Unread(s) \in SUBSET Names
  BY UnreadNames
<1>6. /\ Cardinality(Unread(s)) \in Nat /\ Cardinality(Unread(s)') \in Nat
      /\ Cardinality(Unread(s)') < Cardinality(Unread(s))
  <2> DEFINE S == Unread(s)  R == Unread(s)'
  <2>1. S \in SUBSET Names /\ R \in SUBSET S /\ R # S
    BY <1>4, <1>5
  <2> HIDE DEF S, R
  <2>2. Cardinality(S) \in Nat /\ Cardinality(R) \in Nat /\ Cardinality(R) < Cardinality(S)
    BY <2>1, FewerNames
  <2>3. QED  BY <2>2 DEF S, R
<1>7. QED  BY <1>3, <1>6 DEF StepsLeft, StepsFrom

\* What a run does itself brings it nearer to its end.
LEMMA OwnStepsShorten ==
    ASSUME SyncTypeOK, NEW s \in Syncers, Progress(s)
    PROVE  StepsLeft(s)' < StepsLeft(s)
<1> USE DEF SyncTypeOK, Goto, Return
<1>1. CASE FlushBatch(s)
  BY <1>1, FlushReads
<1>2. CASE FlushFails(s) \/ EndOfSource(s) \/ SourceError(s)
  <2>1. phase[s] = "reading" /\ phase'[s] \in {"discarding", "publishing", "announcing"}
    BY <1>2 DEF FlushFails, EndOfSource, SourceError
  <2>2. QED  BY <2>1, LeavingReads
<1>3. CASE Publish(s) \/ PublishFails(s)
  BY <1>3 DEF Publish, PublishFails, StepsLeft, StepsFrom
<1>4. CASE Announce(s) \/ AnnounceFails(s)
  BY <1>4 DEF Announce, AnnounceFails, StepsLeft, StepsFrom
<1>5. CASE RecordSuccess(s) \/ RecordSuccessFails(s)
  BY <1>5 DEF RecordSuccess, RecordSuccessFails, StepsLeft, StepsFrom
<1>6. CASE Discard(s) \/ Fail(s)
  BY <1>6 DEF Discard, Fail, StepsLeft, StepsFrom
<1>7. QED  BY <1>1, <1>2, <1>3, <1>4, <1>5, <1>6 DEF Progress

\* What may happen to a run does not take it back.
LEMMA OtherStepsKeep ==
    ASSUME SyncTypeOK, NEW s \in Syncers, phase[s] # "idle",
           \/ Open(s) \/ OpenFails(s) \/ Expire(s) \/ Crash(s)
           \/ UNCHANGED <<phase, source, seen>>
    PROVE  StepsLeft(s)' <= StepsLeft(s)
<1>0. StepsLeft(s) \in Nat
  BY UnreadNames DEF StepsLeft, StepsFrom
<1>1. ~Open(s) /\ ~OpenFails(s)
  BY DEF Open, OpenFails
<1>2. CASE UNCHANGED <<phase, source, seen>>
  BY <1>0, <1>2 DEF StepsLeft, Unread
<1>3. CASE Crash(s)
  <2>1. StepsLeft(s)' = 0
    BY <1>3 DEF Crash, Return, Goto, SyncTypeOK, StepsLeft, StepsFrom
  <2>2. QED  BY <1>0, <2>1
<1>4. CASE Expire(s)
  <2>1. phase'[s] = phase[s] /\ seen'[s] = seen[s]
    BY <1>4 DEF Expire, runVars
  <2>2. Unread(s)' \in SUBSET Unread(s)
    <3>1. \/ source'[s] = source[s]
          \/ \E D \in SUBSET Unread(s) : source'[s] = seen[s] \cup D
      BY <1>4 DEF Expire, SyncTypeOK
    <3>2. QED  BY <2>1, <3>1 DEF Unread
  <2>3. /\ Cardinality(Unread(s)) \in Nat /\ Cardinality(Unread(s)') \in Nat
        /\ Cardinality(Unread(s)') <= Cardinality(Unread(s))
    <3> DEFINE S == Unread(s)  R == Unread(s)'
    <3>1. S \in SUBSET Names /\ R \in SUBSET S
      BY <2>2, UnreadNames
    <3> HIDE DEF S, R
    <3>2. Cardinality(S) \in Nat /\ Cardinality(R) \in Nat /\ Cardinality(R) <= Cardinality(S)
      BY <3>1, FewerNames
    <3>3. QED  BY <3>2 DEF S, R
  <2>4. QED  BY <2>1, <2>3 DEF StepsLeft, StepsFrom
<1>5. QED  BY <1>1, <1>2, <1>3, <1>4

LEMMA RunsGetOnStep ==
    ASSUME SyncTypeOK, WriterStep
    PROVE  RunsGetOn
<1> SUFFICES ASSUME NEW s \in Syncers, phase[s] # "idle"
             PROVE  IF Progress(s) THEN StepsLeft(s)' < StepsLeft(s)
                                   ELSE StepsLeft(s)' <= StepsLeft(s)
  BY DEF RunsGetOn
<1>1. ASSUME Progress(s) PROVE StepsLeft(s)' < StepsLeft(s)
  BY <1>1, OwnStepsShorten
<1>2. ASSUME ~Progress(s) PROVE StepsLeft(s)' <= StepsLeft(s)
  <2>1. CASE SyncStep(s)
    BY <1>2, <2>1, OtherStepsKeep DEF SyncStep
  <2>2. ASSUME NEW t \in Syncers, t # s, SyncStep(t) PROVE StepsLeft(s)' <= StepsLeft(s)
    <3>1. phase'[s] = phase[s] /\ source'[s] = source[s] /\ seen'[s] = seen[s]
      BY <2>2, OtherRuns
    <3>2. StepsLeft(s)' = StepsLeft(s)
      BY <3>1 DEF StepsLeft, Unread
    <3>3. StepsLeft(s) \in Nat
      BY UnreadNames DEF StepsLeft, StepsFrom
    <3>4. QED  BY <3>2, <3>3
  <2>3. CASE RunsUntouched
    <3>1. UNCHANGED <<phase, source, seen>>
      BY <2>3 DEF RunsUntouched, readerVars, runVars
    <3>2. QED  BY <3>1, OtherStepsKeep
  <2>4. QED  BY <2>1, <2>2, <2>3 DEF WriterStep
<1>3. QED  BY <1>1, <1>2

\* Whatever fails, each command of feed.Sync leaves fewer to go, and neither the
\* environment nor another writer adds to them: what keeps a run from its end can only
\* be a state in which it has no step to take (csv_timeout shows the one there is).
THEOREM RunsComeToTheirEnd == SyncSpec => [][RunsGetOn]_syncVars
<1>1. SyncTypeOK /\ [SyncNext]_syncVars => RunsGetOn
  BY RunsGetOnStep, WriterSteps
<1>2. QED
  BY <1>1, SyncTypeCorrect, PTL DEF SyncSpec

-----------------------------------------------------------------------------
(* Replace runs implement FeedPublication *)

StageOf(p) == CASE p \in {"reading", "publishing"} -> "loading"
                [] p = "announcing" -> "published"
                [] p = "recording" -> "announced"
                [] p \in {"discarding", "failing"} -> "failed"
                [] OTHER -> "idle"

stages == [s \in Syncers |-> StageOf(phase[s])]

LEMMA StageMoves ==
    ASSUME SyncTypeOK, NEW s \in Syncers, NEW p \in Phases, Goto(s, p)
    PROVE  stages' = [stages EXCEPT ![s] = StageOf(p)]
BY DEF SyncTypeOK, Goto, stages

LEMMA StageStays ==
    ASSUME SyncTypeOK, NEW s \in Syncers, NEW p \in Phases, Goto(s, p),
           StageOf(p) = StageOf(phase[s])
    PROVE  stages' = stages
BY DEF SyncTypeOK, Goto, stages

LEMMA EnterMap ==
    ASSUME NEW s \in Syncers, NEW from, NEW to
    PROVE  Publication!Enter(s, from, to)
             <=> stages[s] \in from /\ stages' = [stages EXCEPT ![s] = to]
BY DEF Publication!Enter, stages, StageOf

\* A move of one run's control state, seen from FeedPublication.
LEMMA Entered ==
    ASSUME SyncTypeOK, NEW s \in Syncers, NEW p \in Phases, Goto(s, p), NEW from,
           StageOf(phase[s]) \in from
    PROVE  Publication!Enter(s, from, StageOf(p))
<1>1. stages[s] \in from  BY DEF stages
<1>2. QED  BY <1>1, StageMoves, EnterMap

LEMMA StutterMap ==
    ASSUME stages' = stages, UNCHANGED <<feed, revision, listed>>
    PROVE  UNCHANGED Publication!pubVars
BY DEF Publication!pubVars, stages, StageOf

LEMMA ReturnMap ==
    ASSUME SyncTypeOK, NEW s \in Syncers, NEW how, Return(s, how),
           StageOf(phase[s]) \in {"announced", "failed"}, UNCHANGED redisVars
    PROVE  Publication!End(s)
<1>1. Publication!Enter(s, {"announced", "failed"}, StageOf("idle"))
  BY Entered DEF Return, Phases
<1>2. QED
  BY <1>1 DEF Return, redisVars, StageOf, Publication!End

LEMMA FailMap ==
    ASSUME SyncTypeOK, NEW s \in Syncers, NEW p \in {"discarding", "failing"},
           Goto(s, p), UNCHANGED <<redisVars, listed>>,
           phase[s] \in {"idle", "reading", "publishing", "announcing", "recording"}
    PROVE  Publication!End(s)
<1>1. p \in Phases /\ StageOf(p) = "failed"  BY DEF Phases, StageOf
<1>2. StageOf(phase[s]) \in {"idle", "loading", "published", "announced"}
  BY DEF StageOf
<1>3. Publication!Enter(s, {"idle", "loading", "published", "announced"}, "failed")
  BY <1>1, <1>2, Entered
<1>4. QED  BY <1>3 DEF redisVars, Publication!End

LEMMA PublicationStep ==
    ASSUME SyncTypeOK, SourcesOK, [SyncNext]_syncVars, Replacing = Syncers,
           "oversize" \notin Faults \/ CsvSources = {}
    PROVE  [Publication!Next]_(Publication!pubVars)
<1> USE DEF redisVars, readerVars, runVars
<1> DEFINE Step == Publication!Next \/ UNCHANGED Publication!pubVars
<1>1. ASSUME NEW s \in Syncers, Open(s) PROVE Step
  <2>1. Publication!Enter(s, {"idle"}, StageOf("reading"))
    BY <1>1, Entered DEF Open, Phases, StageOf
  <2>2. \E S \in SUBSET Names : listed' = [listed EXCEPT ![s] = S]
    BY <1>1 DEF Open
  <2>3. Publication!Begin(s)
    BY <1>1, <2>1, <2>2 DEF Open, StageOf, Publication!Begin
  <2>4. QED  BY <2>3 DEF Publication!Next
<1>2. ASSUME NEW s \in Syncers, OpenFails(s) PROVE Step
  BY <1>2, FailMap DEF OpenFails, Publication!Next
<1>3. ASSUME NEW s \in Syncers, FlushBatch(s) \/ Expire(s) PROVE Step
  <2>1. UNCHANGED <<redisVars, listed, phase>>
    BY <1>3 DEF FlushBatch, Expire, AddToTarget
  <2>2. stages' = stages  BY <2>1 DEF stages
  <2>3. QED  BY <2>1, <2>2, StutterMap
<1>4. ASSUME NEW s \in Syncers, FlushFails(s) \/ SourceError(s) PROVE Step
  <2>1. UNCHANGED <<redisVars, listed>>
    BY <1>4 DEF FlushFails, SourceError, AddToTarget
  <2>2. QED
    BY <1>4, <2>1, FailMap DEF FlushFails, SourceError, Publication!Next
<1>5. ASSUME NEW s \in Syncers, EndOfSource(s) PROVE Step
  <2>1. Goto(s, "publishing") /\ phase[s] = "reading"
    BY <1>5 DEF EndOfSource
  <2>2. stages' = stages
    BY <2>1, StageStays DEF Phases, StageOf
  <2>3. QED  BY <1>5, <2>2, StutterMap DEF EndOfSource
<1>6. ASSUME NEW s \in Syncers, Publish(s) \/ PublishFails(s), FeedBecomes(staged[s])
      PROVE  Step
  <2>1. staged[s] = listed[s]
    BY <1>6 DEF Publish, PublishFails, SourcesOK, WholeSource, WholeStaging
  <2>2. phase[s] = "publishing" /\ (Goto(s, "announcing") \/ Goto(s, "discarding"))
    BY <1>6 DEF Publish, PublishFails
  <2>3. \E to \in {"published", "failed"} : Publication!Enter(s, {"loading"}, to)
    <3>1. CASE Goto(s, "announcing")
      BY <2>2, <3>1, Entered DEF Phases, StageOf
    <3>2. CASE Goto(s, "discarding")
      BY <2>2, <3>2, Entered DEF Phases, StageOf
    <3>3. QED  BY <2>2, <3>1, <3>2
  <2>4. feed' = listed[s] /\ UNCHANGED <<revision, listed>>
    BY <1>6, <2>1 DEF FeedBecomes, Publish, PublishFails
  <2>5. QED  BY <2>3, <2>4 DEF Publication!Publish, Publication!Next
<1>7. ASSUME NEW s \in Syncers, PublishFails(s), UNCHANGED <<redisVars, staged>>
      PROVE  Step
  BY <1>7, FailMap DEF PublishFails, Publication!Next
<1>8. ASSUME NEW s \in Syncers, Announce(s) \/ AnnounceFails(s),
             NEW k \in {1, 2}, Bump(k)
      PROVE  Step
  <2>1. phase[s] = "announcing" /\ (Goto(s, "recording") \/ Goto(s, "failing"))
    BY <1>8 DEF Announce, AnnounceFails
  <2>2. \E to \in {"announced", "failed"} : Publication!Enter(s, {"published"}, to)
    <3>1. CASE Goto(s, "recording")
      BY <2>1, <3>1, Entered DEF Phases, StageOf
    <3>2. CASE Goto(s, "failing")
      BY <2>1, <3>2, Entered DEF Phases, StageOf
    <3>3. QED  BY <2>1, <3>1, <3>2
  <2>3. revision' \in {revision + 1, revision + 2} /\ UNCHANGED <<feed, listed>>
    BY <1>8 DEF Bump, Announce, AnnounceFails
  <2>4. QED  BY <2>2, <2>3 DEF Publication!Announce, Publication!Next
<1>9. ASSUME NEW s \in Syncers, AnnounceFails(s), UNCHANGED redisVars PROVE Step
  BY <1>9, FailMap DEF AnnounceFails, Publication!Next
<1>10. ASSUME NEW s \in Syncers, Announce(s), UNCHANGED redisVars PROVE Step
  <2>1. MustInvalidate(s)  BY DEF MustInvalidate
  <2>2. \E k \in {1, 2} : Bump(k)  BY <1>10, <2>1 DEF Announce
  <2>3. QED  BY <1>8, <1>10, <2>2
<1>11. ASSUME NEW s \in Syncers, RecordSuccess(s) \/ Fail(s) PROVE Step
  <2>1. Publication!End(s)
    BY <1>11, ReturnMap DEF RecordSuccess, Fail, StageOf
  <2>2. QED  BY <2>1 DEF Publication!Next
<1>12. ASSUME NEW s \in Syncers, RecordSuccessFails(s) PROVE Step
  BY <1>12, FailMap DEF RecordSuccessFails, Publication!Next
<1>13. ASSUME NEW s \in Syncers, Discard(s) PROVE Step
  <2>1. stages' = stages
    BY <1>13, StageStays DEF Discard, Phases, StageOf
  <2>2. QED  BY <1>13, <2>1, StutterMap DEF Discard
<1>14. ASSUME NEW s \in Syncers, Crash(s) PROVE Step
  <2>1. StageOf(phase[s]) \in {"loading", "published", "announced", "failed"}
    BY <1>14 DEF SyncTypeOK, Phases, Crash, StageOf
  <2>2. Publication!Enter(s, {"loading", "published", "announced", "failed"},
                          StageOf("idle"))
    BY <1>14, <2>1, Entered DEF Crash, Return, Phases
  <2>3. Publication!Die(s)
    BY <1>14, <2>2 DEF Crash, Return, StageOf, Publication!Die
  <2>4. QED  BY <2>3 DEF Publication!Next
<1>15. CASE UNCHANGED syncVars
  <2>1. stages' = stages  BY <1>15 DEF syncVars, stages
  <2>2. QED  BY <1>15, <2>1, StutterMap DEF syncVars
<1>16. ASSUME EvictFeed \/ EvictRevision PROVE Step
  <2>1. UNCHANGED <<phase, listed>>
    BY <1>16 DEF EvictFeed, EvictRevision
  <2>2. UNCHANGED stages
    BY <2>1 DEF stages
  <2>3. CASE EvictFeed
    <3>1. feed' = {} /\ UNCHANGED revision
      BY <2>3 DEF EvictFeed, FeedBecomes
    <3>2. Publication!LoseFeed
      BY <2>1, <2>2, <3>1 DEF Publication!LoseFeed, stages, StageOf
    <3>3. QED  BY <3>2 DEF Publication!Next
  <2>4. CASE EvictRevision
    <3>1. Publication!LoseRevision
      BY <2>1, <2>2, <2>4 DEF EvictRevision, Publication!LoseRevision, stages, StageOf
    <3>2. QED  BY <3>1 DEF Publication!Next
  <2>5. QED  BY <1>16, <2>3, <2>4
<1>17. ASSUME NEW s \in Syncers, Publish(s) \/ PublishFails(s) PROVE Step
  BY <1>6, <1>7, <1>17 DEF Publish, PublishFails
<1>18. ASSUME NEW s \in Syncers, Announce(s) \/ AnnounceFails(s) PROVE Step
  BY <1>8, <1>9, <1>10, <1>18 DEF Announce, AnnounceFails
<1>19. Step
  BY <1>1, <1>2, <1>3, <1>4, <1>5, <1>11, <1>12, <1>13, <1>14, <1>15, <1>16,
     <1>17, <1>18 DEF SyncNext, Progress
<1>20. QED  BY <1>19

\* In Replace mode, what readers may observe of any number of concurrent syncs is what
\* FeedPublication allows: whole snapshots only, each at most once, a bump only for
\* a snapshot that is out, and no key where Redis has evicted it.
THEOREM ReplaceImplementsPublication ==
    ASSUME Replacing = Syncers, "oversize" \notin Faults \/ CsvSources = {}
    PROVE  SyncSpec => PublicationSpec
<1>1. SyncInit => Publication!Init
  BY DEF SyncInit, Publication!Init
<1>2. SyncTypeOK /\ SourcesOK /\ [SyncNext]_syncVars => SourcesOK'
  BY SourcesStep, WriterSteps
<1>3. SyncTypeOK /\ SourcesOK /\ [SyncNext]_syncVars
        => [Publication!Next]_(Publication!pubVars)
  BY PublicationStep
<1>4. QED
  BY <1>1, <1>2, <1>3, SourcesInit, SyncTypeCorrect, PTL
  DEF SyncSpec, PublicationSpec, Publication!Spec
-----------------------------------------------------------------------------
(* The analysis: the inductive invariant *)

\* A lookup made under revision k may fail to find n: n is not announced by k.
Missable(n, k) == announced[n] = 0 \/ announced[n] > k

AllMissable(d, k) == \A n \in Matching(d) : Missable(n, k)

\* A verdict v reached under revision k is strict enough for domain d.
Covers(d, k, v) == v = "MALICIOUS" \/ AllMissable(d, k)

\* The entry of d is filed under a revision that was reached, and covers d there.
EntryOK(d) ==
    /\ cache[d].rev <= revision
    /\ cache[d] # NoEntry => Covers(d, cache[d].rev, cache[d].verdict)

\* The candidates r has looked up in vain were missable at the revision it has
\* read, and the verdict it arrives at covers its domain at that revision.
RequestOK(r) ==
    /\ rev[r] <= revision /\ started[r] <= revision
    /\ pc[r] = "feed" =>
         /\ probe[r] \in 1..Len(Candidates[domain[r]])
         /\ \A i \in 1..(probe[r] - 1) : Missable(Candidates[domain[r]][i], rev[r])
    /\ pc[r] = "assess" => AllMissable(domain[r], rev[r])
    /\ pc[r] \in {"osint", "store", "done"} => Covers(domain[r], rev[r], verdict[r])

CacheInv ==
    /\ TypeOK
    /\ AnnouncedOK
    /\ \A d \in Domains : EntryOK(d)
    /\ \A r \in Requests : RequestOK(r)

-----------------------------------------------------------------------------
(* Typing *)

LEMMA MatchingNames ==
    ASSUME NEW d \in Domains
    PROVE  /\ Matching(d) \subseteq Names
           /\ Len(Candidates[d]) \in Nat
           /\ \A i \in 1..Len(Candidates[d]) : Candidates[d][i] \in Names
<1>1. Candidates[d] \in Seq(Names)  BY RiskAssumption
<1>2. QED  BY <1>1 DEF Matching

LEMMA TypeInit == Init => TypeOK
<1> SUFFICES ASSUME Init PROVE TypeOK
  OBVIOUS
<1>1. SyncTypeOK  BY SyncTypeInit DEF Init
<1>2. (CHOOSE d \in Domains : TRUE) \in Domains  BY RiskAssumption
<1>3. RiskTypeOK
  BY <1>2 DEF Init, RiskTypeOK, RequestStates, Verdicts, NoEntry
<1>4. QED  BY <1>1, <1>3 DEF TypeOK

LEMMA CandidateTyped ==
    ASSUME RiskTypeOK, NEW r \in Requests
    PROVE  /\ domain[r] \in Domains
           /\ cache[domain[r]] \in Entry \cup {NoEntry}
           /\ rev[r] \in Nat
           /\ verdict[r] \in Verdicts
BY DEF RiskTypeOK

LEMMA PutTyped ==
    ASSUME RiskTypeOK, NEW r \in Requests, NEW v \in Verdicts, Put(r, v)
    PROVE  cache' \in [Domains -> Entry \cup {NoEntry}]
<1>1. [verdict |-> v, rev |-> rev[r]] \in Entry  BY CandidateTyped DEF Entry
<1>2. QED  BY <1>1, CandidateTyped DEF RiskTypeOK, Put

LEMMA SyncVarsKept ==
    ASSUME SyncTypeOK, UNCHANGED syncVars
    PROVE  SyncTypeOK'
BY DEF SyncTypeOK, syncVars

LEMMA TypeStep == TypeOK /\ [Next]_vars => TypeOK'
<1> SUFFICES ASSUME TypeOK, [Next]_vars PROVE TypeOK'
  OBVIOUS
<1> USE DEF TypeOK, requestVars, RequestStates, Move
<1>1. CASE SyncNext /\ UNCHANGED riskVars
  BY <1>1, SyncTypeStep DEF riskVars, RiskTypeOK
<1>2. ASSUME NEW r \in Requests, Begin(r) PROVE TypeOK'
  <2>1. revision \in Nat  BY DEF SyncTypeOK
  <2>2. QED  BY <1>2, <2>1, SyncVarsKept DEF RiskTypeOK, Begin
<1>3. ASSUME NEW r \in Requests, ReadRevision(r) PROVE TypeOK'
  <2>1. revision \in Nat  BY DEF SyncTypeOK
  <2>2. QED  BY <1>3, <2>1, SyncVarsKept DEF RiskTypeOK, ReadRevision
<1>4. ASSUME NEW r \in Requests, CacheHit(r) PROVE TypeOK'
  <2>1. cache[domain[r]].verdict \in Verdicts
    BY <1>4, CandidateTyped DEF CacheHit, Accepts, Entry
  <2>2. QED  BY <1>4, <2>1, SyncVarsKept DEF RiskTypeOK, CacheHit
<1>5. ASSUME NEW r \in Requests, CacheMiss(r) PROVE TypeOK'
  BY <1>5, SyncVarsKept DEF RiskTypeOK, CacheMiss
<1>6. ASSUME NEW r \in Requests, ProbeFeed(r) PROVE TypeOK'
  <2>1. "MALICIOUS" \in Verdicts  BY DEF Verdicts
  <2>2. \/ verdict' = [verdict EXCEPT ![r] = "MALICIOUS"] /\ UNCHANGED probe
        \/ probe' = [probe EXCEPT ![r] = @ + 1] /\ UNCHANGED verdict
        \/ UNCHANGED <<probe, verdict>>
    BY <1>6 DEF ProbeFeed
  <2>3. probe' \in [Requests -> Nat] /\ verdict' \in [Requests -> Verdicts]
    BY <2>1, <2>2 DEF RiskTypeOK
  <2>4. UNCHANGED pc \/ Move(r, "osint") \/ Move(r, "assess")
    BY <1>6 DEF ProbeFeed
  <2>5. pc' \in [Requests -> RequestStates]
    BY <2>4 DEF RiskTypeOK
  <2>6. QED  BY <1>6, <2>3, <2>5, SyncVarsKept DEF RiskTypeOK, ProbeFeed
<1>7. ASSUME NEW r \in Requests, ProbeFails(r) PROVE TypeOK'
  BY <1>7, SyncVarsKept DEF RiskTypeOK, ProbeFails
<1>8. ASSUME NEW r \in Requests, Assess(r) PROVE TypeOK'
  <2>1. Assessments[domain[r]] \subseteq Verdicts
    BY CandidateTyped, RiskAssumption
  <2>2. QED  BY <1>8, <2>1, SyncVarsKept DEF RiskTypeOK, Assess
<1>9. ASSUME NEW r \in Requests, NoWarning(r) PROVE TypeOK'
  BY <1>9, SyncVarsKept DEF RiskTypeOK, NoWarning, AfterOsint
<1>10. ASSUME NEW r \in Requests, Warning(r) PROVE TypeOK'
  <2>1. "MALICIOUS" \in Verdicts  BY DEF Verdicts
  <2>2. cache' \in [Domains -> Entry \cup {NoEntry}]
    BY <1>10, <2>1, PutTyped DEF RiskTypeOK, Warning
  <2>3. QED
    BY <1>10, <2>1, <2>2, SyncVarsKept DEF RiskTypeOK, Warning, AfterOsint
<1>11. ASSUME NEW r \in Requests, Store(r) PROVE TypeOK'
  <2>1. cache' \in [Domains -> Entry \cup {NoEntry}]
    BY <1>11, CandidateTyped, PutTyped DEF RiskTypeOK, Store
  <2>2. QED  BY <1>11, <2>1, SyncVarsKept DEF RiskTypeOK, Store
<1>12. ASSUME NEW r \in Requests, Respond(r) PROVE TypeOK'
  BY <1>12, SyncVarsKept DEF RiskTypeOK, Respond, Verdicts
<1>13. CASE PromoteAdd
  <2>1. PICK d \in Warned : FeedBecomes(feed \cup {d}) /\ promoting' = d
    BY <1>13 DEF PromoteAdd
  <2>2. d \in Domains /\ feed \cup {d} \in SUBSET Names
    BY RiskAssumption DEF SyncTypeOK
  <2>3. SyncTypeOK'
    BY <1>13, <2>1, <2>2, FeedBecomesType
    DEF SyncTypeOK, PromoteAdd, readerVars, runVars
  <2>4. RiskTypeOK'
    BY <1>13, <2>1, <2>2 DEF RiskTypeOK, PromoteAdd
  <2>5. QED  BY <2>3, <2>4
<1>14. CASE PromoteInvalidate
  BY <1>14, SyncVarsKept DEF RiskTypeOK, PromoteInvalidate
<1>15. ASSUME NEW d \in Domains, ExpireEntry(d) PROVE TypeOK'
  BY <1>15, SyncVarsKept DEF RiskTypeOK, ExpireEntry
<1>16. CASE UNCHANGED vars
  BY <1>16, SyncVarsKept DEF vars, riskVars, RiskTypeOK
<1>17. QED
  BY <1>1, <1>2, <1>3, <1>4, <1>5, <1>6, <1>7, <1>8, <1>9, <1>10, <1>11, <1>12,
     <1>13, <1>14, <1>15, <1>16 DEF Next, RiskNext, Analyze

\* Every state of the feed writers and the requests together is well typed.
THEOREM TypeCorrect == Spec => []TypeOK
BY TypeInit, TypeStep, PTL DEF Spec

-----------------------------------------------------------------------------
(* Steps that touch the feed *)

LEMMA StepEffect ==
    ASSUME TypeOK, Next, "evictRevision" \notin Faults
    PROVE  FeedEffect
<1>1. CASE SyncNext
  BY <1>1, SyncStepEffect DEF TypeOK
<1>2. ASSUME NEW r \in Requests, Begin(r) \/ Analyze(r) PROVE UNCHANGED syncVars
  BY <1>2 DEF Begin, Analyze, ReadRevision, CacheHit, CacheMiss, ProbeFeed,
     ProbeFails, Assess, NoWarning, Warning, Store, Respond
<1>3. CASE PromoteAdd
  <2>1. PICK d \in Warned : FeedBecomes(feed \cup {d})  BY <1>3 DEF PromoteAdd
  <2>2. feed \cup {d} \in SUBSET Names
    BY RiskAssumption DEF TypeOK, SyncTypeOK
  <2>3. QED  BY <2>1, <2>2 DEF FeedEffect
<1>4. ASSUME PromoteInvalidate \/ \E d \in Domains : ExpireEntry(d)
      PROVE  UNCHANGED syncVars
  BY <1>4 DEF PromoteInvalidate, ExpireEntry
<1>5. UNCHANGED syncVars => FeedEffect
  BY DEF syncVars, FeedEffect, redisVars
<1>6. QED
  BY <1>1, <1>2, <1>3, <1>4, <1>5 DEF Next, RiskNext

\* What is missable at a revision that has been reached stays so: names are
\* announced by later revisions only.
LEMMA MissableStays ==
    ASSUME SyncTypeOK, FeedEffect
    PROVE  /\ revision' >= revision
           /\ \A n \in Names, k \in Nat :
                 k <= revision /\ Missable(n, k) => Missable(n, k)'
<1>1. CASE UNCHANGED redisVars
  BY <1>1 DEF SyncTypeOK, redisVars, Missable
<1>2. ASSUME NEW S \in SUBSET Names, FeedBecomes(S)
      PROVE  /\ revision' = revision
             /\ \A n \in Names : announced'[n] \in {announced[n], 0}
  BY <1>2 DEF FeedBecomes
<1>3. ASSUME NEW j \in {1, 2}, Bump(j)
      PROVE  /\ revision' = revision + j
             /\ \A n \in Names : \/ announced'[n] = announced[n]
                                 \/ announced'[n] = revision + j
  BY <1>3 DEF Bump
<1>4. QED  BY <1>1, <1>2, <1>3 DEF SyncTypeOK, FeedEffect, Missable

LEMMA CoversStays ==
    ASSUME SyncTypeOK, FeedEffect, NEW d \in Domains, NEW k \in Nat, k <= revision
    PROVE  /\ AllMissable(d, k) => AllMissable(d, k)'
           /\ \A v : Covers(d, k, v) => Covers(d, k, v)'
<1>1. AllMissable(d, k) => AllMissable(d, k)'
  BY MissableStays, MatchingNames DEF AllMissable, Matching
<1>2. QED  BY <1>1 DEF Covers

LEMMA EntryStays ==
    ASSUME TypeOK, FeedEffect, NEW d \in Domains, EntryOK(d), UNCHANGED cache
    PROVE  EntryOK(d)'
<1>1. cache[d].rev \in Nat /\ revision \in Nat /\ revision' >= revision
  BY MissableStays DEF TypeOK, SyncTypeOK, RiskTypeOK, Entry, NoEntry
<1>2. revision' \in Nat
  BY DEF TypeOK, SyncTypeOK, FeedEffect, FeedBecomes, Bump, redisVars
<1>3. CASE cache[d] = NoEntry
  BY <1>1, <1>2, <1>3 DEF EntryOK
<1>4. CASE cache[d] # NoEntry
  <2>1. Covers(d, cache[d].rev, cache[d].verdict)'
    BY <1>1, <1>4, CoversStays DEF EntryOK, TypeOK
  <2>2. QED  BY <1>1, <1>2, <2>1 DEF EntryOK
<1>5. QED  BY <1>3, <1>4

LEMMA RequestStays ==
    ASSUME TypeOK, FeedEffect, NEW r \in Requests, RequestOK(r),
           pc'[r] = pc[r], domain'[r] = domain[r], started'[r] = started[r],
           rev'[r] = rev[r], probe'[r] = probe[r], verdict'[r] = verdict[r]
    PROVE  RequestOK(r)'
<1> DEFINE d == domain[r]
           k == rev[r]
<1>1. /\ d \in Domains /\ k \in Nat /\ started[r] \in Nat /\ probe[r] \in Nat
      /\ revision \in Nat /\ k <= revision /\ started[r] <= revision
  BY DEF TypeOK, SyncTypeOK, RiskTypeOK, RequestOK
<1>2. revision' \in Nat /\ revision' >= revision
  BY MissableStays
  DEF TypeOK, SyncTypeOK, FeedEffect, FeedBecomes, Bump, redisVars
<1>3. k <= revision' /\ started[r] <= revision'  BY <1>1, <1>2
<1>4. pc[r] = "feed" =>
        \A i \in 1..(probe[r] - 1) : Missable(Candidates[d][i], k)'
  <2>1. SUFFICES ASSUME pc[r] = "feed", NEW i \in 1..(probe[r] - 1)
                 PROVE  Missable(Candidates[d][i], k)'
    OBVIOUS
  <2>2. i \in 1..Len(Candidates[d])
    BY <1>1, <2>1, MatchingNames DEF RequestOK
  <2>3. Missable(Candidates[d][i], k)  BY <2>1 DEF RequestOK
  <2>4. QED  BY <1>1, <2>2, <2>3, MatchingNames, MissableStays DEF TypeOK
<1>5. /\ AllMissable(d, k) => AllMissable(d, k)'
      /\ Covers(d, k, verdict[r]) => Covers(d, k, verdict[r])'
  BY <1>1, CoversStays DEF TypeOK
<1>6. QED
  BY <1>3, <1>4, <1>5 DEF RequestOK, Missable, AllMissable, Covers

-----------------------------------------------------------------------------
(* The steps of requests *)

\* A step of analyze writes neither the feed nor its revision.
LEMMA KeysKept ==
    ASSUME TypeOK, UNCHANGED syncVars
    PROVE  /\ FeedEffect /\ revision' = revision /\ announced' = announced
           /\ \A d \in Domains, k \in Nat : \A v :
                 /\ AllMissable(d, k) => AllMissable(d, k)'
                 /\ Covers(d, k, v) => Covers(d, k, v)'
<1>1. revision' = revision /\ announced' = announced /\ FeedEffect
  BY DEF syncVars, FeedEffect, redisVars
<1>2. QED
  BY <1>1 DEF AllMissable, Covers, Missable

\* What is stored under the revision a request has read covers its domain there.
LEMMA PutCovers ==
    ASSUME CacheInv, UNCHANGED syncVars, NEW r \in Requests, NEW v \in Verdicts,
           Covers(domain[r], rev[r], v), Put(r, v), NEW d \in Domains
    PROVE  EntryOK(d)'
<1>1. CASE d = domain[r]
  <2>1. PICK k \in Nat : k = rev[r]
    BY CandidateTyped DEF CacheInv, TypeOK
  <2>2. cache'[d] = [verdict |-> v, rev |-> k]
    BY <1>1, <2>1, CandidateTyped DEF CacheInv, TypeOK, RiskTypeOK, Put
  <2>3. k <= revision
    BY <2>1 DEF CacheInv, RequestOK
  <2>4. Covers(d, k, v)'
    BY <1>1, <2>1, KeysKept DEF CacheInv
  <2>5. Covers(d, cache[d].rev, cache[d].verdict)'
    BY <2>2, <2>4
  <2>6. QED  BY <2>2, <2>3, <2>5, KeysKept DEF CacheInv, EntryOK
<1>2. CASE d # domain[r]
  <2>1. cache'[d] = cache[d]  BY <1>2 DEF CacheInv, TypeOK, RiskTypeOK, Put
  <2>2. cache[d].rev \in Nat
    BY DEF CacheInv, TypeOK, RiskTypeOK, Entry, NoEntry
  <2>3. EntryOK(d)  BY DEF CacheInv
  <2>4. QED  BY <2>1, <2>2, <2>3, KeysKept DEF CacheInv, EntryOK, Covers, AllMissable
<1>3. QED  BY <1>1, <1>2

LEMMA ClearedEntry ==
    ASSUME CacheInv, UNCHANGED syncVars, NEW d \in Domains,
           cache' = [cache EXCEPT ![d] = NoEntry], NEW e \in Domains
    PROVE  EntryOK(e)'
<1>1. EntryOK(e)  BY DEF CacheInv
<1>2. revision \in Nat /\ cache[e].rev \in Nat
  BY DEF CacheInv, TypeOK, SyncTypeOK, RiskTypeOK, Entry, NoEntry
<1>3. cache'[e] = cache[e] \/ cache'[e] = NoEntry
  BY DEF CacheInv, TypeOK, RiskTypeOK
<1>4. QED
  BY <1>1, <1>2, <1>3, KeysKept DEF CacheInv, EntryOK, NoEntry, Covers, AllMissable

\* Requests other than the one that steps keep what they have.
LEMMA OthersStay ==
    ASSUME CacheInv, NEW r \in Requests, Begin(r) \/ Analyze(r),
           NEW t \in Requests, t # r
    PROVE  RequestOK(t)'
<1>1. /\ pc'[t] = pc[t] /\ domain'[t] = domain[t] /\ started'[t] = started[t]
      /\ rev'[t] = rev[t] /\ probe'[t] = probe[t] /\ verdict'[t] = verdict[t]
  BY DEF CacheInv, TypeOK, RiskTypeOK, Move, AfterOsint, Begin, Analyze,
     ReadRevision, CacheHit, CacheMiss, ProbeFeed, ProbeFails, Assess,
     NoWarning, Warning, Store, Respond
<1>2. UNCHANGED syncVars
  BY DEF Begin, Analyze, ReadRevision, CacheHit, CacheMiss, ProbeFeed,
     ProbeFails, Assess, NoWarning, Warning, Store, Respond
<1>3. QED
  BY <1>1, <1>2, KeysKept, RequestStays DEF CacheInv

LEMMA EntriesStay ==
    ASSUME CacheInv, NEW r \in Requests, Begin(r) \/ Analyze(r), NEW d \in Domains
    PROVE  EntryOK(d)'
<1>1. ASSUME UNCHANGED <<syncVars, cache>> PROVE EntryOK(d)'
  BY <1>1, KeysKept, EntryStays DEF CacheInv
<1>2. CASE Warning(r)
  <2>1. "MALICIOUS" \in Verdicts /\ Covers(domain[r], rev[r], "MALICIOUS")
    BY DEF Verdicts, Covers
  <2>2. QED  BY <1>1, <1>2, <2>1, PutCovers DEF Warning
<1>3. CASE Store(r)
  <2>1. verdict[r] \in Verdicts /\ Covers(domain[r], rev[r], verdict[r])
    BY <1>3, CandidateTyped DEF CacheInv, TypeOK, RequestOK, Store
  <2>2. QED  BY <1>1, <1>3, <2>1, PutCovers DEF Store
<1>4. ASSUME \/ Begin(r) \/ ReadRevision(r) \/ CacheHit(r) \/ CacheMiss(r)
             \/ ProbeFeed(r) \/ ProbeFails(r) \/ Assess(r) \/ NoWarning(r)
             \/ Respond(r)
      PROVE  UNCHANGED <<syncVars, cache>>
  BY <1>4 DEF Begin, ReadRevision, CacheHit, CacheMiss, ProbeFeed, ProbeFails,
     Assess, NoWarning, Respond
<1>5. QED  BY <1>1, <1>2, <1>3, <1>4 DEF Analyze

\* The request that steps: one step per action of analyze.
LEMMA RequestStep ==
    ASSUME CacheInv, "readFeed" \notin Faults, NEW r \in Requests,
           Begin(r) \/ Analyze(r)
    PROVE  RequestOK(r)'
<1> DEFINE d == domain[r]
<1>1. /\ domain[r] \in Domains /\ rev[r] \in Nat /\ started[r] \in Nat
      /\ probe[r] \in Nat /\ revision \in Nat
      /\ rev[r] <= revision /\ started[r] <= revision
  BY DEF CacheInv, TypeOK, SyncTypeOK, RiskTypeOK, RequestOK
<1>2. UNCHANGED syncVars
  BY DEF Begin, Analyze, ReadRevision, CacheHit, CacheMiss, ProbeFeed,
     ProbeFails, Assess, NoWarning, Warning, Store, Respond
<1>3. revision' = revision /\ announced' = announced
  BY <1>2 DEF syncVars
<1> USE DEF Move
<1>4. CASE Begin(r)
  BY <1>1, <1>3, <1>4 DEF CacheInv, TypeOK, RiskTypeOK, RequestOK, Begin
<1>5. CASE ReadRevision(r)
  BY <1>1, <1>3, <1>5 DEF CacheInv, TypeOK, RiskTypeOK, RequestOK, ReadRevision
<1>6. CASE CacheHit(r)
  <2>1. /\ cache[d] # NoEntry
        /\ rev[r] = 0 \/ cache[d].rev = rev[r]
        /\ Covers(d, cache[d].rev, cache[d].verdict)
    BY <1>1, <1>6 DEF CacheInv, EntryOK, CacheHit, Accepts
  <2>2. AllMissable(d, 0)
    BY <1>1, MatchingNames DEF CacheInv, TypeOK, SyncTypeOK, AllMissable, Missable
  <2>3. Covers(d, rev[r], cache[d].verdict)
    BY <2>1, <2>2 DEF Covers
  <2>4. /\ pc'[r] = "osint" /\ verdict'[r] = cache[d].verdict
        /\ domain'[r] = d /\ rev'[r] = rev[r] /\ started'[r] = started[r]
    BY <1>6 DEF CacheInv, TypeOK, RiskTypeOK, CacheHit
  <2>5. Covers(domain[r], rev[r], verdict[r])'
    BY <1>3, <2>3, <2>4 DEF Covers, AllMissable, Missable
  <2>6. QED  BY <1>1, <1>3, <2>4, <2>5 DEF RequestOK
<1>7. CASE CacheMiss(r)
  <2>1. Len(Candidates[d]) \in Nat /\ 1 \in 1..Len(Candidates[d])
    BY <1>1, MatchingNames, RiskAssumption
  <2>2. /\ pc'[r] = "feed" /\ probe'[r] = 1 /\ domain'[r] = d
        /\ rev'[r] = rev[r] /\ started'[r] = started[r]
    BY <1>7 DEF CacheInv, TypeOK, RiskTypeOK, CacheMiss
  <2>3. QED  BY <1>1, <1>3, <2>1, <2>2 DEF RequestOK
<1>8. CASE ProbeFeed(r)
  <2>1. /\ domain'[r] = d /\ rev'[r] = rev[r] /\ started'[r] = started[r]
        /\ pc[r] = "feed"
    BY <1>8 DEF ProbeFeed
  <2>2. /\ probe[r] \in 1..Len(Candidates[d])
        /\ \A i \in 1..(probe[r] - 1) : Missable(Candidates[d][i], rev[r])
    BY <2>1 DEF CacheInv, RequestOK
  <2>3. CASE Candidates[d][probe[r]] \in feed
    <3>1. pc'[r] = "osint" /\ verdict'[r] = "MALICIOUS"
      BY <1>8, <2>3 DEF CacheInv, TypeOK, RiskTypeOK, ProbeFeed
    <3>2. QED  BY <1>1, <1>3, <2>1, <3>1 DEF RequestOK, Covers
  <2>4. CASE Candidates[d][probe[r]] \notin feed
    <3>1. Missable(Candidates[d][probe[r]], rev[r])
      BY <1>1, <2>2, <2>4, MatchingNames DEF CacheInv, AnnouncedOK, Missable
    <3>2. \A i \in 1..probe[r] : Missable(Candidates[d][i], rev[r])
      BY <1>1, <2>2, <3>1
    <3>3. CASE probe[r] < Len(Candidates[d])
      <4>1. pc'[r] = "feed" /\ probe'[r] = probe[r] + 1
        BY <1>8, <2>1, <2>4, <3>3, MatchingNames, <1>1
        DEF CacheInv, TypeOK, RiskTypeOK, ProbeFeed
      <4>2. probe'[r] \in 1..Len(Candidates[d]) /\ probe'[r] - 1 = probe[r]
        BY <1>1, <3>3, <4>1, MatchingNames
      <4>3. QED
        BY <1>1, <1>3, <2>1, <3>2, <4>1, <4>2 DEF RequestOK, Missable
    <3>4. CASE probe[r] = Len(Candidates[d])
      <4>1. pc'[r] = "assess"
        BY <1>8, <2>4, <3>4, MatchingNames, <1>1
        DEF CacheInv, TypeOK, RiskTypeOK, ProbeFeed
      <4>2. AllMissable(d, rev[r])
        BY <3>2, <3>4 DEF AllMissable, Matching
      <4>3. QED
        BY <1>1, <1>3, <2>1, <4>1, <4>2 DEF RequestOK, AllMissable, Missable
    <3>5. QED  BY <1>1, <2>2, <3>3, <3>4, MatchingNames
  <2>5. QED  BY <2>3, <2>4
<1>9. ~ProbeFails(r)
  BY DEF ProbeFails
<1>10. CASE Assess(r)
  <2>1. /\ domain'[r] = d /\ rev'[r] = rev[r] /\ started'[r] = started[r]
        /\ pc[r] = "assess" /\ pc'[r] = "osint"
    BY <1>10 DEF CacheInv, TypeOK, RiskTypeOK, Assess
  <2>2. AllMissable(d, rev[r])  BY <2>1 DEF CacheInv, RequestOK
  <2>3. QED
    BY <1>1, <1>3, <2>1, <2>2 DEF RequestOK, Covers, AllMissable, Missable
<1>11. CASE Warning(r)
  <2>1. /\ domain'[r] = d /\ rev'[r] = rev[r] /\ started'[r] = started[r]
        /\ pc'[r] \in {"store", "done"} /\ verdict'[r] = "MALICIOUS"
    BY <1>11 DEF CacheInv, TypeOK, RiskTypeOK, Warning, AfterOsint
  <2>2. QED  BY <1>1, <1>3, <2>1 DEF RequestOK, Covers
<1>12. CASE NoWarning(r) \/ Store(r)
  <2>1. /\ domain'[r] = d /\ rev'[r] = rev[r] /\ started'[r] = started[r]
        /\ verdict'[r] = verdict[r]
        /\ pc[r] \in {"osint", "store"} /\ pc'[r] \in {"store", "done"}
    BY <1>12 DEF CacheInv, TypeOK, RiskTypeOK, NoWarning, Store, AfterOsint
  <2>2. Covers(d, rev[r], verdict[r])  BY <2>1 DEF CacheInv, RequestOK
  <2>3. QED
    BY <1>1, <1>3, <2>1, <2>2 DEF RequestOK, Covers, AllMissable, Missable
<1>13. CASE Respond(r)
  BY <1>1, <1>3, <1>13 DEF CacheInv, TypeOK, RiskTypeOK, RequestOK, Respond
<1>14. QED
  BY <1>4, <1>5, <1>6, <1>7, <1>8, <1>9, <1>10, <1>11, <1>12, <1>13 DEF Analyze

-----------------------------------------------------------------------------
(* The cache is never laxer than the announced feed *)

LEMMA CacheInit == Init => CacheInv
<1> SUFFICES ASSUME Init PROVE CacheInv
  OBVIOUS
<1>1. TypeOK  BY TypeInit
<1>2. AnnouncedOK
  BY DEF Init, SyncInit, AnnouncedOK
<1>3. ASSUME NEW d \in Domains PROVE EntryOK(d)
  BY <1>3 DEF Init, SyncInit, EntryOK, NoEntry
<1>4. ASSUME NEW r \in Requests PROVE RequestOK(r)
  BY <1>4 DEF Init, SyncInit, RequestOK
<1>5. QED  BY <1>1, <1>2, <1>3, <1>4 DEF CacheInv

LEMMA CacheStep ==
    ASSUME CacheInv, [Next]_vars, "readFeed" \notin Faults,
           "evictRevision" \notin Faults
    PROVE  CacheInv'
<1>1. TypeOK /\ TypeOK'  BY TypeStep DEF CacheInv
<1>2. FeedEffect
  BY <1>1, StepEffect DEF vars, syncVars, FeedEffect, redisVars
<1>3. AnnouncedOK'
  BY <1>1, <1>2, AnnouncedStep DEF CacheInv, TypeOK
<1>4. ASSUME UNCHANGED requestVars, NEW r \in Requests PROVE RequestOK(r)'
  BY <1>1, <1>2, <1>4, RequestStays DEF CacheInv, requestVars
<1>5. ASSUME UNCHANGED cache, NEW d \in Domains PROVE EntryOK(d)'
  BY <1>1, <1>2, <1>5, EntryStays DEF CacheInv
<1>6. CASE SyncNext /\ UNCHANGED riskVars
  BY <1>1, <1>3, <1>4, <1>5, <1>6 DEF CacheInv, riskVars
<1>7. ASSUME NEW r \in Requests, Begin(r) \/ Analyze(r) PROVE CacheInv'
  BY <1>1, <1>3, <1>7, EntriesStay, OthersStay, RequestStep DEF CacheInv
<1>8. CASE PromoteAdd
  BY <1>1, <1>3, <1>4, <1>5, <1>8 DEF CacheInv, PromoteAdd
<1>9. CASE PromoteInvalidate
  <2>1. UNCHANGED requestVars /\ UNCHANGED syncVars
    BY <1>9 DEF PromoteInvalidate
  <2>2. promoting \in Domains
    BY <1>1, <1>9 DEF TypeOK, RiskTypeOK, PromoteInvalidate
  <2>3. \A e \in Domains : EntryOK(e)'
    BY <1>5, <1>9, <2>1, <2>2, ClearedEntry DEF PromoteInvalidate
  <2>4. QED  BY <1>1, <1>3, <1>4, <2>1, <2>3 DEF CacheInv
<1>10. ASSUME NEW d \in Domains, ExpireEntry(d) PROVE CacheInv'
  <2>1. UNCHANGED requestVars /\ UNCHANGED syncVars
    BY <1>10 DEF ExpireEntry
  <2>2. \A e \in Domains : EntryOK(e)'
    BY <1>10, <2>1, ClearedEntry DEF ExpireEntry
  <2>3. QED  BY <1>1, <1>3, <1>4, <2>1, <2>2 DEF CacheInv
<1>11. CASE UNCHANGED vars
  BY <1>1, <1>3, <1>4, <1>5, <1>11 DEF CacheInv, vars, riskVars
<1>12. QED
  BY <1>6, <1>7, <1>8, <1>9, <1>10, <1>11 DEF Next, RiskNext

LEMMA CacheInvSound == CacheInv => CacheSound
<1> SUFFICES ASSUME CacheInv, NEW d \in Domains, cache[d] # NoEntry,
                    NEW n \in Matching(d),
                    announced[n] # 0, announced[n] <= cache[d].rev
             PROVE  cache[d].verdict = "MALICIOUS"
  BY DEF CacheSound
<1>1. Covers(d, cache[d].rev, cache[d].verdict)  BY DEF CacheInv, EntryOK
<1>2. announced[n] \in Nat /\ cache[d].rev \in Nat
  BY MatchingNames DEF CacheInv, TypeOK, SyncTypeOK, RiskTypeOK, Entry, NoEntry
<1>3. QED  BY <1>1, <1>2 DEF Covers, AllMissable, Missable

\* However many requests, writers and osint-audit interleave and whatever else
\* fails, no cached verdict is laxer than the feed it is filed under, as long as
\* feed lookups succeed and Redis does not evict the revision key.
THEOREM CacheSoundness ==
    ASSUME "readFeed" \notin Faults, "evictRevision" \notin Faults
    PROVE  Spec => []CacheSound
<1>1. CacheInv /\ [Next]_vars => CacheInv'  BY CacheStep
<1>2. QED  BY <1>1, CacheInit, CacheInvSound, PTL DEF Spec

-----------------------------------------------------------------------------
(* What callers are served *)

\* The revision a request reads, if it can, is at least as new as the one it
\* began under.
FreshOK ==
    \A r \in Requests :
        /\ started[r] <= revision
        /\ pc[r] \notin {"idle", "revision"} => rev[r] = 0 \/ started[r] <= rev[r]

LEMMA FreshStep ==
    ASSUME TypeOK, FreshOK, [Next]_vars, "evictRevision" \notin Faults
    PROVE  FreshOK'
<1> SUFFICES ASSUME NEW t \in Requests
             PROVE  /\ started'[t] <= revision'
                    /\ pc'[t] \notin {"idle", "revision"}
                          => rev'[t] = 0 \/ started'[t] <= rev'[t]
  BY DEF FreshOK
<1>1. /\ started[t] \in Nat /\ rev[t] \in Nat /\ revision \in Nat
      /\ started[t] <= revision
      /\ pc[t] \notin {"idle", "revision"} => rev[t] = 0 \/ started[t] <= rev[t]
  BY DEF FreshOK, TypeOK, SyncTypeOK, RiskTypeOK
<1>2. FeedEffect
  BY StepEffect DEF vars, syncVars, FeedEffect, redisVars
<1>3. revision' \in Nat /\ revision' >= revision
  BY <1>1, <1>2, MissableStays, TypeStep DEF TypeOK, SyncTypeOK
<1>4. ASSUME UNCHANGED requestVars
      PROVE  /\ started'[t] <= revision'
             /\ pc'[t] \notin {"idle", "revision"}
                          => rev'[t] = 0 \/ started'[t] <= rev'[t]
  BY <1>1, <1>3, <1>4 DEF requestVars
<1> USE DEF Move
<1>5. ASSUME NEW r \in Requests, Begin(r) \/ ReadRevision(r) \/ Respond(r)
      PROVE  /\ started'[t] <= revision'
             /\ pc'[t] \notin {"idle", "revision"}
                          => rev'[t] = 0 \/ started'[t] <= rev'[t]
  BY <1>1, <1>3, <1>5
  DEF TypeOK, RiskTypeOK, syncVars, Begin, ReadRevision, Respond
<1>6. ASSUME NEW r \in Requests,
             \/ CacheHit(r) \/ CacheMiss(r) \/ ProbeFeed(r) \/ ProbeFails(r)
             \/ Assess(r) \/ NoWarning(r) \/ Warning(r) \/ Store(r)
      PROVE  /\ UNCHANGED <<started, rev>>
             /\ pc'[t] \in {"idle", "revision"} <=> pc[t] \in {"idle", "revision"}
  BY <1>6 DEF TypeOK, RiskTypeOK, RequestStates, AfterOsint, CacheHit, CacheMiss,
     ProbeFeed, ProbeFails, Assess, NoWarning, Warning, Store
<1>7. ASSUME PromoteAdd \/ PromoteInvalidate \/ \E d \in Domains : ExpireEntry(d)
      PROVE  UNCHANGED requestVars
  BY <1>7 DEF PromoteAdd, PromoteInvalidate, ExpireEntry
<1>8. UNCHANGED riskVars \/ UNCHANGED vars => UNCHANGED requestVars
  BY DEF vars, riskVars
<1>9. QED
  BY <1>1, <1>3, <1>4, <1>5, <1>6, <1>7, <1>8 DEF Next, RiskNext, Analyze

\* While feed lookups work, the answer to every request that could read the
\* revision respects the feed as it was announced when the request began: a
\* cached verdict served to it is one that was filed under that revision.
THEOREM ServedSoundness ==
    ASSUME "readFeed" \notin Faults, "evictRevision" \notin Faults
    PROVE  Spec => []ServedSound
<1>1. Init => FreshOK
  BY DEF Init, SyncInit, FreshOK
<1>2. CacheInv /\ FreshOK /\ [Next]_vars => CacheInv' /\ FreshOK'
  BY CacheStep, FreshStep DEF CacheInv
<1>3. CacheInv /\ FreshOK => ServedSound
  <2>1. SUFFICES ASSUME CacheInv, FreshOK, NEW r \in Requests, pc[r] = "done", rev[r] # 0,
                        NEW n \in Matching(domain[r]),
                        announced[n] # 0, announced[n] <= started[r]
                 PROVE  verdict[r] = "MALICIOUS"
    BY DEF ServedSound
  <2>2. started[r] <= rev[r] /\ Covers(domain[r], rev[r], verdict[r])
    BY <2>1 DEF FreshOK, CacheInv, RequestOK
  <2>3. /\ domain[r] \in Domains /\ announced[n] \in Nat /\ started[r] \in Nat
        /\ rev[r] \in Nat
    BY <2>1, MatchingNames DEF CacheInv, TypeOK, SyncTypeOK, RiskTypeOK
  <2>4. QED  BY <2>1, <2>2, <2>3 DEF Covers, AllMissable, Missable
<1>4. QED  BY <1>1, <1>2, <1>3, CacheInit, PTL DEF Spec

-----------------------------------------------------------------------------
(* Listed names take effect: what ListedTakesEffect rests on, besides fairness *)

\* The request analyses d and can still store a verdict laxer than the listed name n asks
\* for: its lookups have passed n, or its verdict of its own is not MALICIOUS.
Straggles(r, d, n) ==
    /\ domain[r] = d
    /\ \/ pc[r] = "feed" /\ \A i \in probe[r]..Len(Candidates[d]) : Candidates[d][i] # n
       \/ pc[r] = "assess"
       \/ pc[r] \in {"osint", "store"} /\ ~hit[r] /\ verdict[r] # "MALICIOUS"

\* Nobody joins those who may still store a lax verdict while the name is listed and no
\* lookup fails, and nobody else stores one: once the entries there are have expired and
\* the last of these requests has ended, no lax entry comes back.
NoNewLaxity ==
    \A d \in Domains : \A n \in Matching(d) :
        n \in feed /\ (\A r \in Requests : ~ProbeFails(r)) =>
            /\ \A r \in Requests : Straggles(r, d, n)' => Straggles(r, d, n)
            /\ \/ cache'[d].verdict \in {"NONE", "MALICIOUS"} \/ cache'[d] = cache[d]
               \/ \E r \in Requests : pc[r] = "store" /\ Straggles(r, d, n)

\* A verdict from the cache is not stored again, nor does its request look anything up.
HitsAreServed == \A r \in Requests : hit[r] => pc[r] \in {"osint", "done"}

LEMMA OtherRequests ==
    ASSUME TypeOK, NEW r \in Requests, Begin(r) \/ Analyze(r), NEW t \in Requests, t # r
    PROVE  /\ pc'[t] = pc[t] /\ domain'[t] = domain[t] /\ probe'[t] = probe[t]
           /\ hit'[t] = hit[t] /\ verdict'[t] = verdict[t]
BY DEF TypeOK, RiskTypeOK, Move, AfterOsint, Begin, Analyze, ReadRevision, CacheHit, CacheMiss,
   ProbeFeed, ProbeFails, Assess, NoWarning, Warning, Store, Respond

LEMMA HitsStep ==
    ASSUME TypeOK, HitsAreServed, [Next]_vars
    PROVE  HitsAreServed'
<1>1. ASSUME NEW r \in Requests, Begin(r) \/ Analyze(r) PROVE HitsAreServed'
  <2>1. hit'[r] => pc'[r] \in {"osint", "done"}
    BY <1>1 DEF TypeOK, RiskTypeOK, HitsAreServed, Move, AfterOsint, Begin, Analyze, ReadRevision,
       CacheHit, CacheMiss, ProbeFeed, ProbeFails, Assess, NoWarning, Warning, Store, Respond
  <2>2. QED  BY <1>1, <2>1, OtherRequests DEF HitsAreServed
<1>2. CASE UNCHANGED requestVars
  BY <1>2 DEF requestVars, HitsAreServed
<1>3. QED
  BY <1>1, <1>2 DEF Next, RiskNext, riskVars, vars, PromoteAdd, PromoteInvalidate, ExpireEntry

\* A request that looks n up finds it: it passes n on its way in no other step than
\* those that have passed n before.
LEMMA NobodyJoins ==
    ASSUME TypeOK, HitsAreServed, NEW r \in Requests, Begin(r) \/ Analyze(r), ~ProbeFails(r),
           NEW d \in Domains, NEW n \in Matching(d), n \in feed, Straggles(r, d, n)'
    PROVE  Straggles(r, d, n)
<1> USE DEF TypeOK, RiskTypeOK, Move
<1>1. CASE Begin(r) \/ ReadRevision(r) \/ CacheHit(r) \/ Respond(r)
  BY <1>1 DEF Begin, ReadRevision, CacheHit, Respond, Straggles
<1>2. CASE CacheMiss(r)
  <2>1. domain'[r] = d /\ pc'[r] = "feed" /\ probe'[r] = 1
    BY <1>2 DEF CacheMiss, Straggles
  <2>2. \A i \in 1..Len(Candidates[d]) : Candidates[d][i] # n
    BY <2>1 DEF Straggles
  <2>3. QED  BY <2>2 DEF Matching
<1>3. CASE ProbeFeed(r)
  <2>1. domain[r] = d /\ pc[r] = "feed" /\ hit' = hit /\ probe[r] \in Nat
    BY <1>3 DEF ProbeFeed, Straggles
  <2>2. Candidates[d] \in Seq(Names) /\ Len(Candidates[d]) \in Nat
    BY RiskAssumption
  <2>3. CASE Candidates[d][probe[r]] \in feed
    BY <1>3, <2>1, <2>3 DEF ProbeFeed, Straggles
  <2>4. CASE Candidates[d][probe[r]] \notin feed /\ probe[r] < Len(Candidates[d])
    <3>1. probe'[r] = probe[r] + 1 /\ pc'[r] = "feed"
      BY <1>3, <2>1, <2>4 DEF ProbeFeed
    <3>2. \A i \in (probe[r] + 1)..Len(Candidates[d]) : Candidates[d][i] # n
      BY <3>1 DEF Straggles
    <3>3. Candidates[d][probe[r]] # n
      BY <2>4
    <3>4. \A i \in probe[r]..Len(Candidates[d]) :
            i = probe[r] \/ i \in (probe[r] + 1)..Len(Candidates[d])
      BY <2>1, <2>2
    <3>5. QED  BY <2>1, <3>2, <3>3, <3>4 DEF Straggles
  <2>5. CASE Candidates[d][probe[r]] \notin feed /\ probe[r] = Len(Candidates[d])
    <3>1. \A i \in probe[r]..Len(Candidates[d]) : i = probe[r]
      BY <2>1, <2>2, <2>5
    <3>2. QED  BY <2>1, <2>5, <3>1 DEF Straggles
  <2>6. QED  BY <1>3, <2>1, <2>3, <2>4, <2>5 DEF ProbeFeed
<1>4. CASE Assess(r)
  BY <1>4 DEF Assess, Straggles
<1>5. CASE NoWarning(r)
  BY <1>5 DEF NoWarning, AfterOsint, Straggles
<1>6. CASE Warning(r)
  BY <1>6 DEF Warning, AfterOsint, Straggles
<1>7. CASE Store(r)
  BY <1>7 DEF Store, Straggles
<1>8. QED  BY <1>1, <1>2, <1>3, <1>4, <1>5, <1>6, <1>7 DEF Analyze

\* Only a request that straggles stores a lax verdict.
LEMMA OthersStoreStrictly ==
    ASSUME TypeOK, HitsAreServed, NEW r \in Requests, Begin(r) \/ Analyze(r),
           NEW d \in Domains, NEW n
    PROVE  \/ cache'[d].verdict \in {"NONE", "MALICIOUS"} \/ cache'[d] = cache[d]
           \/ pc[r] = "store" /\ Straggles(r, d, n)
<1> USE DEF TypeOK, RiskTypeOK
<1>1. CASE Warning(r)
  <2>1. CASE Put(r, "MALICIOUS")
    BY <2>1 DEF Put
  <2>2. QED  BY <1>1, <2>1 DEF Warning
<1>2. CASE Store(r)
  <2>1. CASE cache' = cache
    BY <2>1
  <2>2. CASE Put(r, verdict[r]) /\ domain[r] # d
    BY <2>2 DEF Put
  <2>3. CASE Put(r, verdict[r]) /\ domain[r] = d
    <3>1. cache'[d].verdict = verdict[r]
      BY <2>3 DEF Put
    <3>2. pc[r] = "store" /\ ~hit[r]
      BY <1>2 DEF Store, HitsAreServed
    <3>3. QED  BY <2>3, <3>1, <3>2 DEF Straggles
  <2>4. QED  BY <1>2, <2>1, <2>2, <2>3 DEF Store
<1>3. CASE ~Warning(r) /\ ~Store(r)
  BY <1>3 DEF Begin, Analyze, ReadRevision, CacheHit, CacheMiss, ProbeFeed, ProbeFails, Assess,
     NoWarning, Respond
<1>4. QED  BY <1>1, <1>2, <1>3

LEMMA NoNewLaxityStep ==
    ASSUME TypeOK, HitsAreServed, [Next]_vars
    PROVE  NoNewLaxity
<1> SUFFICES ASSUME NEW d \in Domains, NEW n \in Matching(d), n \in feed,
                    \A r \in Requests : ~ProbeFails(r)
             PROVE  /\ \A r \in Requests : Straggles(r, d, n)' => Straggles(r, d, n)
                    /\ \/ cache'[d].verdict \in {"NONE", "MALICIOUS"} \/ cache'[d] = cache[d]
                       \/ \E r \in Requests : pc[r] = "store" /\ Straggles(r, d, n)
  BY DEF NoNewLaxity
<1>1. CASE \E r \in Requests : Begin(r) \/ Analyze(r)
  <2>1. PICK r \in Requests : Begin(r) \/ Analyze(r)
    BY <1>1
  <2>2. ASSUME NEW t \in Requests, Straggles(t, d, n)' PROVE Straggles(t, d, n)
    <3>1. CASE t = r
      BY <2>1, <2>2, <3>1, NobodyJoins
    <3>2. CASE t # r
      BY <2>1, <2>2, <3>2, OtherRequests DEF Straggles
    <3>3. QED  BY <3>1, <3>2
  <2>3. QED  BY <2>1, <2>2, OthersStoreStrictly
<1>2. CASE UNCHANGED requestVars
  <2>1. \A r \in Requests : Straggles(r, d, n)' => Straggles(r, d, n)
    BY <1>2 DEF requestVars, Straggles
  <2>2. cache'[d] = cache[d] \/ cache'[d].verdict = "NONE"
    <3>1. \/ cache' = cache
          \/ \E e \in Domains \cup {promoting} : cache' = [cache EXCEPT ![e] = NoEntry]
      <4>1. CASE \E r \in Requests : Begin(r) \/ Analyze(r)
        BY <1>2, <4>1 DEF TypeOK, RiskTypeOK, requestVars, Move, AfterOsint, Begin, Analyze,
           ReadRevision, CacheHit, CacheMiss, ProbeFeed, ProbeFails, Assess, NoWarning, Warning,
           Store, Respond
      <4>2. QED
        BY <4>1 DEF Next, RiskNext, riskVars, vars, PromoteAdd, PromoteInvalidate, ExpireEntry
    <3>2. QED  BY <3>1 DEF TypeOK, RiskTypeOK, NoEntry
  <2>3. QED  BY <2>1, <2>2
<1>3. QED
  BY <1>1, <1>2 DEF Next, RiskNext, riskVars, vars, PromoteAdd, PromoteInvalidate, ExpireEntry

\* For every number of domains, candidates, requests and writers: while a name is listed,
\* bump or no bump, only requests that were past it already can store a laxer verdict of
\* a matching domain, and they only become fewer (service.go:469-560).
THEOREM LaxityDiesOut == Spec => [][NoNewLaxity]_vars
<1>1. Init => HitsAreServed
  BY DEF Init, HitsAreServed
<1>2. TypeOK /\ HitsAreServed /\ [Next]_vars => HitsAreServed'
  BY HitsStep
<1>3. TypeOK /\ HitsAreServed /\ [Next]_vars => NoNewLaxity
  BY NoNewLaxityStep
<1>4. QED  BY <1>1, <1>2, <1>3, TypeCorrect, PTL DEF Spec

-----------------------------------------------------------------------------
(* The writers beside the analysis *)

\* The analysis and osint-audit leave the writers' runs alone.
LEMMA WritersBeside == [Next]_vars => WriterStep
<1> SUFFICES ASSUME [Next]_vars PROVE WriterStep
  OBVIOUS
<1> USE DEF syncVars, readerVars, runVars, RunsUntouched, WriterStep
<1>1. CASE SyncNext
  BY <1>1, WriterSteps
<1>2. ASSUME NEW r \in Requests, Begin(r) \/ Analyze(r) PROVE RunsUntouched
  BY <1>2 DEF Begin, Analyze, ReadRevision, CacheHit, CacheMiss, ProbeFeed, ProbeFails,
     Assess, NoWarning, Warning, Store, Respond
<1>3. CASE PromoteAdd \/ PromoteInvalidate \/ \E d \in Domains : ExpireEntry(d)
  BY <1>3 DEF PromoteAdd, PromoteInvalidate, ExpireEntry
<1>4. CASE UNCHANGED vars
  BY <1>4 DEF vars
<1>5. QED  BY <1>1, <1>2, <1>3, <1>4 DEF Next, RiskNext

\* What the writers promise about their runs holds beside the analysis and beside
\* osint-audit, which writes to the feed too.
THEOREM WritersKeepPromises ==
    /\ Spec => []OkRecorded
    /\ Faults \cap {"redis", "timeout"} = {} => (Spec => []StatusTellsOutcome)
    /\ Faults \cap {"redis", "timeout", "crash"} = {} => (Spec => []NoOrphanStaging)
    /\ "oversize" \notin Faults \/ CsvSources = {} => (Spec => []OkMeansWholeSource)
    /\ Spec => [][RunsGetOn]_vars
<1>1. Spec => []SyncTypeOK
  BY TypeCorrect, PTL DEF TypeOK
<1>2. Init => SyncInit
  BY DEF Init
<1>3. Spec => []OkRecorded
  <2>1. SyncTypeOK /\ OkRecorded /\ [Next]_vars => OkRecorded'
    BY OkRecordedStep, WritersBeside
  <2>2. QED  BY <1>1, <1>2, <2>1, RestInit, PTL DEF Spec
<1>4. ASSUME Faults \cap {"redis", "timeout"} = {} PROVE Spec => []StatusTellsOutcome
  <2>1. SyncTypeOK /\ EndRecorded /\ [Next]_vars => EndRecorded'
    BY <1>4, EndRecordedStep, WritersBeside
  <2>2. EndRecorded => StatusTellsOutcome
    BY DEF EndRecorded, StatusTellsOutcome
  <2>3. QED  BY <1>1, <1>2, <2>1, <2>2, RestInit, PTL DEF Spec
<1>5. ASSUME Faults \cap {"redis", "timeout", "crash"} = {}
      PROVE  Spec => []NoOrphanStaging
  <2>1. SyncTypeOK /\ StagingInUse /\ [Next]_vars => StagingInUse'
    BY <1>5, StagingStep, WritersBeside
  <2>2. StagingInUse => NoOrphanStaging
    BY DEF StagingInUse, NoOrphanStaging
  <2>3. QED  BY <1>1, <1>2, <2>1, <2>2, RestInit, PTL DEF Spec
<1>6. ASSUME "oversize" \notin Faults \/ CsvSources = {}
      PROVE  Spec => []OkMeansWholeSource
  <2>1. SyncTypeOK /\ SourcesOK /\ [Next]_vars => SourcesOK'
    BY <1>6, SourcesStep, WritersBeside
  <2>2. SourcesOK => OkMeansWholeSource
    BY DEF SourcesOK, WholeSource, OkMeansWholeSource
  <2>3. QED  BY <1>1, <1>2, <2>1, <2>2, SourcesInit, PTL DEF Spec
<1>7. Spec => [][RunsGetOn]_vars
  <2>1. SyncTypeOK /\ [Next]_vars => RunsGetOn
    BY RunsGetOnStep, WritersBeside
  <2>2. QED  BY <1>1, <2>1, PTL DEF Spec
<1>8. QED  BY <1>3, <1>4, <1>5, <1>6, <1>7

\* While osint-audit has nothing to promote, the analysis only reads the feed and its
\* revision, and whatever the writers promise holds beside it.
THEOREM AnalysisOnlyReads ==
    ASSUME Warned = {}
    PROVE  Spec => SyncSpec
<1>1. ASSUME [Next]_vars PROVE [SyncNext]_syncVars
  <2>1. ASSUME NEW r \in Requests, Begin(r) \/ Analyze(r) PROVE UNCHANGED syncVars
    BY <2>1 DEF Begin, Analyze, ReadRevision, CacheHit, CacheMiss, ProbeFeed, ProbeFails,
       Assess, NoWarning, Warning, Store, Respond
  <2>2. CASE PromoteInvalidate \/ \E d \in Domains : ExpireEntry(d)
    BY <2>2 DEF PromoteInvalidate, ExpireEntry
  <2>3. ~PromoteAdd
    BY DEF PromoteAdd
  <2>4. QED  BY <1>1, <2>1, <2>2, <2>3 DEF Next, RiskNext, vars
<1>2. Init => SyncInit
  BY DEF Init
<1>3. QED  BY <1>1, <1>2, PTL DEF Spec, SyncSpec

\* The composition whose writers the run checks: the feed is announced beside the
\* analysis too.
COROLLARY AnnouncedBesideAnalysis ==
    ASSUME Warned = {}, Replacing = Syncers \/ AdditionsSafe
    PROVE  Spec => []QuietMeansAnnounced
BY AnalysisOnlyReads, RunsAnnounce, PTL
=============================================================================
