------------------------------- MODULE FeedSync -------------------------------
(***************************************************************************)
(* The threat-feed writers of Safe Road: feed.Sync (internal/feed/sync.go) *)
(* as it is run by feed-syncd and feed-sync (Replace) and by the agent's   *)
(* feedsync task (additive), all against one Redis set and one revision    *)
(* counter.  Every Redis command is one atomic step; each of them may be   *)
(* rejected, may be applied with its reply lost, or may fail because the   *)
(* run's context has expired, as far as the constant Faults allows.        *)
(***************************************************************************)
EXTENDS Naturals, FiniteSets

CONSTANTS
    Names,        \* normalized domain names a feed may list
    Syncers,      \* concurrent callers of feed.Sync, one source each
    Replacing,    \* the callers that set SyncOptions.Replace
    CsvSources,   \* the callers whose source is parsed by parseCSVStream
    BatchSize,    \* defaultRedisBatchSize
    MinWrites,    \* SyncOptions.CacheInvalidationMinWrites
    MaxRevision,  \* bound: no run starts at or beyond this revision
    Faults        \* the failures the environment may cause

FaultKinds == {"redis", "lostReply", "retry", "source", "oversize", "timeout",
               "crash", "evictFeed", "evictRevision",
               "readRevision", "readCache", "readFeed", "writeCache"}

ASSUME SyncAssumption ==
    /\ IsFiniteSet(Names)
    /\ Replacing \subseteq Syncers
    /\ CsvSources \subseteq Syncers
    /\ BatchSize \in Nat \ {0}
    /\ MinWrites \in Nat
    /\ MaxRevision \in Nat
    /\ Faults \subseteq FaultKinds

VARIABLES
    feed,       \* members of the Redis set safe-road:threat:feed
    revision,   \* the counter safe-road:threat:feed:revision, 0 when missing
    announced,  \* history: the revision that first announced a name since it
                \* has been in the feed without interruption, 0 if none has
    phase,      \* control state of each run of Sync
    listed,     \* history: the names the remote source lists
    source,     \* the names the reader delivers before it ends
    ending,     \* how the reader ends: "eof", "broken" or "oversize"
    seen,       \* names parsed and flushed so far
    staged,     \* members of the run's staging key
    written,    \* members SADD reported as added
    expired,    \* the run's context deadline has passed
    outcome,    \* what the last run returned: "none", "ok", "error", "crashed"
    status      \* the stored SourceStatus.Status

redisVars == <<feed, revision, announced>>
readerVars == <<listed, source, ending>>
runVars == <<seen, staged, written>>
syncVars == <<feed, revision, announced, phase, listed, source, ending, seen,
              staged, written, expired, outcome, status>>

Phases == {"idle", "reading", "publishing", "announcing", "recording",
           "discarding", "failing"}

SyncTypeOK ==
    /\ feed \subseteq Names
    /\ revision \in Nat
    /\ announced \in [Names -> Nat]
    /\ phase \in [Syncers -> Phases]
    /\ listed \in [Syncers -> SUBSET Names]
    /\ source \in [Syncers -> SUBSET Names]
    /\ ending \in [Syncers -> {"eof", "broken", "oversize"}]
    /\ seen \in [Syncers -> SUBSET Names]
    /\ staged \in [Syncers -> SUBSET Names]
    /\ written \in [Syncers -> Nat]
    /\ expired \in [Syncers -> BOOLEAN]
    /\ outcome \in [Syncers -> {"none", "ok", "error", "crashed"}]
    /\ status \in [Syncers -> {"never_synced", "ok", "error"}]

SyncInit ==
    /\ feed = {}
    /\ revision = 0
    /\ announced = [n \in Names |-> 0]
    /\ phase = [s \in Syncers |-> "idle"]
    /\ listed = [s \in Syncers |-> {}]
    /\ source = [s \in Syncers |-> {}]
    /\ ending = [s \in Syncers |-> "eof"]
    /\ seen = [s \in Syncers |-> {}]
    /\ staged = [s \in Syncers |-> {}]
    /\ written = [s \in Syncers |-> 0]
    /\ expired = [s \in Syncers |-> FALSE]
    /\ outcome = [s \in Syncers |-> "none"]
    /\ status = [s \in Syncers |-> "never_synced"]

-----------------------------------------------------------------------------
(* Helpers *)

\* A command of run s comes back with an error and has had no effect.
Rejected(s) == expired[s] \/ "redis" \in Faults

\* A command of run s comes back with an error although Redis executed it.
ReplyLost(s) == ~expired[s] /\ "lostReply" \in Faults

Goto(s, p) == phase' = [phase EXCEPT ![s] = p]

\* Sync returns (or its process dies) and its local variables are gone.
Return(s, how) ==
    /\ Goto(s, "idle")
    /\ outcome' = [outcome EXCEPT ![s] = how]
    /\ listed' = [listed EXCEPT ![s] = {}]
    /\ source' = [source EXCEPT ![s] = {}]
    /\ ending' = [ending EXCEPT ![s] = "eof"]
    /\ seen' = [seen EXCEPT ![s] = {}]
    /\ written' = [written EXCEPT ![s] = 0]
    /\ expired' = [expired EXCEPT ![s] = FALSE]

\* The feed set becomes S; a name that leaves it is no longer announced.
FeedBecomes(S) ==
    /\ feed' = S
    /\ announced' = [n \in Names |-> IF n \in S THEN announced[n] ELSE 0]
    /\ UNCHANGED revision

\* INCR, executed k times: names in the feed are announced from now on.
Bump(k) ==
    /\ revision' = revision + k
    /\ announced' = [n \in Names |-> IF n \in feed /\ announced[n] = 0
                                     THEN revision + k ELSE announced[n]]
    /\ UNCHANGED feed

\* Mutant: Replace runs write straight to the live feed.
AddToFeed(s, B) == FeedBecomes(feed \cup B) /\ UNCHANGED staged

\* SADD of a batch to the run's target key.
AddToTarget(s, B) ==
    IF s \in Replacing
    THEN /\ staged' = [staged EXCEPT ![s] = @ \cup B]
         /\ UNCHANGED redisVars
    ELSE /\ FeedBecomes(feed \cup B)
         /\ UNCHANGED staged

Target(s) == IF s \in Replacing THEN staged[s] ELSE feed

\* ParseEach will return nil.  The CSV parser does so even when the source is cut
\* at the size limit, as it skips the reader's errors.
ParsesToEnd(s) == ending[s] = "eof" \/ (ending[s] = "oversize" /\ s \in CsvSources)

Unread(s) == source[s] \ seen[s]

\* The batches flush may be called with: full ones, or what is left once ParseEach
\* has returned nil.
Batches(s) == {B \in SUBSET Unread(s) :
                 /\ B # {}
                 /\ \/ Cardinality(B) = BatchSize
                    \/ B = Unread(s) /\ Cardinality(B) < BatchSize /\ ParsesToEnd(s)}

\* cacheInvalidationMinWrites
InvalidationMinWrites == IF MinWrites = 0 THEN 1 ELSE MinWrites

-----------------------------------------------------------------------------
(* Sync, command by command *)

\* OpenSourceWithin succeeds; a fresh staging key and fresh counters.
Open(s) ==
    /\ phase[s] = "idle"
    /\ revision < MaxRevision
    /\ \E L \in SUBSET Names, how \in {"eof", "broken", "oversize"} :
         /\ listed' = [listed EXCEPT ![s] = L]
         /\ ending' = [ending EXCEPT ![s] = how]
         /\ \/ how = "eof" /\ source' = [source EXCEPT ![s] = L]
            \/ /\ how = "broken" /\ "source" \in Faults
               /\ \E D \in SUBSET L : source' = [source EXCEPT ![s] = D]
            \/ /\ how = "oversize" /\ "oversize" \in Faults
               /\ \E D \in (SUBSET L) \ {L} : source' = [source EXCEPT ![s] = D]
    /\ staged' = [staged EXCEPT ![s] = {}]
    /\ Goto(s, "reading")
    /\ UNCHANGED <<redisVars, seen, written, expired, outcome, status>>

\* The source cannot be opened at all.
OpenFails(s) ==
    /\ phase[s] = "idle"
    /\ "source" \in Faults
    /\ Goto(s, "failing")
    /\ UNCHANGED <<redisVars, readerVars, runVars, expired, outcome, status>>

\* flush succeeds.  A client-side retry of an executed SADD reports no additions.
FlushBatch(s) ==
    /\ phase[s] = "reading"
    /\ ~expired[s]
    /\ \E B \in Batches(s) :
         /\ AddToTarget(s, B)
         /\ seen' = [seen EXCEPT ![s] = @ \cup B]
         /\ \/ written' = [written EXCEPT ![s] = @ + Cardinality(B \ Target(s))]
            \/ "retry" \in Faults /\ UNCHANGED written
    /\ UNCHANGED <<phase, readerVars, expired, outcome, status>>

\* flush returns an error and ParseEach stops.
FlushFails(s) ==
    /\ phase[s] = "reading"
    /\ \/ Rejected(s) /\ Batches(s) # {} /\ UNCHANGED <<redisVars, staged>>
       \/ ReplyLost(s) /\ \E B \in Batches(s) : AddToTarget(s, B)
    /\ Goto(s, "discarding")
    /\ UNCHANGED <<readerVars, seen, written, expired, outcome, status>>

\* Mutant: every parser skips the reader's errors.
EndDespiteError(s) ==
    /\ phase[s] = "reading"
    /\ Unread(s) = {}
    /\ Goto(s, IF s \in Replacing THEN "publishing" ELSE "announcing")
    /\ UNCHANGED <<redisVars, readerVars, runVars, expired, outcome, status>>

\* ParseEach has returned nil and the last batch is flushed.
EndOfSource(s) ==
    /\ phase[s] = "reading"
    /\ Unread(s) = {}
    /\ ParsesToEnd(s)
    /\ Goto(s, IF s \in Replacing THEN "publishing" ELSE "announcing")
    /\ UNCHANGED <<redisVars, readerVars, runVars, expired, outcome, status>>

\* Mutant: parseTextStream returns only the size limit's error.
SizeErrorOnly(s) ==
    /\ phase[s] = "reading"
    /\ Cardinality(Unread(s)) < BatchSize
    /\ ending[s] = "oversize"
    /\ Goto(s, "discarding")
    /\ UNCHANGED <<redisVars, readerVars, runVars, expired, outcome, status>>

\* The reader fails and parseTextStream returns its error; the batch begun is
\* dropped.  parseCSVStream counts an invalid row and reads again: no action of a
\* CSV run leaves "reading" here.
SourceError(s) ==
    /\ phase[s] = "reading"
    /\ s \notin CsvSources
    /\ Cardinality(Unread(s)) < BatchSize
    /\ ending[s] # "eof"
    /\ Goto(s, "discarding")
    /\ UNCHANGED <<redisVars, readerVars, runVars, expired, outcome, status>>

\* RENAME of the staging key, or DEL of the feed when nothing was valid.
Publish(s) ==
    /\ phase[s] = "publishing"
    /\ ~expired[s]
    /\ FeedBecomes(staged[s])
    /\ staged' = [staged EXCEPT ![s] = {}]
    /\ Goto(s, "announcing")
    /\ UNCHANGED <<readerVars, seen, written, expired, outcome, status>>

PublishFails(s) ==
    /\ phase[s] = "publishing"
    /\ \/ Rejected(s) /\ UNCHANGED <<redisVars, staged>>
       \/ /\ ReplyLost(s)
          /\ FeedBecomes(staged[s])
          /\ staged' = [staged EXCEPT ![s] = {}]
    /\ Goto(s, "discarding")
    /\ UNCHANGED <<readerVars, seen, written, expired, outcome, status>>

\* Mutant: an off-by-one in the threshold.
InvalidateAbove(s) == written[s] > InvalidationMinWrites \/ s \in Replacing

MustInvalidate(s) == written[s] >= InvalidationMinWrites \/ s \in Replacing

\* INCR of the revision key, or only a read of it when too little was written.
Announce(s) ==
    /\ phase[s] = "announcing"
    /\ \/ /\ MustInvalidate(s)
          /\ ~expired[s]
          /\ Bump(1) \/ ("retry" \in Faults /\ Bump(2))
       \/ ~MustInvalidate(s) /\ UNCHANGED redisVars
    /\ Goto(s, "recording")
    /\ UNCHANGED <<readerVars, runVars, expired, outcome, status>>

AnnounceFails(s) ==
    /\ phase[s] = "announcing"
    /\ MustInvalidate(s)
    /\ \/ Rejected(s) /\ UNCHANGED redisVars
       \/ ReplyLost(s) /\ Bump(1)
    /\ Goto(s, "failing")
    /\ UNCHANGED <<readerVars, runVars, expired, outcome, status>>

\* recordSyncSuccess
RecordSuccess(s) ==
    /\ phase[s] = "recording"
    /\ ~expired[s]
    /\ status' = [status EXCEPT ![s] = "ok"]
    /\ Return(s, "ok")
    /\ UNCHANGED <<redisVars, staged>>

RecordSuccessFails(s) ==
    /\ phase[s] = "recording"
    /\ \/ Rejected(s) /\ UNCHANGED status
       \/ ReplyLost(s) /\ status' = [status EXCEPT ![s] = "ok"]
    /\ Goto(s, "failing")
    /\ UNCHANGED <<redisVars, readerVars, runVars, expired, outcome>>

\* Mutant: a failed run forgets its staging key.
KeepStaging(s) ==
    /\ phase[s] = "discarding"
    /\ Goto(s, "failing")
    /\ UNCHANGED <<redisVars, readerVars, runVars, expired, outcome, status>>

\* DEL of the staging key, its error ignored.
Discard(s) ==
    /\ phase[s] = "discarding"
    /\ \/ ~expired[s] /\ staged' = [staged EXCEPT ![s] = {}]
       \/ Rejected(s) /\ UNCHANGED staged
    /\ Goto(s, "failing")
    /\ UNCHANGED <<redisVars, readerVars, seen, written, expired, outcome, status>>

\* Mutant: the failure is returned and not recorded.
FailQuietly(s) ==
    /\ phase[s] = "failing"
    /\ Return(s, "error")
    /\ UNCHANGED <<redisVars, staged, status>>

\* recordSyncFailure, with the run's own context; Sync returns the error.
Fail(s) ==
    /\ phase[s] = "failing"
    /\ \/ ~expired[s] /\ status' = [status EXCEPT ![s] = "error"]
       \/ Rejected(s) /\ UNCHANGED status
    /\ Return(s, "error")
    /\ UNCHANGED <<redisVars, staged>>

-----------------------------------------------------------------------------
(* The environment *)

\* The deadline of SyncOptions.Timeout passes; the response body, opened with
\* the same context, then delivers at most what is already buffered.
Expire(s) ==
    /\ "timeout" \in Faults
    /\ phase[s] # "idle" /\ ~expired[s]
    /\ expired' = [expired EXCEPT ![s] = TRUE]
    /\ \/ UNCHANGED <<source, ending>>
       \/ /\ phase[s] = "reading"
          /\ \E D \in SUBSET Unread(s) :
                source' = [source EXCEPT ![s] = seen[s] \cup D]
          /\ ending' = [ending EXCEPT ![s] = "broken"]
    /\ UNCHANGED <<redisVars, phase, listed, runVars, outcome, status>>

\* The process dies in the middle of a run and is started again.
Crash(s) ==
    /\ "crash" \in Faults
    /\ phase[s] # "idle"
    /\ Return(s, "crashed")
    /\ UNCHANGED <<redisVars, staged, status>>

\* Redis runs with maxmemory-policy allkeys-lru and may evict either key.
EvictFeed ==
    /\ "evictFeed" \in Faults
    /\ FeedBecomes({})
    /\ UNCHANGED <<phase, readerVars, runVars, expired, outcome, status>>

EvictRevision ==
    /\ "evictRevision" \in Faults
    /\ revision' = 0
    /\ announced' = [n \in Names |-> 0]
    /\ UNCHANGED <<feed, phase, readerVars, runVars, expired, outcome, status>>

\* The steps the program itself takes once a run has begun.
Progress(s) ==
    \/ FlushBatch(s) \/ FlushFails(s) \/ EndOfSource(s) \/ SourceError(s)
    \/ Publish(s) \/ PublishFails(s) \/ Announce(s) \/ AnnounceFails(s)
    \/ RecordSuccess(s) \/ RecordSuccessFails(s) \/ Discard(s) \/ Fail(s)

SyncNext ==
    \/ \E s \in Syncers : \/ Open(s) \/ OpenFails(s) \/ Progress(s)
                          \/ Expire(s) \/ Crash(s)
    \/ EvictFeed
    \/ EvictRevision

SyncSpec == SyncInit /\ [][SyncNext]_syncVars

FairSyncSpec == SyncSpec /\ \A s \in Syncers : WF_syncVars(Progress(s))
-----------------------------------------------------------------------------
(* Properties *)

\* Only listed names are announced, by a revision the counter has reached.
AnnouncedOK ==
    \A n \in Names : announced[n] <= revision /\ (announced[n] # 0 => n \in feed)

\* When every source's last run returned nil and none is in flight, every name
\* in the feed has been announced by a revision bump, so no verdict computed
\* before it was added is still accepted (sync.go:189).  It holds for Replace
\* runs under every failure of Redis, and for additive runs only while no
\* command fails: a bump that fails is not made up for by the retry, whose
\* SADDs report nothing new.  After an eviction of the counter it says nothing
\* until a run has created it again.
QuietMeansAnnounced ==
    /\ \A s \in Syncers : phase[s] = "idle" /\ outcome[s] = "ok"
    /\ revision # 0 \/ "evictRevision" \notin Faults
    => \A n \in feed : announced[n] # 0

\* A run that has got as far as reporting success has read its whole source: a
\* source beyond the size limit is an error (sync.go:298), never a shorter feed.
OkMeansWholeSource ==
    \A s \in Syncers : phase[s] = "recording" => seen[s] = listed[s]

\* The stored status of a source tells how its last run ended (sync.go:83-88,
\* 202): an operator who reads "ok" is not looking at a failed run.  Needs a
\* context that has not expired and a Redis that answers.
StatusTellsOutcome ==
    \A s \in Syncers :
        phase[s] = "idle" /\ outcome[s] \in {"ok", "error"} => status[s] = outcome[s]

\* A run that has ended leaves no staging key behind (sync.go:155, 162, 175).
NoOrphanStaging ==
    \A s \in Syncers : phase[s] = "idle" => staged[s] = {}

\* Every run of Sync ends, whatever fails: feed-syncd's loop and the agent's
\* scheduler wait for it (feed-syncd/main.go:101-108, agent/engine.go:237).
RunsEnd == \A s \in Syncers : (phase[s] # "idle") ~> (phase[s] = "idle")

\* What readers may observe of Replace runs: see FeedPublication.
Publication == INSTANCE FeedPublication WITH
    Runs <- Syncers,
    snapshot <- listed,
    stage <- [s \in Syncers |->
        CASE phase[s] \in {"reading", "publishing"} -> "loading"
          [] phase[s] = "announcing" -> "published"
          [] phase[s] = "recording" -> "announced"
          [] phase[s] \in {"discarding", "failing"} -> "failed"
          [] OTHER -> "idle"]
PublicationSpec == Publication!Spec
=============================================================================
