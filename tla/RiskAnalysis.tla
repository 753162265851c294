----------------------------- MODULE RiskAnalysis -----------------------------
(***************************************************************************)
(* Service.analyze (internal/risk/service.go) run by concurrent requests   *)
(* of core-api and dns-resolver against the Redis they share with the feed *)
(* writers of FeedSync: the feed revision is read first, then the cached   *)
(* verdict, then the feed candidates one SISMEMBER at a time, and the new  *)
(* verdict is stored under the revision read at the start.  The agent's    *)
(* osint-audit task (internal/agent/osint.go) adds names to the same feed. *)
(***************************************************************************)
EXTENDS FeedSync, Sequences

CONSTANTS
    Domains,      \* normalized domains that are asked for
    Requests,     \* concurrent calls of analyze
    Candidates,   \* threatFeedCandidates: a domain and its parents, nearest first
    Assessments,  \* the verdicts analyzer, enrichment and AI may reach for a domain
    Warned,       \* domains some OSINT source may publish a warning about
    Nothing       \* osint-audit is between two promotions

Verdicts == {"SAFE", "SUSPICIOUS", "MALICIOUS"}

ASSUME RiskAssumption ==
    /\ Domains # {} /\ Domains \subseteq Names
    /\ Candidates \in [Domains -> Seq(Names)]
    /\ \A d \in Domains : Len(Candidates[d]) > 0
    /\ Assessments \in [Domains -> (SUBSET Verdicts) \ {{}}]
    /\ Warned \subseteq Domains
    /\ Nothing \notin Domains

VARIABLES
    cache,      \* safe-road:analysis:<domain>, an Entry or NoEntry
    pc,         \* control state of each request
    domain,     \* the domain it analyses
    started,    \* history: the feed revision when the request began
    rev,        \* currentRevision as the request read it, 0 for ""
    probe,      \* index of the candidate to be looked up next
    hit,        \* the verdict came from the cache
    verdict,    \* the verdict so far
    promoting   \* the domain osint-audit has added and not yet invalidated

requestVars == <<pc, domain, started, rev, probe, hit, verdict>>
riskVars == <<cache, requestVars, promoting>>
vars == <<syncVars, riskVars>>

Entry == [verdict : Verdicts, rev : Nat]
NoEntry == [verdict |-> "NONE", rev |-> 0]

RequestStates == {"idle", "revision", "cache", "feed", "assess", "osint",
                  "store", "done"}

RiskTypeOK ==
    /\ cache \in [Domains -> Entry \cup {NoEntry}]
    /\ pc \in [Requests -> RequestStates]
    /\ domain \in [Requests -> Domains]
    /\ started \in [Requests -> Nat]
    /\ rev \in [Requests -> Nat]
    /\ probe \in [Requests -> Nat]
    /\ hit \in [Requests -> BOOLEAN]
    /\ verdict \in [Requests -> Verdicts]
    /\ promoting \in Domains \cup {Nothing}

TypeOK == SyncTypeOK /\ RiskTypeOK

Init ==
    /\ SyncInit
    /\ cache = [d \in Domains |-> NoEntry]
    /\ pc = [r \in Requests |-> "idle"]
    /\ domain \in [Requests -> {CHOOSE d \in Domains : TRUE}]
    /\ started = [r \in Requests |-> 0]
    /\ rev = [r \in Requests |-> 0]
    /\ probe = [r \in Requests |-> 1]
    /\ hit = [r \in Requests |-> FALSE]
    /\ verdict = [r \in Requests |-> "SAFE"]
    /\ promoting = Nothing

-----------------------------------------------------------------------------
(* Helpers *)

Move(r, to) == pc' = [pc EXCEPT ![r] = to]

\* Mutant: entries are accepted whatever their revision.
AcceptsStale(r) == cache[domain[r]] # NoEntry

\* GetJSON found an entry that is accepted: computed under the same revision,
\* or the request knows of no revision at all.
Accepts(r) ==
    LET entry == cache[domain[r]]
    IN  entry # NoEntry /\ (rev[r] = 0 \/ entry.rev = rev[r])

\* Mutant: the revision is read again when the verdict is stored.
PutAtCurrent(r, v) ==
    cache' = [cache EXCEPT ![domain[r]] = [verdict |-> v, rev |-> revision]]

\* SetJSON of the request's verdict under the revision it read.
Put(r, v) == cache' = [cache EXCEPT ![domain[r]] = [verdict |-> v, rev |-> rev[r]]]

-----------------------------------------------------------------------------
(* analyze *)

Begin(r) ==
    /\ pc[r] = "idle"
    /\ \E d \in Domains : domain' = [domain EXCEPT ![r] = d]
    /\ started' = [started EXCEPT ![r] = revision]
    /\ Move(r, "revision")
    /\ UNCHANGED <<syncVars, cache, rev, probe, hit, verdict, promoting>>

\* currentFeedRevision: an error reads like a missing key.
ReadRevision(r) ==
    /\ pc[r] = "revision"
    /\ \/ rev' = [rev EXCEPT ![r] = revision]
       \/ "readRevision" \in Faults /\ rev' = [rev EXCEPT ![r] = 0]
    /\ Move(r, "cache")
    /\ UNCHANGED <<syncVars, cache, domain, started, probe, hit, verdict, promoting>>

CacheHit(r) ==
    /\ pc[r] = "cache"
    /\ Accepts(r)
    /\ verdict' = [verdict EXCEPT ![r] = cache[domain[r]].verdict]
    /\ hit' = [hit EXCEPT ![r] = TRUE]
    /\ Move(r, "osint")
    /\ UNCHANGED <<syncVars, cache, domain, started, rev, probe, promoting>>

CacheMiss(r) ==
    /\ pc[r] = "cache"
    /\ ~Accepts(r) \/ "readCache" \in Faults
    /\ probe' = [probe EXCEPT ![r] = 1]
    /\ Move(r, "feed")
    /\ UNCHANGED <<syncVars, cache, domain, started, rev, hit, verdict, promoting>>

\* One SISMEMBER of matchAnyThreatFeedCandidate.
ProbeFeed(r) ==
    /\ pc[r] = "feed"
    /\ LET names == Candidates[domain[r]]
       IN  \/ /\ names[probe[r]] \in feed
              /\ verdict' = [verdict EXCEPT ![r] = "MALICIOUS"]
              /\ Move(r, "osint")
              /\ UNCHANGED probe
           \/ /\ names[probe[r]] \notin feed
              /\ probe[r] < Len(names)
              /\ probe' = [probe EXCEPT ![r] = @ + 1]
              /\ UNCHANGED <<pc, verdict>>
           \/ /\ names[probe[r]] \notin feed
              /\ probe[r] = Len(names)
              /\ Move(r, "assess")
              /\ UNCHANGED <<probe, verdict>>
    /\ UNCHANGED <<syncVars, cache, domain, started, rev, hit, promoting>>

\* feedResult drops the error of a failed lookup: the request goes on as if no
\* candidate were listed.
ProbeFails(r) ==
    /\ pc[r] = "feed"
    /\ "readFeed" \in Faults
    /\ Move(r, "assess")
    /\ UNCHANGED <<syncVars, cache, domain, started, rev, probe, hit, verdict, promoting>>

\* analyzer.Analyze, enrichSuspicious and refineWithAI.
Assess(r) ==
    /\ pc[r] = "assess"
    /\ \E v \in Assessments[domain[r]] : verdict' = [verdict EXCEPT ![r] = v]
    /\ Move(r, "osint")
    /\ UNCHANGED <<syncVars, cache, domain, started, rev, probe, hit, promoting>>

AfterOsint(r) == Move(r, IF hit[r] THEN "done" ELSE "store")

\* lookupOSINT reports nothing that blocks.
NoWarning(r) ==
    /\ pc[r] = "osint"
    /\ AfterOsint(r)
    /\ UNCHANGED <<syncVars, cache, domain, started, rev, probe, hit, verdict, promoting>>

\* applyOSINT: escalate, and rewrite the cached entry if verdict or score change.
Warning(r) ==
    /\ pc[r] = "osint"
    /\ domain[r] \in Warned
    /\ verdict' = [verdict EXCEPT ![r] = "MALICIOUS"]
    /\ \/ Put(r, "MALICIOUS")
       \/ /\ verdict[r] = "MALICIOUS" \/ "writeCache" \in Faults
          /\ UNCHANGED cache
    /\ AfterOsint(r)
    /\ UNCHANGED <<syncVars, domain, started, rev, probe, hit, promoting>>

Store(r) ==
    /\ pc[r] = "store"
    /\ \/ Put(r, verdict[r])
       \/ "writeCache" \in Faults /\ UNCHANGED cache
    /\ Move(r, "done")
    /\ UNCHANGED <<syncVars, domain, started, rev, probe, hit, verdict, promoting>>

Respond(r) ==
    /\ pc[r] = "done"
    /\ Move(r, "idle")
    /\ started' = [started EXCEPT ![r] = 0]
    /\ rev' = [rev EXCEPT ![r] = 0]
    /\ probe' = [probe EXCEPT ![r] = 1]
    /\ hit' = [hit EXCEPT ![r] = FALSE]
    /\ verdict' = [verdict EXCEPT ![r] = "SAFE"]
    /\ UNCHANGED <<syncVars, cache, domain, promoting>>

-----------------------------------------------------------------------------
(* osint-audit, and the expiry of cached verdicts *)

\* SADD of a warned domain to the feed, with no revision bump.
PromoteAdd ==
    /\ promoting = Nothing
    /\ \E d \in Warned : FeedBecomes(feed \cup {d}) /\ promoting' = d
    /\ UNCHANGED <<phase, readerVars, runVars, expired, outcome, status, cache,
                   requestVars>>

\* DEL of the domain's own cached verdict, its error ignored.
PromoteInvalidate ==
    /\ promoting # Nothing
    /\ \/ cache' = [cache EXCEPT ![promoting] = NoEntry]
       \/ "writeCache" \in Faults /\ UNCHANGED cache
    /\ promoting' = Nothing
    /\ UNCHANGED <<syncVars, requestVars>>

\* Mutant: only MALICIOUS verdicts are stored with a TTL.
ExpireMalicious(d) ==
    /\ cache[d].verdict = "MALICIOUS"
    /\ cache' = [cache EXCEPT ![d] = NoEntry]
    /\ UNCHANGED <<syncVars, requestVars, promoting>>

\* The TTL of ttlFor has passed, or Redis evicted the entry.
ExpireEntry(d) ==
    /\ cache[d] # NoEntry
    /\ cache' = [cache EXCEPT ![d] = NoEntry]
    /\ UNCHANGED <<syncVars, requestVars, promoting>>

Analyze(r) ==
    \/ ReadRevision(r) \/ CacheHit(r) \/ CacheMiss(r) \/ ProbeFeed(r)
    \/ ProbeFails(r) \/ Assess(r) \/ NoWarning(r) \/ Warning(r) \/ Store(r)
    \/ Respond(r)

RiskNext ==
    \/ \E r \in Requests : Begin(r) \/ Analyze(r)
    \/ PromoteAdd
    \/ PromoteInvalidate
    \/ \E d \in Domains : ExpireEntry(d)

Next == (SyncNext /\ UNCHANGED riskVars) \/ RiskNext

Spec == Init /\ [][Next]_vars

\* A request that has begun runs on, and every stored verdict has a TTL.
FairSpec ==
    /\ Spec
    /\ \A r \in Requests : WF_vars(Analyze(r))
    /\ \A d \in Domains : WF_vars(ExpireEntry(d))

-----------------------------------------------------------------------------
(* Properties *)

Matching(d) == {Candidates[d][i] : i \in 1..Len(Candidates[d])}

\* A cached verdict is never laxer than the feed it is filed under: when a name
\* that matches the domain had been announced by the entry's revision and has
\* been listed ever since, the entry says MALICIOUS.  Relies on the revision
\* being read before the feed (service.go:469, 503) and bumped after it is
\* written (sync.go:166-190), and on no feed lookup failing.
CacheSound ==
    \A d \in Domains : cache[d] # NoEntry =>
        \A n \in Matching(d) :
            announced[n] # 0 /\ announced[n] <= cache[d].rev
                => cache[d].verdict = "MALICIOUS"

\* What a caller of analyze is told: a domain whose match in the feed was
\* announced before the request began, and is still listed, is MALICIOUS, from
\* the cache or from the feed, whatever syncs and other requests do meanwhile;
\* unless the request could not read the revision (service.go:472).
ServedSound ==
    \A r \in Requests : pc[r] = "done" /\ rev[r] # 0 =>
        \A n \in Matching(domain[r]) :
            announced[n] # 0 /\ announced[n] <= started[r]
                => verdict[r] = "MALICIOUS"

\* A name that reaches the feed without any bump (osint-audit, agent/osint.go:80),
\* or was missed by a failed lookup (service.go:539), still takes effect: once it
\* stays listed and lookups stop failing, laxer cached verdicts of matching
\* domains eventually expire and are not written again.
ListedTakesEffect ==
    \A d \in Domains : \A n \in Matching(d) :
        /\ <>[](n \in feed)
        /\ <>[][~\E r \in Requests : ProbeFails(r)]_vars
        => <>[](cache[d].verdict \in {"NONE", "MALICIOUS"})
=============================================================================
