# Safe Road in TLA+

Safe Road (module `safe-road`, Go) answers one question, "may this domain be
visited?", for an HTTP API (`cmd/core-api`) and for DNS clients
(`cmd/dns-resolver`).  Its verdicts come from a threat feed kept in Redis, a
lexical analyzer, TLS/WHOIS/AI/OSINT enrichment, administrators' overrides, a
whitelist, and a cache of earlier verdicts.  This directory holds TLA+ models of
the parts whose correctness depends on interleaving, failure and ordering, the
TLC runs that check them and the TLAPS proofs about them.

## 1. Inventory

| part | source | state it keeps | operations | what is hard | what makes it correct |
|---|---|---|---|---|---|
| feed writers | `internal/feed`, `cmd/feed-syncd`, `cmd/feed-sync`, `internal/agent/feedsync.go` | Redis: feed set, staging sets, revision counter, status per source | `Sync` (Replace or additive) | each Redis command can fail, be executed with its reply lost, be retried by the client, or hit the run's deadline; two writers share one set; crashes; an endless or truncated source | whole snapshots only; the revision is raised after, and for, every change; statuses tell the truth; runs end |
| risk analysis | `internal/risk/service.go` | Redis: one cached verdict per domain, tagged with a feed revision | `analyze` | concurrent requests of two processes race syncs and each other; failed lookups fail open | no cached or served verdict is laxer than the announced feed; listed names take effect |
| client policy | `internal/risk/service.go` (`Policy`), `internal/store/sqlite.go` (groups, mappings, overrides) | SQLite tables, an in-memory CIDR list | policy lookups, admin CRUD | the CIDR list is a copy that CRUD must refresh, in two processes; lookups are series of queries | no rule in force is passed over; answers and list follow the tables |
| whitelist | `internal/risk/whitelist.go`, `bloom.go`, `internal/agent/whitelist_update.go`, `internal/store/sqlite.go` | SQLite table, Bloom filter in memory | load, import, weekly update, `IsAllowed` | filter and table are updated separately, in two processes, under lookups that hold a lock over their queries | only listed domains pass, and an update denies none of them on the way |
| agent engine | `internal/agent/engine.go` | task table, trigger channel of 8 | register, start, tick, trigger, stop | a full channel; stop while tasks run; select picks at random | accepted triggers run; stop returns |
| agent tasks | `internal/agent/{audit,alert,osint,whitelist_update}.go` | high-water marks `lastAudit`, `lastAlert`; agent event log; overrides | one run each | check-then-act against administrators; marks that move past what was not handled | administrators win; events are reported |
| telemetry store | `internal/store/sqlite.go` | channel of 1000, `analysis_log` | record, write, clean up, close | drop when full, drain on close | what was accepted before close is written, once |
| rate limiter | `internal/ratelimit` | bucket per client | allow, retry hint, cleanup | removal of idle buckets against refill; two lock sections per rejected request | never more than an ideal token bucket; the retry hint suffices |
| DNS front end | `cmd/dns-resolver/main.go` | requests in flight, throttled clients | DoH, DoT and `/v1/policy` handlers, forwarding, shutdown | contexts that end under a handler, an upstream that never replies, panics, draining two servers under one deadline before the store closes | blocked names are answered here and never sent upstream; queries are answered; nothing is sent to a closed store |
| HTTP front end | `cmd/core-api`, `internal/serve`, `internal/auth` | block-page rate state | handlers, recovery, shutdown | panics, partial failure of CRUD | |
| OSINT service | `internal/osint` | Redis cache of reports | lookup, cached, apply | a stale report after an error | block only on corroborated warnings |
| lexical analysis | `internal/analysis`, `internal/config/analysis.go` | weights, loaded once | `Analyze`, `CheckBrandSpoofing`, `LoadAnalysisConfig` | distances kept in one column; the first brand of a list decides; weights and thresholds of two packages; a partial configuration | likenesses are found for the right brand and score as much as they should |
| AI, TLS, WHOIS clients | `internal/ai`, `internal/tlsinspect`, `internal/whois` | none | network calls | time limits | fail open |
| utilities | `internal/{config,logjson,correlation,observability,safefile}`, `cmd/load-test` | counters | | | |

How they interact.  Both servers (`core-api`, `dns-resolver`) hold a
`risk.Service` of their own over one Redis and one SQLite file, so the cache,
the feed and the revision counter are shared by processes, while Bloom filter,
CIDR list and rate limiter exist once per process.  `feed-syncd` writes the feed
from outside, the agent inside `core-api` writes it too (feedsync, osint-audit).
The agent's tasks run one at a time in the engine's goroutine; audit places
overrides that `risk.Service` obeys and events that alert sends.  Handlers only
ever enqueue telemetry, and one goroutine writes it; the audit task reads what
that goroutine has written.

## 2. Plan

Order: what decides a verdict first, then what limits, records and schedules.

1. `FeedSync`, with `FeedPublication` as its abstract specification - done, proved.
2. `RiskAnalysis` (EXTENDS `FeedSync`: requests, cache and writers together) - done, proved.
3. `RateLimiter`, with `TokenBucket` as its abstract specification - done, proved.
4. `TelemetryStore`, and `DnsFrontEnd` on top of it, whose handlers are the store's
   requests - done, proved.
5. `AgentEngine`, `AuditTask`, `AlertTask` - done, proved.
6. `ClientPolicy`: groups, mappings, overrides, the CIDR list in two processes,
   checked against the decision as a function of the tables - done, proved.
7. `Whitelist`: filter and table in two processes, import, update, lookups - done, proved.
8. `BrandSpoofing` and `Lexical`, pure operators under `AlertTask` (which asks them
   what is critical), against reference definitions - done, proved.
9. Left: what a line of a feed contributes, and the aggregation of source statuses
   (staleness, parser drift); the OSINT cache; authentication and the middleware.
10. Left: compositions of the engine with audit and alert sharing the event log, and
    of `RiskAnalysis` with `Whitelist` and `ClientPolicy` behind one request.
11. Left to prove: what items 9 and 10 will bring.  Of the properties below, those left to
    TLC are beyond the prover; their variants and safety cores are proved (section 6).

## 3. Modules

Conventions: a value that only an observer of the system has is a variable marked
`history`; a definition that differs from the code the way a slip might is marked
`Mutant` and stands before the definition it could replace (it is used by no
specification); every bound on a counter is a constant marked `bound`.

### FeedSync, FeedPublication

`feed.Sync` command by command.  A run of caller `s` goes through `phase[s]`:
`reading` (ParseEach and its flushes, `sync.go:134-165`), `publishing`
(RENAME, or DEL for an empty snapshot), `announcing` (INCR of the revision),
`recording` (the ok status), and on errors `discarding` (DEL of the staging key)
and `failing` (the error status).  `Open` chooses what the source lists and how
its reader ends: at its end, broken in the middle, or beyond the size limit.  A CSV
parser differs from a text parser in one thing, what it does with a reader's
error (`ParsesToEnd`).  Each command may be rejected, or executed with its reply
lost, or executed twice by go-redis' retry; the run's deadline (`Expire`) makes
every later command fail; `Crash` forgets the run's local variables; Redis may
evict either key.  `announced` is a history variable: the first revision that has
covered a name since it was last added.

`FeedPublication` is what Replace runs promise readers: whole snapshots or
nothing, and a bump only for a snapshot that is out; Redis may lose either key
(`LoseFeed`, `LoseRevision`).  `PublicationSpec` maps the phases to its stages.

### RiskAnalysis

`Service.analyze` for concurrent requests, one Redis command per step: revision,
cache, one SISMEMBER per candidate suffix, the assessment (lexical, enrichment
and AI: any verdict of `Assessments`), OSINT escalation, store.  An entry holds
verdict and revision.  osint-audit's SADD without a bump and its DEL of one cached
verdict are `PromoteAdd` and `PromoteInvalidate`; TTLs and evictions are
`ExpireEntry`.  `started` is a history variable.  Scores, reasons and the legacy
cache format (which is never accepted, `service.go:482-487`) are left out.

### RateLimiter, TokenBucket

A bucket's tokens are counted in the ticks it takes to earn them.  `Admit` and
`Refuse` are `Allow`; `Hint` is the later lock section that computes Retry-After;
cleanup reads the clock (`StartCleanup`) before it takes the lock (`Cleanup`).
`Watch` starts an observer's count of one client's admissions, which
`WithinRate` bounds.  `TokenBucket` has no table, no lazy refill and no cleanup.

### TelemetryStore, DnsFrontEnd

`TelemetryStore`: requests that end in a send to a bounded channel or a drop, the
writer with its drain, the cleanup loop, `Close`, and the moment `main` calls it.

`DnsFrontEnd` EXTENDS it with the handlers of `cmd/dns-resolver`: a request is admitted
or throttled, a message read, `Policy` asked (which fails open under a dead context),
a blocked name answered according to the block strategy, any other forwarded under
the same context, and the reply relayed; a handler may panic, which the two servers
treat differently.  `main` waits for the HTTP server, then for the DoT server, under one
deadline, and then closes the store.  A handler's analysis ends with the store's own
action, so a step of this module is one of the store's or leaves the store alone
(theorem `ResolverUsesStore`).

### Whitelist

One table, a Bloom filter per process.  A process imports the file when it starts
(`Start`), core-api's task a download (`Update`, `Download`: any list, an empty one or a
truncated one included); both go on to `Write` (the transaction), `Read` (the query) and
`Swap` (the new filter under the write lock), and each of these may fail or be cut off
by a stop of the process.  A lookup tries a domain and its parents (`Ask`), each in
the filter and then in the table, under the read lock, which a waiting writer holds
back (`Begin`).  The filter is the code's: bits by double hashing, of a size that depends
on the number of domains.  History variables say what the table has held since a
lookup began (`seen`) and what has been listed all the while (`kept`).

### AgentEngine, AuditTask, AlertTask

`AgentEngine` is the scheduler's goroutine between `select`s: a pass over the
tasks in order, the execution of one task, the three ready channels it chooses
from; and `Start`, `Stop`, `Trigger` of other goroutines.  `AuditTask` is one run
after another of `audit.go`, with the queries of `GetOverride` as steps of their
own, against administrators who change overrides at any time and a telemetry
writer that is late.  Timestamps are compared as SQLite compares the strings
(`TextAtLeast`).  `AlertTask` is the window between two alerts: the mark, the
query's bound in whole seconds, its limit, the webhook that gets the whole batch, and
the goroutines that tell further channels of its critical events.  `sent` and `lost`
hold pairs of an event and a channel.

### BrandSpoofing, Lexical

Pure operators.  A domain is the sequence of its labels, a label a string whose letters
outside ASCII stand for Cyrillic homoglyphs.  `EditDistance` keeps one column of the
table, as the code's loops do (`Turn` is one of the outer loop, `Overwrite` one of the
inner, with `lastkey`); the two distances differ in what a letter for another costs
(`EditCosts`, `KeyboardCosts`).  `CheckBrandSpoofing` goes
through the brands in order and returns at the first that decides; `Score` adds what
`Analyze` adds, with percentages for ratios; `LoadAnalysisConfig` gives a file's weights,
with zero for what it leaves out.  What `idna.ToUnicode` makes of a label and which labels
have a high entropy are constants.  The reference for distances
(`DistancesAreLeast`) is the least cost over the ways to edit, by recursion on prefixes.
`AlertTask` extends the two: an event is critical if its domain looks like a
Vietnamese brand, and its three lexical properties range over its `Subjects`.

### ClientPolicy

`Service.Policy`, one query per step: the group by client ID, by address and by the
list of ranges (`AskKey`, `MatchRange`), the group's row (`GetGroup`), the rules of
the group and of everybody from the domain upwards (`AskRule`), whitelist, and what
the group blocks (`Enforce`).  Administrators' handlers change the three tables;
`Load` and `Install` are the two halves of `loadCIDRCache`, the query and the swap
under the lock.  A mapping says a group, a rule an action; a domain is the line of
its parents, and what an assessment reports is a set of traits a group may block
(`StrictMalware`, `StrictPhishing` and the categories).  Requests carry two history
fields: `standing`, the rules in force since the request began, and `quiet`, whether
anything changed or failed since.  `AnalyzeWithOptions` asks the same queries and
leaves out the last step.

## 4. Runs

| run | instance | what it shows |
|---|---|---|
| `replace` | one Replace writer of a text source, three names, batches of two, two revisions, every failure and both evictions | `PublicationSpec` (it implements whole-snapshot publication), `OkMeansWholeSource`, `RunsEnd` |
| `csv_timeout` | one CSV writer and its deadline | `RunsEnd` is violated (section 7) |
| `cache` | two requests for a subdomain, one Replace writer over the subdomain and its parent, osint-audit, failing reads of revision and cache, failing cache writes, eviction of the feed | `CacheSound`, `ServedSound` |
| `takes_effect` | feed-syncd (Replace) and the agent's task (additive, CSV) on one name, failing sources, eviction of the counter, one request with failing feed lookups | `QuietMeansAnnounced` for both modes at once, `StatusTellsOutcome`, `NoOrphanStaging`, `ListedTakesEffect` |
| `rate_limiter` | one client, a burst of two tokens of three ticks each, ten ticks | `WithinRate`, `HintSuffices`, `IdealSpec` |
| `engine` | three tasks, one disabled, a channel of two | `StoppedIsQuiet`, `StatusIsTrue`, `NobodyIsStuck`, `StopEnds`, `QueuedRuns`, `DueRuns` |
| `audit` | a site, a host and a subhost, two sightings, failing store, event log and deadline | `EarlierDecisionsStand`, `ReportsMatchBlocks` |
| `audit_admin` | a site and a host | `AdminsAreRespected` is violated (section 7) |
| `alert` | three events in three seconds, reported from two up, a query of two rows, a webhook and Telegram, every failure; twenty domains, ten brands | `NoEventLost`, `RepeatsAreRecent`, `EventsAreSent`; `DistancesLeast`, `NamesDecide`, `SignsSuffice` |
| `dns` | an HTTP and a DoT request, messages for an allowed, a blocked and an ill-formed name, a buffer of one, failing inserts | `AcceptedIsWritten`, `BlockedNeverResolved`, `NothingLeftBehind`, `NoHandlerWaits`, `EveryQueryAnswered`, `ShutdownEnds` |
| `client_policy` | one client with two keys in one range, a whitelisted domain and its parent, one group beside the default, two administrators, three changes, every failure | `RulesInOrder`, `DecidesByTables`, `ListFollowsTable`, `NewGroupsStartEmpty` |
| `whitelist` | two processes with the file and one reader each, three domains with their real hashes, three imports or updates, every failure | `AllowedWasListed`, `KeptIsAllowed`, `CompletedIsLoaded`, `NoStandstill` |

Type invariants are proved (section 6) and in no run's list.  `NobodyIsStuck` and
`NoHandlerWaits` say that the steps two liveness properties wait for can be taken; they are
checked by themselves because the proofs of those properties start from them.

Why the bounds are enough.  In the feed and cache models nothing depends on
names beyond "is it a candidate of the domain" and "did it fit the batch": two
names give a domain and its parent, three with batches of two give a flush in the
middle and one at the end.  Two revisions give an entry that is older, equal and
newer.  In the rate limiter, ten ticks hold a whole burst, an idle time beyond the
threshold and a refill after it.  Three events exceed both the minimum and the
limit of `alert`, and its seconds give events before, in and after the mark's second.
`AlertTask` names one domain per behaviour, as no event's handling depends on
another's domain; the domains were chosen to reach every return of
`CheckBrandSpoofing` and every sign of `Analyze`, and the reference for distances looks
at the first five letters, which is where TLC can still enumerate it; the proof
(`EditDistanceIsLeast`) is of strings of any length.  In
`client_policy` a database may start with a group, so three changes are enough
to put a rule or a mapping in place, take its group away and make another, and two
handlers are enough for reloads that overlap.  In `dns` a buffer of one is full after the
first request and two requests put one handler in each server.  In `whitelist`, `nhac.vn`
is a false positive of the filter of the other two names, a filter's sizes are those
of one, two and three domains, and three imports let both processes start and an update
follow, or one restart between two updates.

Failures left out on purpose.  `cache` leaves out failed feed lookups, on which the code
fails open, and the counter's eviction; `takes_effect` has both and says what is promised
then.  `takes_effect` leaves out failures of Redis and deadlines, after which the code
promises neither statuses nor clean staging keys.

Runs that may stop: `csv_timeout` and `dns` (the process has exited), `whitelist` (no
process is left and its bound on imports is used up).  All others check deadlock.

## 5. Fairness

- `FairSyncSpec`: a run that has begun takes its next step; nothing forces runs to
  begin or commands to succeed.  Each command has a time limit, so it returns.
- `RiskAnalysis!FairSpec`: a request runs on, and every stored verdict has a TTL
  (`ttlFor`), so it expires.
- `AgentEngine!Fairness`: weak fairness for goroutines; strong fairness for each
  case of the `select`, as Go chooses among ready cases at random and so does not
  pass one over for ever; `Finish`, since tasks work under contexts with deadlines.
  The one task that may not come to an end is a feed sync of a CSV source (section 7).
- `AlertTask!FairSpec`: a task and a notification come to their end, as each works under
  a time limit; strong fairness for `Begin`, as the engine gives the task its turn between
  the others (`DueRuns`) and its query does not fail for ever.
- `DnsFrontEnd!DnsFairSpec`: only the handlers go on, each for itself (`HandlerGoesOn`).
  `EveryQueryAnswered` assumes nothing of the store's goroutines, of SQLite or of the upstream; `ShutdownEnds` names the steps
  of `main` and of the store's goroutines as its hypothesis (`MainGoesOn`) and assumes
  nothing of handlers it does not wait for.
- `Whitelist!FairSpec`: loads, the download (which has a timeout) and lookups go on.  The
  write lock needs no stronger fairness, as it holds new readers back.

## 6. Proofs

TLAPS checks the following for all values of the constants, under the named
assumptions of the modules and those the theorem states.

- `RiskAnalysisProofs`, of the writers alone (`SyncSpec`).  `SyncTypeCorrect`.
  `RunsAnnounce`: `QuietMeansAnnounced`, if all writers replace, whatever fails; beside
  additive writers if `AdditionsSafe`: each SADD that adds is counted, no command fails and
  no text source breaks off, which is as much as `sync.go:189` allows (section 7).  The
  property is not inductive; the invariant `SomeoneOwes` says that as long as some name of
  the feed is not announced, some writer owes a bump: it is in a run that has not got past
  its INCR, or its last run did not succeed, or, being additive, it has seen an addition.
  `WholeSourceOnSuccess`: text parsers (or no oversized source) give `OkMeansWholeSource`,
  by what each phase has read (`SourcesOK`).  `OkIsRecorded`: whatever fails, a run that
  returned nil has stored its success; `StatusIsTold`: the status tells any other outcome
  too while commands are not rejected and no deadline passes (`EndRecorded`);
  `StagingIsDiscarded`: `NoOrphanStaging` if no process dies either.
  `ReplaceImplementsPublication`: the refinement, step by step, evictions and every
  other failure included.  `RunsComeToTheirEnd`: whatever fails, each step of a run leaves
  it fewer to take (`StepsLeft`: the names it has still to read, then the commands of its
  phase and of those after it), and nobody else's step adds to them.
- `RiskAnalysisProofs`, of the writers, the requests and osint-audit together (`Spec`).
  `TypeCorrect`.  `CacheSoundness`, by `CacheInv`: the candidates
  a request has looked up in vain could all be missed at the revision it has read
  (`Missable`: not announced, or announced later), hence a verdict it stores covers
  its domain at that revision, and bumps only raise the revisions names are announced
  by.  `ServedSoundness` adds that a request's revision is at least the one it
  started under.  Both assume that no feed lookup fails and the counter is not evicted.
  `WritersKeepPromises`: what is proved of runs, statuses and staging keys holds beside the
  rest, osint-audit included, which adds to the feed but belongs to no run; so does the
  variant of `RunsComeToTheirEnd`.
  `LaxityDiesOut`: while a name is listed and no lookup fails, bump or no bump, no request
  joins those that can still store a laxer verdict of a matching domain (`Straggles`), and
  nobody but they stores one.  It needs `HitsAreServed`: what a request serves from the cache
  it does not store again.
  `AnalysisOnlyReads` and its corollary `AnnouncedBesideAnalysis`: without osint-audit's
  promotions, which announce nothing (section 7), the whole is a behaviour of the writers.
- `RateLimiterProofs`.  `LimiterTypeCorrect`; `RateIsKept` (invariant: what the window
  has spent plus what the bucket now holds is at most a burst plus the time passed);
  `HintsAreHonest`; `LimiterImplementsIdeal`.  They assume `Full <= Idle`, a burst that is
  earned within the cleanup's threshold, as dropping a bucket must not give tokens away.
- `AgentEngineProofs`.  `EngineTypeCorrect`, `StopLeavesQuiet`, `StatusShowsRunning`, by
  `PhasesAgree`: what `main`, the loop and the closed channel may be at the same time.
  `TurnsAreKept`: a trigger leaves the channel only to run, and a pass comes to the tasks in
  order, once each, leaves out none that is due and gets shorter.  `StopComesToAnEnd`:
  `StopEnds` under the fairness of section 5, from the place the loop is at when `main`
  begins to wait, through the task that runs and the pass it belongs to, to the `select`.
  Triggers and ticks may be chosen there any number of times before the closed channel, each
  beginning another task; weak fairness of `ReturnOnDone` would not do, as it is
  disabled while one runs.
- `AuditTaskProofs`.  `AuditTypeCorrect` and `EarlierDecisionsKept`.  Invariant
  (`SettledBelow`): an earlier decision that a block of the current domain could overrule
  is made at a domain strictly below it, or is one `GetOverride` is still to ask for.  It rests on lemmas
  about the deciding row of a line of parent domains.  `LogTellsBlocks`, by `ReportsOK`:
  what is blocked is logged, has failed to be, or is the one domain whose event comes next.
- `AlertTaskProofs`, of the task.  `AlertTypeCorrect`.  `NoEventFallsBehind`, by `EventInv`: no
  row is of the future, and of what the running query's window holds each row is in the
  batch or counts as lost, so the mark may pass them all.  `RunsTakeUpEverything`, by the
  same invariant: a run that has ended, or a restart, leaves no event waiting (`Waiting`),
  and nothing else takes one from those that wait.  `OnlyRecentRepeats`, by
  `RepeatInv`: what the webhook has had lies at the mark or before it, what a run holds at the
  mark or after it.
- `AlertTaskProofs`, of the lexical analysis.  `EditDistanceIsLeast`: for strings of any
  length and any costs, the column overwritten in place ends in the least cost of an edit.
  `TurnOverwrites` and `ColumnsTurn` say what the column and `lastkey` hold after each
  turn of the two loops, `LeastIsUnique` that the recursion on prefixes has one solution.
  The induction is over sets of numbers (`LeastNatural`, `InductionUpTo`), as the provers
  instantiate no operator.  Hence `DistancesAreRight`, under `LabelsHaveLengths`: the provers
  know nothing of what a string is made of, not even that its length is a number.
  `OwnersAreSpared`: the brand reported is the first whose checks find something and the domain
  is not its own.  `HostsAreReported`: what is reported of a site is reported of every host of
  it, where a site has two labels or more and is not a suffix like `com.vn` (`IsSite`), whose hosts
  are sites of their own.  The proof finds that a host has its site's root, its labels shifted by
  one, and is examined wherever the site was.
  `ReportsAreGrounded`: a label of the domain mentions the name reported, as it is written or
  as it looks, or is within three edits of it.  `NamesAreRight`: `NamesDecide`, by the three,
  for domains and brands of which three things are known, as they are of the run's: that
  strings have lengths (`NamesKnown`); that no domain is a mere suffix
  (`SubjectsAreSites`); and that a name in a label is still there once the label is decoded
  (`NamesShowThrough`), as a brand called `xn` would be found in the Punycode of a label
  that, decoded, mentions it nowhere.
  `SignsAreEnough`, under `NaturalWeights`: no file
  has a negative weight, which `LoadAnalysisConfig` does not check.
- `DnsFrontEndProofs`.  Of the store alone: `TelemetryTypeCorrect` and `CloseLosesNothing`
  (invariant: what was accepted is in the channel, being written, written or disposed of,
  and what is left in the channel after the drain was sent too late).  Of the resolver:
  `ResolverUsesStore`, every behaviour is one of the store's, hence `ResolverLosesNothing`;
  `DnsTypeCorrect`; `BlockedStayHere`, because a request whose verdict was allow for a
  blocked name is one with a dead context (`AllowedIsDead`), which cannot forward;
  `ShutdownIsGraceful`, by `StopsInOrder`: what `main` waits for, and whom it has waited for.
  `QueriesAreAnswered`: `EveryQueryAnswered` under the fairness of handlers alone, stage by
  stage, if no handler waits.
- `WhitelistProofs`.  `WhitelistTypeCorrect`, `FilterIsVerified`, `UpdatesDenyNothing`,
  `UpdateLoads`.  Invariant: a filter is the one built from `source`, hence has no false
  negative of it (`FilterMatches`); of a lookup under way, what is kept is in the table,
  in the filter's source and not yet passed over (`LookupsInStep`); only the updater
  loads while it serves (`EventsInStep`).  `NothingHoldsUp`: a lookup asks for each suffix
  once, a load never goes back, and while it waits for the write lock the lookups that
  hold the lock only become fewer, as no new one gets in.
- `ClientPolicyProofs`.  `PolicyTypeCorrect`.  `RulesKeepOrder`, by `LookupOK`: of the rows
  in force since a request began, none is among those it has asked for in vain, and the
  rows asked for later come later in the order (`AskedFirst`).  `ListKeepsUp`, by `ListOK`: a
  reload is about to begin, or the only one under way has read what is current, or the
  list is current.  `DeletedGroupsStayDeleted`, by `NamesKnown`: whatever names a group names
  one whose id was given out, or was named before it was.  `TablesDecide`, by `QuietOK`: while
  nothing has changed or failed and the process's list is the table's, each step of a request
  has found out what the tables say: no key or row asked for so far is there, the group and
  what it blocks are those in force.

Only model-checked:

- `NobodyIsStuck` and `NoHandlerWaits`.  ENABLED is opaque to the provers, so that
  `StopComesToAnEnd` and `QueriesAreAnswered` have them as hypotheses.
- `RunsEnd`, `ListedTakesEffect`, `QueuedRuns`, `DueRuns`, `EventsAreSent`, `ShutdownEnds`
  and `NoStandstill`.  Each needs an induction over a number that no constant fixes once for
  all: names still to read, stragglers, places in the channel, rows, readers.  It is an
  induction over temporal formulas, for which the library's induction
  theorems cannot be used.  What it would go down by is proved, of any state and step:
  `RunsComeToTheirEnd`, `LaxityDiesOut`, `TurnsAreKept`, `RunsTakeUpEverything`,
  `NothingHoldsUp`.  What is left to TLC is that fairness forces these steps; of
  `ShutdownEnds`, all of it.

## 7. Where code and documents differ

Shown by a run:

- `csv_timeout`: `parseCSVStream` goes on after every error but `io.EOF`
  (`parse.go:71-78`), so a reader that keeps failing, as a response body does once its
  context has expired, is read for ever, and the writer's loop with it.
- `audit_admin`: `auditDomain` looks for an override before an enrichment of many
  seconds and does not look again before it blocks (`audit.go:139, 218`), so an
  administrator's decision made meanwhile is overruled.

Met while modelling, without a run of their own:

- A CSV source beyond the size limit is cut at the limit and published as a success,
  since the same loop swallows the reader's "exceeds maximum size" error
  (`sync.go:298`); `OkMeansWholeSource` is checked for text sources only.
- An additive run whose INCR fails has added names that no later run announces: their
  SADDs report nothing new (`sync.go:189`).  `QuietMeansAnnounced` is promised, and
  proved, only of additive writers whose commands do not fail (`AdditionsSafe`).
- "Update last alert time on success" (`alert.go:231`): the mark moves after a failed
  webhook as well, and its events are never sent (`lost` in `AlertTask`).
- "100% accurate negative" (`whitelist.go:177`), "definitely NOT in the set" (`bloom.go:75`)
  and `docs/specs/security-audit/walkthrough.md:74` hold of the set a filter was built from.
  dns-resolver builds its filter once, so it denies what an update of core-api's has
  listed since, until it is restarted.
- Every start imports the file again, over a list that was downloaded (`service.go:143`); if
  there is no such file the load is over before the table is read (`whitelist.go:84`), and
  the filter stays empty.
- A download that is empty, or cut off at the end of a line, replaces the list
  (`whitelist_update.go:167-207`).
- An official site is exempt from its own brand's checks only.  `mbbank.com.vn`,
  `vpbank.com.vn` and `tpbank.com.vn` are an edit apart and so taken for typosquats of
  each other (SUSPICIOUS), while `docs/specs/brand-spoofing-vn/walkthrough.md:338` says
  that all brand checks are skipped for them, and its `implementation_plan.md:49` that
  alternative domains are there to avoid this (`NamesDecide` allows it).
- A site made to look like two brands is reported for the one listed first, and
  `detectVietnamBrandSpoof` asks that one only, so a critical alert may be missing
  (`alert.go:561`, `brand.go:327`).
- A configuration file sets every field it leaves out to zero, but for the keywords
  (`config/analysis.go:69`); with a brand weight below 10 the penalty for brands in
  subdomains turns into a bonus (`brand.go:414`).
- osint-audit adds a name without a bump and forgets only that name's own verdict
  (`osint.go:80`), so cached verdicts of its subdomains stand until they expire.
- `docs/specs/dot-support/walkthrough.md:19` says both servers are stopped "đồng thời"
  (at the same time); the code stops the DoT server after the HTTP server, with what is
  left of the deadline (`dns-resolver/main.go:263`).
- An upstream reply that cannot be decoded is relayed over DoH and turned into SERVFAIL
  over DoT; the sinkhole answers AAAA queries with an IPv4 block page as a v4-mapped
  address.
- "falls back to 'default'" (`sqlite.go:1284`): only a client without any mapping gets the
  group named default.  One whose mapping, or entry in the list, names a deleted group
  gets settings built into `Policy` (`service.go:286`), whatever the default group says.
- Deleting a group does not reload the list, so its ranges stay in it (`sqlite.go:993`);
  dns-resolver never reloads its list while it runs.
- Two reloads that overlap may install the older list (`sqlite.go:1393-1421`), and an error
  of the reload is ignored after the mapping has changed (`sqlite.go:1154`).
- `PRAGMA foreign_keys=ON` reaches one connection of the pool (`sqlite.go:251`); a deletion on
  another leaves mappings that `ListMappings` does not show and that `UNIQUE` still guards.
- "channel full, trigger will be processed on next tick" (`engine.go:129`): it is not; the
  next tick runs only what is enabled and due.
- The window's bound has no fraction of a second and the rows' times have
  (`sqlite.go:670`), so rows of the bound's own second are not counted.
- Alertable events beyond 100 in one window fall behind the mark unsent (`alert.go:129`).
- When a shutdown's deadline passes, handlers still active put telemetry into a buffer
  nobody reads, although it has room (`dns-resolver/main.go:263`, `sqlite.go:343`).
- A configured rate whose burst takes longer than ten minutes to earn is exceeded: cleanup
  drops the bucket, and it comes back full (`limiter.go:119`).

## 8. Not modelled

Whole parts.  The HTTP front end of core-api: decoding, authentication and rendering
around the components above; its handlers that change state are actions of
`AuditTask`, `ClientPolicy` and `AgentEngine`.  The OSINT service's two-level cache, the lines
of a feed and the status summary: the models take a report, the names a source lists and
a status of three values as given (section 2, item 9).  Clients of remote services (`ai`, `tlsinspect`,
`whois`): one request each, bounded by a timeout, whose result the models take as a
choice.  Configuration, logging, correlation and file checks, and the load test, which
keep no state other parts depend on.

Within modelled parts.  Texts, reasons and the legacy cache format; the wording of alerts
and the SMTP dialogue; `NormalizeDomain`, `ClassifyCategory` and the computation of
entropies; the map the whitelist falls back to without a store, and the parsing of its
lines; pages of status, health and metrics, and the generated certificate; which limiter
and key a request gets; run counters; float rounding in the rate limiter; dry runs of
feed-sync, which touch no shared state; the read queries of the log.
