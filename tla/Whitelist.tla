------------------------------- MODULE Whitelist -------------------------------
(***************************************************************************)
(* The whitelist of internal/risk/whitelist.go: a table in SQLite that     *)
(* core-api and dns-resolver share, and in each process a Bloom filter of  *)
(* it in memory.  A process fills the table from a file when it starts,    *)
(* core-api's update task fills it from a download, and each then rebuilds *)
(* its own filter; the other process keeps the filter it has.  A lookup    *)
(* asks the filter and then the table, for the domain and its parents.     *)
(***************************************************************************)
EXTENDS Naturals, Sequences, FiniteSets

CONSTANTS
    Processes,  \* core-api and dns-resolver
    Updater,    \* the process with the update task
    WithFile,   \* processes whose WhitelistPath is set
    FileList,   \* what the file lists
    Readers,    \* requests that look domains up
    Home,       \* the process each runs in
    Domains,
    Suffixes,   \* a domain and its parents, in the order IsAllowed tries them
    Size,       \* bits of a filter for n domains
    Hashes,     \* hash functions of a filter for n domains
    H1, H2,     \* the halves of a domain's FNV-1a hash
    Failing,    \* what may fail: "query", "load", "write"
    MaxRuns     \* bound: imports of the file and updates

ASSUME WhitelistAssumption ==
    /\ Updater \in Processes /\ WithFile \subseteq Processes
    /\ IsFiniteSet(Domains) /\ FileList \subseteq Domains
    /\ Home \in [Readers -> Processes]
    /\ Suffixes \in [Domains -> Seq(Domains)]
    /\ MaxRuns \in Nat

VARIABLES
    table,      \* whitelist_domains
    filter,     \* each process: its Bloom filter
    serving,    \* processes that answer requests
    loader,     \* each process: "idle", "downloading", "writing", "reading", "locking"
    list,       \* each process: the domains of the file or the download
    loaded,     \* each process: the domains LoadFromDB read
    outcome,    \* the update task's last event: "none", "started", "failed", "completed"
    asking,     \* readers inside IsAllowed, which hold the read lock
    asked,      \* each reader: the domain it asks for
    next,       \* each reader: its position among the suffixes
    answer,     \* each reader: "none", or what IsAllowed returned, "yes" or "no"
    source,     \* history: the domains each process's filter was built from
    writer,     \* history: the process that wrote the table last, as a set
    seen,       \* history: suffixes the table has held since the lookup began
    kept,       \* history: suffixes in the filter and in every list of the table since then
    runs        \* bound: imports and updates so far

lookupVars == <<asking, asked, next, answer>>
filterVars == <<filter, source, loaded>>
vars == <<table, filterVars, serving, loader, list, outcome, lookupVars,
          writer, seen, kept, runs>>

-----------------------------------------------------------------------------
(* The Bloom filter *)

NoFilter == [n |-> 0, bits |-> {}]

\* The bits of a domain in a filter made for n domains, by double hashing.
Positions(d, n) == {(H1[d] + i * H2[d]) % Size[n] : i \in 0..(Hashes[n] - 1)}

\* NewBloomFilter and Add, for the domains LoadFromDB read; none for no domain.
Build(S) ==
    IF S = {} THEN NoFilter
    ELSE [n |-> Cardinality(S), bits |-> UNION {Positions(d, Cardinality(S)) : d \in S}]

Test(f, d) == f # NoFilter /\ Positions(d, f.n) \subseteq f.bits

-----------------------------------------------------------------------------
Candidates(d) == {Suffixes[d][i] : i \in 1..Len(Suffixes[d])}
Busy(p) == \E r \in asking : Home[r] = p

TypeOK ==
    /\ table \subseteq Domains
    /\ filter \in [Processes -> {Build(S) : S \in SUBSET Domains}]
    /\ serving \subseteq Processes
    /\ loader \in [Processes -> {"idle", "downloading", "writing", "reading", "locking"}]
    /\ list \in [Processes -> SUBSET Domains] /\ loaded \in [Processes -> SUBSET Domains]
    /\ outcome \in {"none", "started", "failed", "completed"}
    /\ asking \subseteq Readers
    /\ asked \in [Readers -> Domains]
    /\ next \in [Readers -> Nat \ {0}]
    /\ answer \in [Readers -> {"none", "yes", "no"}]
    /\ source \in [Processes -> SUBSET Domains]
    /\ writer \subseteq Processes
    /\ seen \in [Readers -> SUBSET Domains] /\ kept \in [Readers -> SUBSET Domains]
    /\ runs \in 0..MaxRuns

Init ==
    /\ table = {}
    /\ filter = [p \in Processes |-> NoFilter]
    /\ serving = {}
    /\ loader = [p \in Processes |-> "idle"]
    /\ list = [p \in Processes |-> {}] /\ loaded = [p \in Processes |-> {}]
    /\ outcome = "none"
    /\ asking = {}
    /\ asked \in [Readers -> Domains]
    /\ next = [r \in Readers |-> 1]
    /\ answer = [r \in Readers |-> "none"]
    /\ source = [p \in Processes |-> {}]
    /\ writer = {}
    /\ seen = [r \in Readers |-> {}] /\ kept = [r \in Readers |-> {}]
    /\ runs = 0
-----------------------------------------------------------------------------
(* Filling the table and rebuilding the filter *)

Goes(p, where) == loader' = [loader EXCEPT ![p] = where]

\* The load of process p ends: a start ends in serving, an update in its event.
Finish(p, event) ==
    /\ Goes(p, "idle")
    /\ serving' = serving \cup {p}
    /\ outcome' = IF p \in serving THEN event ELSE outcome

\* NewService: LoadFromFile reads the file, LoadFromDB the table.  An error is
\* ignored, and a file that does not exist is none: the filter stays empty.
Start(p) ==
    /\ p \notin serving /\ loader[p] = "idle"
    /\ IF p \in WithFile
       THEN /\ runs < MaxRuns /\ runs' = runs + 1
            /\ \/ Goes(p, "writing") /\ list' = [list EXCEPT ![p] = FileList]
                  /\ UNCHANGED <<serving, outcome>>
               \/ Finish(p, "none") /\ UNCHANGED list
       ELSE Goes(p, "reading") /\ UNCHANGED <<list, serving, outcome, runs>>
    /\ UNCHANGED <<table, filterVars, lookupVars, writer, seen, kept>>

\* WhitelistUpdateTask.Run begins; the engine runs a task once at a time.
Update ==
    /\ Updater \in serving /\ loader[Updater] = "idle"
    /\ runs < MaxRuns /\ runs' = runs + 1
    /\ Goes(Updater, "downloading")
    /\ outcome' = "started"
    /\ UNCHANGED <<table, filterVars, serving, list, lookupVars, writer, seen, kept>>

\* downloadAndParse: any list, an empty or a truncated one included, or an error.
Download ==
    /\ loader[Updater] = "downloading"
    /\ \/ /\ \E S \in SUBSET Domains : list' = [list EXCEPT ![Updater] = S]
          /\ Goes(Updater, "writing") /\ UNCHANGED <<serving, outcome>>
       \/ Finish(Updater, "failed") /\ UNCHANGED list
    /\ UNCHANGED <<table, filterVars, lookupVars, writer, seen, kept, runs>>

\* The table becomes S on the way to p's list, under the lookups that go on.
Becomes(p, S) ==
    /\ table' = S
    /\ seen' = [r \in Readers |->
                  IF r \in asking THEN seen[r] \cup (Candidates(asked[r]) \cap S) ELSE seen[r]]
    /\ kept' = [r \in Readers |-> IF r \in asking THEN kept[r] \cap list[p] ELSE kept[r]]

\* Mutant: the old rows are deleted and the new ones inserted without a transaction.
WriteInPieces(p) ==
    /\ loader[p] = "writing"
    /\ \/ table \notin {{}, list[p]} /\ Becomes(p, {}) /\ UNCHANGED loader
       \/ table \in {{}, list[p]} /\ Becomes(p, list[p]) /\ Goes(p, "reading")
    /\ writer' = {p}
    /\ UNCHANGED <<filterVars, serving, list, outcome, lookupVars, runs>>

\* UpdateWhitelist's transaction.
Write(p) ==
    /\ loader[p] = "writing"
    /\ Becomes(p, list[p])
    /\ Goes(p, "reading")
    /\ list' = [list EXCEPT ![p] = {}]
    /\ writer' = {p}
    /\ UNCHANGED <<filterVars, serving, outcome, lookupVars, runs>>

WriteFails(p) ==
    /\ "write" \in Failing
    /\ loader[p] = "writing"
    /\ Finish(p, "failed")
    /\ list' = [list EXCEPT ![p] = {}]
    /\ UNCHANGED <<table, filterVars, lookupVars, writer, seen, kept, runs>>

\* LoadFromDB: GetWhitelist.
Read(p) ==
    /\ loader[p] = "reading"
    /\ loaded' = [loaded EXCEPT ![p] = table]
    /\ Goes(p, "locking")
    /\ UNCHANGED <<table, filter, source, serving, list, outcome, lookupVars, writer, seen, kept, runs>>

\* Mutant: the update task ignores LoadFromDB's error.
ReadFailsQuietly(p) ==
    /\ "load" \in Failing
    /\ loader[p] = "reading"
    /\ Finish(p, "completed")
    /\ UNCHANGED <<table, filterVars, list, lookupVars, writer, seen, kept, runs>>

ReadFails(p) ==
    /\ "load" \in Failing
    /\ loader[p] = "reading"
    /\ Finish(p, "failed")
    /\ UNCHANGED <<table, filterVars, list, lookupVars, writer, seen, kept, runs>>

\* LoadFromDB: the write lock, for which the lookups going on must end.
Swap(p) ==
    /\ loader[p] = "locking" /\ ~Busy(p)
    /\ filter' = [filter EXCEPT ![p] = Build(loaded[p])]
    /\ source' = [source EXCEPT ![p] = loaded[p]]
    /\ loaded' = [loaded EXCEPT ![p] = {}]
    /\ Finish(p, "completed")
    /\ UNCHANGED <<table, list, lookupVars, writer, seen, kept, runs>>

\* The process ends, or dies at any point; the table stays, the filter is gone.
Stop(p) ==
    /\ p \in serving \/ loader[p] # "idle"
    /\ serving' = serving \ {p}
    /\ Goes(p, "idle")
    /\ filter' = [filter EXCEPT ![p] = NoFilter]
    /\ source' = [source EXCEPT ![p] = {}]
    /\ list' = [list EXCEPT ![p] = {}] /\ loaded' = [loaded EXCEPT ![p] = {}]
    /\ outcome' = IF p = Updater THEN "none" ELSE outcome
    /\ asking' = {r \in asking : Home[r] # p}
    /\ UNCHANGED <<table, asked, next, answer, writer, seen, kept, runs>>
-----------------------------------------------------------------------------
(* Lookups *)

\* IsAllowed takes the read lock, which a waiting writer holds back.
Begin(r) ==
    /\ Home[r] \in serving /\ r \notin asking
    /\ loader[Home[r]] # "locking"
    /\ asking' = asking \cup {r}
    /\ \E d \in Domains :
        /\ asked' = [asked EXCEPT ![r] = d]
        /\ seen' = [seen EXCEPT ![r] = Candidates(d) \cap table]
        /\ kept' = [kept EXCEPT ![r] = Candidates(d) \cap table \cap source[Home[r]]]
    /\ next' = [next EXCEPT ![r] = 1]
    /\ answer' = [answer EXCEPT ![r] = "none"]
    /\ UNCHANGED <<table, filterVars, serving, loader, list, outcome, writer, runs>>

Return(r, a) ==
    /\ answer' = [answer EXCEPT ![r] = a]
    /\ asking' = asking \ {r}
    /\ UNCHANGED next

PassOn(r) == next' = [next EXCEPT ![r] = @ + 1] /\ UNCHANGED <<asking, answer>>

\* Mutant: what the filter lets through is not looked up in the table.
AskFilterOnly(r) ==
    /\ r \in asking /\ next[r] <= Len(Suffixes[asked[r]])
    /\ LET c == Suffixes[asked[r]][next[r]] IN
       IF Test(filter[Home[r]], c) THEN Return(r, "yes") ELSE PassOn(r)
    /\ UNCHANGED <<table, filterVars, serving, loader, list, outcome, asked, writer, seen, kept, runs>>

\* Mutant: every candidate takes the read lock again.
AskLocked(r) ==
    /\ r \in asking /\ next[r] <= Len(Suffixes[asked[r]])
    /\ loader[Home[r]] # "locking"
    /\ LET c == Suffixes[asked[r]][next[r]] IN
       IF Test(filter[Home[r]], c) /\ c \in table THEN Return(r, "yes") ELSE PassOn(r)
    /\ UNCHANGED <<table, filterVars, serving, loader, list, outcome, asked, writer, seen, kept, runs>>

\* One candidate: the filter, then IsDomainWhitelisted.
Ask(r) ==
    /\ r \in asking /\ next[r] <= Len(Suffixes[asked[r]])
    /\ LET c == Suffixes[asked[r]][next[r]] IN
       IF Test(filter[Home[r]], c) /\ c \in table THEN Return(r, "yes") ELSE PassOn(r)
    /\ UNCHANGED <<table, filterVars, serving, loader, list, outcome, asked, writer, seen, kept, runs>>

\* A query that fails counts as a no.
AskFails(r) ==
    /\ "query" \in Failing
    /\ r \in asking /\ next[r] <= Len(Suffixes[asked[r]])
    /\ Test(filter[Home[r]], Suffixes[asked[r]][next[r]])
    /\ PassOn(r)
    /\ kept' = [kept EXCEPT ![r] = {}]
    /\ UNCHANGED <<table, filterVars, serving, loader, list, outcome, asked, writer, seen, runs>>

Deny(r) ==
    /\ r \in asking /\ next[r] > Len(Suffixes[asked[r]])
    /\ Return(r, "no")
    /\ UNCHANGED <<table, filterVars, serving, loader, list, outcome, asked, writer, seen, kept, runs>>

Load(p) == Write(p) \/ WriteFails(p) \/ Read(p) \/ ReadFails(p) \/ Swap(p)

Lookup(r) == Ask(r) \/ AskFails(r) \/ Deny(r)

Next ==
    \/ \E p \in Processes : Start(p) \/ Load(p) \/ Stop(p)
    \/ Update \/ Download
    \/ \E r \in Readers : Begin(r) \/ Lookup(r)

Spec == Init /\ [][Next]_vars

\* Loads and lookups go on; the download has a timeout.
FairSpec ==
    /\ Spec
    /\ WF_vars(Download)
    /\ \A p \in Processes : WF_vars(Load(p))
    /\ \A r \in Readers : WF_vars(Lookup(r))
-----------------------------------------------------------------------------
(* Properties *)

\* IsAllowed says yes only of a domain that was listed, or whose parent was, while
\* it ran (whitelist.go:181): neither a false positive of the filter nor a filter
\* of yesterday's list lets a domain through.
AllowedWasListed == \A r \in Readers : answer[r] = "yes" => seen[r] # {}

\* IsAllowed says no only if no suffix was, all the while it ran, on the list, old
\* or new, and on the one the process's filter was built from, or if a query
\* failed (whitelist.go:156, sqlite.go:818): an update does not deny for a moment
\* what the old list and the new one both allow.
KeptIsAllowed == \A r \in Readers : answer[r] = "no" => kept[r] = {}

\* After a completed update the updater's filter is that of the table, until
\* another process writes it (whitelist_update.go:111, 129).
CompletedIsLoaded ==
    outcome = "completed" /\ writer = {Updater} => source[Updater] = table

\* Loads and lookups end: the one waits for the write lock while the others hold
\* the read lock over their queries (whitelist.go:59, 155).
NoStandstill ==
    /\ \A p \in Processes : loader[p] # "idle" ~> loader[p] = "idle"
    /\ \A r \in Readers : r \in asking ~> r \notin asking
=============================================================================
