------------------------------- MODULE AuditTask -------------------------------
(***************************************************************************)
(* The agent's audit task (internal/agent/audit.go): it lists the domains  *)
(* the telemetry log has often seen as suspicious, enriches them one by    *)
(* one over the network and blocks the malicious ones by a local override. *)
(* Administrators change overrides at the same time.  The telemetry rows   *)
(* are written asynchronously, and compared with the task's mark as the    *)
(* strings SQLite holds.                                                   *)
(***************************************************************************)
EXTENDS Naturals, FiniteSets

CONSTANTS
    Domains,         \* registrable domains and their subdomains
    Above,           \* the parent domains of each of them
    MinOccurrences,  \* AuditConfig.MinOccurrences
    MaxPerCycle,     \* AuditConfig.MaxPerCycle
    PerSecond,       \* ticks of the clock in a second
    Failing,         \* what may fail: "store", "deadline", "eventLog"
    MaxNow,          \* bound: the clock stops here
    MaxSightings     \* bound: rows of the telemetry log

ASSUME AuditAssumption ==
    /\ IsFiniteSet(Domains)
    /\ Above \in [Domains -> SUBSET Domains]
    /\ \A d \in Domains : d \notin Above[d]
    /\ \A d \in Domains : \A p \in Above[d] : Above[p] \subseteq Above[d]
    /\ \A d \in Domains : \A p, q \in Above[d] : p = q \/ p \in Above[q] \/ q \in Above[p]
    /\ MinOccurrences \in Nat \ {0}
    /\ MaxPerCycle \in Nat \ {0}
    /\ PerSecond \in Nat \ {0}
    /\ Failing \subseteq {"store", "deadline", "eventLog"}
    /\ MaxNow \in Nat
    /\ MaxSightings \in Nat

VARIABLES
    now,        \* the clock
    rows,       \* suspicious rows of analysis_log: domain and analyzed_at
    unwritten,  \* analyzed, and still in the telemetry channel
    override,   \* local_overrides: the action for a domain, or "none"
    byAgent,    \* the overrides whose reason says agent: auto-block
    mark,       \* AuditTask.lastAudit
    phase,      \* "idle", "querying", "picking", "checking", "enriching", "logging"
    since,      \* the start of the run's window
    todo,       \* domains the run has still to audit
    domain,     \* the domain being audited, as a set
    unasked,    \* it and its parents that GetOverride has still to query
    logged,     \* domains with an auto_block row in agent_audit_log
    settled,    \* history: domains with an administrator's override in force
                \* since before the current domain was checked
    blocked,    \* history: domains the agent has blocked
    unreported  \* history: those of them whose event could not be written

telemetryVars == <<now, rows, unwritten>>
tableVars == <<override, byAgent>>
runVars == <<phase, since, todo, domain, unasked>>
reportVars == <<logged, settled, blocked, unreported>>
vars == <<now, rows, unwritten, override, byAgent, mark, phase, since, todo,
          domain, unasked, logged, settled, blocked, unreported>>

Sightings == [domain: Domains, at: Nat]

TypeOK ==
    /\ now \in Nat
    /\ rows \subseteq Sightings
    /\ unwritten \subseteq Sightings
    /\ override \in [Domains -> {"none", "allow", "block"}]
    /\ byAgent \subseteq {d \in Domains : override[d] = "block"}
    /\ mark \in Nat
    /\ phase \in {"idle", "querying", "picking", "checking", "enriching", "logging"}
    /\ since \in Nat
    /\ todo \subseteq Domains
    /\ domain \subseteq Domains
    /\ domain # {} <=> phase \in {"checking", "enriching", "logging"}
    /\ unasked \subseteq Domains /\ (unasked # {} <=> phase = "checking")
    /\ logged \subseteq Domains
    /\ settled \subseteq Domains
    /\ blocked \subseteq Domains
    /\ unreported \subseteq Domains

Init ==
    /\ now = 0
    /\ rows = {}
    /\ unwritten = {}
    /\ override = [d \in Domains |-> "none"]
    /\ byAgent = {}
    /\ mark = 0
    /\ phase = "idle"
    /\ since = 0
    /\ todo = {}
    /\ domain = {}
    /\ unasked = {}
    /\ logged = {}
    /\ settled = {}
    /\ blocked = {}
    /\ unreported = {}

-----------------------------------------------------------------------------
(* Helpers *)

\* Mutant: only an override of the domain itself counts.
OwnRow(d) == {d}

\* The rows GetOverride looks for, one query each.
Candidates(d) == {d} \cup Above[d]

\* The nearest candidate not asked for yet, as a set.
Nearest == {o \in unasked : \A p \in unasked : p = o \/ p \in Above[o]}

\* The row that decides about d, as a set.
Deciding(d) ==
    LET matching == ({d} \cup Above[d]) \cap {o \in Domains : override[o] # "none"}
    IN  {o \in matching : \A p \in matching : p = o \/ p \in Above[o]}

\* The domains an administrator's override is in force for.
Administered == {d \in Domains : Deciding(d) # {} /\ Deciding(d) \cap byAgent = {}}

\* analyzed_at >= since as SQLite compares them: analyzed_at has a fraction of a
\* second (RFC3339Nano) unless it is zero, since has none (RFC3339), and '.' sorts
\* before 'Z'.
TextAtLeast(at, t) ==
    \/ at \div PerSecond > t \div PerSecond
    \/ at \div PerSecond = t \div PerSecond /\ at % PerSecond = 0

Count(d) == Cardinality({r \in rows : r.domain = d /\ TextAtLeast(r.at, since)})

\* The possible answers of QuerySuspiciousDomains: the most frequent ones.
SuspiciousDomains ==
    LET frequent == {d \in Domains : Count(d) >= MinOccurrences}
        size == IF Cardinality(frequent) < MaxPerCycle
                THEN Cardinality(frequent) ELSE MaxPerCycle
    IN  {S \in SUBSET frequent : /\ Cardinality(S) = size
                                 /\ \A d \in S, e \in frequent \ S : Count(d) >= Count(e)}

\* Run goes on to another phase, with S the domain being audited.
Goto(p, S) == phase' = p /\ domain' = S /\ unasked' = {}

-----------------------------------------------------------------------------
(* The task *)

\* Run moves the mark to the present before it looks at anything.
Begin ==
    /\ phase = "idle"
    /\ since' = mark
    /\ mark' = now
    /\ Goto("querying", {})
    /\ UNCHANGED <<telemetryVars, tableVars, todo, reportVars>>

Query ==
    /\ phase = "querying"
    /\ todo' \in SuspiciousDomains
    /\ Goto("picking", {})
    /\ UNCHANGED <<telemetryVars, tableVars, mark, since, reportVars>>

\* Run returns: nothing is left, the query failed, or the deadline has passed.
Return ==
    /\ \/ phase = "picking" /\ (todo = {} \/ "deadline" \in Failing)
       \/ phase = "querying" /\ "store" \in Failing
    /\ todo' = {}
    /\ since' = 0
    /\ Goto("idle", {})
    /\ UNCHANGED <<telemetryVars, tableVars, mark, reportVars>>

\* auditDomain begins: GetOverride will ask for the domain and its parents.
Check(d) ==
    /\ phase = "picking" /\ d \in todo
    /\ todo' = todo \ {d}
    /\ settled' = Administered
    /\ phase' = "checking" /\ domain' = {d} /\ unasked' = Candidates(d)
    /\ UNCHANGED <<telemetryVars, tableVars, mark, since, logged, blocked, unreported>>

\* A query of GetOverride finds a row or fails, and the domain is skipped; the
\* last one that finds nothing lets it pass.
Ask(o) ==
    /\ phase = "checking" /\ o \in Nearest
    /\ \/ override[o] # "none" /\ Goto("picking", {})
       \/ "store" \in Failing /\ Goto("picking", {})
       \/ /\ override[o] = "none"
          /\ unasked' = unasked \ {o}
          /\ phase' = IF unasked = {o} THEN "enriching" ELSE "checking"
          /\ UNCHANGED domain
    /\ UNCHANGED <<telemetryVars, tableVars, mark, since, todo, reportVars>>

\* Enrichment finds nothing to block the domain for, or the upsert fails.
LeaveAlone ==
    /\ phase = "enriching"
    /\ Goto("picking", {})
    /\ UNCHANGED <<telemetryVars, tableVars, mark, since, todo, reportVars>>

\* UpsertOverride(domain, "block", "agent: auto-block ...").
Block ==
    /\ phase = "enriching"
    /\ override' = [d \in Domains |-> IF d \in domain THEN "block" ELSE override[d]]
    /\ byAgent' = byAgent \cup domain
    /\ blocked' = blocked \cup domain
    /\ Goto("logging", domain)
    /\ UNCHANGED <<telemetryVars, mark, since, todo, logged, settled, unreported>>

\* Mutant: the report is filed for the domains still to come.
LogTodo ==
    /\ phase = "logging"
    /\ logged' = logged \cup todo
    /\ Goto("picking", {})
    /\ UNCHANGED <<telemetryVars, tableVars, mark, since, todo, settled, blocked,
                   unreported>>

\* RecordAgentEvent("audit", "auto_block", domain, ...), its error ignored.
Log ==
    /\ phase = "logging"
    /\ \/ logged' = logged \cup domain /\ UNCHANGED unreported
       \/ /\ "eventLog" \in Failing
          /\ unreported' = unreported \cup domain
          /\ UNCHANGED logged
    /\ Goto("picking", {})
    /\ UNCHANGED <<telemetryVars, tableVars, mark, since, todo, settled, blocked>>

-----------------------------------------------------------------------------
(* The rest of the system *)

\* An administrator sets an override (POST /v1/overrides).
AdminSets(d, action) ==
    /\ override' = [override EXCEPT ![d] = action]
    /\ byAgent' = byAgent \ {d}
    /\ settled' = settled \ {e \in Domains : d \in {e} \cup Above[e]}
    /\ UNCHANGED <<telemetryVars, mark, runVars, logged, blocked, unreported>>

\* An administrator deletes one (DELETE /v1/overrides).
AdminDeletes(d) ==
    /\ override[d] # "none"
    /\ override' = [override EXCEPT ![d] = "none"]
    /\ byAgent' = byAgent \ {d}
    /\ settled' = settled \ {e \in Domains : d \in {e} \cup Above[e]}
    /\ UNCHANGED <<telemetryVars, mark, runVars, logged, blocked, unreported>>

\* A domain is analyzed and found suspicious.
Sight(d) ==
    /\ Cardinality(rows \cup unwritten) < MaxSightings
    /\ LET sighting == [domain |-> d, at |-> now]
       IN  /\ sighting \notin rows
           /\ unwritten' = unwritten \cup {sighting}
    /\ UNCHANGED <<now, rows, tableVars, mark, runVars, reportVars>>

\* The telemetry writer inserts a row.
Write(r) ==
    /\ r \in unwritten
    /\ rows' = rows \cup {r}
    /\ unwritten' = unwritten \ {r}
    /\ UNCHANGED <<now, tableVars, mark, runVars, reportVars>>

Tick ==
    /\ now < MaxNow
    /\ now' = now + 1
    /\ UNCHANGED <<rows, unwritten, tableVars, mark, runVars, reportVars>>

Next ==
    \/ Begin \/ Query \/ Return \/ LeaveAlone \/ Block \/ Log \/ Tick
    \/ \E d \in Domains : \/ Check(d) \/ Ask(d) \/ AdminDeletes(d) \/ Sight(d)
                          \/ \E action \in {"allow", "block"} : AdminSets(d, action)
    \/ \E r \in unwritten : Write(r)

Spec == Init /\ [][Next]_vars
-----------------------------------------------------------------------------
(* Properties *)

\* An administrator's decision about a domain or its parents that was in force
\* before the domain's turn came is not overruled by the agent (audit.go:140),
\* however much later than the listing of domains that turn comes.
EarlierDecisionsStand ==
    [][Block => \A d \in settled : Deciding(d)' = Deciding(d)]_vars

\* Every block by the agent is reported in its log, unless that cannot be written,
\* and the log reports no block that was not placed: the alert task knows of
\* blocks by that log only (alert.go:127).
ReportsMatchBlocks ==
    logged \subseteq blocked /\ blocked \subseteq logged \cup domain \cup unreported

\* "respect admin intent" (audit.go:140): the agent does not overrule an
\* administrator's override in force.
AdminsAreRespected ==
    [][Block => \A d \in Administered : Deciding(d)' = Deciding(d)]_vars
=============================================================================
