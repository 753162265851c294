------------------------------- MODULE AlertTask -------------------------------
(***************************************************************************)
(* The agent's alert task (internal/agent/alert.go): it sends what         *)
(* agent_audit_log holds since its last run to a webhook, and hands what   *)
(* tells of a likeness of a Vietnamese brand (module BrandSpoofing) to     *)
(* goroutines that notify further channels.  The other tasks write that    *)
(* log; all of them run in the engine's one goroutine, so at most one of   *)
(* them is running at a time (module AgentEngine).  Clocks count seconds,  *)
(* the resolution of created_at and of the query's bound.                  *)
(***************************************************************************)
EXTENDS Lexical

CONSTANTS
    Channels,       \* the configured ones of "webhook", "telegram", "slack", "email"
    ConfigFiles,    \* what SAFE_ROAD_ANALYSIS_CONFIG_PATH may hold
    VietnamBrands,  \* names detectVietnamBrandSpoof knows
    Subjects,       \* domains the audit task may block
    MinEvents,      \* AlertConfig.MinEvents
    Limit,          \* rows a query returns, 100
    Failing,        \* what may fail: "store", "channels", "restart"
    MaxSecond,      \* bound: the clock stops here
    MaxEvents       \* bound: alertable events recorded

ASSUME AlertAssumption ==
    /\ MinEvents \in Nat \ {0}
    /\ Limit \in Nat \ {0}
    /\ Failing \subseteq {"store", "channels", "restart"}
    /\ MaxSecond \in Nat
    /\ MaxEvents \in Nat

VARIABLES
    second,      \* the clock
    log,         \* auto_block and feed_error rows: the kind and created_at of each
    subject,     \* the domain of the auto_block rows (bound: one)
    running,     \* the task the engine runs: "none", "writer" or "alert"
    lastAlert,   \* AlertTask.lastAlert
    batch,       \* rows the running alert has read
    notices,     \* notification goroutines: the channel and the rows of each
    sent,        \* history: rows and channels that have accepted a message of them
    lost         \* history: those that failed, or that a restart or the limit dropped

vars == <<second, log, subject, running, lastAlert, batch, notices, sent, lost>>

Kinds == {"auto_block", "feed_error"}
Row == 1..MaxEvents

TypeOK ==
    /\ second \in 0..MaxSecond
    /\ log \in Seq([kind : Kinds, at : Nat])
    /\ subject \in Subjects
    /\ running \in {"none", "writer", "alert"}
    /\ lastAlert \in Nat /\ lastAlert <= second
    /\ batch \subseteq DOMAIN log
    /\ \A n \in notices : n.channel \in Channels /\ n.rows \subseteq DOMAIN log /\ n.rows # {}
    /\ sent \subseteq (DOMAIN log) \X Channels
    /\ lost \subseteq (DOMAIN log) \X Channels

Init ==
    /\ second = 0
    /\ log = <<>>
    /\ subject \in Subjects
    /\ running = "none"
    /\ lastAlert = 0
    /\ batch = {}
    /\ notices = {}
    /\ sent = {}
    /\ lost = {}

-----------------------------------------------------------------------------
(* The tasks that write the log *)

\* The engine runs the audit or the feed sync task.
StartWriter ==
    /\ running = "none"
    /\ running' = "writer"
    /\ UNCHANGED <<second, log, subject, lastAlert, batch, notices, sent, lost>>

\* RecordAgentEvent of an auto_block or a feed_error.
Record ==
    /\ running = "writer"
    /\ Len(log) < MaxEvents
    /\ \E k \in Kinds : log' = Append(log, [kind |-> k, at |-> second])
    /\ UNCHANGED <<second, subject, running, lastAlert, batch, notices, sent, lost>>

EndWriter ==
    /\ running = "writer"
    /\ running' = "none"
    /\ UNCHANGED <<second, log, subject, lastAlert, batch, notices, sent, lost>>

-----------------------------------------------------------------------------
(* The alert task *)

\* Mutant: created_at > since.
After(i) == log[i].at > lastAlert

\* created_at >= since, both in whole seconds.
Since(i) == log[i].at >= lastAlert

\* The rows QueryAgentEvents returns: the oldest of the window, at most Limit.
\* Rows with the same created_at come in the order of their insertion.
Rows ==
    {i \in DOMAIN log :
        /\ Since(i)
        /\ Cardinality({j \in DOMAIN log : Since(j) /\ j < i}) < Limit}

\* detectVietnamBrandSpoof, whose own score plays no role; evaluated once.
VietnamSpoofs ==
    {d \in Subjects : LET finding == CheckBrandSpoofing(d, 30)
                      IN  finding.isSpoof /\ finding.brand \in VietnamBrands}

Critical(i) == log[i].kind = "auto_block" /\ subject \in VietnamSpoofs

Webhook == Channels \cap {"webhook"}

\* The channels that are to hear of row i.
Due(i) == IF Critical(i) THEN Channels ELSE Webhook

\* A run that reports nothing: the query failed, or found too few events.
Skip ==
    /\ running = "none"
    /\ "store" \in Failing \/ Cardinality(Rows) < MinEvents \/ Channels = {}
    /\ UNCHANGED vars

\* Run reads the events and begins to send them.
Begin ==
    /\ running = "none" /\ Channels # {}
    /\ Cardinality(Rows) >= MinEvents
    /\ batch' = Rows
    /\ lost' = lost \cup (({i \in DOMAIN log : Since(i)} \ Rows) \X Channels)
    /\ running' = "alert"
    /\ UNCHANGED <<second, log, subject, lastAlert, notices, sent>>

\* The goroutines Run starts, one for each further channel.
NewNotices ==
    LET critical == {i \in batch : Critical(i)}
    IN  {[channel |-> c, rows |-> critical] : c \in IF critical = {} THEN {} ELSE Channels \ Webhook}

\* One attempt to send: the channel accepts, or whatever fails turns into a loss.
Sending(pairs) ==
    \/ sent' = sent \cup pairs /\ UNCHANGED lost
    \/ "channels" \in Failing /\ lost' = lost \cup pairs /\ UNCHANGED sent

\* sendWebhook, for the whole batch.
WebhookAnswers == Sending(batch \X Webhook)

\* Mutant: the mark moves past the present second, so that nothing is repeated.
MarkNextSecond ==
    /\ running = "alert"
    /\ WebhookAnswers
    /\ notices' = notices \cup NewNotices
    /\ lastAlert' = second + 1
    /\ batch' = {}
    /\ running' = "none"
    /\ UNCHANGED <<second, log, subject>>

\* Mutant: the mark is never moved.
KeepMark ==
    /\ running = "alert"
    /\ WebhookAnswers
    /\ notices' = notices \cup NewNotices
    /\ UNCHANGED lastAlert
    /\ batch' = {}
    /\ running' = "none"
    /\ UNCHANGED <<second, log, subject>>

\* Mutant: a webhook's failure ends the run before the notifications.
ReturnEarly ==
    /\ running = "alert"
    /\ WebhookAnswers
    /\ notices' = IF lost' # lost THEN notices ELSE notices \cup NewNotices
    /\ lastAlert' = second
    /\ batch' = {}
    /\ running' = "none"
    /\ UNCHANGED <<second, log, subject>>

\* The webhook has answered, or failed; either way the notifications are started
\* and the mark moves to the present.
End ==
    /\ running = "alert"
    /\ WebhookAnswers
    /\ notices' = notices \cup NewNotices
    /\ lastAlert' = second
    /\ batch' = {}
    /\ running' = "none"
    /\ UNCHANGED <<second, log, subject>>

\* sendTelegram, sendSlack or sendEmail returns; its context does not end with the run's.
Notify(n) ==
    /\ n \in notices
    /\ notices' = notices \ {n}
    /\ Sending(n.rows \X {n.channel})
    /\ UNCHANGED <<second, log, subject, running, lastAlert, batch>>

\* core-api is restarted, perhaps between the webhook's answer and the move of
\* the mark: NewAlertTask begins at the present.
Restart ==
    /\ "restart" \in Failing
    /\ lastAlert' = second
    /\ sent' \in {sent, sent \cup (batch \X Webhook)}
    /\ lost' = lost \cup (((DOMAIN log) \X Channels) \ sent')
    /\ batch' = {}
    /\ notices' = {}
    /\ running' = "none"
    /\ UNCHANGED <<second, log, subject>>

Tick ==
    /\ second < MaxSecond
    /\ second' = second + 1
    /\ UNCHANGED <<log, subject, running, lastAlert, batch, notices, sent, lost>>

Next ==
    \/ StartWriter \/ Record \/ EndWriter
    \/ Skip \/ Begin \/ End \/ Restart
    \/ \E n \in notices : Notify(n)
    \/ Tick

Spec == Init /\ [][Next]_vars

\* The engine goes on running its tasks, tasks end, the alert task gets its turn
\* between the others (AgentEngine!DueRuns), and notifications have a timeout.
FairSpec ==
    /\ Spec
    /\ WF_vars(EndWriter) /\ WF_vars(End) /\ SF_vars(Begin)
    /\ \A n \in [channel : Channels \ Webhook, rows : SUBSET Row] : WF_vars(Notify(n))
-----------------------------------------------------------------------------
(* Properties *)

\* A row the goroutines are sending to channel c.
UnderWay(i, c) == \E n \in notices : n.channel = c /\ i \in n.rows

\* No event falls behind the mark without having been sent to, or being on its way
\* to, every channel it is due to, but those a failed channel, a restart or the
\* query's limit has lost (alert.go:127, 180, 231): the query's bound and the mark
\* leave no gap between two runs, and what fails on one channel reaches the others.
NoEventLost ==
    \A i \in DOMAIN log : \A c \in Due(i) :
        log[i].at < lastAlert => <<i, c>> \in sent \cup lost \/ UnderWay(i, c)

\* What is sent again is of the very second the mark stands at: the query's bound
\* is that second, and no run repeats older events.
RepeatsAreRecent == \A i \in batch : \A c \in Webhook : <<i, c>> \in sent => log[i].at = lastAlert

\* The events some channel must still hear of, and those no run has taken up.
Pending == {i \in DOMAIN log : \E c \in Due(i) : <<i, c>> \notin sent \cup lost}
Waiting == {i \in Pending : \E c \in Due(i) : <<i, c>> \notin sent \cup lost /\ ~UnderWay(i, c)}

\* Once there are enough of them, events are sent everywhere, or lost to a failure.
EventsAreSent ==
    \A i \in Row : (i \in Waiting /\ Cardinality(Waiting) >= MinEvents) ~> i \notin Pending
-----------------------------------------------------------------------------
(* Properties of the lexical analysis; each set is evaluated once *)

RightlyMeasured == {d \in Subjects : DistancesAreLeast(d)}
RightlyNamed ==
    {d \in Subjects : LET finding == CheckBrandSpoofing(d, 30)
                      IN  OwnersPass(d, finding) /\ HostsFollow(d, finding)}
RightlyJudged ==
    {d \in Subjects : \A file \in ConfigFiles : EvidenceSuffices(d, LoadAnalysisConfig(file))}

\* The distances that decide whether a name is a likeness are edit distances, the
\* least costs over all ways to edit: the loops keep one column of the table and
\* overwrite it as they go (brand.go:85, 261).
DistancesLeast == subject \in RightlyMeasured

\* A brand's own sites are reported only for what another brand is called, whichever
\* brands come before it in the list, and the hosts of a reported site are reported
\* whatever they are called (brand.go:308-423).
NamesDecide == subject \in RightlyNamed

\* The weights and thresholds fit together: a likeness is at least SUSPICIOUS and the
\* abuse of a protected name MALICIOUS, also with a configuration file that leaves
\* fields out (analysis.go:184-222, config/analysis.go:62).
SignsSuffice == subject \in RightlyJudged
=============================================================================
