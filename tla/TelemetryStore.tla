----------------------------- MODULE TelemetryStore -----------------------------
(***************************************************************************)
(* The asynchronous telemetry log of internal/store/sqlite.go and its      *)
(* shutdown by the servers' main functions: handlers put analyses in a     *)
(* bounded channel, one goroutine writes them to SQLite, another deletes   *)
(* old rows, and Close stops both.  A row is named by the request whose    *)
(* analysis it holds.  DnsFrontEnd puts the handlers of dns-resolver and   *)
(* its two servers around this module.                                     *)
(***************************************************************************)
EXTENDS Naturals, Sequences

CONSTANTS
    Requests,   \* requests, each of which records one analysis
    Capacity,   \* telemetryBufferSize
    Failing     \* what may fail: "insert"

ASSUME TelemetryAssumption ==
    /\ Capacity \in Nat
    /\ Failing \subseteq {"insert"}

VARIABLES
    request,    \* each request: "none", "analyzing" or "analyzed"
    channel,    \* telemetryCh
    writer,     \* telemetryWriter: "selecting", "draining" or "returned"
    writing,    \* the entry writeEntry inserts, as a set
    cleaner,    \* cleanupLoop: "selecting" or "returned"
    rows,       \* analysis_log
    old,        \* rows older than retentionDays
    main,       \* "serving", "shutdown", "closing", "waiting" or "closed"
    done,       \* the done channel is closed
    accepted,   \* history: the entries that entered the channel
    tooLate,    \* history: those that entered it after done was closed
    disposed    \* history: entries whose insert failed, and rows cleaned up

writerVars == <<channel, writer, writing>>
rowVars == <<rows, old, disposed>>
vars == <<request, channel, writer, writing, cleaner, rows, old, main, done,
          accepted, tooLate, disposed>>

TypeOK ==
    /\ request \in [Requests -> {"none", "analyzing", "analyzed"}]
    /\ channel \in Seq(Requests) /\ Len(channel) <= Capacity
    /\ writer \in {"selecting", "draining", "returned"}
    /\ writing \subseteq Requests
    /\ cleaner \in {"selecting", "returned"}
    /\ rows \subseteq Requests /\ old \subseteq rows
    /\ main \in {"serving", "shutdown", "closing", "waiting", "closed"}
    /\ done \in BOOLEAN
    /\ accepted \subseteq Requests /\ disposed \subseteq accepted
    /\ tooLate \subseteq accepted

Init ==
    /\ request = [r \in Requests |-> "none"]
    /\ channel = <<>>
    /\ writer = "selecting"
    /\ writing = {}
    /\ cleaner = "selecting"
    /\ rows = {}
    /\ old = {}
    /\ main = "serving"
    /\ done = FALSE
    /\ accepted = {}
    /\ tooLate = {}
    /\ disposed = {}

-----------------------------------------------------------------------------
(* Requests *)

\* A handler starts to analyze; a process with two servers may still take
\* requests at one while the other shuts down.
Arrive(r) ==
    /\ main \in {"serving", "shutdown"} /\ request[r] = "none"
    /\ request' = [request EXCEPT ![r] = "analyzing"]
    /\ UNCHANGED <<writerVars, cleaner, rowVars, main, done, accepted, tooLate>>

Send(r) ==
    /\ channel' = Append(channel, r)
    /\ accepted' = accepted \cup {r}
    /\ tooLate' = IF done THEN tooLate \cup {r} ELSE tooLate

\* Mutant: the send blocks while the channel is full.
RecordWhenRoom(r) ==
    /\ request[r] = "analyzing" /\ main # "closed"
    /\ Len(channel) < Capacity
    /\ Send(r)
    /\ request' = [request EXCEPT ![r] = "analyzed"]
    /\ UNCHANGED <<writer, writing, cleaner, rowVars, main, done>>

\* RecordAnalysis, at the end of an analysis: the entry is sent, or dropped when
\* the channel is full.
Record(r) ==
    /\ request[r] = "analyzing" /\ main # "closed"
    /\ IF Len(channel) < Capacity THEN Send(r) ELSE UNCHANGED <<channel, accepted, tooLate>>
    /\ request' = [request EXCEPT ![r] = "analyzed"]
    /\ UNCHANGED <<writer, writing, cleaner, rowVars, main, done>>

\* An analysis that ends without an entry: the handler panics or refuses the
\* request, or Policy cannot normalize the name.
Skip(r) ==
    /\ request[r] = "analyzing" /\ main # "closed"
    /\ request' = [request EXCEPT ![r] = "analyzed"]
    /\ UNCHANGED <<writerVars, cleaner, rowVars, main, done, accepted, tooLate>>

-----------------------------------------------------------------------------
(* The goroutines of the store *)

\* telemetryWriter receives an entry.
Take ==
    /\ writer \in {"selecting", "draining"} /\ writing = {}
    /\ channel # <<>>
    /\ writing' = {Head(channel)}
    /\ channel' = Tail(channel)
    /\ UNCHANGED <<request, writer, cleaner, rowVars, main, done, accepted, tooLate>>

\* writeEntry inserts a row; a failed insert is logged and forgotten.
Insert ==
    /\ writing # {}
    /\ \/ rows' = rows \cup writing /\ UNCHANGED disposed
       \/ "insert" \in Failing /\ disposed' = disposed \cup writing /\ UNCHANGED rows
    /\ writing' = {}
    /\ UNCHANGED <<request, channel, writer, cleaner, old, main, done, accepted, tooLate>>

\* Mutant: the writer returns without draining.
ReturnAtOnce ==
    /\ writer = "selecting" /\ writing = {} /\ done
    /\ writer' = "returned"
    /\ UNCHANGED <<request, channel, writing, cleaner, rowVars, main, done, accepted, tooLate>>

\* select chooses the done channel.
SeeDone ==
    /\ writer = "selecting" /\ writing = {} /\ done
    /\ writer' = "draining"
    /\ UNCHANGED <<request, channel, writing, cleaner, rowVars, main, done, accepted, tooLate>>

\* The channel is found empty.
Drained ==
    /\ writer = "draining" /\ writing = {} /\ channel = <<>>
    /\ writer' = "returned"
    /\ UNCHANGED <<request, channel, writing, cleaner, rowVars, main, done, accepted, tooLate>>

\* cleanup deletes the rows older than the retention period.
Cleanup ==
    /\ cleaner = "selecting" /\ old # {}
    /\ rows' = rows \ old
    /\ disposed' = disposed \cup old
    /\ old' = {}
    /\ UNCHANGED <<request, writerVars, cleaner, main, done, accepted, tooLate>>

\* Mutant: cleanupLoop listens to its ticker only.
IgnoreDone ==
    /\ cleaner = "selecting" /\ done
    /\ UNCHANGED vars

CleanerReturns ==
    /\ cleaner = "selecting" /\ done
    /\ cleaner' = "returned"
    /\ UNCHANGED <<request, writerVars, rowVars, main, done, accepted, tooLate>>

\* Time passes for a row.
Age(r) ==
    /\ r \in rows \ old
    /\ old' = old \cup {r}
    /\ UNCHANGED <<request, writerVars, cleaner, rows, disposed, main, done, accepted, tooLate>>

-----------------------------------------------------------------------------
(* main *)

Shutdown ==
    /\ main = "serving"
    /\ main' = "shutdown"
    /\ UNCHANGED <<request, writerVars, cleaner, rowVars, done, accepted, tooLate>>

\* server.Shutdown returns: no handler is active, or its deadline has passed.
ShutdownReturns ==
    /\ main = "shutdown"
    /\ main' = "closing"
    /\ UNCHANGED <<request, writerVars, cleaner, rowVars, done, accepted, tooLate>>

\* risk.Close: DB.Close closes done and waits for both goroutines.
CloseDone ==
    /\ main = "closing"
    /\ done' = TRUE
    /\ main' = "waiting"
    /\ UNCHANGED <<request, writerVars, cleaner, rowVars, accepted, tooLate>>

Closed ==
    /\ main = "waiting"
    /\ writer = "returned" /\ cleaner = "returned"
    /\ main' = "closed"
    /\ UNCHANGED <<request, writerVars, cleaner, rowVars, done, accepted, tooLate>>

Next ==
    \/ \E r \in Requests : Arrive(r) \/ Record(r) \/ Skip(r) \/ Age(r)
    \/ Take \/ Insert \/ SeeDone \/ Drained \/ Cleanup \/ CleanerReturns
    \/ Shutdown \/ ShutdownReturns \/ CloseDone \/ Closed

Spec == Init /\ [][Next]_vars
-----------------------------------------------------------------------------
(* Properties *)

\* Close loses nothing that was in the buffer before it began (sqlite.go:326):
\* when it returns, such an entry is in the table, unless its insert failed or
\* it has been cleaned up since.  What a handler sends to a store that is closed
\* under it may be lost.
AcceptedIsWritten == main = "closed" => accepted \subseteq rows \cup disposed \cup tooLate
=============================================================================
