------------------------------ MODULE AgentEngine ------------------------------
(***************************************************************************)
(* The agent's scheduler (internal/agent/engine.go) as core-api runs it:   *)
(* one goroutine that selects among its done channel, its trigger channel  *)
(* and a ticker and runs the tasks itself, HTTP handlers that trigger      *)
(* tasks, and main, which starts it and stops it once the HTTP server has  *)
(* shut down.  Clocks are reduced to what the engine asks of them: whether *)
(* the ticker has fired and which tasks are due.  Run counters and         *)
(* timestamps, which nothing reads back, are left out.                     *)
(***************************************************************************)
EXTENDS Naturals, Sequences

CONSTANTS
    TaskOrder,   \* Engine.tasks, in the order of registration
    Enabled,     \* the tasks registered with enabled = true
    Capacity     \* of triggerCh

Tasks == {TaskOrder[i] : i \in DOMAIN TaskOrder}

ASSUME EngineAssumption ==
    /\ TaskOrder \in Seq(Tasks)
    /\ Enabled \subseteq Tasks
    /\ Capacity \in Nat

VARIABLES
    loop,       \* the scheduler goroutine: "none", "pass", "select", "running"
                \* or "returned"
    rest,       \* the tasks runDueTasks has still to look at
    current,    \* the task being executed, as a set
    due,        \* tasks never run, or not for their interval
    status,     \* registeredTask.state
    queue,      \* triggerCh
    tick,       \* ticker.C holds a tick
    main,       \* main: "setup", "serving", "stopping", "waiting", "stopped"
    done        \* the done channel is closed

loopVars == <<loop, rest, current>>
vars == <<loop, rest, current, due, status, queue, tick, main, done>>

TypeOK ==
    /\ loop \in {"none", "pass", "select", "running", "returned"}
    /\ rest \in Seq(Tasks) /\ Len(rest) <= Len(TaskOrder)
    /\ current \subseteq Tasks
    /\ due \subseteq Tasks
    /\ status \in [Tasks -> {"idle", "running", "failed"}]
    /\ queue \in Seq(Tasks) /\ Len(queue) <= Capacity
    /\ tick \in BOOLEAN
    /\ main \in {"setup", "serving", "stopping", "waiting", "stopped"}
    /\ done \in BOOLEAN

Init ==
    /\ loop = "none"
    /\ rest = <<>>
    /\ current = {}
    /\ due = Tasks
    /\ status = [t \in Tasks |-> "idle"]
    /\ queue = <<>>
    /\ tick = FALSE
    /\ main = "setup"
    /\ done = FALSE

-----------------------------------------------------------------------------
(* main and the HTTP handlers *)

\* Start: the goroutine begins with a pass over all tasks.
Start ==
    /\ main = "setup"
    /\ main' = "serving"
    /\ loop' = "pass"
    /\ rest' = TaskOrder
    /\ UNCHANGED <<current, due, status, queue, tick, done>>

\* Trigger.  It answers true whether or not the name was queued; one that meets a
\* full channel is dropped, and no tick makes up for it.  A handler may outlive
\* the server's shutdown, whose deadline has passed then.
Trigger(t) ==
    /\ main # "setup"
    /\ queue' = IF Len(queue) < Capacity THEN Append(queue, t) ELSE queue
    /\ UNCHANGED <<loopVars, due, status, tick, main, done>>

\* Stop sets its flag, once the HTTP server has shut down.
Stop ==
    /\ main = "serving"
    /\ main' = "stopping"
    /\ UNCHANGED <<loopVars, due, status, queue, tick, done>>

CloseDone ==
    /\ main = "stopping"
    /\ done' = TRUE
    /\ main' = "waiting"
    /\ UNCHANGED <<loopVars, due, status, queue, tick>>

\* Mutant: Stop does not wait for the goroutine.
ReturnAtOnce ==
    /\ main = "waiting"
    /\ main' = "stopped"
    /\ UNCHANGED <<loopVars, due, status, queue, tick, done>>

\* wg.Wait returns, and so does Stop.
StopReturns ==
    /\ main = "waiting"
    /\ loop = "returned"
    /\ main' = "stopped"
    /\ UNCHANGED <<loopVars, due, status, queue, tick, done>>

-----------------------------------------------------------------------------
(* The scheduler goroutine *)

\* executeTask, up to the call of the task.
Execute(t) ==
    /\ loop' = "running"
    /\ current' = {t}
    /\ status' = [status EXCEPT ![t] = "running"]

\* Mutant: a pass ends at the first task it does not have to run.
EndPass ==
    /\ loop = "pass"
    /\ IF ~done /\ rest # <<>> /\ Head(rest) \in Enabled \cap due
       THEN Execute(Head(rest)) /\ rest' = Tail(rest)
       ELSE /\ loop' = "select" /\ rest' = <<>>
            /\ UNCHANGED <<current, status>>
    /\ UNCHANGED <<due, queue, tick, main, done>>

\* One iteration of runDueTasks, or its end.
Pass ==
    /\ loop = "pass"
    /\ IF done \/ rest = <<>>
       THEN /\ loop' = "select" /\ rest' = <<>>
            /\ UNCHANGED <<current, status>>
       ELSE /\ rest' = Tail(rest)
            /\ IF Head(rest) \in Enabled \cap due
               THEN Execute(Head(rest))
               ELSE UNCHANGED <<loop, current, status>>
    /\ UNCHANGED <<due, queue, tick, main, done>>

\* Mutant: a failed task keeps the state it had while it ran.
FinishOrHang ==
    /\ loop = "running"
    /\ loop' = IF rest = <<>> THEN "select" ELSE "pass"
    /\ \E s \in {"idle", "running"} :
          status' = [t \in Tasks |-> IF t \in current THEN s ELSE status[t]]
    /\ due' = due \ current
    /\ current' = {}
    /\ UNCHANGED <<rest, queue, tick, main, done>>

\* The task returns, with an error or without, and executeTask notes it.
Finish ==
    /\ loop = "running"
    /\ loop' = IF rest = <<>> THEN "select" ELSE "pass"
    /\ \E s \in {"idle", "failed"} :
          status' = [t \in Tasks |-> IF t \in current THEN s ELSE status[t]]
    /\ due' = due \ current
    /\ current' = {}
    /\ UNCHANGED <<rest, queue, tick, main, done>>

\* Mutant: break instead of return, which leaves the select but not the loop.
BreakOnDone ==
    /\ loop = "select" /\ done
    /\ UNCHANGED vars

\* select chooses the done channel.
ReturnOnDone ==
    /\ loop = "select" /\ done
    /\ loop' = "returned"
    /\ UNCHANGED <<rest, current, due, status, queue, tick, main, done>>

\* Mutant: a triggered task runs only if it is due.
TakeIfDue ==
    /\ loop = "select" /\ queue # <<>>
    /\ queue' = Tail(queue)
    /\ IF Head(queue) \in Enabled \cap due
       THEN Execute(Head(queue))
       ELSE UNCHANGED <<loop, current, status>>
    /\ UNCHANGED <<rest, due, tick, main, done>>

\* select chooses the trigger channel; the task runs, enabled and due or not.
TakeTrigger ==
    /\ loop = "select" /\ queue # <<>>
    /\ queue' = Tail(queue)
    /\ Execute(Head(queue))
    /\ UNCHANGED <<rest, due, tick, main, done>>

\* select chooses the ticker.
TakeTick ==
    /\ loop = "select" /\ tick
    /\ tick' = FALSE
    /\ loop' = "pass"
    /\ rest' = TaskOrder
    /\ UNCHANGED <<current, due, status, queue, main, done>>

-----------------------------------------------------------------------------
(* Time *)

TickFires ==
    /\ loop \notin {"none", "returned"} /\ ~tick
    /\ tick' = TRUE
    /\ UNCHANGED <<loopVars, due, status, queue, main, done>>

\* A task's interval has passed since its last run ended.
BecomesDue(t) ==
    /\ t \notin due \cup current
    /\ due' = due \cup {t}
    /\ UNCHANGED <<loopVars, status, queue, tick, main, done>>

Goroutine == Pass \/ Finish \/ ReturnOnDone \/ TakeTrigger \/ TakeTick

Next ==
    \/ Start \/ Stop \/ CloseDone \/ StopReturns
    \/ Pass \/ Finish \/ ReturnOnDone \/ TakeTrigger \/ TakeTick
    \/ TickFires
    \/ \E t \in Tasks : Trigger(t) \/ BecomesDue(t)

Spec == Init /\ [][Next]_vars

\* Goroutines and clocks go on, tasks return by their timeout, and a select does
\* not pass over a ready channel for ever (Go chooses among them at random).
Fairness ==
    /\ WF_vars(Start) /\ WF_vars(CloseDone) /\ WF_vars(StopReturns)
    /\ WF_vars(Pass) /\ WF_vars(Finish) /\ WF_vars(TickFires)
    /\ SF_vars(ReturnOnDone) /\ SF_vars(TakeTrigger) /\ SF_vars(TakeTick)

FairSpec == Spec /\ Fairness
-----------------------------------------------------------------------------
(* Properties *)

\* When Stop has returned no task is running and none will be started: main goes
\* on to close the store the tasks write to (main.go:96, 248).
StoppedIsQuiet == main = "stopped" => loop = "returned" /\ current = {}

\* /v1/agent/status shows "running" for the task that runs, and for no other.
StatusIsTrue ==
    \A t \in Tasks : status[t] = "running" <=> loop = "running" /\ t \in current

\* Nobody waits for a step that cannot be taken: Stop closes done and, once the
\* goroutine has returned, returns; a pass and a task come to their end; and where
\* the goroutine selects while done is closed it can leave its loop.
NobodyIsStuck ==
    /\ main = "stopping" => ENABLED <<CloseDone>>_vars
    /\ main = "waiting" /\ loop = "returned" => ENABLED <<StopReturns>>_vars
    /\ loop = "pass" => ENABLED <<Pass>>_vars
    /\ loop = "running" => ENABLED <<Finish>>_vars
    /\ loop = "select" /\ done => ENABLED <<ReturnOnDone>>_vars

\* Stop returns, although the select may prefer triggers and ticks for a while
\* after done is closed.
StopEnds == main = "stopping" ~> main = "stopped"

\* A queued trigger is executed unless the engine is stopped first.
QueuedRuns ==
    \A t \in Tasks : (\E i \in DOMAIN queue : queue[i] = t)
                        ~> (t \in current \/ done)

\* An enabled task that is due gets its turn, however many triggers are sent.
DueRuns == \A t \in Enabled : t \in due ~> (t \in current \/ done)
=============================================================================
