--------------------------- MODULE AgentEngineProofs ---------------------------
(***************************************************************************)
(* Proofs about AgentEngine, for every list of tasks and every capacity of *)
(* the trigger channel.                                                    *)
(***************************************************************************)
EXTENDS AgentEngine, SequenceTheorems, TLAPS

USE EngineAssumption

\* Only a running goroutine has a current task, there is a goroutine as soon as
\* main has called Start, Stop waits once it has closed done, and it returns after
\* the goroutine has.
PhasesAgree ==
    /\ loop # "running" => current = {}
    /\ main = "setup" <=> loop = "none"
    /\ main \in {"waiting", "stopped"} <=> done
    /\ main = "stopped" => loop = "returned"

IInv == TypeOK /\ PhasesAgree /\ StatusIsTrue

-----------------------------------------------------------------------------
(* Typing *)

LEMMA EmptyList == <<>> \in Seq(Tasks) /\ Len(<<>>) = 0 /\ Len(TaskOrder) \in Nat
BY EmptySeq, LenProperties

LEMMA InitType == Init => TypeOK
<1> SUFFICES ASSUME Init PROVE TypeOK
    OBVIOUS
<1>1. rest \in Seq(Tasks) /\ Len(rest) <= Len(TaskOrder)
    BY EmptyList DEF Init
<1>2. queue \in Seq(Tasks) /\ Len(queue) <= Capacity
    BY EmptyList DEF Init
<1> QED
    BY <1>1, <1>2 DEF Init, TypeOK

\* Beginning a task keeps the types of the variables it changes.
LEMMA ExecuteType ==
    ASSUME TypeOK, NEW t \in Tasks, Execute(t)
    PROVE  /\ loop' = "running"
           /\ current' \subseteq Tasks
           /\ status' \in [Tasks -> {"idle", "running", "failed"}]
BY DEF TypeOK, Execute

LEMMA NextType == TypeOK /\ [Next]_vars => TypeOK'
<1> SUFFICES ASSUME TypeOK, [Next]_vars PROVE TypeOK'
    OBVIOUS
<1>1. CASE Start
    <2>1. rest' \in Seq(Tasks) /\ Len(rest') <= Len(TaskOrder)
        BY <1>1, EmptyList DEF Start
    <2> QED
        BY <1>1, <2>1 DEF Start, TypeOK
<1>2. ASSUME NEW t \in Tasks, Trigger(t) PROVE TypeOK'
    <2>1. queue' \in Seq(Tasks) /\ Len(queue') <= Capacity
        <3>1. CASE Len(queue) < Capacity
            BY <1>2, <3>1, AppendProperties DEF Trigger, TypeOK
        <3>2. CASE ~(Len(queue) < Capacity)
            BY <1>2, <3>2 DEF Trigger, TypeOK
        <3> QED
            BY <3>1, <3>2
    <2> QED
        BY <1>2, <2>1 DEF Trigger, TypeOK, loopVars
<1>3. CASE Stop
    BY <1>3 DEF Stop, TypeOK, loopVars
<1>4. CASE CloseDone
    BY <1>4 DEF CloseDone, TypeOK, loopVars
<1>5. CASE StopReturns
    BY <1>5 DEF StopReturns, TypeOK, loopVars
<1>6. CASE Pass
    <2>1. CASE done \/ rest = <<>>
        <3>1. rest' = <<>> /\ loop' = "select"
              /\ UNCHANGED <<current, due, status, queue, tick, main, done>>
            BY <1>6, <2>1 DEF Pass
        <3>2. rest' \in Seq(Tasks) /\ Len(rest') <= Len(TaskOrder)
            BY <3>1, EmptyList
        <3> QED
            BY <3>1, <3>2 DEF TypeOK
    <2>2. CASE ~(done \/ rest = <<>>)
        <3>1. Head(rest) \in Tasks /\ Tail(rest) \in Seq(Tasks)
              /\ Len(Tail(rest)) = Len(rest) - 1
            BY <2>2, HeadTailProperties DEF TypeOK
        <3>2. rest' = Tail(rest) /\ rest' \in Seq(Tasks) /\ Len(rest') <= Len(TaskOrder)
            BY <1>6, <2>2, <3>1, EmptyList, LenProperties DEF Pass, TypeOK
        <3>3. UNCHANGED <<due, queue, tick, main, done>>
            BY <1>6 DEF Pass
        <3>4. CASE Head(rest) \in Enabled \cap due
            <4>1. Execute(Head(rest))
                BY <1>6, <2>2, <3>4 DEF Pass
            <4> QED
                BY <3>1, <3>2, <3>3, <4>1, ExecuteType DEF TypeOK
        <3>5. CASE ~(Head(rest) \in Enabled \cap due)
            BY <1>6, <2>2, <3>2, <3>3, <3>5 DEF Pass, TypeOK
        <3> QED
            BY <3>4, <3>5
    <2> QED
        BY <2>1, <2>2
<1>7. CASE Finish
    <2>1. status' \in [Tasks -> {"idle", "running", "failed"}]
        BY <1>7 DEF Finish, TypeOK
    <2> QED
        BY <1>7, <2>1 DEF Finish, TypeOK
<1>8. CASE ReturnOnDone
    BY <1>8 DEF ReturnOnDone, TypeOK
<1>9. CASE TakeTrigger
    <2>1. Head(queue) \in Tasks /\ queue' \in Seq(Tasks) /\ Len(queue') <= Capacity
        BY <1>9, HeadTailProperties, LenProperties DEF TakeTrigger, TypeOK
    <2>2. Execute(Head(queue)) /\ UNCHANGED <<rest, due, tick, main, done>>
        BY <1>9 DEF TakeTrigger
    <2> QED
        BY <2>1, <2>2, ExecuteType DEF TypeOK
<1>10. CASE TakeTick
    <2>1. rest' \in Seq(Tasks) /\ Len(rest') <= Len(TaskOrder)
        BY <1>10, EmptyList DEF TakeTick
    <2>2. loop' = "pass" /\ tick' = FALSE
          /\ UNCHANGED <<current, due, status, queue, main, done>>
        BY <1>10 DEF TakeTick
    <2> QED
        BY <2>1, <2>2 DEF TypeOK
<1>11. CASE TickFires
    BY <1>11 DEF TickFires, TypeOK, loopVars
<1>12. ASSUME NEW t \in Tasks, BecomesDue(t) PROVE TypeOK'
    BY <1>12 DEF BecomesDue, TypeOK, loopVars
<1>13. CASE UNCHANGED vars
    BY <1>13 DEF vars, TypeOK
<1> QED
    BY <1>1, <1>2, <1>3, <1>4, <1>5, <1>6, <1>7, <1>8, <1>9, <1>10, <1>11, <1>12, <1>13
    DEF Next

-----------------------------------------------------------------------------
(* The invariant *)

\* A task that begins while none runs is the one whose status says so.
LEMMA ExecuteStatus ==
    ASSUME IInv, loop # "running", NEW t \in Tasks, Execute(t), main' = main,
           done' = done, main # "setup", main # "stopped"
    PROVE  PhasesAgree' /\ StatusIsTrue'
<1>1. \A s \in Tasks : status[s] # "running"
    BY DEF IInv, StatusIsTrue
<1>2. StatusIsTrue'
    BY <1>1 DEF IInv, TypeOK, Execute, StatusIsTrue
<1>3. PhasesAgree'
    BY DEF IInv, Execute, PhasesAgree
<1> QED
    BY <1>2, <1>3

LEMMA NextInv == IInv /\ [Next]_vars => PhasesAgree' /\ StatusIsTrue'
<1> SUFFICES ASSUME IInv, [Next]_vars PROVE PhasesAgree' /\ StatusIsTrue'
    OBVIOUS
<1> USE DEF IInv
<1>1. CASE Start
    BY <1>1 DEF Start, PhasesAgree, StatusIsTrue
<1>2. ASSUME NEW t \in Tasks, Trigger(t) PROVE PhasesAgree' /\ StatusIsTrue'
    BY <1>2 DEF Trigger, PhasesAgree, StatusIsTrue, loopVars
<1>3. CASE Stop
    BY <1>3 DEF Stop, PhasesAgree, StatusIsTrue, loopVars
<1>4. CASE CloseDone
    BY <1>4 DEF CloseDone, PhasesAgree, StatusIsTrue, loopVars
<1>5. CASE StopReturns
    BY <1>5 DEF StopReturns, PhasesAgree, StatusIsTrue, loopVars
<1>6. CASE Pass
    <2>1. loop = "pass" /\ main # "setup" /\ main # "stopped" /\ main' = main
        BY <1>6 DEF Pass, PhasesAgree
    <2>2. CASE done \/ rest = <<>>
        BY <1>6, <2>1, <2>2 DEF Pass, PhasesAgree, StatusIsTrue
    <2>3. CASE ~(done \/ rest = <<>>) /\ Head(rest) \in Enabled \cap due
        <3>1. Head(rest) \in Tasks
            BY <2>3, HeadTailProperties DEF TypeOK
        <3> QED
            BY <1>6, <2>1, <2>3, <3>1, ExecuteStatus DEF Pass
    <2>4. CASE ~(done \/ rest = <<>>) /\ Head(rest) \notin Enabled \cap due
        BY <1>6, <2>1, <2>4 DEF Pass, PhasesAgree, StatusIsTrue
    <2> QED
        BY <2>2, <2>3, <2>4
<1>7. CASE Finish
    <2>1. \A t \in Tasks : status'[t] # "running"
        BY <1>7 DEF Finish, StatusIsTrue
    <2> QED
        BY <1>7, <2>1 DEF Finish, PhasesAgree, StatusIsTrue
<1>8. CASE ReturnOnDone
    BY <1>8 DEF ReturnOnDone, PhasesAgree, StatusIsTrue
<1>9. CASE TakeTrigger
    <2>1. Head(queue) \in Tasks
        BY <1>9, HeadTailProperties DEF TakeTrigger, TypeOK
    <2> QED
        BY <1>9, <2>1, ExecuteStatus DEF TakeTrigger, PhasesAgree
<1>10. CASE TakeTick
    BY <1>10 DEF TakeTick, PhasesAgree, StatusIsTrue
<1>11. CASE TickFires
    BY <1>11 DEF TickFires, PhasesAgree, StatusIsTrue, loopVars
<1>12. ASSUME NEW t \in Tasks, BecomesDue(t) PROVE PhasesAgree' /\ StatusIsTrue'
    BY <1>12 DEF BecomesDue, PhasesAgree, StatusIsTrue, loopVars
<1>13. CASE UNCHANGED vars
    BY <1>13 DEF vars, PhasesAgree, StatusIsTrue
<1> QED
    BY <1>1, <1>2, <1>3, <1>4, <1>5, <1>6, <1>7, <1>8, <1>9, <1>10, <1>11, <1>12, <1>13
    DEF Next

\* The invariant the theorems follow from.
THEOREM InvHolds == Spec => []IInv
<1>1. Init => IInv
    BY InitType DEF Init, IInv, PhasesAgree, StatusIsTrue
<1>2. IInv /\ [Next]_vars => IInv'
    BY NextType, NextInv DEF IInv
<1> QED
    BY <1>1, <1>2, PTL DEF Spec

\* The scheduler's state is well typed; the trigger channel never holds more
\* than its capacity (Engine.Trigger's select with a default).
THEOREM EngineTypeCorrect == Spec => []TypeOK
BY InvHolds, PTL DEF IInv

\* When Engine.Stop returns no task is running, whatever was triggered.
THEOREM StopLeavesQuiet == Spec => []StoppedIsQuiet
<1>1. IInv => StoppedIsQuiet
    BY DEF IInv, PhasesAgree, StoppedIsQuiet
<1> QED
    BY <1>1, InvHolds, PTL

\* Engine.Status shows the running task, and no other, as running.
THEOREM StatusShowsRunning == Spec => []StatusIsTrue
BY InvHolds, PTL DEF IInv

-----------------------------------------------------------------------------
(* Turns.  QueuedRuns and DueRuns rest on the two facts below, besides fairness. *)

\* Nothing leaves the trigger channel but its head, which is executed there and then.
OnlyRunsLeaveQueue ==
    \/ UNCHANGED queue
    \/ \E t \in Tasks : queue' = Append(queue, t)
    \/ /\ queue # <<>> /\ queue' = Tail(queue)
       /\ loop = "select" /\ loop' = "running" /\ current' = {Head(queue)}

\* The task t is still to be looked at by the pass under way.
InRest(t) == \E i \in DOMAIN rest : rest[i] = t

\* A pass looks at one task after another: one that is enabled and due when its turn
\* comes is executed, and none is left out unless done is closed.
PassKeepsOrder ==
    \A t \in Enabled \cap due :
        InRest(t) => \/ InRest(t)' \/ done
                     \/ loop' = "running" /\ current' = {t}

\* A pass looks at each task once: while it lasts it only gets shorter.
PassGetsShorter ==
    loop = "pass" /\ loopVars' # loopVars => loop' = "select" \/ Len(rest') < Len(rest)

LEMMA TurnsStep ==
    ASSUME IInv, [Next]_vars
    PROVE  OnlyRunsLeaveQueue /\ PassKeepsOrder /\ PassGetsShorter
<1> USE DEF OnlyRunsLeaveQueue, PassGetsShorter
<1> SUFFICES /\ OnlyRunsLeaveQueue /\ PassGetsShorter
             /\ \A t \in Enabled \cap due :
                    InRest(t) => \/ InRest(t)' \/ done
                                 \/ loop' = "running" /\ current' = {t}
    BY DEF PassKeepsOrder
<1>1. ASSUME UNCHANGED loopVars
      PROVE  /\ PassGetsShorter
             /\ \A t \in Enabled \cap due : InRest(t) => InRest(t)'
    BY <1>1 DEF loopVars, InRest
<1>2. ASSUME rest' = TaskOrder PROVE \A t \in Enabled \cap due : InRest(t)'
    <2> TAKE t \in Enabled \cap due
    <2>1. t \in Tasks
        BY DEF IInv, TypeOK
    <2>2. PICK i \in DOMAIN TaskOrder : TaskOrder[i] = t
        BY <2>1 DEF Tasks
    <2> QED
        BY <1>2, <2>2 DEF InRest
<1>3. CASE Start
    BY <1>2, <1>3 DEF Start, IInv, PhasesAgree
<1>4. ASSUME NEW t \in Tasks, Trigger(t)
      PROVE  OnlyRunsLeaveQueue /\ UNCHANGED loopVars
    BY <1>4 DEF Trigger
<1>5. CASE Stop \/ CloseDone \/ StopReturns \/ TickFires
    <2>1. UNCHANGED queue /\ UNCHANGED loopVars
        BY <1>5 DEF Stop, CloseDone, StopReturns, TickFires
    <2> QED
        BY <1>1, <2>1
<1>6. CASE Pass
    <2>1. UNCHANGED queue
        BY <1>6 DEF Pass
    <2>2. CASE done \/ rest = <<>>
        <3>1. loop' = "select"
            BY <1>6, <2>2 DEF Pass
        <3>2. \A t \in Enabled \cap due : InRest(t) => done
            BY <2>2, EmptySeq DEF InRest
        <3> QED
            BY <2>1, <3>1, <3>2
    <2>3. CASE ~(done \/ rest = <<>>)
        <3>1. /\ rest \in Seq(Tasks) /\ rest # <<>> /\ rest' = Tail(rest)
              /\ \/ Head(rest) \in Enabled \cap due /\ Execute(Head(rest))
                 \/ Head(rest) \notin Enabled \cap due
            BY <1>6, <2>3 DEF Pass, IInv, TypeOK
        <3>2. /\ rest' \in Seq(Tasks) /\ Len(rest') = Len(rest) - 1 /\ Len(rest) \in Nat
              /\ \A i \in 1..Len(rest') : rest'[i] = rest[i + 1]
            BY <3>1, HeadTailProperties, LenProperties
        <3>3. ASSUME NEW t \in Enabled \cap due, InRest(t)
              PROVE  InRest(t)' \/ (loop' = "running" /\ current' = {t})
            <4>1. PICK i \in 1..Len(rest) : rest[i] = t
                BY <3>1, <3>3, LenProperties DEF InRest
            <4>2. CASE i = 1
                <5>1. Head(rest) = t
                    BY <3>1, <4>1, <4>2
                <5> QED
                    BY <3>1, <3>3, <5>1 DEF Execute
            <4>3. CASE i # 1
                <5>1. i - 1 \in 1..Len(rest') /\ (i - 1) + 1 = i
                    BY <3>2, <4>3
                <5>2. rest'[i - 1] = t
                    BY <3>2, <4>1, <5>1
                <5>3. i - 1 \in DOMAIN rest'
                    BY <3>2, <5>1, LenProperties
                <5> QED
                    BY <5>2, <5>3 DEF InRest
            <4> QED
                BY <4>2, <4>3
        <3>4. Len(rest') < Len(rest)
            BY <3>2
        <3> QED
            BY <2>1, <3>3, <3>4
    <2> QED
        BY <2>2, <2>3
<1>7. CASE Finish
    BY <1>7 DEF Finish, InRest
<1>8. CASE ReturnOnDone
    BY <1>8 DEF ReturnOnDone, InRest
<1>9. CASE TakeTrigger
    BY <1>9 DEF TakeTrigger, Execute, InRest
<1>10. CASE TakeTick
    BY <1>2, <1>10 DEF TakeTick
<1>11. ASSUME NEW t \in Tasks, BecomesDue(t)
       PROVE  OnlyRunsLeaveQueue /\ UNCHANGED loopVars
    BY <1>11 DEF BecomesDue
<1>12. CASE UNCHANGED vars
    BY <1>1, <1>12 DEF vars, loopVars
<1> QED
    BY <1>1, <1>3, <1>4, <1>5, <1>6, <1>7, <1>8, <1>9, <1>10, <1>11, <1>12 DEF Next

\* For every list of tasks and every capacity: a trigger that is in the channel leaves
\* it to run (runTaskByName), and a pass of runDueTasks comes to every task once, leaves
\* out none that is due then, and gets shorter with each.
THEOREM TurnsAreKept ==
    Spec => [][OnlyRunsLeaveQueue /\ PassKeepsOrder /\ PassGetsShorter]_vars
BY TurnsStep, InvHolds, PTL DEF Spec

-----------------------------------------------------------------------------
(* Stop returns *)

\* Stop waits for a goroutine that is at the given place of its loop.
WaitsFor(place) == main = "waiting" /\ loop = place

\* Until the goroutine has returned it is in one of three places.
LEMMA StopWaitsForLoop ==
    IInv /\ main = "waiting" => \/ WaitsFor("pass") \/ WaitsFor("running")
                               \/ WaitsFor("select") \/ WaitsFor("returned")
BY DEF IInv, TypeOK, PhasesAgree, WaitsFor

\* Nothing takes a Stop back that has begun.
LEMMA StopGoesOn ==
    ASSUME IInv, main = "stopping", [Next]_vars
    PROVE  (main = "stopping" \/ main = "waiting")'
BY DEF Next, vars, loopVars, Start, Stop, CloseDone, StopReturns, Pass, Finish, ReturnOnDone,
       TakeTrigger, TakeTick, TickFires, Trigger, BecomesDue

\* Only the goroutine's return ends the wait.
LEMMA WaitGoesOn ==
    ASSUME IInv, main = "waiting", [Next]_vars
    PROVE  \/ (main = "waiting")'
           \/ loop = "returned" /\ (main = "stopped")'
BY DEF Next, vars, loopVars, Start, Stop, CloseDone, StopReturns, Pass, Finish, ReturnOnDone,
       TakeTrigger, TakeTick, TickFires, Trigger, BecomesDue

\* Once done is closed a pass leads to the select at once, ...
LEMMA PassLeadsToSelect ==
    ASSUME IInv, WaitsFor("pass"), [Next]_vars
    PROVE  WaitsFor("pass")' \/ WaitsFor("select")'
<1>1. done
    BY DEF IInv, PhasesAgree, WaitsFor
<1> QED
    BY <1>1 DEF Next, vars, loopVars, WaitsFor, Start, Stop, CloseDone, StopReturns, Pass, Finish,
       ReturnOnDone, TakeTrigger, TakeTick, TickFires, Trigger, BecomesDue

\* ... a task to what is left of its pass, or to the select, ...
LEMMA TaskLeadsToPass ==
    ASSUME IInv, WaitsFor("running"), [Next]_vars
    PROVE  WaitsFor("running")' \/ WaitsFor("pass")' \/ WaitsFor("select")'
BY DEF Next, vars, loopVars, WaitsFor, Start, Stop, CloseDone, StopReturns, Pass, Finish,
       ReturnOnDone, TakeTrigger, TakeTick, TickFires, Trigger, BecomesDue

\* ... and a goroutine that has returned does not start again.
LEMMA ReturnedStays ==
    ASSUME IInv, WaitsFor("returned"), [Next]_vars
    PROVE  WaitsFor("returned")' \/ (main = "stopped")'
BY DEF Next, vars, loopVars, WaitsFor, Start, Stop, CloseDone, StopReturns, Pass, Finish,
       ReturnOnDone, TakeTrigger, TakeTick, TickFires, Trigger, BecomesDue

\* What each step that fairness forces brings about.
LEMMA FairStepsLead ==
    ASSUME IInv
    PROVE  /\ <<CloseDone>>_vars => (main = "waiting")'
           /\ WaitsFor("pass") /\ <<Pass>>_vars => WaitsFor("select")'
           /\ WaitsFor("running") /\ <<Finish>>_vars => WaitsFor("pass")' \/ WaitsFor("select")'
           /\ main = "waiting" /\ <<ReturnOnDone>>_vars => WaitsFor("returned")'
           /\ <<StopReturns>>_vars => (main = "stopped")'
BY DEF IInv, PhasesAgree, WaitsFor, CloseDone, Pass, Finish, ReturnOnDone, StopReturns

\* Engine.Stop returns, however many triggers and ticks compete with the closed done
\* channel in the select.  The hypothesis on enabledness is the one TLC checks.
THEOREM StopComesToAnEnd == FairSpec /\ []NobodyIsStuck => StopEnds
<1>1. NobodyIsStuck /\ main = "stopping" => ENABLED <<CloseDone>>_vars
    BY DEF NobodyIsStuck
<1>2. NobodyIsStuck /\ WaitsFor("returned") => ENABLED <<StopReturns>>_vars
    BY DEF NobodyIsStuck, WaitsFor
<1>3. NobodyIsStuck /\ WaitsFor("pass") => ENABLED <<Pass>>_vars
    BY DEF NobodyIsStuck, WaitsFor
<1>4. NobodyIsStuck /\ WaitsFor("running") => ENABLED <<Finish>>_vars
    BY DEF NobodyIsStuck, WaitsFor
<1>5. NobodyIsStuck /\ IInv /\ WaitsFor("select") => ENABLED <<ReturnOnDone>>_vars
    BY DEF NobodyIsStuck, WaitsFor, IInv, PhasesAgree
<1>6. IInv /\ main = "stopping" /\ [Next]_vars => (main = "stopping")' \/ (main = "waiting")'
    BY StopGoesOn
<1>7. IInv /\ main = "waiting" /\ [Next]_vars => (main = "waiting")' \/ (main = "stopped")'
    BY WaitGoesOn
<1>8. IInv /\ WaitsFor("pass") /\ [Next]_vars => WaitsFor("pass")' \/ WaitsFor("select")'
    BY PassLeadsToSelect
<1>9. IInv /\ WaitsFor("running") /\ [Next]_vars
        => WaitsFor("running")' \/ WaitsFor("pass")' \/ WaitsFor("select")'
    BY TaskLeadsToPass
<1>10. IInv /\ WaitsFor("returned") /\ [Next]_vars => WaitsFor("returned")' \/ (main = "stopped")'
    BY ReturnedStays
<1> QED
    BY <1>1, <1>2, <1>3, <1>4, <1>5, <1>6, <1>7, <1>8, <1>9, <1>10,
       FairStepsLead, StopWaitsForLoop, InvHolds, PTL DEF FairSpec, Spec, Fairness, StopEnds
=============================================================================
