----------------------------- MODULE AlertTaskProofs -----------------------------
(***************************************************************************)
(* Proofs about AlertTask, for all channels, limits and failures, and      *)
(* about the distances and scores it relies on (modules BrandSpoofing and  *)
(* Lexical), for all strings, domains, brands and configuration files.     *)
(***************************************************************************)
EXTENDS AlertTask, FiniteSetTheorems, WellFoundedInduction, TLAPS

-----------------------------------------------------------------------------
(* Typing *)

LEMMA InitType == Init => TypeOK
BY AlertAssumption DEF Init, TypeOK

\* What the queries return are rows of the log, and what is started of them speaks
\* of such rows on a channel.
LEMMA RowsInLog == Rows \subseteq DOMAIN log
BY DEF Rows

LEMMA NoticesOfBatch ==
    \A n \in NewNotices : /\ n.channel \in Channels \ Webhook
                          /\ n.rows = {i \in batch : Critical(i)} /\ n.rows # {}
BY DEF NewNotices

\* An attempt to send adds its rows and channels to one side or the other.
LEMMA SendingAdds ==
    ASSUME NEW pairs, Sending(pairs)
    PROVE  /\ sent \subseteq sent' /\ sent' \subseteq sent \cup pairs
           /\ lost \subseteq lost' /\ lost' \subseteq lost \cup pairs
           /\ pairs \subseteq sent' \cup lost'
BY DEF Sending

LEMMA TypeStep == TypeOK /\ [Next]_vars => TypeOK'
<1> SUFFICES ASSUME TypeOK, [Next]_vars PROVE TypeOK'
  OBVIOUS
<1>1. CASE StartWriter
  BY <1>1 DEF StartWriter, TypeOK
<1>2. CASE Record
  <2>1. PICK k \in Kinds : log' = Append(log, [kind |-> k, at |-> second])
    BY <1>2 DEF Record
  <2>2. [kind |-> k, at |-> second] \in [kind : Kinds, at : Nat]
    BY AlertAssumption DEF TypeOK
  <2>3. log' \in Seq([kind : Kinds, at : Nat]) /\ DOMAIN log \subseteq DOMAIN log'
    BY <2>1, <2>2 DEF TypeOK
  <2>4. QED
    BY <1>2, <2>3 DEF Record, TypeOK
<1>3. CASE EndWriter
  BY <1>3 DEF EndWriter, TypeOK
<1>4. CASE Skip
  BY <1>4 DEF Skip, vars, TypeOK
<1>5. CASE Begin
  BY <1>5, RowsInLog DEF Begin, TypeOK
<1>6. CASE End
  <2>1. batch \X Webhook \subseteq (DOMAIN log) \X Channels
    BY DEF TypeOK, Webhook
  <2>2. Sending(batch \X Webhook)
    BY <1>6 DEF End, WebhookAnswers
  <2>3. sent' \subseteq (DOMAIN log) \X Channels /\ lost' \subseteq (DOMAIN log) \X Channels
    BY <2>1, <2>2, SendingAdds DEF TypeOK
  <2>4. \A n \in NewNotices : n.channel \in Channels /\ n.rows \subseteq DOMAIN log /\ n.rows # {}
    BY NoticesOfBatch DEF TypeOK
  <2>5. second \in Nat /\ second <= second
    BY AlertAssumption DEF TypeOK
  <2>6. QED
    BY <1>6, <2>3, <2>4, <2>5 DEF End, TypeOK
<1>7. CASE Restart
  <2>1. batch \X Webhook \subseteq (DOMAIN log) \X Channels
    BY DEF TypeOK, Webhook
  <2>2. sent' \subseteq (DOMAIN log) \X Channels /\ lost' \subseteq (DOMAIN log) \X Channels
    BY <1>7, <2>1 DEF Restart, TypeOK
  <2>3. second \in Nat /\ second <= second
    BY AlertAssumption DEF TypeOK
  <2>4. QED
    BY <1>7, <2>2, <2>3 DEF Restart, TypeOK
<1>8. ASSUME NEW n \in notices, Notify(n) PROVE TypeOK'
  <2>1. n.rows \X {n.channel} \subseteq (DOMAIN log) \X Channels
    BY DEF TypeOK
  <2>2. Sending(n.rows \X {n.channel})
    BY <1>8 DEF Notify
  <2>3. sent' \subseteq (DOMAIN log) \X Channels /\ lost' \subseteq (DOMAIN log) \X Channels
    BY <2>1, <2>2, SendingAdds DEF TypeOK
  <2>4. QED
    BY <1>8, <2>3 DEF Notify, TypeOK
<1>9. CASE Tick
  BY <1>9, AlertAssumption DEF Tick, TypeOK
<1>10. CASE UNCHANGED vars
  BY <1>10 DEF vars, TypeOK
<1>11. QED
  BY <1>1, <1>2, <1>3, <1>4, <1>5, <1>6, <1>7, <1>8, <1>9, <1>10 DEF Next

\* The clock and the mark keep their order, what a run holds or sends is of the log,
\* and what is sent or lost is of configured channels.
THEOREM AlertTypeCorrect == Spec => []TypeOK
BY InitType, TypeStep, PTL DEF Spec

-----------------------------------------------------------------------------
(* What becomes of each event *)

\* No row is of the future.
RowsArePast == \A i \in DOMAIN log : log[i].at <= second

\* What the running alert's query left out of its window counts as lost.
WindowTaken ==
    running = "alert" =>
        \A i \in DOMAIN log : Since(i) => i \in batch \/ {i} \X Channels \subseteq lost

EventInv == TypeOK /\ RowsArePast /\ WindowTaken /\ NoEventLost

\* A row keeps what it is and whom it is due to.
LEMMA RowsStay ==
    ASSUME TypeOK, [Next]_vars
    PROVE  /\ DOMAIN log \subseteq DOMAIN log'
           /\ \A i \in DOMAIN log : log'[i] = log[i]
           /\ subject' = subject
           /\ \A i \in DOMAIN log' \ DOMAIN log : log'[i].at = second
<1>1. CASE Record
  <2>1. PICK k \in Kinds : log' = Append(log, [kind |-> k, at |-> second])
    BY <1>1 DEF Record
  <2>2. log \in Seq([kind : Kinds, at : Nat])
    BY DEF TypeOK
  <2>3. DOMAIN log = 1..Len(log) /\ DOMAIN log' = 1..(Len(log) + 1) /\ Len(log) \in Nat
    BY <2>1, <2>2
  <2>4. \A i \in DOMAIN log : log'[i] = log[i]
    BY <2>1, <2>2
  <2>5. log'[Len(log) + 1] = [kind |-> k, at |-> second]
    BY <2>1, <2>2
  <2>6. \A i \in DOMAIN log' \ DOMAIN log : i = Len(log) + 1
    BY <2>3
  <2>7. QED
    BY <1>1, <2>3, <2>4, <2>5, <2>6 DEF Record
<1>2. CASE ~Record
  <2>1. log' = log /\ subject' = subject
    BY <1>2 DEF Next, vars, StartWriter, EndWriter, Skip, Begin, End, Restart, Notify, Tick
  <2>2. QED
    BY <2>1
<1>3. QED
  BY <1>1, <1>2

LEMMA RowsAreDated == ASSUME TypeOK PROVE \A i \in DOMAIN log : log[i].at \in Nat
<1>1. \A i \in DOMAIN log : log[i] \in [kind : Kinds, at : Nat]
  <2> DEFINE Event == [kind : Kinds, at : Nat]
  <2>1. log \in Seq(Event)
    BY DEF TypeOK
  <2> HIDE DEF Event
  <2>2. \A i \in DOMAIN log : log[i] \in Event
    BY <2>1
  <2>3. QED
    BY <2>2 DEF Event
<1>2. QED
  BY <1>1

LEMMA ClockRuns ==
    ASSUME TypeOK, [Next]_vars
    PROVE  second \in Nat /\ second' \in Nat /\ second <= second'
<1>1. second \in Nat
  BY AlertAssumption DEF TypeOK
<1>2. second' = second \/ second' = second + 1
  BY DEF Next, vars, StartWriter, Record, EndWriter, Skip, Begin, End, Restart, Notify, Tick
<1>3. QED
  BY <1>1, <1>2

LEMMA DueStays == ASSUME TypeOK, [Next]_vars, NEW i \in DOMAIN log PROVE Due(i)' = Due(i)
BY RowsStay DEF Due, Critical, Webhook

LEMMA EventInit == Init => EventInv
BY InitType DEF Init, EventInv, RowsArePast, WindowTaken, NoEventLost

LEMMA PastStep == ASSUME TypeOK, RowsArePast, [Next]_vars PROVE RowsArePast'
BY ClockRuns, RowsAreDated, RowsStay DEF RowsArePast

LEMMA WindowStep == ASSUME TypeOK, WindowTaken, [Next]_vars PROVE WindowTaken'
<1>1. CASE Begin
  <2>1. \A i \in DOMAIN log : Since(i) /\ i \notin batch' => {i} \X Channels \subseteq lost'
    BY <1>1 DEF Begin
  <2>2. log' = log /\ lastAlert' = lastAlert
    BY <1>1 DEF Begin
  <2>3. QED
    BY <2>1, <2>2 DEF WindowTaken, Since
<1>2. ASSUME NEW n \in notices, Notify(n) PROVE WindowTaken'
  <2>1. lost \subseteq lost'
    BY <1>2, SendingAdds DEF Notify
  <2>2. QED
    BY <1>2, <2>1 DEF Notify, WindowTaken, Since
<1>3. CASE StartWriter \/ Record \/ EndWriter \/ End \/ Restart
  <2>1. running' # "alert"
    BY <1>3 DEF StartWriter, Record, EndWriter, End, Restart
  <2>2. QED
    BY <2>1 DEF WindowTaken
<1>4. CASE Skip \/ Tick \/ UNCHANGED vars
  BY <1>4 DEF Skip, Tick, vars, WindowTaken, Since
<1>5. QED
  BY <1>1, <1>2, <1>3, <1>4 DEF Next

\* What the webhook has answered and the notices hand on is every event there is:
\* those before the mark were settled or are under way, the others are in the batch.
LEMMA EndSettles ==
    ASSUME EventInv, End, NEW i \in DOMAIN log, NEW c \in Due(i)
    PROVE  <<i, c>> \in sent' \cup lost' \/ UnderWay(i, c)'
<1> USE DEF EventInv
<1>1. Sending(batch \X Webhook) /\ notices' = notices \cup NewNotices /\ running = "alert"
  BY DEF End, WebhookAnswers
<1>2. sent \subseteq sent' /\ lost \subseteq lost' /\ batch \X Webhook \subseteq sent' \cup lost'
  BY <1>1, SendingAdds
<1>3. c \in Channels /\ lastAlert \in Nat /\ log[i].at \in Nat
  BY RowsAreDated DEF Due, Webhook, TypeOK
<1>4. CASE log[i].at < lastAlert
  BY <1>1, <1>2, <1>4 DEF NoEventLost, UnderWay
<1>5. CASE Since(i) /\ i \notin batch
  BY <1>1, <1>2, <1>3, <1>5 DEF WindowTaken
<1>6. CASE i \in batch /\ c \in Webhook
  BY <1>2, <1>6
<1>7. CASE i \in batch /\ c \notin Webhook
  <2>1. Critical(i)
    BY <1>7 DEF Due
  <2> DEFINE critical == {j \in batch : Critical(j)}
             n == [channel |-> c, rows |-> critical]
  <2>2. n \in NewNotices
    BY <1>3, <1>7, <2>1 DEF NewNotices
  <2>3. n \in notices' /\ n.channel = c /\ i \in n.rows
    BY <1>1, <1>7, <2>1, <2>2
  <2>4. QED
    BY <2>3 DEF UnderWay
<1>8. QED
  BY <1>3, <1>4, <1>5, <1>6, <1>7 DEF Since

\* Every event before the mark is accounted for, and stays so: a mark that moves
\* has passed only what the run has read or lost.
LEMMA LossStep == ASSUME EventInv, [Next]_vars PROVE NoEventLost'
<1> USE DEF EventInv
<1> SUFFICES ASSUME NEW i \in DOMAIN log', NEW c \in Due(i)', log'[i].at < lastAlert'
             PROVE  <<i, c>> \in sent' \cup lost' \/ UnderWay(i, c)'
  BY DEF NoEventLost
<1>1. second \in Nat /\ lastAlert \in Nat /\ lastAlert <= second
  BY AlertAssumption DEF TypeOK
<1>2. lastAlert' = lastAlert \/ lastAlert' = second
  BY DEF Next, vars, StartWriter, Record, EndWriter, Skip, Begin, End, Restart, Notify, Tick
<1>3. i \in DOMAIN log
  BY <1>1, <1>2, RowsStay
<1>4. log'[i] = log[i] /\ log[i].at \in Nat /\ c \in Due(i)
  BY <1>3, RowsStay, RowsAreDated, DueStays
<1>5. c \in Channels
  BY <1>4 DEF Due, Webhook
<1>6. CASE Restart
  BY <1>3, <1>5, <1>6 DEF Restart
<1>7. CASE End
  <2>1. log' = log
    BY <1>7 DEF End
  <2>2. QED
    BY <1>3, <1>4, <1>7, <2>1, EndSettles DEF UnderWay
<1>8. ASSUME NEW n \in notices, Notify(n) PROVE <<i, c>> \in sent' \cup lost' \/ UnderWay(i, c)'
  <2>1. notices' = notices \ {n} /\ lastAlert' = lastAlert /\ Sending(n.rows \X {n.channel})
    BY <1>8 DEF Notify
  <2>2. sent \subseteq sent' /\ lost \subseteq lost' /\ n.rows \X {n.channel} \subseteq sent' \cup lost'
    BY <2>1, SendingAdds
  <2>3. CASE <<i, c>> \in sent \cup lost
    BY <2>2, <2>3
  <2>4. CASE UnderWay(i, c)
    <3>1. PICK m \in notices : m.channel = c /\ i \in m.rows
      BY <2>4 DEF UnderWay
    <3>2. CASE m = n
      BY <2>2, <3>1, <3>2
    <3>3. CASE m # n
      BY <2>1, <3>1, <3>3 DEF UnderWay
    <3>4. QED
      BY <3>2, <3>3
  <2>5. QED
    BY <1>3, <1>4, <2>1, <2>3, <2>4 DEF NoEventLost
<1>9. CASE StartWriter \/ Record \/ EndWriter \/ Skip \/ Begin \/ Tick \/ UNCHANGED vars
  <2>1. lastAlert' = lastAlert /\ notices' = notices /\ sent' = sent /\ lost \subseteq lost'
    BY <1>9 DEF StartWriter, Record, EndWriter, Skip, Begin, Tick, vars
  <2>2. QED
    BY <1>3, <1>4, <2>1 DEF NoEventLost, UnderWay
<1>10. QED
  BY <1>6, <1>7, <1>8, <1>9 DEF Next

\* The invariant the two theorems follow from.
LEMMA EventsAccounted == Spec => []EventInv
<1>1. EventInv /\ [Next]_vars => EventInv'
  BY TypeStep, PastStep, WindowStep, LossStep DEF EventInv
<1>2. QED
  BY EventInit, <1>1, PTL DEF Spec

\* Whatever the channels, the query's limit and the failures: no event falls behind
\* the mark without having reached every channel it is due to, but those something
\* has lost.  Since no other task writes while the alert task runs, what its query
\* read or left out is all there is up to the mark it then sets.
THEOREM NoEventFallsBehind == Spec => []NoEventLost
<1>1. EventInv => NoEventLost
  BY DEF EventInv
<1>2. QED
  BY EventsAccounted, <1>1, PTL

\* What leaves the alert task, its end or a restart, leaves no event to wait for another
\* run; and until a run leaves it, an event that waits is in its hands or waits for the
\* next: nothing else takes an event from those that wait.
RunsLeaveNothing ==
    /\ running = "alert" /\ running' # "alert" => Waiting' = {}
    /\ running # "alert" => Waiting \subseteq Waiting' \/ Waiting' = {} \/ running' = "alert"

\* Rows whose channels, and what these have had, stay as they are.
LEMMA SameWaiting ==
    ASSUME TypeOK, UNCHANGED <<log, subject, notices, sent, lost>>
    PROVE  Waiting' = Waiting
BY DEF Waiting, Pending, Due, Critical, UnderWay, Webhook

\* A restart has lost whatever has not been sent.
LEMMA RestartEmpties == ASSUME TypeOK, Restart PROVE Waiting' = {}
<1>1. SUFFICES ASSUME NEW i \in Waiting' PROVE FALSE
  OBVIOUS
<1>2. i \in DOMAIN log' /\ \E c \in Due(i)' : <<i, c>> \notin sent' \cup lost'
  BY DEF Waiting, Pending
<1>3. PICK c \in Due(i)' : <<i, c>> \notin sent' \cup lost'
  BY <1>2
<1>4. c \in Channels /\ i \in DOMAIN log
  BY <1>2 DEF Due, Webhook, Restart
<1>5. QED
  BY <1>3, <1>4 DEF Restart

LEMMA EndEmpties == ASSUME EventInv, End PROVE Waiting' = {}
<1>1. SUFFICES ASSUME NEW i \in Waiting' PROVE FALSE
  OBVIOUS
<1>2. i \in DOMAIN log /\ log' = log /\ subject' = subject
  BY DEF Waiting, Pending, End
<1>3. PICK c \in Due(i)' : <<i, c>> \notin sent' \cup lost' /\ ~UnderWay(i, c)'
  BY DEF Waiting
<1>4. c \in Due(i)
  BY <1>2, <1>3 DEF Due, Critical, Webhook
<1>5. QED
  BY <1>2, <1>3, <1>4, EndSettles

\* A notification settles what it was to send and nothing that waits.
LEMMA NotifyKeepsWaiting ==
    ASSUME EventInv, NEW n \in notices, Notify(n)
    PROVE  Waiting \subseteq Waiting'
<1>1. SUFFICES ASSUME NEW i \in Waiting PROVE i \in Waiting'
  OBVIOUS
<1>2. /\ notices' = notices \ {n} /\ log' = log /\ subject' = subject
      /\ Sending(n.rows \X {n.channel})
  BY DEF Notify
<1>3. sent' \cup lost' \subseteq sent \cup lost \cup (n.rows \X {n.channel})
  BY <1>2, SendingAdds
<1>4. PICK c \in Due(i) : <<i, c>> \notin sent \cup lost /\ ~UnderWay(i, c)
  BY DEF Waiting
<1>5. <<i, c>> \notin sent' \cup lost'
  BY <1>3, <1>4 DEF UnderWay
<1>6. ~UnderWay(i, c)'
  BY <1>2, <1>4 DEF UnderWay
<1>7. i \in DOMAIN log' /\ c \in Due(i)'
  BY <1>2, <1>4 DEF Waiting, Pending, Due, Critical, Webhook
<1>8. QED
  BY <1>5, <1>6, <1>7 DEF Waiting, Pending

\* A new row makes no other cease to wait.
LEMMA RecordKeepsWaiting == ASSUME TypeOK, Record PROVE Waiting \subseteq Waiting'
<1>1. SUFFICES ASSUME NEW i \in Waiting PROVE i \in Waiting'
  OBVIOUS
<1>2. notices' = notices /\ sent' = sent /\ lost' = lost
  BY DEF Record
<1>3. PICK c \in Due(i) : <<i, c>> \notin sent \cup lost /\ ~UnderWay(i, c)
  BY DEF Waiting
<1>4. i \in DOMAIN log
  BY DEF Waiting, Pending
<1>5. [Next]_vars
  BY DEF Next
<1>6. i \in DOMAIN log' /\ c \in Due(i)'
  BY <1>3, <1>4, <1>5, RowsStay, DueStays
<1>7. ~UnderWay(i, c)'
  BY <1>2, <1>3 DEF UnderWay
<1>8. QED
  BY <1>2, <1>3, <1>6, <1>7 DEF Waiting, Pending

LEMMA LeaveNothingStep == ASSUME EventInv, [Next]_vars PROVE RunsLeaveNothing
<1>0. TypeOK
  BY DEF EventInv
<1>1. CASE StartWriter \/ EndWriter \/ Skip \/ Tick \/ UNCHANGED vars
  <2>1. Waiting' = Waiting
    BY <1>0, <1>1, SameWaiting DEF StartWriter, EndWriter, Skip, Tick, vars
  <2>2. running = "alert" => running' = "alert"
    BY <1>1 DEF StartWriter, EndWriter, Skip, Tick, vars
  <2>3. QED
    BY <2>1, <2>2 DEF RunsLeaveNothing
<1>2. CASE Record
  BY <1>0, <1>2, RecordKeepsWaiting DEF Record, RunsLeaveNothing
<1>3. CASE Begin
  BY <1>3 DEF Begin, RunsLeaveNothing
<1>4. CASE End
  BY <1>4, EndEmpties DEF RunsLeaveNothing
<1>5. CASE Restart
  BY <1>0, <1>5, RestartEmpties DEF RunsLeaveNothing
<1>6. ASSUME NEW n \in notices, Notify(n) PROVE RunsLeaveNothing
  BY <1>6, NotifyKeepsWaiting DEF Notify, RunsLeaveNothing
<1>7. QED
  BY <1>1, <1>2, <1>3, <1>4, <1>5, <1>6 DEF Next

\* Whatever fails, an alert run that has ended has left no event waiting: each is sent,
\* lost or on its way to every channel it is due to (alert.go:178-231).  EventsAreSent
\* adds to this that runs begin and that they and the notifications end.
THEOREM RunsTakeUpEverything == Spec => [][RunsLeaveNothing]_vars
BY LeaveNothingStep, EventsAccounted, PTL DEF Spec

-----------------------------------------------------------------------------
(* What is sent again *)

\* What the webhook has had lies at the mark or before it.
MarkCoversSent == \A i \in DOMAIN log : \A c \in Webhook : <<i, c>> \in sent => log[i].at <= lastAlert

\* What a run holds lies at the mark or after it, and only a run holds anything.
BatchIsSince == batch # {} => running = "alert" /\ \A i \in batch : log[i].at >= lastAlert

\* The notification goroutines leave the webhook alone.
NoticesFurther == \A n \in notices : n.channel \notin Webhook

RepeatInv == TypeOK /\ RowsArePast /\ MarkCoversSent /\ BatchIsSince /\ NoticesFurther

LEMMA RepeatStep == RepeatInv /\ [Next]_vars => RepeatInv'
<1> SUFFICES ASSUME RepeatInv, [Next]_vars
             PROVE  MarkCoversSent' /\ BatchIsSince' /\ NoticesFurther'
  BY TypeStep, PastStep DEF RepeatInv
<1> USE DEF RepeatInv
<1>1. lastAlert \in Nat /\ second \in Nat /\ lastAlert <= second
  BY AlertAssumption DEF TypeOK
<1>2. \A i \in DOMAIN log : log[i].at \in Nat /\ log[i].at <= second /\ log'[i] = log[i]
  BY RowsStay, RowsAreDated DEF RowsArePast
<1>3. /\ batch \subseteq DOMAIN log /\ \A n \in notices : n.rows \subseteq DOMAIN log
      /\ sent \subseteq (DOMAIN log) \X Channels
  BY DEF TypeOK
<1>4. \A i, c : <<i, c>> \in sent => i \in DOMAIN log
  BY <1>3
<1>5. CASE Begin
  <2>1. \A i \in batch' : log[i].at >= lastAlert
    BY <1>5 DEF Begin, Rows, Since
  <2>2. QED
    BY <1>5, <2>1 DEF Begin, MarkCoversSent, BatchIsSince, NoticesFurther, Webhook
<1>6. CASE End \/ Restart
  <2>1. lastAlert' = second /\ log' = log /\ batch' = {}
    BY <1>6 DEF End, Restart
  <2>2. \A n \in notices' : n.channel \notin Webhook
    BY <1>6, NoticesOfBatch DEF End, Restart, NoticesFurther
  <2>3. QED
    BY <1>2, <2>1, <2>2 DEF MarkCoversSent, BatchIsSince, NoticesFurther, Webhook
<1>7. ASSUME NEW n \in notices, Notify(n) PROVE MarkCoversSent' /\ BatchIsSince' /\ NoticesFurther'
  <2>1. sent' \subseteq sent \cup (n.rows \X {n.channel}) /\ n.channel \notin Webhook
    BY <1>7, SendingAdds DEF Notify, NoticesFurther
  <2>2. \A i : \A c \in Webhook : <<i, c>> \in sent' => <<i, c>> \in sent
    BY <2>1
  <2>3. MarkCoversSent'
    BY <1>7, <2>2 DEF Notify, MarkCoversSent, Webhook
  <2>4. QED
    BY <1>7, <2>3 DEF Notify, BatchIsSince, NoticesFurther, Webhook
<1>8. CASE StartWriter \/ Record \/ EndWriter
  <2>1. batch = {}
    BY <1>8 DEF StartWriter, Record, EndWriter, BatchIsSince
  <2>2. lastAlert' = lastAlert /\ sent' = sent /\ batch' = batch /\ notices' = notices
    BY <1>8 DEF StartWriter, Record, EndWriter
  <2>3. MarkCoversSent'
    BY <1>2, <1>4, <2>2 DEF MarkCoversSent, Webhook
  <2>4. QED
    BY <2>1, <2>2, <2>3 DEF BatchIsSince, NoticesFurther, Webhook
<1>9. CASE Skip \/ Tick \/ UNCHANGED vars
  BY <1>9 DEF Skip, Tick, vars, MarkCoversSent, BatchIsSince, NoticesFurther, Webhook
<1>10. QED
  BY <1>5, <1>6, <1>7, <1>8, <1>9 DEF Next

\* A run sends the webhook nothing again but what is of the very second of the mark.
THEOREM OnlyRecentRepeats == Spec => []RepeatsAreRecent
<1>1. Init => RepeatInv
  BY InitType DEF Init, RepeatInv, RowsArePast, MarkCoversSent, BatchIsSince, NoticesFurther
<1>2. RepeatInv => RepeatsAreRecent
  <2> SUFFICES ASSUME RepeatInv, NEW i \in batch, NEW c \in Webhook, <<i, c>> \in sent
               PROVE  log[i].at = lastAlert
    BY DEF RepeatsAreRecent
  <2>1. i \in DOMAIN log /\ log[i].at \in Nat /\ lastAlert \in Nat
    BY RowsAreDated DEF RepeatInv, TypeOK
  <2>2. log[i].at <= lastAlert /\ log[i].at >= lastAlert
    BY <2>1 DEF RepeatInv, MarkCoversSent, BatchIsSince
  <2>3. QED
    BY <2>1, <2>2
<1>3. QED
  BY <1>1, <1>2, RepeatStep, PTL DEF Spec

-----------------------------------------------------------------------------
(* Naturals *)

\* A set of naturals has a least member.
LEMMA LeastNatural ==
    ASSUME NEW T, T \subseteq Nat, T # {}
    PROVE  \E x \in T : \A y \in T : x <= y
<1>1. PICK x \in T : \A y \in T : ~(<<y, x>> \in OpToRel(<, Nat))
  BY WFMin, NatLessThanWellFounded
<1>2. \A y \in T : ~(y < x)
  BY <1>1 DEF OpToRel
<1>3. QED
  BY <1>2

\* What has 0 and every successor has all numbers up to n.  It is stated for a set,
\* since the provers cannot instantiate a predicate; the proofs that use it put what
\* they show by induction into such a set.
LEMMA InductionUpTo ==
    ASSUME NEW n \in Nat, NEW S, 0 \in S, \A k \in 0..n : k < n /\ k \in S => k + 1 \in S
    PROVE  \A k \in 0..n : k \in S
<1> SUFFICES ASSUME (0..n) \ S # {} PROVE FALSE
  OBVIOUS
<1> DEFINE Bad == (0..n) \ S
<1>1. Bad \subseteq Nat /\ Bad # {}
  OBVIOUS
<1> HIDE DEF Bad
<1>2. PICK k \in Bad : \A j \in Bad : k <= j
  BY <1>1, LeastNatural
<1>3. k \in 0..n /\ k \notin S
  BY <1>2 DEF Bad
<1>4. k # 0 /\ k - 1 \in 0..n /\ k - 1 < n /\ k = (k - 1) + 1
  BY <1>3
<1>5. k - 1 \in S
  <2>1. k - 1 \notin Bad
    BY <1>2, <1>3, <1>4
  <2>2. QED
    BY <1>4, <2>1 DEF Bad
<1>6. QED
  BY <1>3, <1>4, <1>5

-----------------------------------------------------------------------------
(* Edit distances *)

\* A column has an entry for each number of s1's first letters, and for none of them.
IsColumn(f, n) == f = [y \in 0..n |-> f[y]]

\* One turn of the outer loop makes the next column of the table out of the last,
\* although it overwrites it entry by entry: an entry not yet reached is the last
\* column's, and the one before it, which has been overwritten, is kept in lastkey.
LEMMA TurnOverwrites ==
    ASSUME NEW n \in Nat, NEW x \in Nat \ {0}, NEW unit, NEW cost, NEW column,
           IsColumn(column, n), column[0] = (x - 1) * unit,
           NEW new, new = Turn(column, n, x, unit, cost)
    PROVE  /\ IsColumn(new, n)
           /\ new[0] = x * unit
           /\ \A y \in 1..n : new[y] = Min3(column[y] + unit, new[y - 1] + unit,
                                            column[y - 1] + cost[y][x])
<1> DEFINE start == [column |-> [column EXCEPT ![0] = x * unit], lastkey |-> (x - 1) * unit]
           Steps(k, f) == /\ f = [y \in 0..k |-> f[y]]
                          /\ f[0] = start
                          /\ \A y \in 1..k : f[y] = Overwrite(f[y - 1], x, y, unit, cost)
           after[y \in DOMAIN column] == IF y = 0 THEN start ELSE Overwrite(after[y - 1], x, y, unit, cost)
<1>1. \E f : Steps(n, f)
  <2> DEFINE S == {k \in 0..n : \E f : Steps(k, f)}
  <2> HIDE DEF start
  <2>1. 0 \in S
    <3> DEFINE f == [y \in 0..0 |-> start]
    <3>1. Steps(0, f)
      OBVIOUS
    <3> HIDE DEF Steps, f
    <3>2. QED
      BY <3>1
  <2>2. ASSUME NEW k \in 0..n, k < n, k \in S PROVE k + 1 \in S
    <3>1. PICK f : Steps(k, f)
      BY <2>2
    <3> DEFINE g == [y \in 0..(k + 1) |-> IF y = k + 1 THEN Overwrite(f[k], x, y, unit, cost) ELSE f[y]]
    <3>2. g[k + 1] = Overwrite(f[k], x, k + 1, unit, cost) /\ \A y \in 0..k : g[y] = f[y]
      OBVIOUS
    <3>3. g = [y \in 0..(k + 1) |-> g[y]]
      OBVIOUS
    <3> HIDE DEF g
    <3>4. ASSUME NEW y \in 1..k PROVE g[y] = Overwrite(g[y - 1], x, y, unit, cost)
      <4>1. y \in 0..k /\ y - 1 \in 0..k
        OBVIOUS
      <4>2. g[y] = f[y] /\ g[y - 1] = f[y - 1]
        BY <3>2, <4>1
      <4>3. f[y] = Overwrite(f[y - 1], x, y, unit, cost)
        BY <3>1
      <4>4. QED
        BY <4>2, <4>3
    <3>5. g[k + 1] = Overwrite(g[(k + 1) - 1], x, k + 1, unit, cost)
      BY <3>2
    <3>6. g[0] = start
      BY <3>1, <3>2
    <3>7. Steps(k + 1, g)
      <4>1. ASSUME NEW y \in 1..(k + 1) PROVE g[y] = Overwrite(g[y - 1], x, y, unit, cost)
        BY <3>4, <3>5
      <4>2. QED
        BY <3>3, <3>6, <4>1
    <3> HIDE DEF Steps
    <3>8. QED
      BY <2>2, <3>7
  <2> HIDE DEF S
  <2>3. n \in S
    BY <2>1, <2>2, InductionUpTo
  <2>4. QED
    BY <2>3 DEF S
<1>2. column = [y \in 0..n |-> column[y]] /\ DOMAIN column = 0..n
  BY DEF IsColumn
<1>3. Steps(n, after)
  <2>1. PICK f : Steps(n, f)
    BY <1>1
  <2>2. f = [y \in DOMAIN column |-> IF y = 0 THEN start ELSE Overwrite(f[y - 1], x, y, unit, cost)]
    <3> DEFINE Entry(y) == IF y = 0 THEN start ELSE Overwrite(f[y - 1], x, y, unit, cost)
    <3> HIDE DEF start
    <3>1. ASSUME NEW y \in 0..n PROVE f[y] = Entry(y)
      <4>1. CASE y = 0
        BY <2>1, <4>1
      <4>2. CASE y \in 1..n
        BY <2>1, <4>2
      <4>3. QED
        BY <4>1, <4>2
    <3> HIDE DEF Entry
    <3>2. f = [y \in 0..n |-> Entry(y)]
      BY <2>1, <3>1
    <3>3. QED
      BY <1>2, <3>2 DEF Entry
  <2>3. after = [y \in DOMAIN column |-> IF y = 0 THEN start ELSE Overwrite(after[y - 1], x, y, unit, cost)]
    BY <2>2, Zenon
  <2> HIDE DEF start, after
  <2>4. QED
    BY <1>2, <2>3
<1>4. Turn(column, n, x, unit, cost) = after[n].column
  BY DEF Turn
<1> HIDE DEF after
<1>5. after[0] = start /\ \A y \in 1..n : after[y] = Overwrite(after[y - 1], x, y, unit, cost)
  BY <1>3
<1> DEFINE Column(y) == after[y].column
           Turned(y) == /\ Column(y) = [z \in 0..n |-> Column(y)[z]]
                        /\ \A z \in (y + 1)..n : Column(y)[z] = column[z]
                        /\ \A z \in 0..y : Column(y)[z] = Column(z)[z]
                        /\ after[y].lastkey = column[y]
           Entry(y) == Min3(column[y] + unit, Column(y - 1)[y - 1] + unit, column[y - 1] + cost[y][x])
<1>6. Turned(0) /\ Column(0)[0] = x * unit
  <2>1. Column(0) = [column EXCEPT ![0] = x * unit] /\ after[0].lastkey = column[0]
    BY <1>5
  <2> HIDE DEF Column
  <2>2. /\ Column(0) = [z \in 0..n |-> Column(0)[z]]
        /\ Column(0)[0] = x * unit
        /\ \A z \in 1..n : Column(0)[z] = column[z]
    BY <1>2, <2>1
  <2>3. \A z \in 0..0 : Column(0)[z] = Column(z)[z]
    OBVIOUS
  <2>4. QED
    BY <2>1, <2>2, <2>3
<1>7. ASSUME NEW y \in 1..n, Turned(y - 1) PROVE Turned(y) /\ Column(y)[y] = Entry(y)
  <2>1. after[y] = [column |-> [Column(y - 1) EXCEPT ![y] =
                                  Min3(Column(y - 1)[y] + unit, Column(y - 1)[y - 1] + unit,
                                       after[y - 1].lastkey + cost[y][x])],
                    lastkey |-> Column(y - 1)[y]]
    BY <1>5 DEF Overwrite
  <2>2. /\ Column(y - 1)[y] = column[y]
        /\ after[y - 1].lastkey = column[y - 1]
    <3>1. y \in ((y - 1) + 1)..n
      OBVIOUS
    <3> HIDE DEF Column
    <3>2. QED
      BY <1>7, <3>1
  <2>3. Column(y) = [Column(y - 1) EXCEPT ![y] = Entry(y)] /\ after[y].lastkey = column[y]
    BY <2>1, <2>2
  <2> HIDE DEF Column, Entry
  <2>4. /\ Column(y) = [z \in 0..n |-> Column(y)[z]]
        /\ Column(y)[y] = Entry(y)
        /\ \A z \in 0..n : z # y => Column(y)[z] = Column(y - 1)[z]
    <3> DEFINE before == Column(y - 1)
    <3>1. before = [z \in 0..n |-> before[z]]
      BY <1>7
    <3>2. Column(y) = [before EXCEPT ![y] = Entry(y)]
      BY <2>3
    <3> DEFINE now == Column(y)
               entry == Entry(y)
    <3>3. y \in 0..n /\ now = [before EXCEPT ![y] = entry]
      BY <3>2
    <3> HIDE DEF before, now, entry
    <3>4. DOMAIN before = 0..n
      BY <3>1
    <3>5. now = [z \in 0..n |-> IF z = y THEN entry ELSE before[z]]
      BY <3>3, <3>4
    <3>6. /\ now = [z \in 0..n |-> now[z]]
          /\ now[y] = entry
          /\ \A z \in 0..n : z # y => now[z] = before[z]
      BY <3>3, <3>5
    <3>7. QED
      BY <3>6 DEF before, now, entry
  <2>5. ASSUME NEW z \in (y + 1)..n PROVE Column(y)[z] = column[z]
    <3>1. z \in 0..n /\ z # y /\ z \in ((y - 1) + 1)..n
      OBVIOUS
    <3>2. QED
      BY <1>7, <2>4, <3>1
  <2>6. \A z \in 0..y : Column(y)[z] = Column(z)[z]
    BY <1>7, <2>4
  <2>7. QED
    BY <2>3, <2>4, <2>5, <2>6
<1>8. \A y \in 0..n : Turned(y)
  <2> DEFINE S == {y \in 0..n : Turned(y)}
  <2> HIDE DEF Turned
  <2>1. 0 \in S
    BY <1>6
  <2>2. ASSUME NEW y \in 0..n, y < n, y \in S PROVE y + 1 \in S
    <3>1. y + 1 \in 1..n /\ (y + 1) - 1 = y
      BY <2>2
    <3>2. Turned(y + 1)
      BY <1>7, <2>2, <3>1
    <3>3. QED
      BY <3>1, <3>2
  <2> HIDE DEF S
  <2>3. \A y \in 0..n : y \in S
    BY <2>1, <2>2, InductionUpTo
  <2>4. QED
    BY <2>3 DEF S
<1>9. new = Column(n)
  BY <1>4
<1> HIDE DEF Column
<1>10. IsColumn(new, n) /\ \A y \in 0..n : new[y] = Column(y)[y]
  <2>1. Turned(n)
    BY <1>8
  <2>2. IsColumn(Column(n), n)
    BY <2>1, Zenon DEF IsColumn
  <2>3. IsColumn(new, n)
    BY <1>9, <2>2
  <2>4. QED
    BY <1>9, <2>1, <2>3
<1>11. ASSUME NEW y \in 1..n
       PROVE  new[y] = Min3(column[y] + unit, new[y - 1] + unit, column[y - 1] + cost[y][x])
  <2>1. y \in 0..n /\ y - 1 \in 0..n
    OBVIOUS
  <2>2. new[y] = Column(y)[y] /\ new[y - 1] = Column(y - 1)[y - 1]
    BY <1>10, <2>1
  <2>3. Column(y)[y] = Entry(y)
    BY <1>7, <1>8, <2>1
  <2>4. QED
    BY <2>2, <2>3
<1>12. new[0] = x * unit
  BY <1>6, <1>10
<1>13. QED
  BY <1>10, <1>11, <1>12

\* So the columns the loops go through are those of one table, and the last entry of
\* the last of them is the distance.
LEMMA ColumnsTurn ==
    ASSUME NEW n \in Nat \ {0}, NEW m \in Nat \ {0}, NEW unit, NEW cost
    PROVE  \E column :
              /\ EditDistance(n, m, unit, cost) = column[m][n]
              /\ \A y \in 0..n : column[0][y] = y * unit
              /\ \A x \in 0..m : column[x][0] = x * unit
              /\ \A x \in 1..m, y \in 1..n :
                    column[x][y] = Min3(column[x - 1][y] + unit, column[x][y - 1] + unit,
                                        column[x - 1][y - 1] + cost[y][x])
<1> DEFINE start == [y \in 0..n |-> y * unit]
           Steps(k, f) == /\ f = [x \in 0..k |-> f[x]]
                          /\ f[0] = start
                          /\ \A x \in 1..k : f[x] = Turn(f[x - 1], n, x, unit, cost)
           column[x \in 0..m] == IF x = 0 THEN start ELSE Turn(column[x - 1], n, x, unit, cost)
<1>1. \E f : Steps(m, f)
  <2> DEFINE S == {k \in 0..m : \E f : Steps(k, f)}
  <2> HIDE DEF start
  <2>1. 0 \in S
    <3> DEFINE f == [x \in 0..0 |-> start]
    <3>1. Steps(0, f)
      OBVIOUS
    <3> HIDE DEF Steps, f
    <3>2. QED
      BY <3>1
  <2>2. ASSUME NEW k \in 0..m, k < m, k \in S PROVE k + 1 \in S
    <3>1. PICK f : Steps(k, f)
      BY <2>2
    <3> DEFINE g == [x \in 0..(k + 1) |-> IF x = k + 1 THEN Turn(f[k], n, x, unit, cost) ELSE f[x]]
    <3>2. g[k + 1] = Turn(f[k], n, k + 1, unit, cost) /\ \A x \in 0..k : g[x] = f[x]
      OBVIOUS
    <3>3. g = [x \in 0..(k + 1) |-> g[x]]
      OBVIOUS
    <3> HIDE DEF g
    <3>4. ASSUME NEW x \in 1..k PROVE g[x] = Turn(g[x - 1], n, x, unit, cost)
      <4>1. x \in 0..k /\ x - 1 \in 0..k
        OBVIOUS
      <4>2. g[x] = f[x] /\ g[x - 1] = f[x - 1]
        BY <3>2, <4>1
      <4>3. f[x] = Turn(f[x - 1], n, x, unit, cost)
        BY <3>1
      <4>4. QED
        BY <4>2, <4>3
    <3>5. g[k + 1] = Turn(g[(k + 1) - 1], n, k + 1, unit, cost)
      BY <3>2
    <3>6. g[0] = start
      BY <3>1, <3>2
    <3>7. Steps(k + 1, g)
      <4>1. ASSUME NEW x \in 1..(k + 1) PROVE g[x] = Turn(g[x - 1], n, x, unit, cost)
        BY <3>4, <3>5
      <4>2. QED
        BY <3>3, <3>6, <4>1
    <3> HIDE DEF Steps
    <3>8. QED
      BY <2>2, <3>7
  <2> HIDE DEF S
  <2>3. m \in S
    BY <2>1, <2>2, InductionUpTo
  <2>4. QED
    BY <2>3 DEF S
<1>2. Steps(m, column)
  <2>1. PICK f : Steps(m, f)
    BY <1>1
  <2>2. f = [x \in 0..m |-> IF x = 0 THEN start ELSE Turn(f[x - 1], n, x, unit, cost)]
    <3> DEFINE Entry(x) == IF x = 0 THEN start ELSE Turn(f[x - 1], n, x, unit, cost)
    <3> HIDE DEF start
    <3>1. ASSUME NEW x \in 0..m PROVE f[x] = Entry(x)
      <4>1. CASE x = 0
        BY <2>1, <4>1
      <4>2. CASE x \in 1..m
        BY <2>1, <4>2
      <4>3. QED
        BY <4>1, <4>2
    <3> HIDE DEF Entry
    <3>2. f = [x \in 0..m |-> Entry(x)]
      BY <2>1, <3>1
    <3>3. QED
      BY <3>2 DEF Entry
  <2>3. column = [x \in 0..m |-> IF x = 0 THEN start ELSE Turn(column[x - 1], n, x, unit, cost)]
    BY <2>2, Zenon
  <2> HIDE DEF start, column
  <2>4. QED
    BY <2>3
<1>3. EditDistance(n, m, unit, cost) = column[m][n]
  BY DEF EditDistance
<1> HIDE DEF column
<1> DEFINE Overwritten(x) == /\ IsColumn(column[x], n)
                             /\ column[x][0] = x * unit
           Entries(x) == \A y \in 1..n :
                            column[x][y] = Min3(column[x - 1][y] + unit, column[x][y - 1] + unit,
                                                column[x - 1][y - 1] + cost[y][x])
<1>4. Overwritten(0)
  BY <1>2 DEF IsColumn
<1>5. ASSUME NEW x \in 1..m, Overwritten(x - 1) PROVE Overwritten(x) /\ Entries(x)
  <2> DEFINE before == column[x - 1]
  <2>1. IsColumn(before, n) /\ before[0] = (x - 1) * unit
    BY <1>5
  <2>2. x \in Nat \ {0} /\ n \in Nat
    OBVIOUS
  <2>3. column[x] = Turn(before, n, x, unit, cost)
    BY <1>2
  <2> HIDE DEF before
  <2>4. /\ IsColumn(column[x], n)
        /\ column[x][0] = x * unit
        /\ \A y \in 1..n : column[x][y] = Min3(before[y] + unit, column[x][y - 1] + unit,
                                               before[y - 1] + cost[y][x])
    <3> DEFINE new == column[x]
    <3>1. new = Turn(before, n, x, unit, cost)
      BY <2>3
    <3> HIDE DEF new
    <3>2. /\ IsColumn(new, n)
          /\ new[0] = x * unit
          /\ \A y \in 1..n : new[y] = Min3(before[y] + unit, new[y - 1] + unit,
                                           before[y - 1] + cost[y][x])
      BY <2>1, <2>2, <3>1, TurnOverwrites
    <3>3. QED
      BY <3>2 DEF new
  <2>5. QED
    BY <2>4 DEF before
<1>6. \A x \in 0..m : Overwritten(x)
  <2> DEFINE S == {x \in 0..m : Overwritten(x)}
  <2> HIDE DEF Overwritten
  <2>1. 0 \in S
    BY <1>4
  <2>2. ASSUME NEW x \in 0..m, x < m, x \in S PROVE x + 1 \in S
    <3>1. x + 1 \in 1..m /\ (x + 1) - 1 = x
      BY <2>2
    <3>2. Overwritten(x + 1)
      BY <1>5, <2>2, <3>1
    <3>3. QED
      BY <3>1, <3>2
  <2> HIDE DEF S
  <2>3. \A x \in 0..m : x \in S
    BY <2>1, <2>2, InductionUpTo
  <2>4. QED
    BY <2>3 DEF S
<1>7. \A x \in 1..m : Entries(x)
  <2> HIDE DEF Overwritten, Entries
  <2>1. \A x \in 1..m : x - 1 \in 0..m
    OBVIOUS
  <2>2. QED
    BY <1>5, <1>6, <2>1
<1>8. \A y \in 0..n : column[0][y] = y * unit
  BY <1>2
<1>9. QED
  BY <1>3, <1>6, <1>7, <1>8

\* The order in which the three ways to reach an entry are compared plays no role.
LEMMA Min3Swaps == \A a, b, c : Min3(a, b, c) = Min3(b, a, c)
<1>1. \A a, b, c : {a, b, c} = {b, a, c}
  OBVIOUS
<1>2. QED
  BY <1>1, Zenon DEF Min3

\* The definition of the least cost has one solution: any table with its first row,
\* first column and recurrence.
LEMMA LeastIsUnique ==
    ASSUME NEW n \in Nat, NEW m \in Nat, NEW unit, NEW cost, NEW table,
           \A i \in 0..n : table[<<i, 0>>] = i * unit,
           \A j \in 0..m : table[<<0, j>>] = j * unit,
           \A i \in 1..n, j \in 1..m :
              table[<<i, j>>] = Min3(table[<<i - 1, j>>] + unit, table[<<i, j - 1>>] + unit,
                                     table[<<i - 1, j - 1>>] + cost[i][j])
    PROVE  LeastCost(n, m, unit, cost) = table[<<n, m>>]
<1> DEFINE Cells == (0..n) \X (0..m)
           Entry(f, i, j) ==
              IF i = 0 THEN j * unit
              ELSE IF j = 0 THEN i * unit
              ELSE Min3(f[<<i - 1, j>>] + unit, f[<<i, j - 1>>] + unit, f[<<i - 1, j - 1>>] + cost[i][j])
           least[p \in Cells] ==
              LET i == p[1]
                  j == p[2]
              IN  IF i = 0 THEN j * unit
                  ELSE IF j = 0 THEN i * unit
                  ELSE Min3(least[<<i - 1, j>>] + unit, least[<<i, j - 1>>] + unit,
                            least[<<i - 1, j - 1>>] + cost[i][j])
           whole == [p \in Cells |-> table[p]]
<1>1. LeastCost(n, m, unit, cost) = least[<<n, m>>]
  BY DEF LeastCost
<1>2. ASSUME NEW i \in 0..n, NEW j \in 0..m PROVE table[<<i, j>>] = Entry(table, i, j)
  <2>1. CASE i = 0
    BY <2>1
  <2>2. CASE i \in 1..n /\ j = 0
    BY <2>2
  <2>3. CASE i \in 1..n /\ j \in 1..m
    BY <2>3
  <2>4. QED
    BY <2>1, <2>2, <2>3
<1>3. whole = [p \in Cells |-> Entry(whole, p[1], p[2])]
  <2>1. ASSUME NEW i \in 0..n, NEW j \in 0..m PROVE Entry(whole, i, j) = Entry(table, i, j)
    <3>1. CASE i = 0 \/ j = 0
      BY <3>1
    <3>2. CASE i # 0 /\ j # 0
      <4>1. i - 1 \in 0..n /\ j - 1 \in 0..m
        BY <3>2
      <4>2. /\ whole[<<i - 1, j>>] = table[<<i - 1, j>>]
            /\ whole[<<i, j - 1>>] = table[<<i, j - 1>>]
            /\ whole[<<i - 1, j - 1>>] = table[<<i - 1, j - 1>>]
        BY <4>1
      <4>3. QED
        BY <3>2, <4>2
    <3>3. QED
      BY <3>1, <3>2
  <2>2. ASSUME NEW p \in Cells PROVE whole[p] = Entry(whole, p[1], p[2])
    <3>1. p = <<p[1], p[2]>> /\ p[1] \in 0..n /\ p[2] \in 0..m
      OBVIOUS
    <3>2. whole[p] = table[<<p[1], p[2]>>]
      BY <3>1
    <3> HIDE DEF whole, Entry
    <3>3. QED
      BY <1>2, <2>1, <3>1, <3>2
  <2>3. whole = [p \in Cells |-> whole[p]]
    OBVIOUS
  <2> HIDE DEF whole, Entry, Cells
  <2>4. QED
    BY <2>2, <2>3
<1>4. least = [p \in Cells |-> Entry(least, p[1], p[2])]
  BY <1>3, Zenon
<1> HIDE DEF least, whole
<1>5. ASSUME NEW i \in 0..n, NEW j \in 0..m PROVE least[<<i, j>>] = Entry(least, i, j)
  <2> DEFINE p == <<i, j>>
  <2>1. p \in Cells /\ p[1] = i /\ p[2] = j
    OBVIOUS
  <2> HIDE DEF Cells, Entry, p
  <2>2. least[p] = Entry(least, p[1], p[2])
    BY <1>4, <2>1
  <2>3. QED
    BY <2>1, <2>2 DEF p
<1> DEFINE Same(j) == \A i \in 0..n : least[<<i, j>>] = table[<<i, j>>]
<1>6. Same(0)
  <2> SUFFICES ASSUME NEW i \in 0..n PROVE least[<<i, 0>>] = table[<<i, 0>>]
    OBVIOUS
  <2>1. 0 \in 0..m
    OBVIOUS
  <2>2. least[<<i, 0>>] = Entry(least, i, 0)
    BY <1>5, <2>1
  <2>3. Entry(least, i, 0) = i * unit
    OBVIOUS
  <2>4. QED
    BY <2>2, <2>3
<1>7. ASSUME NEW j \in 0..m, j < m, Same(j) PROVE Same(j + 1)
  <2> DEFINE S == {i \in 0..n : least[<<i, j + 1>>] = table[<<i, j + 1>>]}
  <2>1. 0 \in S
    <3>1. j + 1 \in 0..m /\ 0 \in 0..n
      BY <1>7
    <3>2. least[<<0, j + 1>>] = (j + 1) * unit /\ table[<<0, j + 1>>] = (j + 1) * unit
      BY <1>5, <3>1
    <3>3. QED
      BY <3>1, <3>2
  <2>2. ASSUME NEW i \in 0..n, i < n, i \in S PROVE i + 1 \in S
    <3>1. i + 1 \in 1..n /\ j + 1 \in 1..m /\ (i + 1) - 1 = i /\ (j + 1) - 1 = j
      BY <1>7, <2>2
    <3>2. least[<<i + 1, j + 1>>] = Min3(least[<<i, j + 1>>] + unit, least[<<i + 1, j>>] + unit,
                                         least[<<i, j>>] + cost[i + 1][j + 1])
      <4>1. i + 1 \in 0..n /\ j + 1 \in 0..m /\ i + 1 # 0 /\ j + 1 # 0
        BY <3>1
      <4>2. least[<<i + 1, j + 1>>] = Entry(least, i + 1, j + 1)
        BY <1>5, <4>1
      <4>3. QED
        BY <3>1, <4>1, <4>2
    <3>3. table[<<i + 1, j + 1>>] = Min3(table[<<i, j + 1>>] + unit, table[<<i + 1, j>>] + unit,
                                         table[<<i, j>>] + cost[i + 1][j + 1])
      BY <3>1
    <3>4. /\ least[<<i, j + 1>>] = table[<<i, j + 1>>]
          /\ least[<<i + 1, j>>] = table[<<i + 1, j>>]
          /\ least[<<i, j>>] = table[<<i, j>>]
      BY <1>7, <2>2, <3>1
    <3>5. QED
      BY <3>1, <3>2, <3>3, <3>4
  <2> HIDE DEF S
  <2>3. \A i \in 0..n : i \in S
    BY <2>1, <2>2, InductionUpTo
  <2>4. QED
    BY <2>3 DEF S
<1>8. Same(m)
  <2> DEFINE S == {j \in 0..m : Same(j)}
  <2> HIDE DEF Same
  <2>1. 0 \in S
    BY <1>6
  <2>2. \A j \in 0..m : j < m /\ j \in S => j + 1 \in S
    BY <1>7
  <2> HIDE DEF S
  <2>3. \A j \in 0..m : j \in S
    BY <2>1, <2>2, InductionUpTo
  <2>4. QED
    BY <2>3 DEF S
<1>9. QED
  BY <1>1, <1>8

\* Whatever the strings, of any length, and whatever an edit costs: the loops, which
\* keep one column of the table, compute the least cost.
THEOREM EditDistanceIsLeast ==
    ASSUME NEW n \in Nat, NEW m \in Nat, NEW unit, NEW cost
    PROVE  EditDistance(n, m, unit, cost) = LeastCost(n, m, unit, cost)
<1>1. CASE n = 0 \/ m = 0
  <2> DEFINE table == [p \in (0..n) \X (0..m) |-> IF p[1] = 0 THEN p[2] * unit ELSE p[1] * unit]
  <2>1. \A i \in 0..n, j \in 0..m : table[<<i, j>>] = IF i = 0 THEN j * unit ELSE i * unit
    OBVIOUS
  <2> HIDE DEF table
  <2>2. /\ \A i \in 0..n : table[<<i, 0>>] = i * unit
        /\ \A j \in 0..m : table[<<0, j>>] = j * unit
    BY <2>1
  <2>3. \A i \in 1..n, j \in 1..m :
          table[<<i, j>>] = Min3(table[<<i - 1, j>>] + unit, table[<<i, j - 1>>] + unit,
                                 table[<<i - 1, j - 1>>] + cost[i][j])
    BY <1>1
  <2>4. LeastCost(n, m, unit, cost) = table[<<n, m>>]
    BY <2>2, <2>3, LeastIsUnique
  <2>5. table[<<n, m>>] = IF n = 0 THEN m * unit ELSE n * unit
    BY <2>1
  <2>6. QED
    BY <1>1, <2>4, <2>5 DEF EditDistance
<1>2. CASE n # 0 /\ m # 0
  <2>1. n \in Nat \ {0} /\ m \in Nat \ {0}
    BY <1>2
  <2>2. PICK column :
          /\ EditDistance(n, m, unit, cost) = column[m][n]
          /\ \A y \in 0..n : column[0][y] = y * unit
          /\ \A x \in 0..m : column[x][0] = x * unit
          /\ \A x \in 1..m, y \in 1..n :
                column[x][y] = Min3(column[x - 1][y] + unit, column[x][y - 1] + unit,
                                    column[x - 1][y - 1] + cost[y][x])
    BY <2>1, ColumnsTurn
  <2> DEFINE table == [p \in (0..n) \X (0..m) |-> column[p[2]][p[1]]]
  <2>3. \A i \in 0..n, j \in 0..m : table[<<i, j>>] = column[j][i]
    OBVIOUS
  <2> HIDE DEF table
  <2>4. /\ \A i \in 0..n : table[<<i, 0>>] = i * unit
        /\ \A j \in 0..m : table[<<0, j>>] = j * unit
    BY <2>2, <2>3
  <2>5. ASSUME NEW i \in 1..n, NEW j \in 1..m
        PROVE  table[<<i, j>>] = Min3(table[<<i - 1, j>>] + unit, table[<<i, j - 1>>] + unit,
                                      table[<<i - 1, j - 1>>] + cost[i][j])
    <3>1. i \in 0..n /\ j \in 0..m /\ i - 1 \in 0..n /\ j - 1 \in 0..m
      OBVIOUS
    <3>2. column[j][i] = Min3(column[j - 1][i] + unit, column[j][i - 1] + unit,
                              column[j - 1][i - 1] + cost[i][j])
      BY <2>2
    <3>3. /\ table[<<i, j>>] = column[j][i] /\ table[<<i - 1, j>>] = column[j][i - 1]
          /\ table[<<i, j - 1>>] = column[j - 1][i] /\ table[<<i - 1, j - 1>>] = column[j - 1][i - 1]
      BY <2>3, <3>1
    <3>4. QED
      BY <3>2, <3>3, Min3Swaps
  <2>6. LeastCost(n, m, unit, cost) = table[<<n, m>>]
    BY <2>4, <2>5, LeastIsUnique
  <2>7. QED
    BY <2>2, <2>3, <2>6
<1>3. QED
  BY <1>1, <1>2

LEMMA MinOfThree ==
    ASSUME NEW a \in Int, NEW b \in Int, NEW c \in Int
    PROVE  /\ Min3(a, b, c) \in {a, b, c}
           /\ Min3(a, b, c) <= a /\ Min3(a, b, c) <= b /\ Min3(a, b, c) <= c
<1>1. \E x \in {a, b, c} : \A y \in {a, b, c} : x <= y
  OBVIOUS
<1>2. QED
  BY <1>1 DEF Min3, Min

\* Costs of a table's cells.
NaturalCosts(n, m, cost) == \A y \in 1..n, x \in 1..m : cost[y][x] \in Nat

\* What ColumnsTurn says of the columns f, as a name.
IsTable(f, n, m, unit, cost) ==
    /\ EditDistance(n, m, unit, cost) = f[m][n]
    /\ \A y \in 0..n : f[0][y] = y * unit
    /\ \A x \in 0..m : f[x][0] = x * unit
    /\ \A x \in 1..m, y \in 1..n :
          f[x][y] = Min3(f[x - 1][y] + unit, f[x][y - 1] + unit, f[x - 1][y - 1] + cost[y][x])

LEMMA TableExists ==
    ASSUME NEW n \in Nat \ {0}, NEW m \in Nat \ {0}, NEW unit, NEW cost
    PROVE  \E f : IsTable(f, n, m, unit, cost)
BY ColumnsTurn, SMTT(30) DEF IsTable

\* Where every edit costs an edit's price or less in one way of counting and the
\* same or more in another, no distance is greater in the first.
LEMMA CheaperIsNearer ==
    ASSUME NEW n \in Nat, NEW m \in Nat, NEW cost, NEW dear,
           NaturalCosts(n, m, cost), NaturalCosts(n, m, dear),
           \A y \in 1..n, x \in 1..m : cost[y][x] <= dear[y][x]
    PROVE  /\ EditDistance(n, m, 1, cost) \in Nat /\ EditDistance(n, m, 2, dear) \in Nat
           /\ EditDistance(n, m, 1, cost) <= EditDistance(n, m, 2, dear)
<1>1. CASE n = 0 \/ m = 0
  BY <1>1 DEF EditDistance
<1>2. CASE n # 0 /\ m # 0
  <2>1. n \in Nat \ {0} /\ m \in Nat \ {0} /\ m \in 0..m /\ n \in 0..n
    BY <1>2
  <2>2. PICK f : IsTable(f, n, m, 1, cost)
    BY <2>1, TableExists
  <2>3. PICK g : IsTable(g, n, m, 2, dear)
    BY <2>1, TableExists
  <2> DEFINE Less(x, y) == f[x][y] \in Nat /\ g[x][y] \in Nat /\ f[x][y] <= g[x][y]
  <2>4. \A y \in 0..n : Less(0, y)
    BY <2>2, <2>3 DEF IsTable
  <2>5. \A x \in 0..m : Less(x, 0)
    BY <2>2, <2>3 DEF IsTable
  <2>6. ASSUME NEW x \in 1..m, NEW y \in 1..n, Less(x - 1, y), Less(x, y - 1), Less(x - 1, y - 1)
        PROVE  Less(x, y)
    <3> DEFINE c == cost[y][x]
               e == dear[y][x]
               f1 == f[x - 1][y]
               f2 == f[x][y - 1]
               f3 == f[x - 1][y - 1]
               g1 == g[x - 1][y]
               g2 == g[x][y - 1]
               g3 == g[x - 1][y - 1]
    <3>1. /\ f[x][y] = Min3(f1 + 1, f2 + 1, f3 + c)
          /\ g[x][y] = Min3(g1 + 2, g2 + 2, g3 + e)
      BY <2>2, <2>3 DEF IsTable
    <3>2. /\ c \in Nat /\ e \in Nat /\ c <= e
          /\ f1 \in Nat /\ f2 \in Nat /\ f3 \in Nat /\ g1 \in Nat /\ g2 \in Nat /\ g3 \in Nat
          /\ f1 <= g1 /\ f2 <= g2 /\ f3 <= g3
      BY <2>6 DEF NaturalCosts
    <3> DEFINE a == f[x][y]
               b == g[x][y]
    <3> HIDE DEF c, e, f1, f2, f3, g1, g2, g3
    <3>3. /\ a \in {f1 + 1, f2 + 1, f3 + c} /\ a <= f1 + 1 /\ a <= f2 + 1 /\ a <= f3 + c
          /\ b \in {g1 + 2, g2 + 2, g3 + e}
      BY <3>1, <3>2, MinOfThree
    <3> HIDE DEF a, b
    <3>4. a \in Nat /\ b \in Nat /\ a <= b
      BY <3>2, <3>3
    <3>5. QED
      BY <3>4 DEF a, b
  <2> DEFINE Column(x) == \A y \in 0..n : Less(x, y)
  <2>7. ASSUME NEW x \in 0..m, x < m, Column(x) PROVE Column(x + 1)
    <3> DEFINE S == {y \in 0..n : Less(x + 1, y)}
    <3>1. x + 1 \in 1..m /\ x + 1 \in 0..m /\ (x + 1) - 1 = x
      BY <2>7
    <3> HIDE DEF Less
    <3>2. 0 \in S
      BY <2>5, <3>1
    <3>3. ASSUME NEW y \in 0..n, y < n, y \in S PROVE y + 1 \in S
      <4>1. y + 1 \in 1..n /\ y + 1 \in 0..n /\ (y + 1) - 1 = y
        BY <3>3
      <4>2. Less(x, y + 1) /\ Less(x + 1, y) /\ Less(x, y)
        BY <2>7, <3>3, <4>1
      <4>3. Less(x + 1, y + 1)
        BY <2>6, <3>1, <4>1, <4>2
      <4>4. QED
        BY <4>1, <4>3
    <3> HIDE DEF S
    <3>4. \A y \in 0..n : y \in S
      BY <3>2, <3>3, InductionUpTo
    <3>5. QED
      BY <3>4 DEF S
  <2>8. Column(m)
    <3> DEFINE S == {x \in 0..m : Column(x)}
    <3> HIDE DEF Less
    <3>1. 0 \in S
      BY <2>4
    <3> HIDE DEF Column
    <3>2. \A x \in 0..m : x < m /\ x \in S => x + 1 \in S
      BY <2>7
    <3> HIDE DEF S
    <3>3. \A x \in 0..m : x \in S
      BY <3>1, <3>2, InductionUpTo
    <3>4. QED
      BY <2>1, <3>3 DEF S
  <2>9. QED
    BY <2>1, <2>2, <2>3, <2>8 DEF IsTable
<1>3. QED
  BY <1>1, <1>2

\* A string is no edits away from itself: the costs on the diagonal are none.
LEMMA SameIsNear ==
    ASSUME NEW n \in Nat, NEW cost, NaturalCosts(n, n, cost), \A y \in 1..n : cost[y][y] = 0
    PROVE  EditDistance(n, n, 1, cost) = 0
<1>1. CASE n = 0
  BY <1>1 DEF EditDistance
<1>2. CASE n # 0
  <2>1. n \in Nat \ {0} /\ n \in 0..n
    BY <1>2
  <2>2. PICK f : IsTable(f, n, n, 1, cost)
    BY <2>1, TableExists
  <2> DEFINE Natural(x) == \A y \in 0..n : f[x][y] \in Nat
  <2>3. Natural(0)
    BY <2>2 DEF IsTable
  <2>4. ASSUME NEW x \in 0..n, x < n, Natural(x) PROVE Natural(x + 1)
    <3> DEFINE S == {y \in 0..n : f[x + 1][y] \in Nat}
    <3>1. x + 1 \in 1..n /\ x + 1 \in 0..n /\ (x + 1) - 1 = x
      BY <2>4
    <3>2. f[x + 1][0] = (x + 1) * 1
      BY <2>2, <3>1 DEF IsTable
    <3>3. 0 \in S
      BY <3>1, <3>2
    <3>4. ASSUME NEW y \in 0..n, y < n, y \in S PROVE y + 1 \in S
      <4>1. y + 1 \in 1..n /\ y + 1 \in 0..n /\ (y + 1) - 1 = y
        BY <3>4
      <4>2. f[x + 1][y + 1] = Min3(f[x][y + 1] + 1, f[x + 1][y] + 1, f[x][y] + cost[y + 1][x + 1])
        BY <2>2, <3>1, <4>1 DEF IsTable
      <4>3. /\ f[x][y + 1] \in Nat /\ f[x + 1][y] \in Nat /\ f[x][y] \in Nat
            /\ cost[y + 1][x + 1] \in Nat
        BY <2>4, <3>1, <3>4, <4>1 DEF NaturalCosts
      <4>4. f[x + 1][y + 1] \in {f[x][y + 1] + 1, f[x + 1][y] + 1, f[x][y] + cost[y + 1][x + 1]}
        BY <4>2, <4>3, MinOfThree
      <4>5. QED
        BY <4>1, <4>3, <4>4
    <3> HIDE DEF S
    <3>5. \A y \in 0..n : y \in S
      BY <3>3, <3>4, InductionUpTo
    <3>6. QED
      BY <3>5 DEF S
  <2>5. \A x \in 0..n : Natural(x)
    <3> DEFINE S == {x \in 0..n : Natural(x)}
    <3> HIDE DEF Natural
    <3>1. 0 \in S /\ \A x \in 0..n : x < n /\ x \in S => x + 1 \in S
      BY <2>3, <2>4
    <3> HIDE DEF S
    <3>2. \A x \in 0..n : x \in S
      BY <3>1, InductionUpTo
    <3>3. QED
      BY <3>2 DEF S
  <2> DEFINE D == {x \in 0..n : f[x][x] = 0}
  <2>6. 0 \in D
    BY <2>2 DEF IsTable
  <2>7. ASSUME NEW x \in 0..n, x < n, x \in D PROVE x + 1 \in D
    <3>1. x + 1 \in 1..n /\ x + 1 \in 0..n /\ (x + 1) - 1 = x
      BY <2>7
    <3>2. f[x + 1][x + 1] = Min3(f[x][x + 1] + 1, f[x + 1][x] + 1, f[x][x] + cost[x + 1][x + 1])
      BY <2>2, <3>1 DEF IsTable
    <3>3. /\ f[x][x + 1] \in Nat /\ f[x + 1][x] \in Nat /\ f[x + 1][x + 1] \in Nat
          /\ f[x][x] = 0 /\ cost[x + 1][x + 1] = 0
      BY <2>5, <2>7, <3>1
    <3>4. f[x + 1][x + 1] <= 0 + 0
      BY <3>2, <3>3, MinOfThree
    <3>5. QED
      BY <3>1, <3>3, <3>4
  <2> HIDE DEF D
  <2>8. \A x \in 0..n : x \in D
    BY <2>6, <2>7, InductionUpTo
  <2>9. QED
    BY <2>1, <2>2, <2>8 DEF D, IsTable
<1>3. QED
  BY <1>1, <1>2

\* An edit costs two halves or less, and what costs nothing in one way of counting
\* costs nothing in the other.
LEMMA WeightsCompare ==
    ASSUME NEW s, NEW name, Len(s) \in Nat, Len(name) \in Nat
    PROVE  /\ LevenshteinDistance(s, name) \in Nat
           /\ WeightedLevenshteinDistance(s, name) \in Nat
           /\ LevenshteinDistance(s, name) <= WeightedLevenshteinDistance(s, name)
<1> DEFINE n == Len(s)
           m == Len(name)
           cost == EditCosts(s, name)
           dear == KeyboardCosts(s, name)
<1>1. /\ LevenshteinDistance(s, name) = EditDistance(n, m, 1, cost)
      /\ WeightedLevenshteinDistance(s, name) = EditDistance(n, m, 2, dear)
  BY DEF LevenshteinDistance, WeightedLevenshteinDistance
<1>2. \A y \in 1..n, x \in 1..m :
        /\ cost[y][x] = IF LetterOf(s, y) = LetterOf(name, x) THEN 0 ELSE 1
        /\ dear[y][x] = KeyboardCost(LetterOf(s, y), LetterOf(name, x))
  BY DEF EditCosts, KeyboardCosts
<1> HIDE DEF cost, dear, n, m
<1>3. NaturalCosts(n, m, cost) /\ NaturalCosts(n, m, dear)
  BY <1>2 DEF NaturalCosts, KeyboardCost
<1>4. \A y \in 1..n, x \in 1..m : cost[y][x] <= dear[y][x]
  BY <1>2 DEF KeyboardCost
<1>5. n \in Nat /\ m \in Nat
  BY DEF n, m
<1>6. QED
  BY <1>1, <1>3, <1>4, <1>5, CheaperIsNearer

LEMMA NameIsNearItself ==
    ASSUME NEW s, Len(s) \in Nat
    PROVE  LevenshteinDistance(s, s) = 0
<1> DEFINE n == Len(s)
           cost == EditCosts(s, s)
<1>1. LevenshteinDistance(s, s) = EditDistance(n, n, 1, cost)
  BY DEF LevenshteinDistance
<1>2. \A y, x \in 1..n : cost[y][x] = IF LetterOf(s, y) = LetterOf(s, x) THEN 0 ELSE 1
  BY DEF EditCosts
<1> HIDE DEF cost, n
<1>3. NaturalCosts(n, n, cost) /\ \A y \in 1..n : cost[y][y] = 0
  BY <1>2 DEF NaturalCosts
<1>4. QED
  BY <1>1, <1>3, SameIsNear DEF n

\* Every label and name has a length; what a string is made of is nothing the provers
\* know.
LabelsHaveLengths ==
    /\ \A d \in Subjects : \A i \in DOMAIN d : Len(Beginning(SkeletonOf(ToUnicode(d)[i]))) \in Nat
    /\ \A k \in DOMAIN TrustedBrands : Len(Beginning(TrustedBrands[k].name)) \in Nat

\* The distances that decide whether a name is a likeness are the least costs over all
\* ways to edit.
THEOREM DistancesAreRight == ASSUME LabelsHaveLengths PROVE Spec => []DistancesLeast
<1>1. ASSUME NEW d \in Subjects PROVE DistancesAreLeast(d)
  <2> SUFFICES ASSUME NEW i \in DOMAIN d, NEW k \in DOMAIN TrustedBrands,
                      NEW s1, s1 = Beginning(SkeletonOf(ToUnicode(d)[i])),
                      NEW s2, s2 = Beginning(TrustedBrands[k].name)
               PROVE  /\ LevenshteinDistance(s1, s2) = LeastCost(Len(s1), Len(s2), 1, EditCosts(s1, s2))
                      /\ WeightedLevenshteinDistance(s1, s2)
                           = LeastCost(Len(s1), Len(s2), 2, KeyboardCosts(s1, s2))
    BY Zenon DEF DistancesAreLeast
  <2>1. Len(s1) \in Nat /\ Len(s2) \in Nat
    BY DEF LabelsHaveLengths
  <2>2. \A unit, cost : EditDistance(Len(s1), Len(s2), unit, cost) = LeastCost(Len(s1), Len(s2), unit, cost)
    <3> DEFINE n == Len(s1)
               m == Len(s2)
    <3> HIDE DEF n, m
    <3>1. n \in Nat /\ m \in Nat
      BY <2>1 DEF n, m
    <3>2. \A unit, cost : EditDistance(n, m, unit, cost) = LeastCost(n, m, unit, cost)
      BY <3>1, EditDistanceIsLeast
    <3>3. QED
      BY <3>2 DEF n, m
  <2>3. QED
    BY <2>2, Zenon DEF LevenshteinDistance, WeightedLevenshteinDistance
<1>2. TypeOK => DistancesLeast
  BY <1>1 DEF TypeOK, DistancesLeast, RightlyMeasured
<1>3. QED
  BY <1>2, AlertTypeCorrect, PTL

-----------------------------------------------------------------------------
(* Who is reported *)

\* The brands whose checks find something in a domain.
Finders(d) == {k \in 1..Len(TrustedBrands) : FoundFor(TrustedBrands[k], d) # "nothing"}

\* The loop ends at the first of them.
LEMMA FirstOfFinders ==
    ASSUME NEW d, Len(TrustedBrands) \in Nat
    PROVE  /\ Finders(d) = {} => FirstBrand(d) = 0
           /\ Finders(d) # {} => /\ FirstBrand(d) \in Finders(d)
                                 /\ \A k \in Finders(d) : FirstBrand(d) <= k
<1>1. FirstBrand(d) = IF Finders(d) # {} THEN Min(Finders(d)) ELSE 0
  BY DEF FirstBrand, SelectInSeq, Finders
<1>2. Finders(d) \subseteq Nat
  BY DEF Finders
<1>3. CASE Finders(d) # {}
  <2>1. \E x \in Finders(d) : \A y \in Finders(d) : x <= y
    BY <1>2, <1>3, LeastNatural
  <2>2. Min(Finders(d)) \in Finders(d) /\ \A y \in Finders(d) : Min(Finders(d)) <= y
    BY <2>1, Zenon DEF Min
  <2>3. QED
    BY <1>1, <1>3, <2>2
<1>4. QED
  BY <1>1, <1>3

\* A domain is reported if there are any, unless it is the government's, and as the
\* first one's.
LEMMA ReportedByFinder ==
    ASSUME NEW d, NEW score, Len(TrustedBrands) \in Nat
    PROVE  LET finding == CheckBrandSpoofing(d, score)
           IN  /\ finding.isSpoof <=> ~isVietnamGovernmentRoot(getRootDomain(d)) /\ Finders(d) # {}
               /\ finding.isSpoof => finding.brand = TrustedBrands[FirstBrand(d)].name
<1> DEFINE finding == CheckBrandSpoofing(d, score)
           first == FirstBrand(d)
           brand == TrustedBrands[first]
           spared == isVietnamGovernmentRoot(getRootDomain(d)) \/ first = 0
           penalty == score + TldPenalty(d) - (IF FoundFor(brand, d) = "subdomain" THEN 10 ELSE 0)
<1>1. first = 0 <=> Finders(d) = {}
  <2>1. 0 \notin Finders(d)
    BY DEF Finders
  <2>2. QED
    BY <2>1, FirstOfFinders
<1>2. NoSpoof.isSpoof = FALSE
  BY DEF NoSpoof
<1>3. finding = IF spared THEN NoSpoof ELSE [isSpoof |-> TRUE, brand |-> brand.name, penalty |-> penalty]
  BY DEF CheckBrandSpoofing
<1> HIDE DEF finding, penalty, brand
<1>4. /\ finding.isSpoof <=> ~spared
      /\ finding.isSpoof => finding.brand = brand.name
  BY <1>2, <1>3
<1>5. QED
  BY <1>1, <1>4 DEF finding, brand

\* Whatever the domain and the brands: what is reported is the first brand of the list
\* whose checks find something, and never one the domain belongs to.
THEOREM OwnersAreSpared ==
    ASSUME NEW d, NEW score, Len(TrustedBrands) \in Nat,
           CheckBrandSpoofing(d, score).isSpoof
    PROVE  \E k \in 1..Len(TrustedBrands) :
              /\ TrustedBrands[k].name = CheckBrandSpoofing(d, score).brand
              /\ getRootDomain(d) \notin TrustedBrands[k].official
              /\ FoundFor(TrustedBrands[k], d) # "nothing"
              /\ \A j \in 1..(k - 1) : FoundFor(TrustedBrands[j], d) = "nothing"
<1> DEFINE first == FirstBrand(d)
<1>1. TrustedBrands[first].name = CheckBrandSpoofing(d, score).brand /\ Finders(d) # {}
  BY ReportedByFinder
<1>2. first \in Finders(d) /\ \A k \in Finders(d) : first <= k
  BY <1>1, FirstOfFinders
<1> HIDE DEF first
<1>3. first \in 1..Len(TrustedBrands) /\ FoundFor(TrustedBrands[first], d) # "nothing"
  BY <1>2 DEF Finders
<1>4. getRootDomain(d) \notin TrustedBrands[first].official
  BY <1>3 DEF FoundFor, IsOfficial
<1>5. ASSUME NEW j \in 1..(first - 1) PROVE FoundFor(TrustedBrands[j], d) = "nothing"
  <2>1. j \in 1..Len(TrustedBrands) /\ ~(first <= j)
    BY <1>3
  <2>2. j \notin Finders(d)
    BY <1>2, <2>1
  <2>3. QED
    BY <2>1, <2>2 DEF Finders
<1>6. QED
  BY <1>1, <1>3, <1>4, <1>5

-----------------------------------------------------------------------------
(* The hosts of a site *)

\* Labels and names are strings; that a literal is one is nothing the provers know.
Labels == STRING \cup {"www", "vn"}

\* A site is more than a suffix under which others register theirs, such as com.vn.
IsSite(d) ==
    /\ d \in Seq(Labels) /\ Len(d) > 1
    /\ Len(d) = 2 => d[1] \notin DoubleTLDs /\ ToUnicode(d)[1] \notin DoubleTLDs

\* A host's name is one label more than the site's; what they have in common is
\* shifted by one.
LEMMA LabelsShift ==
    ASSUME NEW S, NEW d \in Seq(S), NEW host \in S, NEW h, h = <<host>> \o d
    PROVE  /\ h \in Seq(S) /\ Len(h) = Len(d) + 1 /\ Len(d) \in Nat
           /\ \A i \in 1..Len(d) : h[i + 1] = d[i]
<1>1. h \in Seq(S) /\ Len(h) = Len(d) + 1 /\ Len(d) \in Nat
  OBVIOUS
<1>2. ASSUME NEW i \in 1..Len(d) PROVE h[i + 1] = d[i]
  OBVIOUS
<1>3. QED
  BY <1>1, <1>2

\* A host has the root of its site.
LEMMA RootOfHost ==
    ASSUME NEW S, NEW d \in Seq(S), NEW h \in Seq(S),
           Len(h) = Len(d) + 1, \A i \in 1..Len(d) : h[i + 1] = d[i],
           Len(d) > 1, Len(d) = 2 => d[1] \notin DoubleTLDs
    PROVE  getRootDomain(h) = getRootDomain(d)
<1> DEFINE n == Len(d)
<1>1. n \in Nat /\ n > 1 /\ Len(h) = n + 1
  OBVIOUS
<1>2. CASE n = 2
  <2>1. h[2] = d[1] /\ h[3] = d[2] /\ Len(h) = 3
    BY <1>2
  <2>2. getRootDomain(d) = d
    BY <1>2 DEF getRootDomain
  <2>3. getRootDomain(h) = SubSeq(h, 2, 3)
    BY <1>2, <2>1 DEF getRootDomain
  <2>4. SubSeq(h, 2, 3) = d
    BY <1>2, <2>1
  <2>5. QED
    BY <2>2, <2>3, <2>4
<1>3. CASE n > 2
  <2> DEFINE double == d[n - 1] \in DoubleTLDs /\ Bytes(d[n]) = 2
  <2>1. h[n] = d[n - 1] /\ h[n + 1] = d[n] /\ (n + 1) - 1 = n
    BY <1>1, <1>3
  <2>2. getRootDomain(d) = IF double THEN SubSeq(d, n - 2, n) ELSE SubSeq(d, n - 1, n)
    BY <1>1, <1>3 DEF getRootDomain
  <2>3. getRootDomain(h) = IF double THEN SubSeq(h, n - 1, n + 1) ELSE SubSeq(h, n, n + 1)
    BY <1>1, <1>3, <2>1 DEF getRootDomain
  <2>4. SubSeq(h, n - 1, n + 1) = SubSeq(d, n - 2, n)
    BY <1>1, <1>3
  <2>5. SubSeq(h, n, n + 1) = SubSeq(d, n - 1, n)
    BY <1>1, <1>3
  <2> HIDE DEF double, n
  <2>6. CASE double
    BY <2>2, <2>3, <2>4, <2>6
  <2>7. CASE ~double
    BY <2>2, <2>3, <2>5, <2>7
  <2>8. QED
    BY <2>6, <2>7
<1>4. QED
  BY <1>1, <1>2, <1>3

\* What is decoded of a host, and what it looks like, is that of its site, shifted by one.
LEMMA DecodedShifts ==
    ASSUME NEW d, NEW h, NEW n \in Nat, DOMAIN d = 1..n, DOMAIN h = 1..(n + 1),
           \A i \in 1..n : h[i + 1] = d[i]
    PROVE  /\ DOMAIN ToUnicode(d) = 1..n /\ DOMAIN ToUnicode(h) = 1..(n + 1)
           /\ \A i \in 1..n : ToUnicode(h)[i + 1] = ToUnicode(d)[i]
           /\ \A i \in 1..n : ToSkeleton(ToUnicode(h))[i + 1] = ToSkeleton(ToUnicode(d))[i]
           /\ ToSkeleton(ToUnicode(d)) # ToUnicode(d) => ToSkeleton(ToUnicode(h)) # ToUnicode(h)
<1> DEFINE u == ToUnicode(d)
           v == ToUnicode(h)
<1>1. /\ u = [i \in 1..n |-> IF d[i] \in DOMAIN DecodedLabel THEN DecodedLabel[d[i]] ELSE d[i]]
      /\ v = [i \in 1..(n + 1) |-> IF h[i] \in DOMAIN DecodedLabel THEN DecodedLabel[h[i]] ELSE h[i]]
  BY DEF ToUnicode, MapLabels
<1>2. ASSUME NEW i \in 1..n PROVE v[i + 1] = u[i]
  <2>1. i + 1 \in 1..(n + 1) /\ h[i + 1] = d[i]
    OBVIOUS
  <2> HIDE DEF u, v
  <2>2. QED
    BY <1>1, <2>1
<1> HIDE DEF u, v
<1>3. DOMAIN u = 1..n /\ DOMAIN v = 1..(n + 1)
  BY <1>1
<1>4. /\ ToSkeleton(u) = [i \in 1..n |-> SkeletonOf(u[i])]
      /\ ToSkeleton(v) = [i \in 1..(n + 1) |-> SkeletonOf(v[i])]
  BY <1>3 DEF ToSkeleton, MapLabels
<1>5. ASSUME NEW i \in 1..n PROVE ToSkeleton(v)[i + 1] = ToSkeleton(u)[i]
  <2>1. i + 1 \in 1..(n + 1)
    OBVIOUS
  <2>2. QED
    BY <1>2, <1>4, <2>1
<1>6. ASSUME ToSkeleton(u) # u PROVE ToSkeleton(v) # v
  <2>1. u = [i \in 1..n |-> u[i]]
    BY <1>1
  <2>2. PICK i \in 1..n : ToSkeleton(u)[i] # u[i]
    BY <1>4, <1>6, <2>1
  <2>3. ToSkeleton(v)[i + 1] # v[i + 1]
    BY <1>2, <1>5, <2>2
  <2>4. QED
    BY <2>3
<1>7. QED
  BY <1>2, <1>3, <1>5, <1>6 DEF u, v

\* The root is a sequence of labels of the domain.
LEMMA RootIsPart ==
    ASSUME NEW S, NEW d \in Seq(S), Len(d) > 1
    PROVE  getRootDomain(d) \in Seq(S)
<1> DEFINE n == Len(d)
<1>1. n \in Nat /\ n > 1
  OBVIOUS
<1>2. CASE n = 2
  BY <1>2 DEF getRootDomain
<1>3. CASE n > 2
  <2>1. SubSeq(d, n - 2, n) \in Seq(S) /\ SubSeq(d, n - 1, n) \in Seq(S)
    BY <1>1, <1>3
  <2>2. getRootDomain(d) \in {SubSeq(d, n - 2, n), SubSeq(d, n - 1, n)}
    BY <1>1, <1>3 DEF getRootDomain
  <2>3. QED
    BY <2>1, <2>2
<1> HIDE DEF n
<1>4. QED
  BY <1>1, <1>2, <1>3

\* What a brand's checks find in a site they find in each of its hosts.
LEMMA FoundInHost ==
    ASSUME NEW d, IsSite(d), NEW host \in Labels, NEW brand, FoundFor(brand, d) # "nothing"
    PROVE  /\ getRootDomain(<<host>> \o d) = getRootDomain(d)
           /\ FoundFor(brand, <<host>> \o d) # "nothing"
<1> DEFINE h == <<host>> \o d
           n == Len(d)
           u == ToUnicode(d)
           v == ToUnicode(h)
<1>1. d \in Seq(Labels) /\ n > 1
  BY DEF IsSite
<1>2. h \in Seq(Labels) /\ Len(h) = n + 1 /\ n \in Nat /\ \A i \in 1..n : h[i + 1] = d[i]
  BY <1>1, LabelsShift
<1> HIDE DEF h, n
<1>3. DOMAIN d = 1..n /\ DOMAIN h = 1..(n + 1)
  BY <1>1, <1>2 DEF n
<1>4. getRootDomain(h) = getRootDomain(d)
  BY <1>1, <1>2, RootOfHost DEF IsSite, n
<1>5. /\ DOMAIN u = 1..n /\ DOMAIN v = 1..(n + 1)
      /\ \A i \in 1..n : v[i + 1] = u[i]
      /\ \A i \in 1..n : ToSkeleton(v)[i + 1] = ToSkeleton(u)[i]
      /\ ToSkeleton(u) # u => ToSkeleton(v) # v
  BY <1>2, <1>3, DecodedShifts
<1>6. getRootDomain(v) = getRootDomain(u)
  <2> DEFINE S == {v[i] : i \in 1..(n + 1)}
  <2>1. u = [i \in 1..n |-> u[i]] /\ v = [i \in 1..(n + 1) |-> v[i]]
    BY <1>5 DEF ToUnicode, MapLabels
  <2> HIDE DEF u, v
  <2>2. \A i \in 1..n : u[i] \in S
    BY <1>2, <1>5
  <2>3. u \in Seq(S) /\ v \in Seq(S) /\ Len(u) = n /\ Len(v) = n + 1
    <3>1. \A i \in 1..(n + 1) : v[i] \in S
      OBVIOUS
    <3> HIDE DEF S
    <3>2. u \in [1..n -> S] /\ v \in [1..(n + 1) -> S]
      BY <2>1, <2>2, <3>1
    <3>3. n + 1 \in Nat
      BY <1>2
    <3>4. QED
      BY <1>2, <3>2, <3>3
  <2>4. Len(u) = 2 => u[1] \notin DoubleTLDs
    BY <2>3 DEF IsSite, n, u
  <2> HIDE DEF S
  <2>5. QED
    BY <1>1, <1>5, <2>3, <2>4, RootOfHost
<1>7. ~IsOfficial(brand, d)
  BY DEF FoundFor
<1>8. ~IsOfficial(brand, h)
  BY <1>4, <1>7 DEF IsOfficial
<1>9. ASSUME NEW i \in Examined(d), Typosquatting(brand, d, i)
      PROVE  i + 1 \in Examined(h) /\ Typosquatting(brand, h, i + 1)
  <2>1. /\ i \in 1..n /\ d[i] # d[n]
        /\ ~(n > 2 /\ d[i] = d[n - 1] /\ d[i] \in DoubleTLDs)
    BY <1>1 DEF Examined, n
  <2>2. /\ i + 1 \in 1..(n + 1) /\ h[i + 1] = d[i] /\ h[n + 1] = d[n]
        /\ n - 1 \in 1..n /\ (n + 1) - 1 = (n - 1) + 1 /\ h[(n + 1) - 1] = d[n - 1]
    <3>1. i + 1 \in 1..(n + 1) /\ n \in 1..n /\ n - 1 \in 1..n /\ (n + 1) - 1 = (n - 1) + 1
      BY <1>1, <1>2, <2>1
    <3>2. QED
      BY <1>2, <2>1, <3>1
  <2>3. d[i] = d[n - 1] => d[i] \notin DoubleTLDs
    <3>1. CASE n = 2
      BY <1>1, <2>1, <3>1 DEF IsSite, n
    <3>2. CASE n # 2
      BY <1>1, <1>2, <2>1, <3>2
    <3>3. QED
      BY <3>1, <3>2
  <2>4. i + 1 \in Examined(h)
    <3>1. Examined(h) = {j \in 1..(n + 1) : /\ n + 1 > 1 => h[j] # h[n + 1]
                                            /\ ~(n + 1 > 2 /\ h[j] = h[(n + 1) - 1] /\ h[j] \in DoubleTLDs)}
      BY <1>2, Zenon DEF Examined
    <3>2. QED
      BY <2>1, <2>2, <2>3, <3>1
  <2> DEFINE likeness == ToSkeleton(u)[i]
  <2>5. ToSkeleton(v)[i + 1] = likeness
    BY <1>5, <2>1
  <2>6. \/ likeness = brand.name /\ d[i] # brand.name /\ ToSkeleton(u) # u
        \/ /\ WeightedLevenshteinDistance(likeness, brand.name) > 0
           /\ WeightedLevenshteinDistance(likeness, brand.name) <= 3
        \/ /\ LevenshteinDistance(likeness, brand.name) > 0
           /\ LevenshteinDistance(likeness, brand.name) <= 2
    BY <1>9, Zenon DEF Typosquatting
  <2>7. Min({Bytes(brand.name), Bytes(likeness)}) >= 4
    BY <1>9, Zenon DEF Typosquatting
  <2>8. \/ likeness = brand.name /\ h[i + 1] # brand.name /\ ToSkeleton(v) # v
        \/ /\ WeightedLevenshteinDistance(likeness, brand.name) > 0
           /\ WeightedLevenshteinDistance(likeness, brand.name) <= 3
        \/ /\ LevenshteinDistance(likeness, brand.name) > 0
           /\ LevenshteinDistance(likeness, brand.name) <= 2
    BY <1>5, <2>2, <2>6, Zenon
  <2> HIDE DEF likeness
  <2>9. Typosquatting(brand, h, i + 1)
    BY <2>5, <2>7, <2>8, Zenon DEF Typosquatting
  <2>10. QED
    BY <2>4, <2>9
<1>10. KeywordMention(brand, d) => KeywordMention(brand, h)
  BY <1>4, <1>6 DEF KeywordMention
<1>11. ASSUME SubdomainAbuse(brand, d) PROVE SubdomainAbuse(brand, h)
  <2>1. PICK i \in 1..(n - Len(getRootDomain(d))) :
          Mentions(d[i], brand.name) \/ Mentions(ToSkeleton(u)[i], brand.name)
    BY <1>11, Zenon DEF SubdomainAbuse, n
  <2>2. Len(getRootDomain(d)) \in Nat
    <3>1. getRootDomain(d) \in Seq(Labels)
      BY <1>1, RootIsPart DEF n
    <3>2. QED
      BY <3>1
  <2>3. i \in 1..n /\ i + 1 \in 1..((n + 1) - Len(getRootDomain(d)))
    BY <1>2, <2>1, <2>2
  <2>4. Mentions(h[i + 1], brand.name) \/ Mentions(ToSkeleton(v)[i + 1], brand.name)
    BY <1>2, <1>5, <2>1, <2>3
  <2>5. i + 1 \in 1..(Len(h) - Len(getRootDomain(h)))
    BY <1>2, <1>4, <2>3
  <2>6. QED
    BY <2>4, <2>5, Zenon DEF SubdomainAbuse
<1>12. \/ \E i \in Examined(d) : Typosquatting(brand, d, i)
       \/ KeywordMention(brand, d)
       \/ SubdomainAbuse(brand, d)
  BY Zenon DEF FoundFor
<1>13. \/ \E i \in Examined(h) : Typosquatting(brand, h, i)
       \/ KeywordMention(brand, h)
       \/ SubdomainAbuse(brand, h)
  BY <1>9, <1>10, <1>11, <1>12
<1>14. FoundFor(brand, h) # "nothing"
  BY <1>8, <1>13 DEF FoundFor
<1>15. QED
  BY <1>4, <1>14 DEF h

\* Nobody hides a likeness behind a host name: if a site is reported, so is every host
\* of it, under whatever name.
THEOREM HostsAreReported ==
    ASSUME NEW d, IsSite(d), NEW host \in Labels, NEW score, NEW other,
           Len(TrustedBrands) \in Nat, CheckBrandSpoofing(d, score).isSpoof
    PROVE  CheckBrandSpoofing(<<host>> \o d, other).isSpoof
<1> DEFINE h == <<host>> \o d
<1>1. ~isVietnamGovernmentRoot(getRootDomain(d)) /\ Finders(d) # {}
  BY ReportedByFinder
<1>2. PICK k \in 1..Len(TrustedBrands) : FoundFor(TrustedBrands[k], d) # "nothing"
  BY <1>1 DEF Finders
<1>3. getRootDomain(h) = getRootDomain(d) /\ FoundFor(TrustedBrands[k], h) # "nothing"
  BY <1>2, FoundInHost
<1> HIDE DEF h
<1>4. Finders(h) # {}
  BY <1>2, <1>3 DEF Finders
<1>5. CheckBrandSpoofing(h, other).isSpoof
  BY <1>1, <1>3, <1>4, ReportedByFinder
<1>6. QED
  BY <1>5 DEF h

-----------------------------------------------------------------------------
(* What a report is about *)

\* The labels of the root are labels of the domain.
LEMMA RootLabels ==
    ASSUME NEW d, NEW n \in Nat, d = [j \in 1..n |-> d[j]], Len(d) = n,
           NEW i \in DOMAIN getRootDomain(d)
    PROVE  \E j \in 1..n : getRootDomain(d)[i] = d[j]
<1> DEFINE S == {d[j] : j \in 1..n}
<1>1. d \in [1..n -> S]
  OBVIOUS
<1> HIDE DEF S
<1>2. d \in Seq(S)
  BY <1>1
<1>3. getRootDomain(d) \in Seq(S)
  <2>1. CASE n <= 2
    BY <1>2, <2>1 DEF getRootDomain
  <2>2. CASE n > 2
    BY <1>2, <2>2, RootIsPart
  <2>3. QED
    BY <2>1, <2>2
<1>4. getRootDomain(d)[i] \in S
  BY <1>3
<1>5. QED
  BY <1>4 DEF S

\* A label mentions the name or looks like it but for three edits.
Resembles(l, name) == Mentions(l, name) \/ LevenshteinDistance(l, name) <= 3

\* Whatever the domain and the brand: what the checks find is a name some label of the
\* domain mentions, as it is written or as it looks, or looks like but for three edits.
LEMMA FindingIsGrounded ==
    ASSUME NEW d \in Seq(Labels), NEW brand, FoundFor(brand, d) # "nothing",
           Len(brand.name) \in Nat,
           \A i \in DOMAIN d : Len(SkeletonOf(ToUnicode(d)[i])) \in Nat
    PROVE  \E i \in DOMAIN d : \/ Mentions(d[i], brand.name)
                               \/ Resembles(SkeletonOf(ToUnicode(d)[i]), brand.name)
<1> DEFINE n == Len(d)
           u == ToUnicode(d)
           name == brand.name
           Grounded(i) == Mentions(d[i], name) \/ Resembles(SkeletonOf(u[i]), name)
<1>1. n \in Nat /\ DOMAIN d = 1..n /\ d = [j \in 1..n |-> d[j]]
  OBVIOUS
<1>2. DOMAIN u = 1..n /\ u = [j \in 1..n |-> u[j]] /\ Len(u) = n
  <2>1. u = [j \in 1..n |-> IF d[j] \in DOMAIN DecodedLabel THEN DecodedLabel[d[j]] ELSE d[j]]
    BY <1>1 DEF ToUnicode, MapLabels
  <2> HIDE DEF u
  <2>2. DOMAIN u = 1..n /\ u = [j \in 1..n |-> u[j]]
    BY <2>1
  <2> DEFINE S == {u[j] : j \in 1..n}
  <2>3. u \in [1..n -> S]
    BY <2>2
  <2> HIDE DEF S
  <2>4. Len(u) = n
    BY <1>1, <2>3
  <2>5. QED
    BY <2>2, <2>4
<1> HIDE DEF n
<1>3. \A i \in 1..n : ToSkeleton(u)[i] = SkeletonOf(u[i])
  BY <1>2 DEF ToSkeleton, MapLabels
<1> SUFFICES \E i \in 1..n : Grounded(i)
  BY <1>1
<1>4. \/ \E i \in Examined(d) : Typosquatting(brand, d, i)
      \/ KeywordMention(brand, d)
      \/ SubdomainAbuse(brand, d)
  BY Zenon DEF FoundFor
<1>5. ASSUME NEW i \in Examined(d), Typosquatting(brand, d, i) PROVE i \in 1..n /\ Grounded(i)
  <2>1. i \in 1..n
    BY DEF Examined, n
  <2> DEFINE s == ToSkeleton(u)[i]
  <2>2. s = SkeletonOf(u[i]) /\ Len(s) \in Nat
    BY <1>1, <1>3, <2>1
  <2>3. \/ s = name
        \/ WeightedLevenshteinDistance(s, name) <= 3
        \/ LevenshteinDistance(s, name) > 0 /\ LevenshteinDistance(s, name) <= 2
    BY <1>5, Zenon DEF Typosquatting
  <2> HIDE DEF s
  <2>4. /\ LevenshteinDistance(s, name) \in Nat /\ WeightedLevenshteinDistance(s, name) \in Nat
        /\ LevenshteinDistance(s, name) <= WeightedLevenshteinDistance(s, name)
    BY <2>2, WeightsCompare
  <2>5. LevenshteinDistance(s, name) <= 3
    <3>1. CASE s = name
      BY <2>2, <3>1, NameIsNearItself
    <3>2. CASE s # name
      BY <2>3, <2>4, <3>2
    <3>3. QED
      BY <3>1, <3>2
  <2>6. QED
    BY <2>1, <2>2, <2>5 DEF Resembles
<1>6. ASSUME KeywordMention(brand, d) PROVE \E i \in 1..n : Grounded(i)
  <2>1. CASE \E i \in DOMAIN getRootDomain(d) : Mentions(getRootDomain(d)[i], name)
    <3>1. PICK i \in DOMAIN getRootDomain(d) : Mentions(getRootDomain(d)[i], name)
      BY <2>1
    <3>2. PICK j \in 1..n : getRootDomain(d)[i] = d[j]
      BY <1>1, RootLabels DEF n
    <3>3. QED
      BY <3>1, <3>2
  <2>2. CASE \E i \in DOMAIN ToSkeleton(getRootDomain(u)) : Mentions(ToSkeleton(getRootDomain(u))[i], name)
    <3>1. PICK i \in DOMAIN ToSkeleton(getRootDomain(u)) : Mentions(ToSkeleton(getRootDomain(u))[i], name)
      BY <2>2
    <3>2. /\ i \in DOMAIN getRootDomain(u)
          /\ ToSkeleton(getRootDomain(u))[i] = SkeletonOf(getRootDomain(u)[i])
      BY DEF ToSkeleton, MapLabels
    <3> HIDE DEF u
    <3>3. PICK j \in 1..n : getRootDomain(u)[i] = u[j]
      BY <1>1, <1>2, <3>2, RootLabels
    <3>4. QED
      BY <3>1, <3>2, <3>3 DEF Resembles
  <2>3. QED
    BY <1>6, <2>1, <2>2, Zenon DEF KeywordMention
<1>7. ASSUME SubdomainAbuse(brand, d) PROVE \E i \in 1..n : Grounded(i)
  <2>1. PICK i \in 1..(n - Len(getRootDomain(d))) : Mentions(d[i], name) \/ Mentions(ToSkeleton(u)[i], name)
    BY <1>7, Zenon DEF SubdomainAbuse, n
  <2>2. Len(getRootDomain(d)) \in Nat
    <3>1. getRootDomain(d) \in Seq(Labels)
      <4>1. CASE n <= 2
        BY <4>1 DEF getRootDomain, n
      <4>2. CASE n > 2
        BY <1>1, <4>2, RootIsPart DEF n
      <4>3. QED
        BY <1>1, <4>1, <4>2
    <3>2. QED
      BY <3>1
  <2>3. i \in 1..n
    BY <1>1, <2>1, <2>2
  <2>4. QED
    BY <1>3, <2>1, <2>3 DEF Resembles
<1>8. QED
  BY <1>4, <1>5, <1>6, <1>7

\* Whatever the domain, the brands and their order: what is reported is the name of a
\* brand the domain does not belong to, and a label of the domain mentions it, as it is
\* written or as it looks, or looks like it but for three edits.
THEOREM ReportsAreGrounded ==
    ASSUME NEW d \in Seq(Labels), NEW score, Len(TrustedBrands) \in Nat,
           \A k \in 1..Len(TrustedBrands) : Len(TrustedBrands[k].name) \in Nat,
           \A i \in DOMAIN d : Len(SkeletonOf(ToUnicode(d)[i])) \in Nat,
           CheckBrandSpoofing(d, score).isSpoof,
           NEW name, name = CheckBrandSpoofing(d, score).brand
    PROVE  \E k \in 1..Len(TrustedBrands) :
              /\ TrustedBrands[k].name = name
              /\ getRootDomain(d) \notin TrustedBrands[k].official
              /\ \E i \in DOMAIN d : \/ Mentions(d[i], name)
                                     \/ Resembles(SkeletonOf(ToUnicode(d)[i]), name)
<1>1. PICK k \in 1..Len(TrustedBrands) :
        /\ TrustedBrands[k].name = name
        /\ getRootDomain(d) \notin TrustedBrands[k].official
        /\ FoundFor(TrustedBrands[k], d) # "nothing"
  BY OwnersAreSpared
<1> DEFINE brand == TrustedBrands[k]
<1>2. brand.name = name /\ Len(brand.name) \in Nat /\ FoundFor(brand, d) # "nothing"
  BY <1>1
<1> HIDE DEF brand
<1>3. \E i \in DOMAIN d : \/ Mentions(d[i], brand.name)
                          \/ Resembles(SkeletonOf(ToUnicode(d)[i]), brand.name)
  BY <1>2, FindingIsGrounded
<1>4. QED
  BY <1>1, <1>2, <1>3

\* What is known of the brands and the domains beyond the checks.
\*   NamesKnown: names and labels are strings, and strings have lengths;
\*   SubjectsAreSites: no domain is a mere suffix such as com.vn;
\*   NamesShowThrough: a name in a label is still there once the label is decoded and
\*     replaced by what it looks like.  Names are written in letters that only look like
\*     themselves; a label in Punycode may hide one by decoding in the middle of it, and
\*     then is reported for what it says before it is decoded.
NamesKnown ==
    /\ Len(TrustedBrands) \in Nat /\ DOMAIN TrustedBrands = 1..Len(TrustedBrands)
    /\ \A k \in DOMAIN TrustedBrands : TrustedBrands[k].name \in Labels /\ Len(TrustedBrands[k].name) \in Nat
    /\ \A d \in Subjects : /\ d \in Seq(Labels)
                           /\ \A i \in DOMAIN d : Len(SkeletonOf(ToUnicode(d)[i])) \in Nat

SubjectsAreSites == \A d \in Subjects : Len(d) > 1 => IsSite(d)

NamesShowThrough ==
    \A d \in Subjects, k \in DOMAIN TrustedBrands : \A i \in DOMAIN d :
        Mentions(d[i], TrustedBrands[k].name)
            => Mentions(SkeletonOf(ToUnicode(d)[i]), TrustedBrands[k].name)

\* Whatever the brands, their order and the domains: only what another brand is called is
\* reported, and the hosts of a reported site are reported.
THEOREM NamesAreRight ==
    ASSUME NamesKnown, SubjectsAreSites, NamesShowThrough
    PROVE  Spec => []NamesDecide
<1>1. ASSUME NEW d \in Subjects, NEW finding, finding = CheckBrandSpoofing(d, 30)
      PROVE  OwnersPass(d, finding)
  <2> SUFFICES ASSUME finding.isSpoof
               PROVE  \E k \in DOMAIN TrustedBrands :
                         /\ TrustedBrands[k].name = finding.brand
                         /\ getRootDomain(d) \notin TrustedBrands[k].official
                         /\ \E i \in DOMAIN d : Resembles(SkeletonOf(ToUnicode(d)[i]), finding.brand)
    BY Zenon DEF OwnersPass, Resembles
  <2>1. d \in Seq(Labels) /\ \A i \in DOMAIN d : Len(SkeletonOf(ToUnicode(d)[i])) \in Nat
    BY DEF NamesKnown
  <2>2. /\ Len(TrustedBrands) \in Nat /\ DOMAIN TrustedBrands = 1..Len(TrustedBrands)
        /\ \A k \in 1..Len(TrustedBrands) : Len(TrustedBrands[k].name) \in Nat
    BY DEF NamesKnown
  <2> DEFINE name == finding.brand
  <2>3. CheckBrandSpoofing(d, 30).isSpoof /\ name = CheckBrandSpoofing(d, 30).brand
    BY <1>1
  <2> HIDE DEF name
  <2>4. PICK k \in 1..Len(TrustedBrands) :
          /\ TrustedBrands[k].name = name
          /\ getRootDomain(d) \notin TrustedBrands[k].official
          /\ \E i \in DOMAIN d : \/ Mentions(d[i], name)
                                 \/ Resembles(SkeletonOf(ToUnicode(d)[i]), name)
    BY <2>1, <2>2, <2>3, ReportsAreGrounded
  <2>5. PICK i \in DOMAIN d : Mentions(d[i], name) \/ Resembles(SkeletonOf(ToUnicode(d)[i]), name)
    BY <2>4
  <2>6. Resembles(SkeletonOf(ToUnicode(d)[i]), name)
    BY <2>2, <2>4, <2>5 DEF NamesShowThrough, Resembles
  <2>7. QED
    BY <2>2, <2>4, <2>6 DEF name
<1>2. ASSUME NEW d \in Subjects, NEW finding, finding = CheckBrandSpoofing(d, 30)
      PROVE  HostsFollow(d, finding)
  <2> SUFFICES ASSUME Len(d) > 1, finding.isSpoof, NEW host \in {"www", "vn", finding.brand}
               PROVE  CheckBrandSpoofing(<<host>> \o d, 0).isSpoof
    BY Zenon DEF HostsFollow
  <2>1. Len(TrustedBrands) \in Nat /\ CheckBrandSpoofing(d, 30).isSpoof
    BY <1>2 DEF NamesKnown
  <2>2. PICK k \in 1..Len(TrustedBrands) : TrustedBrands[k].name = CheckBrandSpoofing(d, 30).brand
    BY <2>1, OwnersAreSpared
  <2>3. finding.brand \in Labels
    BY <1>2, <2>2 DEF NamesKnown
  <2>4. host \in Labels
    BY <2>3 DEF Labels
  <2>5. IsSite(d)
    BY DEF SubjectsAreSites
  <2>6. QED
    BY <2>1, <2>4, <2>5, HostsAreReported
<1>3. RightlyNamed = Subjects
  BY <1>1, <1>2 DEF RightlyNamed
<1>4. TypeOK => NamesDecide
  BY <1>3 DEF TypeOK, NamesDecide
<1>5. QED
  BY <1>4, AlertTypeCorrect, PTL

-----------------------------------------------------------------------------
(* What the signs of a name add up to *)

\* The weights of the signs; the other fields are thresholds and the keywords.
Weights == {"punycode", "long", "hyphen", "digit", "mixed", "keywordBase", "keywordMatch",
            "keywordBonus", "brandSpoofing", "entropy"}

\* No weight counts against a sign.  LoadAnalysisConfig does not check what a file
\* says: one with a negative weight is outside of what is proved here.
NaturalWeights ==
    /\ Weights \cup {"keywords"} \subseteq Fields
    /\ \A w \in Weights : DefaultAnalysisConfig[w] \in Nat
    /\ IsFiniteSet(DefaultAnalysisConfig.keywords)
    /\ \A file \in ConfigFiles \ {Unreadable} :
          /\ \A w \in Weights \cap DOMAIN file : file[w] \in Nat
          /\ "keywords" \in DOMAIN file => IsFiniteSet(file.keywords)

LEMMA MaxOfTwo ==
    ASSUME NEW a \in Int, NEW b \in Int
    PROVE  Max({a, b}) \in {a, b} /\ Max({a, b}) >= a /\ Max({a, b}) >= b
<1>1. \E x \in {a, b} : \A y \in {a, b} : x >= y
  OBVIOUS
<1>2. QED
  BY <1>1 DEF Max

LEMMA MinOfTwo ==
    ASSUME NEW a \in Int, NEW b \in Int
    PROVE  Min({a, b}) \in {a, b} /\ Min({a, b}) <= a /\ Min({a, b}) <= b
<1>1. \E x \in {a, b} : \A y \in {a, b} : x <= y
  OBVIOUS
<1>2. QED
  BY <1>1 DEF Min

\* Whatever a file leaves out, the weights are natural numbers.
LEMMA WeightsLoaded ==
    ASSUME NaturalWeights, NEW file \in ConfigFiles
    PROVE  /\ \A w \in Weights : LoadAnalysisConfig(file)[w] \in Nat
           /\ IsFiniteSet(LoadAnalysisConfig(file).keywords)
<1>1. CASE file = Unreadable
  BY <1>1 DEF NaturalWeights, LoadAnalysisConfig
<1>2. CASE file # Unreadable
  <2>1. "keywords" \notin Weights
    BY DEF Weights
  <2>2. ASSUME NEW w \in Weights PROVE LoadAnalysisConfig(file)[w] \in Nat
    BY <1>2, <2>1, <2>2 DEF NaturalWeights, LoadAnalysisConfig
  <2>3. IsFiniteSet(LoadAnalysisConfig(file).keywords)
    BY <1>2 DEF NaturalWeights, LoadAnalysisConfig
  <2>4. QED
    BY <2>2, <2>3
<1>3. QED
  BY <1>1, <1>2

\* A sign counts for nothing or adds its weight.
LEMMA SignCounts ==
    ASSUME NEW condition \in BOOLEAN, NEW points \in Nat
    PROVE  If(condition, points) \in Nat
BY DEF If

LEMMA KeywordsCount ==
    ASSUME NEW d, NEW config,
           IsFiniteSet(config.keywords),
           config.keywordBase \in Nat, config.keywordMatch \in Nat, config.keywordBonus \in Nat
    PROVE  KeywordScore(d, config) \in Nat
<1> DEFINE n == KeywordCount(d, config)
<1>1. n \in Nat
  <2>1. IsFiniteSet({w \in config.keywords : \E i \in DOMAIN d : Mentions(d[i], w)})
    BY FS_Subset
  <2>2. QED
    BY <2>1, FS_CardinalityType DEF KeywordCount
<1>2. n * config.keywordMatch \in Nat
  <2> HIDE DEF n
  <2>1. \A a, b \in Nat : a * b \in Nat
    OBVIOUS
  <2>2. QED
    BY <1>1, <2>1
<1>3. KeywordScore(d, config) = 0
      \/ KeywordScore(d, config) = config.keywordBase + n * config.keywordMatch + config.keywordBonus
      \/ KeywordScore(d, config) = config.keywordBase + n * config.keywordMatch + 0
  BY DEF KeywordScore
<1>4. QED
  <2> DEFINE m == n * config.keywordMatch
  <2>1. m \in Nat
    BY <1>2
  <2> HIDE DEF m
  <2>2. KeywordScore(d, config) \in {0, config.keywordBase + m + config.keywordBonus,
                                     config.keywordBase + m + 0}
    BY <1>3 DEF m
  <2>3. QED
    BY <2>1, <2>2

LEMMA SignsCount ==
    ASSUME NEW d, NEW config, \A w \in Weights : config[w] \in Nat, IsFiniteSet(config.keywords)
    PROVE  SignsScore(d, config) \in Nat
<1>1. /\ config.punycode \in Nat /\ config.long \in Nat /\ config.hyphen \in Nat
      /\ config.digit \in Nat /\ config.mixed \in Nat
      /\ config.keywordBase \in Nat /\ config.keywordMatch \in Nat /\ config.keywordBonus \in Nat
  BY DEF Weights
<1>2. KeywordScore(d, config) \in Nat
  BY <1>1, KeywordsCount
<1>3. /\ If(InPunycode(d), config.punycode) \in Nat
      /\ If(Length(d) > config.longLength, config.long) \in Nat
      /\ If(Hyphens(d) >= config.hyphens, config.hyphen) \in Nat
      /\ If(digitRatioAbove(d, config.digitPercent), config.digit) \in Nat
      /\ If(mixedScripts(d), config.mixed) \in Nat
  BY <1>1 DEF If
<1>4. QED
  BY <1>2, <1>3 DEF SignsScore

\* What a likeness adds: the weight of a brand, up to 10 less and up to 20 more.
LEMMA LikenessCounts ==
    ASSUME NEW d, NEW score \in Nat
    PROVE  LET finding == CheckBrandSpoofing(d, score)
           IN  /\ finding.isSpoof => finding.penalty \in (score - 10)..(score + 20)
               /\ ~finding.isSpoof => finding.penalty = 0
<1> DEFINE finding == CheckBrandSpoofing(d, score)
           brand == TrustedBrands[FirstBrand(d)]
           less == IF FoundFor(brand, d) = "subdomain" THEN 10 ELSE 0
<1>1. CASE finding = NoSpoof
  <2>1. NoSpoof.isSpoof = FALSE /\ NoSpoof.penalty = 0
    BY DEF NoSpoof
  <2> HIDE DEF finding
  <2>2. finding.isSpoof = FALSE /\ finding.penalty = 0
    BY <1>1, <2>1
  <2>3. QED
    BY <2>2 DEF finding
<1>2. CASE finding # NoSpoof
  <2>1. finding = [isSpoof |-> TRUE, brand |-> brand.name, penalty |-> score + TldPenalty(d) - less]
    BY <1>2 DEF CheckBrandSpoofing
  <2>2. TldPenalty(d) \in {0, 20} /\ less \in {0, 10}
    BY DEF TldPenalty
  <2>3. finding.isSpoof /\ finding.penalty = score + TldPenalty(d) - less
    BY <2>1
  <2> HIDE DEF less, finding
  <2>4. QED
    BY <2>2, <2>3 DEF finding
<1>3. QED
  BY <1>1, <1>2

\* The verdict of what the parts of the score add up to.
LEMMA VerdictOfTotal ==
    ASSUME NEW d, NEW config, NEW label \in Nat, NEW floored \in Nat, NEW penalty \in Int,
           FlooredScore(d, config) = floored,
           CheckBrandSpoofing(d, config.brandSpoofing).penalty = penalty,
           Score(d, config) = Min({floored + penalty + label, 100})
    PROVE  /\ floored + penalty >= 40 => Verdict(d, config) # "SAFE"
           /\ floored + penalty >= 70 => Verdict(d, config) = "MALICIOUS"
<1>1. floored + penalty + label \in Int /\ floored + penalty + label >= floored + penalty
  OBVIOUS
<1>2. Score(d, config) \in {floored + penalty + label, 100}
  <2> DEFINE total == floored + penalty + label
  <2>1. total \in Int /\ 100 \in Int
    OBVIOUS
  <2> HIDE DEF total
  <2>2. Min({total, 100}) \in {total, 100}
    BY <2>1, MinOfTwo, Zenon
  <2>3. QED
    BY <2>2 DEF total
<1>3. QED
  BY <1>1, <1>2 DEF Verdict

\* The evidence is enough for every domain, whatever a file leaves out: a likeness
\* weighs at least 40 of the 50 it is given, and the floor of 75 for a protected name
\* leaves 70 even when the likeness found beside it counts against it.
LEMMA EvidenceIsEnough ==
    ASSUME NaturalWeights, NEW file \in ConfigFiles, NEW d
    PROVE  EvidenceSuffices(d, LoadAnalysisConfig(file))
<1> DEFINE config == LoadAnalysisConfig(file)
           finding == CheckBrandSpoofing(d, config.brandSpoofing)
<1>1. (\A w \in Weights : config[w] \in Nat) /\ IsFiniteSet(config.keywords)
  BY WeightsLoaded
<1> HIDE DEF config
<1>2. config.brandSpoofing \in Nat /\ config.entropy \in Nat
  BY <1>1 DEF Weights
<1>3. SignsScore(d, config) \in Nat
  BY <1>1, SignsCount
<1>4. /\ FlooredScore(d, config) \in Nat
      /\ isProtectedVietnamPublicServiceAbuse(d) => FlooredScore(d, config) >= 75
  <2> DEFINE abuse == If(isProtectedVietnamPublicServiceAbuse(d), 75)
  <2>1. abuse \in Nat /\ (isProtectedVietnamPublicServiceAbuse(d) => abuse = 75)
    BY DEF If
  <2> HIDE DEF abuse
  <2>2. FlooredScore(d, config) = Max({SignsScore(d, config), abuse})
    BY DEF FlooredScore, abuse
  <2>3. SignsScore(d, config) \in Int /\ abuse \in Int
    BY <1>3, <2>1
  <2>4. /\ Max({SignsScore(d, config), abuse}) \in {SignsScore(d, config), abuse}
        /\ Max({SignsScore(d, config), abuse}) >= abuse
    BY <2>3, MaxOfTwo, Zenon
  <2>5. QED
    BY <1>3, <2>1, <2>2, <2>4
<1>5. /\ finding.isSpoof => finding.penalty \in (config.brandSpoofing - 10)..(config.brandSpoofing + 20)
      /\ ~finding.isSpoof => finding.penalty = 0
  BY <1>2, LikenessCounts
<1>6. \E label \in Nat : Score(d, config) = Min({FlooredScore(d, config) + finding.penalty + label, 100})
  <2> DEFINE main == getMainLabel(d)
             entropic == /\ Bytes(main) >= 8
                         /\ \/ main \in HighEntropy
                            \/ /\ config.entropyThreshold = 0
                               /\ \E i \in 1..Len(main) : LetterOf(main, i) # LetterOf(main, 1)
             label == IF entropic THEN config.entropy ELSE 0
  <2>1. label \in Nat
    BY <1>2
  <2>2. Score(d, config) = Min({FlooredScore(d, config) + finding.penalty + label, 100})
    BY DEF Score, If
  <2> HIDE DEF label
  <2>3. QED
    BY <2>1, <2>2
<1> HIDE DEF finding
<1>7. finding.penalty \in Int
  BY <1>2, <1>5
<1>8. PICK label \in Nat : Score(d, config) = Min({FlooredScore(d, config) + finding.penalty + label, 100})
  BY <1>6
<1>9. /\ FlooredScore(d, config) + finding.penalty >= 40 => Verdict(d, config) # "SAFE"
      /\ FlooredScore(d, config) + finding.penalty >= 70 => Verdict(d, config) = "MALICIOUS"
  BY <1>4, <1>7, <1>8, VerdictOfTotal DEF finding
<1>10. finding.isSpoof /\ config.brandSpoofing >= 50 => Verdict(d, config) # "SAFE"
  BY <1>2, <1>4, <1>5, <1>7, <1>9
<1>11. isProtectedVietnamPublicServiceAbuse(d) /\ config.brandSpoofing >= 5 => Verdict(d, config) = "MALICIOUS"
  BY <1>2, <1>4, <1>5, <1>7, <1>9
<1>12. QED
  BY <1>10, <1>11 DEF EvidenceSuffices, config, finding

\* Whatever the domains and the files, as long as no weight is negative, a likeness is
\* at least SUSPICIOUS and the abuse of a protected name MALICIOUS.
THEOREM SignsAreEnough == ASSUME NaturalWeights PROVE Spec => []SignsSuffice
<1>1. TypeOK => SignsSuffice
  BY EvidenceIsEnough DEF TypeOK, SignsSuffice, RightlyJudged
<1>2. QED
  BY <1>1, AlertTypeCorrect, PTL
=============================================================================
