---------------------------- MODULE DnsFrontEndProofs ----------------------------
(***************************************************************************)
(* Proofs about TelemetryStore and DnsFrontEnd, for every set of requests, *)
(* every capacity of the channel, every policy and blocking strategy.      *)
(*                                                                         *)
(* The store: an accepted entry is in the channel, being inserted, in the  *)
(* table or disposed of, and when the writer returns the channel holds     *)
(* only what was sent after done was closed.                               *)
(*                                                                         *)
(* The resolver: every step of its servers, handlers and main is a step of *)
(* the store or leaves it alone, so what holds of the store holds of it.   *)
(***************************************************************************)
EXTENDS DnsFrontEnd, SequenceTheorems, TLAPS

USE TelemetryAssumption

-----------------------------------------------------------------------------
(* The entries of a sequence *)

Entries(s) == {s[i] : i \in 1..Len(s)}

LEMMA EmptyEntries == <<>> \in Seq(Requests) /\ Len(<<>>) = 0 /\ Entries(<<>>) = {}
BY EmptySeq DEF Entries

LEMMA AppendEntries ==
    ASSUME NEW s \in Seq(Requests), NEW r \in Requests
    PROVE  /\ Append(s, r) \in Seq(Requests)
           /\ Len(Append(s, r)) = Len(s) + 1
           /\ Entries(Append(s, r)) = Entries(s) \cup {r}
<1> DEFINE t == Append(s, r)
<1>1. /\ t \in Seq(Requests) /\ Len(t) = Len(s) + 1 /\ Len(s) \in Nat
      /\ \A i \in 1..Len(s) : t[i] = s[i]
      /\ t[Len(s) + 1] = r
    BY AppendProperties, LenProperties
<1> HIDE DEF t
<1>2. Entries(t) \subseteq Entries(s) \cup {r}
    BY <1>1 DEF Entries
<1>3. Entries(s) \subseteq Entries(t)
    BY <1>1 DEF Entries
<1>4. r \in Entries(t)
    <2>1. Len(s) + 1 \in 1..Len(t)
        BY <1>1
    <2> QED
        BY <1>1, <2>1 DEF Entries
<1> QED
    BY <1>1, <1>2, <1>3, <1>4 DEF t

LEMMA HeadTailEntries ==
    ASSUME NEW s \in Seq(Requests), s # <<>>
    PROVE  /\ Head(s) \in Requests
           /\ Tail(s) \in Seq(Requests)
           /\ Len(Tail(s)) = Len(s) - 1
           /\ Entries(s) = {Head(s)} \cup Entries(Tail(s))
<1> DEFINE t == Tail(s)
<1>1. /\ Head(s) \in Requests /\ t \in Seq(Requests) /\ Len(t) = Len(s) - 1
      /\ \A i \in 1..Len(t) : t[i] = s[i + 1]
    BY HeadTailProperties
<1>2. Len(s) \in Nat \ {0} /\ Head(s) = s[1]
    BY EmptySeq, LenProperties
<1> HIDE DEF t
<1>3. Entries(s) \subseteq {Head(s)} \cup Entries(t)
    <2> SUFFICES ASSUME NEW i \in 1..Len(s), i # 1 PROVE s[i] \in Entries(t)
        BY <1>2 DEF Entries
    <2>1. i - 1 \in 1..Len(t) /\ t[i - 1] = s[i]
        BY <1>1, <1>2
    <2> QED
        BY <2>1 DEF Entries
<1>4. Entries(t) \subseteq Entries(s)
    <2> SUFFICES ASSUME NEW i \in 1..Len(t) PROVE t[i] \in Entries(s)
        BY DEF Entries
    <2>1. i + 1 \in 1..Len(s) /\ t[i] = s[i + 1]
        BY <1>1, <1>2
    <2> QED
        BY <2>1 DEF Entries
<1>5. Head(s) \in Entries(s)
    BY <1>2 DEF Entries
<1> QED
    BY <1>1, <1>3, <1>4, <1>5 DEF t

-----------------------------------------------------------------------------
(* The invariant *)

\* Where an accepted entry is, and that nothing else is there.
Accounted == accepted = Entries(channel) \cup writing \cup rows \cup disposed

\* done is closed by Close, and the goroutines react to it only.
DoneFirst ==
    /\ done <=> main \in {"waiting", "closed"}
    /\ writer # "selecting" => done
    /\ main = "closed" => writer = "returned"
    /\ writer = "returned" => writing = {}

\* The writer returns with an empty channel; what it holds afterwards came late.
LeftBehind == writer = "returned" => Entries(channel) \subseteq tooLate

IInv == TypeOK /\ Accounted /\ DoneFirst /\ LeftBehind

LEMMA InitInv == Init => IInv
<1> SUFFICES ASSUME Init PROVE IInv
    OBVIOUS
<1>1. channel = <<>> /\ channel \in Seq(Requests) /\ Len(channel) <= Capacity
      /\ Entries(channel) = {}
    BY EmptyEntries DEF Init
<1>2. TypeOK
    BY <1>1 DEF Init, TypeOK
<1>3. Accounted
    BY <1>1 DEF Init, Accounted
<1> QED
    BY <1>2, <1>3 DEF Init, IInv, DoneFirst, LeftBehind

LEMMA NextInv == IInv /\ [Next]_vars => IInv'
<1> SUFFICES ASSUME IInv, [Next]_vars PROVE IInv'
    OBVIOUS
<1>0. TypeOK /\ Accounted /\ DoneFirst /\ LeftBehind
    BY DEF IInv
<1>1. ASSUME NEW r \in Requests, Arrive(r) PROVE IInv'
    <2>1. TypeOK' /\ Accounted'
        BY <1>0, <1>1 DEF Arrive, TypeOK, Accounted, writerVars, rowVars
    <2>2. DoneFirst' /\ LeftBehind'
        BY <1>0, <1>1 DEF Arrive, DoneFirst, LeftBehind, writerVars, rowVars
    <2> QED
        BY <2>1, <2>2 DEF IInv
<1>2. ASSUME NEW r \in Requests, Record(r) PROVE IInv'
    <2>1. request' \in [Requests -> {"none", "analyzing", "analyzed"}]
        BY <1>0, <1>2 DEF Record, TypeOK
    <2>2. UNCHANGED <<writer, writing, cleaner, rows, old, disposed, main, done>>
        BY <1>2 DEF Record, rowVars
    <2>3. /\ channel' \in Seq(Requests) /\ Len(channel') <= Capacity
          /\ accepted' \subseteq Requests /\ accepted \subseteq accepted'
          /\ tooLate' \subseteq accepted'
          /\ Accounted' /\ LeftBehind'
        <3>1. CASE Len(channel) < Capacity
            <4>1. /\ channel' = Append(channel, r) /\ accepted' = accepted \cup {r}
                  /\ tooLate' = IF done THEN tooLate \cup {r} ELSE tooLate
                BY <1>2, <3>1 DEF Record, Send
            <4>2. channel' \in Seq(Requests) /\ Len(channel') <= Capacity
                BY <1>0, <3>1, <4>1, AppendEntries, LenProperties DEF TypeOK
            <4>3. Entries(channel') = Entries(channel) \cup {r}
                BY <1>0, <4>1, AppendEntries DEF TypeOK
            <4>4. Accounted'
                BY <1>0, <2>2, <4>1, <4>3 DEF Accounted
            <4>5. LeftBehind'
                BY <1>0, <2>2, <4>1, <4>3 DEF LeftBehind, DoneFirst
            <4> QED
                BY <1>0, <4>1, <4>2, <4>4, <4>5 DEF TypeOK
        <3>2. CASE ~(Len(channel) < Capacity)
            BY <1>0, <1>2, <2>2, <3>2 DEF Record, TypeOK, Accounted, LeftBehind
        <3> QED
            BY <3>1, <3>2
    <2>4. TypeOK'
        BY <1>0, <2>1, <2>2, <2>3 DEF TypeOK
    <2>5. DoneFirst'
        BY <1>0, <2>2 DEF DoneFirst
    <2> QED
        BY <2>3, <2>4, <2>5 DEF IInv
<1>3. ASSUME NEW r \in Requests, Age(r) PROVE IInv'
    <2>1. TypeOK' /\ Accounted'
        BY <1>0, <1>3 DEF Age, TypeOK, Accounted, writerVars
    <2>2. DoneFirst' /\ LeftBehind'
        BY <1>0, <1>3 DEF Age, DoneFirst, LeftBehind, writerVars
    <2> QED
        BY <2>1, <2>2 DEF IInv
<1>4. CASE Take
    <2>1. /\ channel \in Seq(Requests) /\ channel # <<>>
          /\ writer # "returned" /\ writing = {}
        BY <1>0, <1>4 DEF Take, TypeOK
    <2>2. /\ writing' = {Head(channel)} /\ channel' = Tail(channel)
          /\ UNCHANGED <<request, writer, cleaner, rows, old, disposed, main, done, accepted, tooLate>>
        BY <1>4 DEF Take, rowVars
    <2>3. /\ Head(channel) \in Requests /\ channel' \in Seq(Requests)
          /\ Len(channel') = Len(channel) - 1 /\ Len(channel) \in Nat
          /\ Entries(channel) = writing' \cup Entries(channel')
        BY <2>1, <2>2, HeadTailEntries, LenProperties
    <2>4. TypeOK' /\ Accounted'
        BY <1>0, <2>1, <2>2, <2>3 DEF TypeOK, Accounted
    <2>5. DoneFirst' /\ LeftBehind'
        BY <1>0, <2>1, <2>2, <2>3 DEF DoneFirst, LeftBehind
    <2> QED
        BY <2>4, <2>5 DEF IInv
<1>5. CASE Insert
    <2>1. writing' = {}
          /\ UNCHANGED <<request, channel, writer, cleaner, old, main, done, accepted, tooLate>>
        BY <1>5 DEF Insert
    <2>2. \/ rows' = rows \cup writing /\ disposed' = disposed
          \/ disposed' = disposed \cup writing /\ rows' = rows
        BY <1>5 DEF Insert
    <2>3. Accounted'
        BY <1>0, <2>1, <2>2 DEF Accounted
    <2>4. TypeOK'
        <3>1. rows' \subseteq Requests /\ old' \subseteq rows' /\ disposed' \subseteq accepted'
            BY <1>0, <2>1, <2>2 DEF TypeOK, Accounted
        <3> QED
            BY <1>0, <2>1, <3>1 DEF TypeOK
    <2>5. DoneFirst' /\ LeftBehind'
        BY <1>0, <2>1 DEF DoneFirst, LeftBehind
    <2> QED
        BY <2>3, <2>4, <2>5 DEF IInv
<1>6. CASE SeeDone
    <2>1. TypeOK' /\ Accounted'
        BY <1>0, <1>6 DEF SeeDone, TypeOK, Accounted, rowVars
    <2>2. DoneFirst' /\ LeftBehind'
        BY <1>0, <1>6 DEF SeeDone, DoneFirst, LeftBehind
    <2> QED
        BY <2>1, <2>2 DEF IInv
<1>7. CASE Drained
    <2>1. TypeOK' /\ Accounted'
        BY <1>0, <1>7 DEF Drained, TypeOK, Accounted, rowVars
    <2>2. DoneFirst' /\ LeftBehind'
        BY <1>0, <1>7, EmptyEntries DEF Drained, DoneFirst, LeftBehind
    <2> QED
        BY <2>1, <2>2 DEF IInv
<1>8. CASE Cleanup
    <2>1. TypeOK' /\ Accounted'
        BY <1>0, <1>8 DEF Cleanup, TypeOK, Accounted, writerVars
    <2>2. DoneFirst' /\ LeftBehind'
        BY <1>0, <1>8 DEF Cleanup, DoneFirst, LeftBehind, writerVars
    <2> QED
        BY <2>1, <2>2 DEF IInv
<1>9. CASE CleanerReturns
    <2>1. TypeOK' /\ Accounted'
        BY <1>0, <1>9 DEF CleanerReturns, TypeOK, Accounted, writerVars, rowVars
    <2>2. DoneFirst' /\ LeftBehind'
        BY <1>0, <1>9 DEF CleanerReturns, DoneFirst, LeftBehind, writerVars
    <2> QED
        BY <2>1, <2>2 DEF IInv
<1>10. CASE Shutdown
    <2>1. TypeOK' /\ Accounted'
        BY <1>0, <1>10 DEF Shutdown, TypeOK, Accounted, writerVars, rowVars
    <2>2. DoneFirst' /\ LeftBehind'
        BY <1>0, <1>10 DEF Shutdown, DoneFirst, LeftBehind, writerVars
    <2> QED
        BY <2>1, <2>2 DEF IInv
<1>11. CASE ShutdownReturns
    <2>1. TypeOK' /\ Accounted'
        BY <1>0, <1>11 DEF ShutdownReturns, TypeOK, Accounted, writerVars, rowVars
    <2>2. DoneFirst' /\ LeftBehind'
        BY <1>0, <1>11 DEF ShutdownReturns, DoneFirst, LeftBehind, writerVars
    <2> QED
        BY <2>1, <2>2 DEF IInv
<1>12. CASE CloseDone
    <2>1. TypeOK' /\ Accounted'
        BY <1>0, <1>12 DEF CloseDone, TypeOK, Accounted, writerVars, rowVars
    <2>2. DoneFirst' /\ LeftBehind'
        BY <1>0, <1>12 DEF CloseDone, DoneFirst, LeftBehind, writerVars
    <2> QED
        BY <2>1, <2>2 DEF IInv
<1>13. CASE Closed
    <2>1. TypeOK' /\ Accounted'
        BY <1>0, <1>13 DEF Closed, TypeOK, Accounted, writerVars, rowVars
    <2>2. DoneFirst' /\ LeftBehind'
        BY <1>0, <1>13 DEF Closed, DoneFirst, LeftBehind, writerVars
    <2> QED
        BY <2>1, <2>2 DEF IInv
<1>14. ASSUME NEW r \in Requests, Skip(r) PROVE IInv'
    <2>1. TypeOK' /\ Accounted'
        BY <1>0, <1>14 DEF Skip, TypeOK, Accounted, writerVars, rowVars
    <2>2. DoneFirst' /\ LeftBehind'
        BY <1>0, <1>14 DEF Skip, DoneFirst, LeftBehind, writerVars, rowVars
    <2> QED
        BY <2>1, <2>2 DEF IInv
<1>15. CASE UNCHANGED vars
    BY <1>0, <1>15 DEF vars, IInv, TypeOK, Accounted, DoneFirst, LeftBehind
<1> QED
    BY <1>1, <1>2, <1>3, <1>4, <1>5, <1>6, <1>7, <1>8, <1>9, <1>10, <1>11, <1>12, <1>13, <1>14, <1>15
    DEF Next

\* The invariant the theorems follow from.
THEOREM InvHolds == Spec => []IInv
BY InitInv, NextInv, PTL DEF Spec

\* The store's state is well typed: its buffer never exceeds its capacity, and
\* only rows that were analyzed are inserted and deleted.
THEOREM TelemetryTypeCorrect == Spec => []TypeOK
BY InvHolds, PTL DEF IInv

LEMMA InvGivesAccepted == IInv => AcceptedIsWritten
BY DEF IInv, Accounted, DoneFirst, LeftBehind, AcceptedIsWritten

\* DB.Close loses no analysis that entered the buffer before it began, for every
\* number of requests and every buffer.
THEOREM CloseLosesNothing == Spec => []AcceptedIsWritten
BY InvHolds, InvGivesAccepted, PTL

-----------------------------------------------------------------------------
(* The resolver and the store *)

LEMMA DnsInitStore == DnsInit => Init
BY DEF DnsInit

LEMMA DnsNextStore == [DnsNext]_dnsVars => [Next]_vars
<1> SUFFICES ASSUME [DnsNext]_dnsVars PROVE [Next]_vars
    OBVIOUS
<1>1. ASSUME NEW r \in Requests, Admit(r) PROVE Next
    BY <1>1 DEF Admit, Next
<1>2. ASSUME NEW r \in Requests, Refuse(r) PROVE Next
    BY <1>2 DEF Refuse, Next
<1>3. ASSUME NEW r \in Requests, Decide(r) PROVE Next
    BY <1>3 DEF Decide, Next
<1>4. ASSUME NEW r \in Requests,
             Block(r) \/ Forward(r) \/ UpstreamReplies(r) \/ UpstreamFails(r)
                \/ ContextEnds(r)
      PROVE UNCHANGED vars
    BY <1>4 DEF Block, Forward, UpstreamReplies, UpstreamFails, ContextEnds, storeVars
<1>5. ASSUME NEW l \in Listeners, ServerStops(l) PROVE UNCHANGED vars
    BY <1>5 DEF ServerStops, storeVars
<1>6. CASE DeadlinePasses \/ StopDoT
    BY <1>6 DEF DeadlinePasses, StopDoT, storeVars
<1>7. CASE StopHTTP \/ DoTReturns
    BY <1>7 DEF StopHTTP, DoTReturns, Next
<1>8. CASE StoreStep
    BY <1>8 DEF StoreStep, Next
<1>9. CASE UNCHANGED dnsVars
    BY <1>9 DEF dnsVars, storeVars
<1> QED
    BY <1>1, <1>2, <1>3, <1>4, <1>5, <1>6, <1>7, <1>8, <1>9 DEF DnsNext, HandlerStep

\* The resolver is an environment of the store that keeps to its specification:
\* every one of its behaviours is, in the store's variables, one of the store's.
THEOREM ResolverUsesStore == DnsSpec => Spec
BY DnsInitStore, DnsNextStore, PTL DEF DnsSpec, Spec

\* Close loses nothing that was in the buffer before it began, in dns-resolver
\* with its two servers and their shutdown.
THEOREM ResolverLosesNothing == DnsSpec => []AcceptedIsWritten
BY ResolverUsesStore, CloseLosesNothing, PTL

-----------------------------------------------------------------------------
(* The resolver's invariant *)

\* A handler's stage and its analysis go together.
StagesMatch ==
    \A r \in Requests :
        /\ stage[r] = "none" <=> request[r] = "none"
        /\ stage[r] = "received" <=> request[r] = "analyzing"

\* A blocked name is allowed only under a dead context, which stays dead.
AllowedIsDead ==
    \A r \in Requests :
        /\ stage[r] = "decided" /\ verdict[r] = "allow" /\ message[r].name \in Blocked
              => r \in dead
        /\ r \in resolved => stage[r] \in {"forwarding", "answered"}
        /\ r \in resolved => message[r].name \notin Blocked

\* main stops the servers in their order, and goes on when a server has no
\* handler left or the deadline has passed.
StopsInOrder ==
    /\ main = "serving" => awaited = "none"
    /\ main = "shutdown" => awaited \in Listeners /\ "http" \in stopped
    /\ awaited = "dot" => "dot" \in stopped /\ (late \/ NoneActive("http"))
    /\ main \in {"closing", "waiting", "closed"} =>
          late \/ (NoneActive("http") /\ NoneActive("dot") /\ tooLate = {})
    /\ main \in {"serving", "shutdown", "closing"} => tooLate = {}

DnsInv == IInv /\ DnsTypeOK /\ StagesMatch /\ AllowedIsDead /\ StopsInOrder

LEMMA DnsInitInv == DnsInit => DnsInv
<1> SUFFICES ASSUME DnsInit PROVE DnsInv
    OBVIOUS
<1>1. IInv
    BY DnsInitStore, InitInv
<1>2. DnsTypeOK
    BY <1>1 DEF IInv, DnsInit, DnsTypeOK, Messages, Answers, Listeners
<1>3. StagesMatch /\ AllowedIsDead /\ StopsInOrder
    BY DEF DnsInit, Init, StagesMatch, AllowedIsDead, StopsInOrder
<1> QED
    BY <1>1, <1>2, <1>3 DEF DnsInv

\* A step of an active handler makes no other handler active.
LEMMA StaysInactive ==
    ASSUME NEW r \in Requests, Active(r), NEW s,
           stage \in [Requests -> {"none", "received", "decided", "forwarding", "answered"}],
           stage' = [stage EXCEPT ![r] = s],
           NEW l \in Listeners, NoneActive(l)
    PROVE  NoneActive(l)'
BY DEF NoneActive, Active, Listener

\* The store's part of a handler's last step of analysis.
LEMMA EndOfAnalysis ==
    ASSUME NEW r \in Requests, IInv, StopsInOrder, StagesMatch, Active(r),
           Record(r) \/ Skip(r)
    PROVE  /\ request' = [request EXCEPT ![r] = "analyzed"]
           /\ main' = main
           /\ main \in {"serving", "shutdown", "closing"} \/ ~late => tooLate' = {}
<1>1. request' = [request EXCEPT ![r] = "analyzed"] /\ main' = main
    BY DEF Record, Skip
<1>2. tooLate' = tooLate \/ done
    BY DEF Record, Skip, Send
<1>3. done => main \in {"waiting", "closed"} /\ late
    BY DEF IInv, DoneFirst, StopsInOrder, NoneActive, Listener
<1>4. main \in {"serving", "shutdown", "closing", "waiting", "closed"}
    BY DEF IInv, TypeOK
<1> QED
    BY <1>1, <1>2, <1>3, <1>4 DEF StopsInOrder

\* A handler's step after its analysis: the store and main take no part in it.
LEMMA HandlerKeepsInv ==
    ASSUME NEW r \in Requests, DnsInv,
           Block(r) \/ Forward(r) \/ UpstreamReplies(r) \/ UpstreamFails(r)
    PROVE  DnsInv'
<1>1. IInv /\ DnsTypeOK /\ StagesMatch /\ AllowedIsDead /\ StopsInOrder
    BY DEF DnsInv
<1>2. /\ UNCHANGED <<vars, message, endpoint, verdict, dead, serverVars>>
      /\ stage[r] \in {"decided", "forwarding"}
    BY DEF Block, Forward, UpstreamReplies, UpstreamFails, storeVars
<1>3. PICK s \in {"forwarding", "answered"} : stage' = [stage EXCEPT ![r] = s]
    BY DEF Block, Forward, UpstreamReplies, UpstreamFails, Reply, MoveTo
<1>4. \/ resolved' = resolved
      \/ resolved' = resolved \cup {r} /\ Forward(r) /\ r \notin dead
    BY DEF Block, Forward, UpstreamReplies, UpstreamFails
<1>5. \E a \in Answers : answer' = answer \/ answer' = [answer EXCEPT ![r] = a]
    <2>1. BlockedDNSMessage(message[r]) \in Answers
        BY DEF BlockedDNSMessage, Address, Answers, OwnAnswers
    <2>2. "SERVFAIL" \in Answers /\ "relayed" \in Answers
        BY DEF Answers
    <2> QED
        BY <2>1, <2>2 DEF Block, Forward, UpstreamReplies, UpstreamFails, Reply
<1>6. IInv'
    BY <1>1, <1>2, NextInv
<1>7. DnsTypeOK'
    BY <1>1, <1>2, <1>3, <1>4, <1>5, <1>6 DEF DnsTypeOK, IInv, serverVars
<1>8. StagesMatch'
    BY <1>1, <1>2, <1>3 DEF StagesMatch, DnsTypeOK, vars
<1>9. AllowedIsDead'
    <2>1. Forward(r) => stage[r] = "decided" /\ verdict[r] = "allow"
        BY DEF Forward
    <2> QED
        BY <1>1, <1>2, <1>3, <1>4, <2>1 DEF AllowedIsDead, DnsTypeOK
<1>10. StopsInOrder'
    <2>1. \A l \in Listeners : NoneActive(l) => NoneActive(l)'
        BY <1>1, <1>2, <1>3, StaysInactive DEF DnsTypeOK, Active
    <2> QED
        BY <1>1, <1>2, <2>1 DEF StopsInOrder, vars, serverVars, Listeners
<1> QED
    BY <1>6, <1>7, <1>8, <1>9, <1>10 DEF DnsInv

LEMMA AdmitKeepsInv ==
    ASSUME NEW r \in Requests, DnsInv, Admit(r) PROVE DnsInv'
<1>1. IInv /\ DnsTypeOK /\ StagesMatch /\ AllowedIsDead /\ StopsInOrder
    BY DEF DnsInv
<1>2. PICK m \in Messages, e \in {"dns", "policy"} :
          message' = [message EXCEPT ![r] = m] /\ endpoint' = [endpoint EXCEPT ![r] = e]
    BY DEF Admit
<1>3. /\ Listener(r) \notin stopped
      /\ request[r] = "none" /\ request' = [request EXCEPT ![r] = "analyzing"]
      /\ main \in {"serving", "shutdown"} /\ UNCHANGED <<main, tooLate>>
      /\ stage' = [stage EXCEPT ![r] = "received"]
      /\ UNCHANGED <<verdict, dead, answer, resolved, serverVars>>
    BY DEF Admit, Arrive, MoveTo
<1>4. stage[r] = "none"
    BY <1>1, <1>3 DEF StagesMatch
<1>5. IInv'
    BY <1>1, NextInv DEF Admit, Next
<1>6. DnsTypeOK'
    BY <1>1, <1>2, <1>3, <1>5 DEF DnsTypeOK, IInv, serverVars
<1>7. StagesMatch'
    BY <1>1, <1>3 DEF StagesMatch, DnsTypeOK, IInv, TypeOK
<1>8. AllowedIsDead'
    BY <1>1, <1>2, <1>3, <1>4 DEF AllowedIsDead, DnsTypeOK
<1>9. StopsInOrder'
    <2>1. awaited = "dot" => r \notin OverTLS /\ late
        <3>1. awaited = "dot" => "http" \in stopped /\ "dot" \in stopped
            BY <1>1, <1>3 DEF StopsInOrder
        <3> QED
            BY <1>3, <3>1 DEF Listener
    <2> QED
        BY <1>1, <1>3, <2>1 DEF StopsInOrder, serverVars
<1> QED
    BY <1>5, <1>6, <1>7, <1>8, <1>9 DEF DnsInv

\* Refuse and Decide: the analysis ends, and what the handler goes on with.
LEMMA DecideKeepsInv ==
    ASSUME NEW r \in Requests, DnsInv, Refuse(r) \/ Decide(r) PROVE DnsInv'
<1>1. IInv /\ DnsTypeOK /\ StagesMatch /\ AllowedIsDead /\ StopsInOrder
    BY DEF DnsInv
<1>2. /\ stage[r] = "received" /\ Active(r)
      /\ Record(r) \/ Skip(r)
      /\ UNCHANGED <<message, endpoint, dead, resolved, serverVars>>
    BY DEF Refuse, Decide, Active
<1>3. PICK s \in {"decided", "answered"} : stage' = [stage EXCEPT ![r] = s]
    BY DEF Refuse, Decide, Reply, MoveTo
<1>4. \E a \in Answers : answer' = answer \/ answer' = [answer EXCEPT ![r] = a]
    <2>1. {"rejected", "error", "policy"} \subseteq Answers
        BY DEF Answers
    <2> QED
        BY <2>1 DEF Refuse, Decide, Reply
<1>5. \E v \in {"block", "allow"} :
          /\ \/ verdict' = verdict /\ stage'[r] = "answered"
             \/ verdict' = [verdict EXCEPT ![r] = v]
          /\ stage'[r] = "decided" /\ message[r].name \in Blocked =>
                v = "block" \/ r \in dead
          /\ stage'[r] = "decided" => verdict' = [verdict EXCEPT ![r] = v]
    <2>1. CASE Refuse(r)
        BY <1>1, <1>2, <2>1 DEF Refuse, Reply, MoveTo, DnsTypeOK
    <2>2. CASE Decide(r)
        BY <2>2 DEF Decide
    <2> QED
        BY <2>1, <2>2
<1>6. /\ request' = [request EXCEPT ![r] = "analyzed"] /\ main' = main
      /\ main \in {"serving", "shutdown", "closing"} \/ ~late => tooLate' = {}
    BY <1>1, <1>2, EndOfAnalysis
<1>7. IInv'
    BY <1>1, <1>2, NextInv DEF Next
<1>8. DnsTypeOK'
    BY <1>1, <1>2, <1>3, <1>4, <1>5, <1>7 DEF DnsTypeOK, IInv, serverVars
<1>9. StagesMatch'
    BY <1>1, <1>2, <1>3, <1>6 DEF StagesMatch, DnsTypeOK, IInv, TypeOK
<1>10. AllowedIsDead'
    <2>1. r \notin resolved
        BY <1>1, <1>2 DEF AllowedIsDead
    <2> QED
        BY <1>1, <1>2, <1>3, <1>5, <2>1 DEF AllowedIsDead, DnsTypeOK
<1>11. StopsInOrder'
    <2>1. \A l \in Listeners : NoneActive(l) => NoneActive(l)'
        BY <1>1, <1>2, <1>3, StaysInactive DEF DnsTypeOK
    <2> QED
        BY <1>1, <1>2, <1>6, <2>1 DEF StopsInOrder, serverVars, Listeners
<1> QED
    BY <1>7, <1>8, <1>9, <1>10, <1>11 DEF DnsInv

\* Steps that move no handler.
LEMMA OtherStepsKeepInv ==
    ASSUME DnsInv,
           \/ \E r \in Requests : ContextEnds(r)
           \/ \E l \in Listeners : ServerStops(l)
           \/ StopHTTP \/ DeadlinePasses \/ StopDoT \/ DoTReturns \/ StoreStep
           \/ UNCHANGED dnsVars
    PROVE  DnsInv'
<1>1. IInv /\ DnsTypeOK /\ StagesMatch /\ AllowedIsDead /\ StopsInOrder
    BY DEF DnsInv
<1>2. [Next]_vars
    BY DnsNextStore DEF DnsNext
<1>3. IInv'
    BY <1>1, <1>2, NextInv
<1>4. /\ UNCHANGED <<stage, message, endpoint, verdict, answer, resolved, request>>
      /\ dead \subseteq dead' /\ dead' \subseteq Requests
    BY <1>1 DEF ContextEnds, ServerStops, StopHTTP, DeadlinePasses, StopDoT, DoTReturns,
        StoreStep, dnsVars, storeVars, vars, handlerVars, Shutdown, ShutdownReturns, Age,
        Take, Insert, SeeDone, Drained, Cleanup, CleanerReturns, CloseDone, Closed, DnsTypeOK
<1>5. \A l \in Listeners : NoneActive(l)' = NoneActive(l)
    BY <1>4 DEF NoneActive, Active
<1>6. /\ StopsInOrder'
      /\ stopped' \subseteq Listeners /\ awaited' \in {"none"} \cup Listeners /\ late' \in BOOLEAN
    <2>1. CASE \E r \in Requests : ContextEnds(r)
        BY <1>1, <1>5, <2>1 DEF ContextEnds, storeVars, vars, serverVars, StopsInOrder, DnsTypeOK, Listeners
    <2>2. CASE \E l \in Listeners : ServerStops(l)
        BY <1>1, <1>5, <2>2 DEF ServerStops, storeVars, vars, StopsInOrder, DnsTypeOK, Listeners
    <2>3. CASE StopHTTP
        BY <1>1, <1>5, <2>3 DEF StopHTTP, Shutdown, StopsInOrder, DnsTypeOK, Listeners
    <2>4. CASE DeadlinePasses
        BY <1>1, <1>5, <2>4 DEF DeadlinePasses, storeVars, vars, StopsInOrder, DnsTypeOK, Listeners
    <2>5. CASE StopDoT
        BY <1>1, <1>5, <2>5 DEF StopDoT, storeVars, vars, StopsInOrder, DnsTypeOK, Listeners
    <2>6. CASE DoTReturns
        BY <1>1, <1>5, <2>6 DEF DoTReturns, ShutdownReturns, StopsInOrder, DnsTypeOK, Listeners
    <2>7. CASE StoreStep
        <3>1. UNCHANGED <<stopped, awaited, late, tooLate>>
            BY <2>7 DEF StoreStep, serverVars, Age, Take, Insert, SeeDone, Drained, Cleanup,
                CleanerReturns, CloseDone, Closed
        <3>2. \/ main' = main
              \/ main = "closing" /\ main' = "waiting"
              \/ main = "waiting" /\ main' = "closed"
            BY <2>7 DEF StoreStep, Age, Take, Insert, SeeDone, Drained, Cleanup,
                CleanerReturns, CloseDone, Closed
        <3> QED
            BY <1>1, <1>5, <3>1, <3>2 DEF StopsInOrder, DnsTypeOK, Listeners
    <2>8. CASE UNCHANGED dnsVars
        BY <1>1, <1>5, <2>8 DEF dnsVars, storeVars, vars, serverVars, StopsInOrder, DnsTypeOK, Listeners
    <2> QED
        BY <2>1, <2>2, <2>3, <2>4, <2>5, <2>6, <2>7, <2>8
<1>7. DnsTypeOK'
    BY <1>1, <1>3, <1>4, <1>6 DEF DnsTypeOK, IInv
<1>8. StagesMatch' /\ AllowedIsDead'
    BY <1>1, <1>4 DEF StagesMatch, AllowedIsDead
<1> QED
    BY <1>3, <1>6, <1>7, <1>8 DEF DnsInv

LEMMA DnsNextInv == DnsInv /\ [DnsNext]_dnsVars => DnsInv'
BY AdmitKeepsInv, DecideKeepsInv, HandlerKeepsInv, OtherStepsKeepInv DEF DnsNext, HandlerStep

THEOREM DnsInvHolds == DnsSpec => []DnsInv
BY DnsInitInv, DnsNextInv, PTL DEF DnsSpec

\* The resolver's state is well typed.
THEOREM DnsTypeCorrect == DnsSpec => []DnsTypeOK
<1>1. DnsInv => DnsTypeOK
    BY DEF DnsInv
<1> QED
    BY <1>1, DnsInvHolds, PTL

\* No message for a blocked name is sent upstream, for any number of queries and
\* at whatever moment their contexts end.
THEOREM BlockedStayHere == DnsSpec => []BlockedNeverResolved
<1>1. DnsInv => BlockedNeverResolved
    BY DEF DnsInv, DnsTypeOK, AllowedIsDead, BlockedNeverResolved
<1> QED
    BY <1>1, DnsInvHolds, PTL

\* The shutdown leaves no handler and loses no entry before its deadline.
THEOREM ShutdownIsGraceful == DnsSpec => []NothingLeftBehind
<1>1. DnsInv => NothingLeftBehind
    BY DEF DnsInv, StopsInOrder, NothingLeftBehind, NoneActive, Listener
<1> QED
    BY <1>1, DnsInvHolds, PTL

-----------------------------------------------------------------------------
(* Every query is answered *)

\* Where a handler is.  Its query is settled once it has answered, or is past saving:
\* the process has closed the store after the deadline.
At(r, place) == stage[r] = place
Settled(r) == stage[r] = "answered" \/ (late /\ main = "closed")

\* The steps of handler r itself.
Own(r) == <<HandlerStep(r)>>_dnsVars

\* A step of another handler, or of nobody, leaves this one where it is.
LEMMA OthersLeaveIt ==
    ASSUME NEW r \in Requests, DnsInv, Active(r), [DnsNext]_dnsVars,
           ~Refuse(r), ~HandlerStep(r), ~UpstreamReplies(r)
    PROVE  stage'[r] = stage[r]
<1>1. stage \in [Requests -> {"none", "received", "decided", "forwarding", "answered"}]
    BY DEF DnsInv, DnsTypeOK
<1>2. ~Admit(r)
    BY DEF Admit, Arrive, DnsInv, StagesMatch, Active
<1>3. ASSUME NEW q \in Requests, NEW s, q # r, stage' = [stage EXCEPT ![q] = s]
      PROVE  stage'[r] = stage[r]
    BY <1>1, <1>3
<1>4. ASSUME NEW q \in Requests,
             Admit(q) \/ Refuse(q) \/ HandlerStep(q) \/ UpstreamReplies(q)
      PROVE  stage'[r] = stage[r]
    <2>1. q # r
        BY <1>2, <1>4
    <2>2. \E s : stage' = [stage EXCEPT ![q] = s]
        BY <1>4 DEF Admit, Refuse, HandlerStep, Decide, Block, Forward, UpstreamFails,
            UpstreamReplies, Reply, MoveTo
    <2> QED
        BY <1>3, <2>1, <2>2
<1>5. ASSUME NEW q \in Requests, ContextEnds(q) PROVE stage' = stage
    BY <1>5 DEF ContextEnds
<1>6. CASE \/ \E l \in Listeners : ServerStops(l)
           \/ StopHTTP \/ DeadlinePasses \/ StopDoT \/ DoTReturns \/ StoreStep
           \/ UNCHANGED dnsVars
    BY <1>6 DEF ServerStops, StopHTTP, DeadlinePasses, StopDoT, DoTReturns, StoreStep,
        dnsVars, handlerVars
<1> QED
    BY <1>4, <1>5, <1>6 DEF DnsNext

\* What an active handler's query goes through: it has been received, then decided,
\* then forwarded, and can be answered at each of these.
LEMMA ReceivedMovesOn ==
    ASSUME NEW r \in Requests, DnsInv, At(r, "received")
    PROVE  /\ [DnsNext]_dnsVars =>
                (At(r, "received") \/ At(r, "decided") \/ Settled(r))'
           /\ Own(r) => (At(r, "decided") \/ Settled(r))'
<1>1. r \in DOMAIN stage
    BY DEF DnsInv, DnsTypeOK
<1>2. Refuse(r) \/ Decide(r) => stage'[r] \in {"decided", "answered"}
    BY <1>1 DEF Refuse, Decide, Reply, MoveTo
<1>3. ~Block(r) /\ ~Forward(r) /\ ~UpstreamReplies(r) /\ ~UpstreamFails(r)
    BY DEF Block, Forward, UpstreamReplies, UpstreamFails, At
<1>4. ASSUME [DnsNext]_dnsVars, ~Refuse(r), ~HandlerStep(r) PROVE stage'[r] = stage[r]
    BY <1>3, <1>4, OthersLeaveIt DEF At, Active
<1> QED
    BY <1>2, <1>3, <1>4 DEF HandlerStep, Own, At, Settled

LEMMA DecidedMovesOn ==
    ASSUME NEW r \in Requests, DnsInv, At(r, "decided")
    PROVE  /\ [DnsNext]_dnsVars =>
                (At(r, "decided") \/ At(r, "forwarding") \/ Settled(r))'
           /\ Own(r) => (At(r, "forwarding") \/ Settled(r))'
<1>1. r \in DOMAIN stage
    BY DEF DnsInv, DnsTypeOK
<1>2. Block(r) \/ Forward(r) => stage'[r] \in {"forwarding", "answered"}
    BY <1>1 DEF Block, Forward, Reply, MoveTo
<1>3. ~Refuse(r) /\ ~Decide(r) /\ ~UpstreamReplies(r) /\ ~UpstreamFails(r)
    BY DEF Refuse, Decide, UpstreamReplies, UpstreamFails, At
<1>4. ASSUME [DnsNext]_dnsVars, ~HandlerStep(r) PROVE stage'[r] = stage[r]
    BY <1>3, <1>4, OthersLeaveIt DEF At, Active
<1> QED
    BY <1>2, <1>3, <1>4 DEF HandlerStep, Own, At, Settled

LEMMA ForwardedMovesOn ==
    ASSUME NEW r \in Requests, DnsInv, At(r, "forwarding")
    PROVE  /\ [DnsNext]_dnsVars => (At(r, "forwarding") \/ Settled(r))'
           /\ Own(r) => Settled(r)'
<1>1. r \in DOMAIN stage
    BY DEF DnsInv, DnsTypeOK
<1>2. UpstreamReplies(r) \/ UpstreamFails(r) => stage'[r] = "answered"
    BY <1>1 DEF UpstreamReplies, UpstreamFails, Reply, MoveTo
<1>3. ~Refuse(r) /\ ~Decide(r) /\ ~Block(r) /\ ~Forward(r)
    BY DEF Refuse, Decide, Block, Forward, At
<1>4. ASSUME [DnsNext]_dnsVars, ~HandlerStep(r), ~UpstreamReplies(r) PROVE stage'[r] = stage[r]
    BY <1>3, <1>4, OthersLeaveIt DEF At, Active
<1> QED
    BY <1>2, <1>3, <1>4 DEF HandlerStep, Own, At, Settled

\* Until its query is settled a handler can take a step.
LEMMA UnsettledCanStep ==
    ASSUME NEW r \in Requests, DnsInv, NoHandlerWaits, ~Settled(r),
           At(r, "received") \/ At(r, "decided") \/ At(r, "forwarding")
    PROVE  ENABLED <<HandlerStep(r)>>_dnsVars
<1>1. Active(r)
    BY DEF At, Active
<1>2. main # "closed"
    <2>1. main = "closed" => late
        BY <1>1 DEF DnsInv, StopsInOrder, NoneActive, Listener
    <2> QED
        BY <2>1 DEF Settled
<1> QED
    BY <1>1, <1>2 DEF NoHandlerWaits

\* Every query is answered, for any number of queries and any buffer: whatever the
\* moments contexts end, rows are written and servers stop, the handler itself takes
\* its query from stage to stage.  ENABLED is opaque to the provers, so that a handler
\* can always take its step, NoHandlerWaits, is a hypothesis, which TLC checks.
THEOREM QueriesAreAnswered == DnsFairSpec /\ []NoHandlerWaits => EveryQueryAnswered
<1> SUFFICES ASSUME NEW r \in Requests
             PROVE  DnsSpec /\ HandlerGoesOn(r) /\ []NoHandlerWaits
                        => (At(r, "received") ~> Settled(r))
    <2>1. ASSUME \A r \in Requests : DnsSpec /\ HandlerGoesOn(r) /\ []NoHandlerWaits
                                        => (At(r, "received") ~> Settled(r))
          PROVE  DnsFairSpec /\ []NoHandlerWaits
                    => \A r \in Requests : At(r, "received") ~> Settled(r)
        BY <2>1 DEF DnsFairSpec, HandlersGoOn
    <2> QED
        BY <2>1 DEF EveryQueryAnswered, At, Settled
<1>1. DnsInv /\ At(r, "received") /\ [DnsNext]_dnsVars
        => (At(r, "received") \/ At(r, "decided") \/ Settled(r))'
    BY ReceivedMovesOn
<1>2. DnsInv /\ At(r, "received") /\ <<HandlerStep(r)>>_dnsVars
        => (At(r, "decided") \/ Settled(r))'
    BY ReceivedMovesOn DEF Own
<1>3. DnsInv /\ At(r, "decided") /\ [DnsNext]_dnsVars
        => (At(r, "decided") \/ At(r, "forwarding") \/ Settled(r))'
    BY DecidedMovesOn
<1>4. DnsInv /\ At(r, "decided") /\ <<HandlerStep(r)>>_dnsVars
        => (At(r, "forwarding") \/ Settled(r))'
    BY DecidedMovesOn DEF Own
<1>5. DnsInv /\ At(r, "forwarding") /\ [DnsNext]_dnsVars
        => (At(r, "forwarding") \/ Settled(r))'
    BY ForwardedMovesOn
<1>6. DnsInv /\ At(r, "forwarding") /\ <<HandlerStep(r)>>_dnsVars => Settled(r)'
    BY ForwardedMovesOn DEF Own
<1>7. DnsInv /\ NoHandlerWaits /\ ~Settled(r)
        /\ (At(r, "received") \/ At(r, "decided") \/ At(r, "forwarding"))
        => ENABLED <<HandlerStep(r)>>_dnsVars
    BY UnsettledCanStep
<1>8. QED
    BY <1>1, <1>2, <1>3, <1>4, <1>5, <1>6, <1>7, DnsInvHolds, PTL DEF DnsSpec, HandlerGoesOn
=============================================================================
