------------------------------ MODULE DnsFrontEnd ------------------------------
(***************************************************************************)
(* cmd/dns-resolver: two servers, HTTP (DoH and /v1/policy) and DNS over   *)
(* TLS (DoT), whose handlers ask Policy for a verdict, answer a blocked    *)
(* name themselves and forward any other to the upstream resolver; and     *)
(* main, which stops the servers one after the other under one deadline    *)
(* and closes the store.  A handler ends its analysis with a step of       *)
(* TelemetryStore, so every step here is one of the store's or leaves the  *)
(* store alone.                                                            *)
(***************************************************************************)
EXTENDS TelemetryStore

CONSTANTS
    OverTLS,    \* the requests to the DoT server; the others are HTTP requests
    Questions,  \* the messages asked: records with a name and a type
    Unreadable, \* a message that cannot be decoded (DoH)
    NoQuestion, \* a message without a question
    Blocked,    \* names the policy blocks
    Odd,        \* names NormalizeDomain refuses
    Strategy,   \* SAFE_ROAD_DNS_BLOCK_STRATEGY
    PageIP      \* SAFE_ROAD_BLOCK_PAGE_IP: "v4", "v6" or "invalid"

Listeners == {"http", "dot"}
Messages == Questions \cup {Unreadable, NoQuestion}
OwnAnswers == {"NXDOMAIN", "REFUSED", "null address", "block page", "no address"}
Answers == OwnAnswers \cup {"none", "rejected", "error", "policy", "SERVFAIL", "relayed"}

ASSUME DnsAssumption ==
    /\ OverTLS \subseteq Requests
    /\ \A m \in Questions : m.type \in {"A", "AAAA", "other"}
    /\ Unreadable \notin Questions /\ NoQuestion \notin Questions
    /\ Odd \subseteq Blocked
    /\ Strategy \in {"sinkhole", "nxdomain", "refused", "nullip"}
    /\ PageIP \in {"v4", "v6", "invalid"}

VARIABLES
    stage,      \* each handler: "none", "received", "decided", "forwarding", "answered"
    message,    \* the message it read
    endpoint,   \* "dns" or "policy" (/v1/policy)
    verdict,    \* what Policy said: "block" or "allow"
    dead,       \* requests whose context has ended
    answer,     \* what the client was sent
    resolved,   \* history: requests whose message reached the upstream resolver
    stopped,    \* listeners that take no more requests
    awaited,    \* the server main waits for: "none", "http" or "dot"
    late        \* the deadline of the shutdown has passed

storeVars == vars
handlerVars == <<stage, message, endpoint, verdict, dead, answer, resolved>>
serverVars == <<stopped, awaited, late>>
dnsVars == <<storeVars, handlerVars, serverVars>>

Listener(r) == IF r \in OverTLS THEN "dot" ELSE "http"
Active(r) == stage[r] \notin {"none", "answered"}
NoneActive(l) == \A r \in Requests : Listener(r) = l => ~Active(r)

DnsTypeOK ==
    /\ TypeOK
    /\ stage \in [Requests -> {"none", "received", "decided", "forwarding", "answered"}]
    /\ message \in [Requests -> Messages]
    /\ endpoint \in [Requests -> {"dns", "policy"}]
    /\ verdict \in [Requests -> {"block", "allow"}]
    /\ dead \subseteq Requests /\ resolved \subseteq Requests
    /\ answer \in [Requests -> Answers]
    /\ stopped \subseteq Listeners
    /\ awaited \in {"none"} \cup Listeners
    /\ late \in BOOLEAN

DnsInit ==
    /\ Init
    /\ stage = [r \in Requests |-> "none"]
    /\ message = [r \in Requests |-> NoQuestion]
    /\ endpoint = [r \in Requests |-> "dns"]
    /\ verdict = [r \in Requests |-> "allow"]
    /\ dead = {} /\ resolved = {}
    /\ answer = [r \in Requests |-> "none"]
    /\ stopped = {} /\ awaited = "none" /\ late = FALSE
-----------------------------------------------------------------------------
(* The answer to a blocked name *)

Address(type) ==
    CASE Strategy = "nullip" -> "null address"
      [] type = "A" /\ PageIP # "v4" -> "no address"       \* To4 is nil
      [] type = "AAAA" /\ PageIP = "invalid" -> "no address"
      [] OTHER -> "block page"

BlockedDNSMessage(m) ==
    CASE Strategy = "nxdomain" -> "NXDOMAIN"
      [] Strategy = "refused" -> "REFUSED"
      [] m.type = "other" -> "no address"
      [] OTHER -> Address(m.type)

-----------------------------------------------------------------------------
(* The handlers *)

Running == main # "closed"
MoveTo(r, s) == stage' = [stage EXCEPT ![r] = s]
Reply(r, a) == MoveTo(r, "answered") /\ answer' = [answer EXCEPT ![r] = a]

\* A server hands a message to a handler.
Admit(r) ==
    /\ Listener(r) \notin stopped
    /\ Arrive(r)
    /\ \E m \in Messages, e \in {"dns", "policy"} :
        /\ r \in OverTLS => m # Unreadable /\ e = "dns"
        /\ e = "policy" => m \in Questions
        /\ message' = [message EXCEPT ![r] = m]
        /\ endpoint' = [endpoint EXCEPT ![r] = e]
    /\ MoveTo(r, "received")
    /\ UNCHANGED <<verdict, dead, answer, resolved, serverVars>>

\* The client is over its rate (429, REFUSED), the message is unusable (400,
\* FORMERR), or the analysis panics (500, SERVFAIL).
Refuse(r) ==
    /\ stage[r] = "received"
    /\ Skip(r)
    /\ \E a \in {"rejected", "error"} : Reply(r, a)
    /\ UNCHANGED <<message, endpoint, verdict, dead, resolved, serverVars>>

\* Policy answers.  A name it cannot normalize is blocked without an entry.  The
\* feed is looked up under the request's context: when that has ended the lookup
\* fails and a blocked name may come out as allowed.
Decide(r) ==
    /\ stage[r] = "received" /\ message[r] \in Questions
    /\ LET name == message[r].name IN
       /\ IF name \in Odd THEN Skip(r) ELSE Record(r)
       /\ \E v \in {"block", "allow"} :
            /\ name \in Blocked => v = "block" \/ (r \in dead /\ name \notin Odd)
            /\ name \notin Blocked => v = "allow"
            /\ verdict' = [verdict EXCEPT ![r] = v]
    /\ IF endpoint[r] = "policy" THEN Reply(r, "policy")
       ELSE MoveTo(r, "decided") /\ UNCHANGED answer
    /\ UNCHANGED <<message, endpoint, dead, resolved, serverVars>>

Block(r) ==
    /\ Running
    /\ stage[r] = "decided" /\ verdict[r] = "block"
    /\ Reply(r, BlockedDNSMessage(message[r]))
    /\ UNCHANGED <<storeVars, message, endpoint, verdict, dead, resolved, serverVars>>

\* Mutant: the upstream request does not use the handler's context.
ForwardDetached(r) ==
    /\ Running
    /\ stage[r] = "decided" /\ verdict[r] = "allow"
    /\ resolved' = resolved \cup {r} /\ MoveTo(r, "forwarding") /\ UNCHANGED answer
    /\ UNCHANGED <<storeVars, message, endpoint, verdict, dead, serverVars>>

\* forwardDoH sends the message, unless the context has ended.
Forward(r) ==
    /\ Running
    /\ stage[r] = "decided" /\ verdict[r] = "allow"
    /\ IF r \in dead
       THEN Reply(r, "SERVFAIL") /\ UNCHANGED resolved
       ELSE resolved' = resolved \cup {r} /\ MoveTo(r, "forwarding") /\ UNCHANGED answer
    /\ UNCHANGED <<storeVars, message, endpoint, verdict, dead, serverVars>>

\* The upstream's reply arrives; DoT relays it only if it can be unpacked.
UpstreamReplies(r) ==
    /\ Running
    /\ stage[r] = "forwarding" /\ r \notin dead
    /\ \/ Reply(r, "relayed")
       \/ r \in OverTLS /\ Reply(r, "SERVFAIL")
    /\ UNCHANGED <<storeVars, message, endpoint, verdict, dead, resolved, serverVars>>

\* Mutant: the upstream client has no timeout.
UpstreamFailsOnError(r) ==
    /\ Running
    /\ stage[r] = "forwarding" /\ r \in dead
    /\ Reply(r, "SERVFAIL")
    /\ UNCHANGED <<storeVars, message, endpoint, verdict, dead, resolved, serverVars>>

\* An error, another status than 2xx, the client's timeout, or the context's end.
UpstreamFails(r) ==
    /\ Running
    /\ stage[r] = "forwarding"
    /\ Reply(r, "SERVFAIL")
    /\ UNCHANGED <<storeVars, message, endpoint, verdict, dead, resolved, serverVars>>

\* The context ends: three seconds have passed (DoT), the client has left (DoH).
ContextEnds(r) ==
    /\ Running /\ Active(r) /\ r \notin dead
    /\ dead' = dead \cup {r}
    /\ UNCHANGED <<storeVars, stage, message, endpoint, verdict, answer, resolved, serverVars>>
-----------------------------------------------------------------------------
(* main *)

\* A server stops by itself: its listener fails, or RunHTTPServer has the signal.
ServerStops(l) ==
    /\ main = "serving" /\ l \notin stopped
    /\ stopped' = stopped \cup {l}
    /\ UNCHANGED <<storeVars, handlerVars, awaited, late>>

\* main has a signal or a server's result, and calls server.Shutdown.
StopHTTP ==
    /\ Shutdown
    /\ stopped' = stopped \cup {"http"}
    /\ awaited' = "http"
    /\ UNCHANGED <<handlerVars, late>>

DeadlinePasses ==
    /\ main = "shutdown" /\ ~late
    /\ late' = TRUE
    /\ UNCHANGED <<storeVars, handlerVars, stopped, awaited>>

\* server.Shutdown returns, and main calls dotServer.ShutdownContext.
StopDoT ==
    /\ main = "shutdown" /\ awaited = "http"
    /\ NoneActive("http") \/ late
    /\ stopped' = Listeners
    /\ awaited' = "dot"
    /\ UNCHANGED <<storeVars, handlerVars, late>>

\* Mutant: main does not wait for the connections of the DoT server.
DoTReturnsAtOnce ==
    /\ awaited = "dot"
    /\ ShutdownReturns
    /\ awaited' = "none"
    /\ UNCHANGED <<handlerVars, stopped, late>>

\* dotServer.ShutdownContext returns.
DoTReturns ==
    /\ awaited = "dot"
    /\ NoneActive("dot") \/ late
    /\ ShutdownReturns
    /\ awaited' = "none"
    /\ UNCHANGED <<handlerVars, stopped, late>>

\* What a handler does by itself, with a message it can use or not.
HandlerStep(r) ==
    \/ message[r] \notin Questions /\ Refuse(r)
    \/ Decide(r) \/ Block(r) \/ Forward(r) \/ UpstreamFails(r)

StoreStep ==
    /\ \/ \E r \in Requests : Age(r)
       \/ Take \/ Insert \/ SeeDone \/ Drained \/ Cleanup \/ CleanerReturns
       \/ CloseDone \/ Closed
    /\ UNCHANGED <<handlerVars, serverVars>>

DnsNext ==
    \/ \E r \in Requests :
        Admit(r) \/ Refuse(r) \/ HandlerStep(r) \/ UpstreamReplies(r) \/ ContextEnds(r)
    \/ \E l \in Listeners : ServerStops(l)
    \/ StopHTTP \/ DeadlinePasses \/ StopDoT \/ DoTReturns
    \/ StoreStep

DnsSpec == DnsInit /\ [][DnsNext]_dnsVars

\* Handlers go on, whatever SQLite, its goroutines and the upstream do.
HandlerGoesOn(r) == WF_dnsVars(HandlerStep(r))
HandlersGoOn == \A r \in Requests : HandlerGoesOn(r)

\* main and the goroutines of the store go on; the deadline passes; errCh tells
\* main of a server that has stopped.
MainGoesOn ==
    /\ WF_dnsVars(stopped # {} /\ StopHTTP)
    /\ WF_dnsVars(DeadlinePasses) /\ WF_dnsVars(StopDoT) /\ WF_dnsVars(DoTReturns)
    /\ WF_dnsVars(Take /\ UNCHANGED <<handlerVars, serverVars>>)
    /\ WF_dnsVars(Insert /\ UNCHANGED <<handlerVars, serverVars>>)
    /\ WF_dnsVars((SeeDone \/ Drained) /\ UNCHANGED <<handlerVars, serverVars>>)
    /\ WF_dnsVars(CleanerReturns /\ UNCHANGED <<handlerVars, serverVars>>)
    /\ WF_dnsVars((CloseDone \/ Closed) /\ UNCHANGED <<handlerVars, serverVars>>)

DnsFairSpec == DnsSpec /\ HandlersGoOn
-----------------------------------------------------------------------------
(* Properties *)

\* A handler waits for nobody: until it has answered it has a step of its own that it
\* can take, whatever the buffer of the store holds (sqlite.go:351), main is stopping
\* and the upstream leaves unanswered.
NoHandlerWaits ==
    \A r \in Requests : Active(r) /\ main # "closed" => ENABLED <<HandlerStep(r)>>_dnsVars

\* Every query is answered, though SQLite never takes another row and the
\* upstream never replies (sqlite.go:351, main.go:90): the fairness is that of the
\* handlers only.  Only a shutdown past its deadline leaves a client without one.
EveryQueryAnswered ==
    \A r \in Requests :
        stage[r] = "received" ~> stage[r] = "answered" \/ (late /\ main = "closed")

\* When one server has stopped, for whatever reason, the process comes to its
\* end (main.go:243): handlers that hang cannot keep it, nor the two goroutines
\* Close waits for.
ShutdownEnds == MainGoesOn => (stopped # {} ~> main = "closed")

\* No message for a blocked name reaches the upstream resolver, whatever the
\* moment its request's context ends (main.go:396, 696): the verdict fails open
\* under a dead context, and so does the forwarding, which shares it.
BlockedNeverResolved ==
    \A r \in resolved : message[r].name \notin Blocked

\* The store is closed under no handler before the shutdown's deadline
\* (main.go:263, 272): both servers have none left, and nothing is sent to the
\* store after Close began.
NothingLeftBehind ==
    main \in {"closing", "waiting", "closed"} /\ ~late =>
        tooLate = {} /\ \A r \in Requests : ~Active(r)
=============================================================================
