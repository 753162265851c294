----------------------------- MODULE AuditTaskProofs -----------------------------
(***************************************************************************)
(* Proofs about AuditTask, for every tree of domains: an override that     *)
(* decided about a domain before the current one was checked lies strictly *)
(* below the current one, or does not concern it, and so still decides     *)
(* when the current one is blocked.                                        *)
(***************************************************************************)
EXTENDS AuditTask, TLAPS

USE AuditAssumption

\* d and its parent domains: where an override for d is looked for.
Line(d) == {d} \cup Above[d]

LEMMA LineIsChain ==
    ASSUME NEW d \in Domains, NEW p \in Line(d), NEW q \in Line(d)
    PROVE  p \in Domains /\ (p = q \/ p \in Above[q] \/ q \in Above[p])
BY DEF Line

LEMMA NoCycle ==
    ASSUME NEW p \in Domains, NEW q \in Domains, p \in Above[q]
    PROVE  q \notin Above[p] /\ p # q
<1>1. ASSUME q \in Above[p] PROVE FALSE
    <2>1. Above[q] \subseteq Above[p]
        BY <1>1
    <2> QED
        BY <2>1
<1> QED
    BY <1>1

\* Overrides elsewhere do not matter for d.
LEMMA DecidingDepends ==
    ASSUME NEW d \in Domains, \A o \in Line(d) : override'[o] = override[o]
    PROVE  Deciding(d)' = Deciding(d)
BY DEF Deciding, Line

-----------------------------------------------------------------------------
(* Typing *)

LEMMA InitType == Init => TypeOK
BY DEF Init, TypeOK, Sightings

LEMMA NextType == TypeOK /\ [Next]_vars => TypeOK'
<1> SUFFICES ASSUME TypeOK, [Next]_vars PROVE TypeOK'
    OBVIOUS
<1> USE DEF TypeOK, telemetryVars, tableVars, runVars, reportVars, Goto
<1>1. CASE Begin
    BY <1>1 DEF Begin
<1>2. CASE Query
    <2>1. todo' \subseteq Domains
        BY <1>2 DEF Query, SuspiciousDomains
    <2> QED
        BY <1>2, <2>1 DEF Query
<1>3. CASE Return
    BY <1>3 DEF Return
<1>4. ASSUME NEW d \in Domains, Check(d) PROVE TypeOK'
    <2>1. settled' \subseteq Domains
        BY <1>4 DEF Check, Administered
    <2>2. /\ phase' = "checking" /\ domain' = {d} /\ unasked' = Candidates(d)
          /\ todo' = todo \ {d}
          /\ UNCHANGED <<now, rows, unwritten, override, byAgent, mark, since, logged, blocked, unreported>>
        BY <1>4 DEF Check
    <2>3. unasked' \subseteq Domains /\ unasked' # {}
        BY <2>2 DEF Candidates
    <2> QED
        BY <2>1, <2>2, <2>3
<1>4a. ASSUME NEW o \in Domains, Ask(o) PROVE TypeOK'
    <2>1. UNCHANGED <<now, rows, unwritten, override, byAgent, mark, since, todo, logged,
                      settled, blocked, unreported>>
        BY <1>4a DEF Ask
    <2>2. phase = "checking"
        BY <1>4a DEF Ask
    <2>3. \/ phase' = "picking" /\ domain' = {} /\ unasked' = {}
          \/ /\ domain' = domain /\ unasked' = unasked \ {o}
             /\ phase' = IF unasked = {o} THEN "enriching" ELSE "checking"
        BY <1>4a DEF Ask
    <2>4. CASE phase' = "picking" /\ domain' = {} /\ unasked' = {}
        BY <2>1, <2>4
    <2>5. CASE /\ domain' = domain /\ unasked' = unasked \ {o}
               /\ phase' = IF unasked = {o} THEN "enriching" ELSE "checking"
        <3>1. unasked' # {} <=> phase' = "checking"
            BY <2>2, <2>5
        <3>2. phase' \in {"checking", "enriching"} /\ domain # {} /\ unasked' \subseteq Domains
            BY <2>2, <2>5
        <3> QED
            BY <2>1, <2>5, <3>1, <3>2
    <2> QED
        BY <2>3, <2>4, <2>5
<1>5. CASE LeaveAlone
    BY <1>5 DEF LeaveAlone
<1>6. CASE Block
    <2>1. /\ override' \in [Domains -> {"none", "allow", "block"}]
          /\ \A e \in Domains : override'[e] = IF e \in domain THEN "block" ELSE override[e]
        BY <1>6 DEF Block
    <2>2. byAgent' \subseteq {e \in Domains : override'[e] = "block"}
        BY <1>6, <2>1 DEF Block
    <2> QED
        BY <1>6, <2>1, <2>2 DEF Block
<1>7. CASE Log
    <2>1. /\ phase' = "picking" /\ domain' = {} /\ unasked' = {}
          /\ UNCHANGED <<now, rows, unwritten, override, byAgent, mark, since, todo,
                         settled, blocked>>
        BY <1>7 DEF Log
    <2>2. \/ logged' = logged \cup domain /\ unreported' = unreported
          \/ unreported' = unreported \cup domain /\ logged' = logged
        BY <1>7 DEF Log
    <2> QED
        BY <2>1, <2>2
<1>8. ASSUME NEW d \in Domains, NEW action \in {"allow", "block"}, AdminSets(d, action)
      PROVE  TypeOK'
    <2>1. /\ override' \in [Domains -> {"none", "allow", "block"}]
          /\ \A e \in Domains : override'[e] = IF e = d THEN action ELSE override[e]
        BY <1>8 DEF AdminSets
    <2>2. byAgent' \subseteq {e \in Domains : override'[e] = "block"}
        BY <1>8, <2>1 DEF AdminSets
    <2> QED
        BY <1>8, <2>1, <2>2 DEF AdminSets
<1>9. ASSUME NEW d \in Domains, AdminDeletes(d) PROVE TypeOK'
    <2>1. /\ override' \in [Domains -> {"none", "allow", "block"}]
          /\ \A e \in Domains : override'[e] = IF e = d THEN "none" ELSE override[e]
        BY <1>9 DEF AdminDeletes
    <2>2. byAgent' \subseteq {e \in Domains : override'[e] = "block"}
        BY <1>9, <2>1 DEF AdminDeletes
    <2> QED
        BY <1>9, <2>1, <2>2 DEF AdminDeletes
<1>10. ASSUME NEW d \in Domains, Sight(d) PROVE TypeOK'
    <2>1. unwritten' = unwritten \cup {[domain |-> d, at |-> now]}
        BY <1>10 DEF Sight
    <2>2. [domain |-> d, at |-> now] \in Sightings
        BY DEF Sightings
    <2>3. UNCHANGED <<now, rows, override, byAgent, mark, phase, since, todo, domain,
                      unasked, logged, settled, blocked, unreported>>
        BY <1>10 DEF Sight
    <2> QED
        BY <2>1, <2>2, <2>3
<1>11. ASSUME NEW r \in unwritten, Write(r) PROVE TypeOK'
    BY <1>11 DEF Write
<1>12. CASE Tick
    BY <1>12 DEF Tick
<1>13. CASE UNCHANGED vars
    BY <1>13 DEF vars
<1> QED
    BY <1>1, <1>2, <1>3, <1>4, <1>5, <1>6, <1>7, <1>8, <1>9, <1>10, <1>11, <1>12, <1>13,
       <1>4a
    DEF Next

-----------------------------------------------------------------------------
(* The invariant *)

\* An earlier decision about d that the current domain could overrule is made at
\* a domain strictly below the current one, or GetOverride is still to find it.
SettledBelow ==
    phase \in {"checking", "enriching"} =>
        \A d \in settled, x \in domain :
            x \in Line(d) => \E o \in Deciding(d) : x \in Above[o] \/ o \in unasked

IInv == TypeOK /\ SettledBelow

\* A decision about d is made on d's line, and so above or below x, or at x.
LEMMA CheckBegins ==
    ASSUME TypeOK, NEW x \in Domains, Check(x)
    PROVE  SettledBelow'
<1>1. /\ settled' = Administered /\ settled' \subseteq Domains
      /\ UNCHANGED override /\ domain' = {x} /\ unasked' = Line(x)
    BY DEF Check, Administered, tableVars, Candidates, Line
<1> SUFFICES ASSUME NEW d \in settled', x \in Line(d)
             PROVE  \E o \in Deciding(d)' : x \in Above[o] \/ o \in unasked'
    BY <1>1 DEF SettledBelow, Line
<1>2. PICK o \in Deciding(d) : TRUE
    BY <1>1 DEF Administered
<1>3. Deciding(d)' = Deciding(d)
    BY <1>1, DecidingDepends
<1>4. o \in Line(d)
    BY <1>2 DEF Deciding, Line
<1>5. x \in Above[o] \/ o \in Line(x)
    BY <1>1, <1>4, LineIsChain DEF Line
<1> QED
    BY <1>1, <1>2, <1>3, <1>5

\* A query that finds no row asks for no domain that decides about another.
LEMMA AskGoesOn ==
    ASSUME IInv, NEW o \in Domains, Ask(o)
    PROVE  SettledBelow'
<1>1. UNCHANGED <<override, settled>>
    BY DEF Ask, tableVars, reportVars
<1>2. CASE phase' = "picking"
    BY <1>2 DEF SettledBelow
<1>3. CASE phase' # "picking"
    <2>1. phase = "checking" /\ override[o] = "none" /\ unasked' = unasked \ {o}
          /\ domain' = domain
        BY <1>3 DEF Ask, Goto
    <2> SUFFICES ASSUME NEW d \in settled, NEW x \in domain, x \in Line(d)
                 PROVE  \E p \in Deciding(d)' : x \in Above[p] \/ p \in unasked'
        BY <1>1, <2>1 DEF SettledBelow, Line
    <2>2. PICK p \in Deciding(d) : x \in Above[p] \/ p \in unasked
        BY <2>1 DEF IInv, SettledBelow
    <2>3. Deciding(d)' = Deciding(d) /\ p # o
        BY <1>1, <2>1, <2>2, DecidingDepends DEF IInv, TypeOK, Deciding
    <2> QED
        BY <2>1, <2>2, <2>3
<1> QED
    BY <1>2, <1>3

\* A change of the override of e leaves alone the decisions that remain settled.
LEMMA ChangeKeepsSettled ==
    ASSUME IInv, NEW e \in Domains,
           \A d \in Domains \ {e} : override'[d] = override[d],
           settled' = settled \ {d \in Domains : e \in {d} \cup Above[d]},
           UNCHANGED <<phase, domain, unasked>>
    PROVE  SettledBelow'
<1> SUFFICES ASSUME phase \in {"checking", "enriching"},
                    NEW d \in settled', NEW x \in domain, x \in Line(d)
             PROVE  \E o \in Deciding(d)' : x \in Above[o] \/ o \in unasked
    BY DEF SettledBelow, Line
<1>1. d \in settled /\ d \in Domains /\ e \notin Line(d)
    BY DEF IInv, TypeOK, Line
<1>2. Deciding(d)' = Deciding(d)
    BY <1>1, DecidingDepends DEF Line
<1> QED
    BY <1>1, <1>2 DEF IInv, SettledBelow

LEMMA NextInv == IInv /\ [Next]_vars => SettledBelow'
<1> SUFFICES ASSUME IInv, [Next]_vars PROVE SettledBelow'
    OBVIOUS
<1> USE DEF telemetryVars, tableVars, runVars, reportVars, Goto
<1>1. CASE Begin \/ Query \/ Return \/ LeaveAlone \/ Block \/ Log
    BY <1>1 DEF Begin, Query, Return, LeaveAlone, Block, Log, SettledBelow
<1>2. ASSUME NEW d \in Domains, Check(d) PROVE SettledBelow'
    BY <1>2, CheckBegins DEF IInv
<1>2a. ASSUME NEW o \in Domains, Ask(o) PROVE SettledBelow'
    BY <1>2a, AskGoesOn
<1>3. ASSUME NEW d \in Domains, NEW action \in {"allow", "block"}, AdminSets(d, action)
      PROVE  SettledBelow'
    <2>1. /\ \A e \in Domains \ {d} : override'[e] = override[e]
          /\ settled' = settled \ {e \in Domains : d \in {e} \cup Above[e]}
          /\ UNCHANGED <<phase, domain, unasked>>
        BY <1>3 DEF AdminSets, IInv, TypeOK
    <2> QED
        BY <2>1, ChangeKeepsSettled
<1>4. ASSUME NEW d \in Domains, AdminDeletes(d) PROVE SettledBelow'
    <2>1. /\ \A e \in Domains \ {d} : override'[e] = override[e]
          /\ settled' = settled \ {e \in Domains : d \in {e} \cup Above[e]}
          /\ UNCHANGED <<phase, domain, unasked>>
        BY <1>4 DEF AdminDeletes, IInv, TypeOK
    <2> QED
        BY <2>1, ChangeKeepsSettled
<1>5. ASSUME UNCHANGED <<override, phase, domain, unasked, settled>> PROVE SettledBelow'
    <2>1. \A d \in Domains : Deciding(d)' = Deciding(d)
        BY <1>5, DecidingDepends
    <2> QED
        BY <1>5, <2>1 DEF IInv, TypeOK, SettledBelow, Line
<1>6. ASSUME NEW d \in Domains, Sight(d) PROVE SettledBelow'
    BY <1>5, <1>6 DEF Sight
<1>7. ASSUME NEW r \in unwritten, Write(r) PROVE SettledBelow'
    BY <1>5, <1>7 DEF Write
<1>8. CASE Tick
    BY <1>5, <1>8 DEF Tick
<1>9. CASE UNCHANGED vars
    BY <1>5, <1>9 DEF vars
<1> QED
    BY <1>1, <1>2, <1>3, <1>4, <1>6, <1>7, <1>8, <1>9, <1>2a DEF Next

\* The invariant the theorems follow from.
THEOREM InvHolds == Spec => []IInv
<1>1. Init => IInv
    BY InitType DEF Init, IInv, SettledBelow
<1>2. IInv /\ [Next]_vars => IInv'
    BY NextType, NextInv DEF IInv
<1> QED
    BY <1>1, <1>2, PTL DEF Spec

\* The state of the audit is well typed; only block rows count as the agent's.
THEOREM AuditTypeCorrect == Spec => []TypeOK
BY InvHolds, PTL DEF IInv

-----------------------------------------------------------------------------
(* Administrators' decisions *)

LEMMA BlockKeepsDecisions ==
    ASSUME IInv, Block, NEW d \in settled
    PROVE  Deciding(d)' = Deciding(d)
<1>1. d \in Domains /\ domain \subseteq Domains /\ phase = "enriching" /\ unasked = {}
      /\ \A e \in Domains : override'[e] = IF e \in domain THEN "block" ELSE override[e]
    BY DEF IInv, TypeOK, Block
<1>2. CASE domain \cap Line(d) = {}
    <2>1. \A o \in Line(d) : override'[o] = override[o]
        BY <1>1, <1>2, LineIsChain
    <2> QED
        BY <1>1, <2>1, DecidingDepends
<1>3. ASSUME NEW x \in domain, x \in Line(d) PROVE Deciding(d)' = Deciding(d)
    <2> DEFINE M == Line(d) \cap {o \in Domains : override[o] # "none"}
               N == Line(d) \cap {o \in Domains : override'[o] # "none"}
    <2>1. /\ Deciding(d) = {o \in M : \A p \in M : p = o \/ p \in Above[o]}
          /\ Deciding(d)' = {o \in N : \A p \in N : p = o \/ p \in Above[o]}
        BY DEF Deciding, Line
    <2>2. PICK o \in Deciding(d) : x \in Above[o]
        BY <1>1, <1>3 DEF IInv, SettledBelow
    <2>3. o \in M /\ \A p \in M : p = o \/ p \in Above[o]
        BY <2>1, <2>2
    <2>4. M \subseteq N /\ \A p \in N : p \in M \/ p \in domain
        BY <1>1
    <2>5. \A p \in N : p = o \/ p \in Above[o]
        <3> SUFFICES ASSUME NEW p \in N, p \notin M PROVE p \in Above[o]
            BY <2>3
        <3>1. p \in domain /\ p \in Line(d)
            BY <2>4
        <3>2. PICK q \in Deciding(d) : p \in Above[q]
            BY <1>1, <3>1 DEF IInv, SettledBelow
        <3>3. q \in M /\ (o = q \/ o \in Above[q]) /\ (q = o \/ q \in Above[o])
            BY <2>1, <2>3, <3>2
        <3>4. q = o
            BY <3>3, NoCycle
        <3> QED
            BY <3>2, <3>4
    <2>6. \A q \in Domains : (q \in M \/ q \in N) /\ q # o => q \in Above[o]
        BY <2>3, <2>5
    <2>7. Deciding(d) = {o}
        <3> SUFFICES ASSUME NEW q \in Deciding(d), q # o PROVE FALSE
            BY <2>2
        <3>1. q \in M /\ o \in Above[q] /\ q \in Above[o]
            BY <2>1, <2>3
        <3> QED
            BY <2>3, <3>1, NoCycle
    <2>8. Deciding(d)' = {o}
        <3>1. o \in Deciding(d)'
            BY <2>1, <2>3, <2>4, <2>5
        <3> SUFFICES ASSUME NEW q \in Deciding(d)', q # o PROVE FALSE
            BY <3>1
        <3>2. q \in N /\ o \in Above[q] /\ q \in Above[o]
            BY <2>1, <2>3, <2>4, <2>5
        <3> QED
            BY <2>3, <3>2, NoCycle
    <2> QED
        BY <2>7, <2>8
<1> QED
    BY <1>2, <1>3

\* The agent overrules no administrator's decision that was in force before the
\* blocked domain was checked (AuditTask.auditDomain), for every tree of domains.
THEOREM EarlierDecisionsKept == Spec => EarlierDecisionsStand
<1>1. IInv /\ [Next]_vars =>
        [Block => \A d \in settled : Deciding(d)' = Deciding(d)]_vars
    BY BlockKeepsDecisions
<1> QED
    BY <1>1, InvHolds, PTL DEF Spec, EarlierDecisionsStand

-----------------------------------------------------------------------------
(* The agent's log *)

\* What the log may still owe: the domain blocked last, until its event is written.
Owed == IF phase = "logging" THEN domain ELSE {}

ReportsOK == logged \subseteq blocked /\ blocked = logged \cup unreported \cup Owed

LEMMA ReportsStep == ReportsOK /\ [Next]_vars => ReportsOK'
<1> SUFFICES ASSUME ReportsOK, [Next]_vars PROVE ReportsOK'
    OBVIOUS
<1> USE DEF ReportsOK, Owed
<1>1. ASSUME UNCHANGED <<logged, blocked, unreported>>, phase # "logging", phase' # "logging"
      PROVE  ReportsOK'
    BY <1>1
<1>2. ASSUME UNCHANGED <<logged, blocked, unreported, phase, domain>> PROVE ReportsOK'
    BY <1>2
<1>3. CASE Begin \/ Query \/ Return \/ LeaveAlone
    BY <1>1, <1>3 DEF Begin, Query, Return, LeaveAlone, reportVars, Goto
<1>4. CASE Block
    <2>1. /\ phase = "enriching" /\ blocked' = blocked \cup domain
          /\ phase' = "logging" /\ domain' = domain /\ UNCHANGED <<logged, unreported>>
        BY <1>4 DEF Block, Goto
    <2> QED
        BY <2>1
<1>5. CASE Log
    <2>1. /\ phase = "logging" /\ phase' = "picking" /\ UNCHANGED blocked
          /\ \/ logged' = logged \cup domain /\ UNCHANGED unreported
             \/ unreported' = unreported \cup domain /\ UNCHANGED logged
        BY <1>5 DEF Log, Goto
    <2> QED
        BY <2>1
<1>6. ASSUME NEW d \in Domains, Check(d) PROVE ReportsOK'
    BY <1>1, <1>6 DEF Check
<1>7. ASSUME NEW o \in Domains, Ask(o) PROVE ReportsOK'
    <2>1. UNCHANGED <<logged, blocked, unreported>> /\ phase = "checking"
          /\ phase' \in {"picking", "enriching", "checking"}
        BY <1>7 DEF Ask, reportVars, Goto
    <2> QED
        BY <1>1, <2>1
<1>8. ASSUME NEW d \in Domains, AdminDeletes(d) \/ \E action \in {"allow", "block"} :
                                    AdminSets(d, action)
      PROVE  ReportsOK'
    BY <1>2, <1>8 DEF AdminDeletes, AdminSets, runVars
<1>9. ASSUME NEW d \in Domains, Sight(d) PROVE ReportsOK'
    BY <1>2, <1>9 DEF Sight, runVars, reportVars
<1>10. CASE Tick \/ \E r \in unwritten : Write(r)
    BY <1>2, <1>10 DEF Tick, Write, runVars, reportVars
<1>11. CASE UNCHANGED vars
    BY <1>2, <1>11 DEF vars
<1> QED
    BY <1>3, <1>4, <1>5, <1>6, <1>7, <1>8, <1>9, <1>10, <1>11 DEF Next

\* The agent's log holds every block it placed but those whose event could not be
\* written and the one it is about to report, and no other: an audit that passes a
\* domain over, runs out of time or fails leaves nothing in it.
THEOREM LogTellsBlocks == Spec => []ReportsMatchBlocks
<1>1. Init => ReportsOK
    BY DEF Init, ReportsOK, Owed
<1>2. ReportsOK => ReportsMatchBlocks
    BY DEF ReportsOK, Owed, ReportsMatchBlocks
<1> QED
    BY <1>1, <1>2, ReportsStep, PTL DEF Spec
=============================================================================
