---------------------------- MODULE WhitelistProofs ----------------------------
(***************************************************************************)
(* Proofs about Whitelist, for every set of processes, readers, domains    *)
(* and lists and every hash function.  A lookup holds the read lock, so    *)
(* the filter it asks stays what it was when the lookup began; a filter    *)
(* has no false negatives; so a suffix that stays listed cannot be passed  *)
(* over.                                                                   *)
(***************************************************************************)
EXTENDS Whitelist, FiniteSetTheorems, TLAPS

\* A Bloom filter has no false negatives, whatever its size and hash functions.
LEMMA NoFalseNegative ==
    ASSUME NEW S \in SUBSET Domains, NEW d \in S
    PROVE  Test(Build(S), d)
<1> DEFINE n == Cardinality(S)
<1>1. n # 0
    <2>1. IsFiniteSet(S)
        BY WhitelistAssumption, FS_Subset
    <2> QED
        BY <2>1, FS_EmptySet
<1>2. Build(S) = [n |-> n, bits |-> UNION {Positions(c, n) : c \in S}]
    BY DEF Build
<1> HIDE DEF n
<1>3. Build(S).n = n /\ Build(S).bits = UNION {Positions(c, n) : c \in S}
    BY <1>2
<1>4. Build(S) # NoFilter
    BY <1>1, <1>3 DEF NoFilter
<1>5. Positions(d, n) \subseteq Build(S).bits
    BY <1>3
<1> QED
    BY <1>3, <1>4, <1>5 DEF Test

-----------------------------------------------------------------------------
(* The invariant *)

\* A process's filter is that of the domains it read.
FilterMatches == \A p \in Processes : filter[p] = Build(source[p])

\* The lookups that go on: their process serves, what is listed has been seen, and
\* what stayed listed is in the filter and still to be asked.
LookupsInStep ==
    \A r \in asking :
        /\ Home[r] \in serving
        /\ Candidates(asked[r]) \cap table \subseteq seen[r]
        /\ kept[r] \subseteq table \cap source[Home[r]] \cap Candidates(asked[r])
        /\ \A i \in 1..Len(Suffixes[asked[r]]) :
              Suffixes[asked[r]][i] \in kept[r] => next[r] <= i

\* Only the updater loads while it serves; its event follows its loads.
EventsInStep ==
    /\ \A p \in Processes : loader[p] # "idle" /\ p \in serving => p = Updater
    /\ Updater \notin serving => outcome = "none"
    /\ outcome = "completed" => loader[Updater] = "idle"
    /\ loader[Updater] = "downloading" => Updater \in serving
    /\ loader[Updater] = "locking" /\ writer = {Updater} => loaded[Updater] = table

IInv ==
    /\ TypeOK /\ FilterMatches /\ LookupsInStep /\ EventsInStep
    /\ AllowedWasListed /\ KeptIsAllowed /\ CompletedIsLoaded

LEMMA InitInv == Init => IInv
<1> SUFFICES ASSUME Init PROVE IInv
    OBVIOUS
<1>1. Build({}) = NoFilter
    BY DEF Build
<1>2. TypeOK
    BY <1>1, WhitelistAssumption DEF Init, TypeOK
<1>3. FilterMatches /\ LookupsInStep
    BY <1>1 DEF Init, FilterMatches, LookupsInStep
<1>4. EventsInStep
    BY WhitelistAssumption DEF Init, EventsInStep
<1>5. AllowedWasListed /\ KeptIsAllowed /\ CompletedIsLoaded
    BY DEF Init, AllowedWasListed, KeptIsAllowed, CompletedIsLoaded
<1> QED
    BY <1>2, <1>3, <1>4, <1>5 DEF IInv

\* Steps of a load that leave the table, the filters and the lookups alone.
LEMMA LoadStepsKeepInv ==
    ASSUME IInv, NEW p \in Processes,
           Start(p) \/ WriteFails(p) \/ Read(p) \/ ReadFails(p) \/ Update \/ Download
    PROVE  IInv'
<1>1. /\ TypeOK /\ FilterMatches /\ LookupsInStep /\ EventsInStep
      /\ AllowedWasListed /\ KeptIsAllowed /\ CompletedIsLoaded
    BY DEF IInv
<1>2. /\ UNCHANGED <<table, filter, source, asking, asked, next, answer, writer, seen, kept>>
      /\ serving \subseteq serving'
    BY DEF Start, WriteFails, Read, ReadFails, Update, Download, Finish, filterVars, lookupVars
<1>3. TypeOK'
    <2>1. loader' \in [Processes -> {"idle", "downloading", "writing", "reading", "locking"}]
        BY <1>1 DEF Start, WriteFails, Read, ReadFails, Update, Download, Goes, Finish, TypeOK
    <2>2. list' \in [Processes -> SUBSET Domains] /\ loaded' \in [Processes -> SUBSET Domains]
        <3>1. FileList \in SUBSET Domains
            BY WhitelistAssumption
        <3>2. CASE Start(p)
            BY <1>1, <3>1, <3>2 DEF Start, filterVars, TypeOK
        <3>3. CASE Update \/ Download
            BY <1>1, <3>3 DEF Update, Download, filterVars, TypeOK
        <3>4. CASE WriteFails(p) \/ Read(p) \/ ReadFails(p)
            BY <1>1, <3>4 DEF WriteFails, Read, ReadFails, filterVars, TypeOK
        <3> QED
            BY <3>2, <3>3, <3>4
    <2>3. serving' \subseteq Processes
        BY <1>1, WhitelistAssumption
            DEF Start, WriteFails, Read, ReadFails, Update, Download, Finish, TypeOK
    <2>4. outcome' \in {"none", "started", "failed", "completed"}
        BY <1>1 DEF Start, WriteFails, Read, ReadFails, Update, Download, Finish, TypeOK
    <2>5. runs' \in 0..MaxRuns
        BY <1>1, WhitelistAssumption DEF Start, WriteFails, Read, ReadFails, Update, Download, TypeOK
    <2> QED
        BY <1>1, <1>2, <2>1, <2>2, <2>3, <2>4, <2>5 DEF TypeOK
<1>4. FilterMatches' /\ LookupsInStep' /\ AllowedWasListed' /\ KeptIsAllowed'
    BY <1>1, <1>2 DEF FilterMatches, LookupsInStep, AllowedWasListed, KeptIsAllowed
<1>5. EventsInStep' /\ CompletedIsLoaded'
    <2>1. CASE Start(p)
        BY <1>1, <1>2, <2>1, WhitelistAssumption
            DEF Start, Goes, Finish, TypeOK, EventsInStep, CompletedIsLoaded, filterVars
    <2>2. CASE WriteFails(p) \/ ReadFails(p)
        BY <1>1, <1>2, <2>2, WhitelistAssumption
            DEF WriteFails, ReadFails, Goes, Finish, TypeOK, EventsInStep, CompletedIsLoaded, filterVars
    <2>3. CASE Read(p)
        BY <1>1, <1>2, <2>3, WhitelistAssumption
            DEF Read, Goes, TypeOK, EventsInStep, CompletedIsLoaded
    <2>4. CASE Update \/ Download
        BY <1>1, <1>2, <2>4, WhitelistAssumption
            DEF Update, Download, Goes, Finish, TypeOK, EventsInStep, CompletedIsLoaded, filterVars
    <2> QED
        BY <2>1, <2>2, <2>3, <2>4
<1> QED
    BY <1>3, <1>4, <1>5 DEF IInv

LEMMA WriteKeepsInv ==
    ASSUME IInv, NEW p \in Processes, Write(p) PROVE IInv'
<1>1. /\ TypeOK /\ FilterMatches /\ LookupsInStep /\ EventsInStep
      /\ AllowedWasListed /\ KeptIsAllowed /\ CompletedIsLoaded
    BY DEF IInv
<1>2. /\ table' = list[p] /\ table' \subseteq Domains
      /\ seen' = [r \in Readers |->
              IF r \in asking THEN seen[r] \cup (Candidates(asked[r]) \cap table') ELSE seen[r]]
      /\ kept' = [r \in Readers |-> IF r \in asking THEN kept[r] \cap table' ELSE kept[r]]
      /\ loader' = [loader EXCEPT ![p] = "reading"]
      /\ list' = [list EXCEPT ![p] = {}]
      /\ writer' = {p}
      /\ UNCHANGED <<filter, source, loaded, serving, outcome, asking, asked, next, answer, runs>>
      /\ loader[p] = "writing"
    BY <1>1 DEF Write, Becomes, Goes, filterVars, lookupVars, TypeOK
<1>3. TypeOK'
    BY <1>1, <1>2, WhitelistAssumption DEF TypeOK
<1>4. FilterMatches'
    BY <1>1, <1>2 DEF FilterMatches
<1>5. LookupsInStep'
    BY <1>1, <1>2 DEF LookupsInStep, TypeOK
<1>6. EventsInStep' /\ CompletedIsLoaded'
    BY <1>1, <1>2, WhitelistAssumption DEF EventsInStep, CompletedIsLoaded, TypeOK
<1>7. AllowedWasListed' /\ KeptIsAllowed'
    <2>1. \A r \in Readers : seen[r] \subseteq seen'[r] /\ kept'[r] \subseteq kept[r]
        BY <1>2
    <2> QED
        BY <1>1, <1>2, <2>1 DEF AllowedWasListed, KeptIsAllowed
<1> QED
    BY <1>3, <1>4, <1>5, <1>6, <1>7 DEF IInv

\* The filter changes under no lookup: Swap waits for them, Stop ends them.
LEMMA FilterStepsKeepInv ==
    ASSUME IInv, NEW p \in Processes, Swap(p) \/ Stop(p) PROVE IInv'
<1>1. /\ TypeOK /\ FilterMatches /\ LookupsInStep /\ EventsInStep
      /\ AllowedWasListed /\ KeptIsAllowed /\ CompletedIsLoaded
    BY DEF IInv
<1>2. /\ UNCHANGED <<table, asked, next, answer, writer, seen, kept, runs>>
      /\ loader' = [loader EXCEPT ![p] = "idle"]
      /\ loaded' = [loaded EXCEPT ![p] = {}]
    BY DEF Swap, Stop, Goes, Finish, lookupVars
<1>3. PICK S \in SUBSET Domains :
          /\ filter' = [filter EXCEPT ![p] = Build(S)]
          /\ source' = [source EXCEPT ![p] = S]
    <2>1. CASE Swap(p)
        <3>1. loaded[p] \in SUBSET Domains
            BY <1>1 DEF TypeOK
        <3> QED
            BY <2>1, <3>1 DEF Swap
    <2>2. CASE Stop(p)
        <3>1. Build({}) = NoFilter
            BY DEF Build
        <3> QED
            BY <2>2, <3>1 DEF Stop
    <2> QED
        BY <2>1, <2>2
<1>4. /\ asking' \subseteq asking
      /\ \A r \in asking' : Home[r] # p
    BY DEF Swap, Stop, Busy, lookupVars
<1>5. serving' \in {serving \cup {p}, serving \ {p}}
    BY DEF Swap, Stop, Finish
<1>6. TypeOK'
    <2>1. list' \in [Processes -> SUBSET Domains]
        BY <1>1 DEF Swap, Stop, TypeOK
    <2>2. outcome' \in {"none", "started", "failed", "completed"}
        BY <1>1 DEF Swap, Stop, Finish, TypeOK
    <2>3. filter' \in [Processes -> {Build(T) : T \in SUBSET Domains}]
        BY <1>1, <1>3 DEF TypeOK
    <2> QED
        BY <1>1, <1>2, <1>3, <1>4, <1>5, <2>1, <2>2, <2>3 DEF TypeOK
<1>7. FilterMatches'
    BY <1>1, <1>3 DEF FilterMatches, TypeOK
<1>8. LookupsInStep'
    <2>1. \A r \in asking' : Home[r] \in Processes /\ Home[r] # p
        BY <1>1, <1>4, WhitelistAssumption DEF TypeOK
    <2> QED
        BY <1>1, <1>2, <1>3, <1>4, <1>5, <2>1 DEF LookupsInStep, TypeOK
<1>9. AllowedWasListed' /\ KeptIsAllowed'
    BY <1>1, <1>2 DEF AllowedWasListed, KeptIsAllowed
<1>10. EventsInStep' /\ CompletedIsLoaded'
    <2>1. CASE Swap(p)
        BY <1>1, <1>2, <2>1, WhitelistAssumption
            DEF Swap, Finish, EventsInStep, CompletedIsLoaded, TypeOK
    <2>2. CASE Stop(p)
        BY <1>1, <1>2, <2>2, WhitelistAssumption
            DEF Stop, EventsInStep, CompletedIsLoaded, TypeOK
    <2> QED
        BY <2>1, <2>2
<1> QED
    BY <1>6, <1>7, <1>8, <1>9, <1>10 DEF IInv

LEMMA BeginKeepsInv ==
    ASSUME IInv, NEW r \in Readers, Begin(r) PROVE IInv'
<1>1. /\ TypeOK /\ FilterMatches /\ LookupsInStep /\ EventsInStep
      /\ AllowedWasListed /\ KeptIsAllowed /\ CompletedIsLoaded
    BY DEF IInv
<1>2. PICK d \in Domains :
        /\ asked' = [asked EXCEPT ![r] = d]
        /\ seen' = [seen EXCEPT ![r] = Candidates(d) \cap table]
        /\ kept' = [kept EXCEPT ![r] = Candidates(d) \cap table \cap source[Home[r]]]
    BY DEF Begin
<1>3. /\ Home[r] \in serving /\ asking' = asking \cup {r} /\ r \notin asking
      /\ next' = [next EXCEPT ![r] = 1] /\ answer' = [answer EXCEPT ![r] = "none"]
      /\ UNCHANGED <<table, filter, source, loaded, serving, loader, list, outcome, writer, runs>>
    BY DEF Begin, filterVars
<1>4. TypeOK'
    BY <1>1, <1>2, <1>3 DEF TypeOK
<1>5. FilterMatches' /\ EventsInStep' /\ CompletedIsLoaded'
    BY <1>1, <1>3 DEF FilterMatches, EventsInStep, CompletedIsLoaded
<1>6. LookupsInStep'
    <2>1. /\ asked'[r] \in Domains /\ next'[r] = 1
          /\ seen'[r] = Candidates(asked'[r]) \cap table
          /\ kept'[r] = Candidates(asked'[r]) \cap table \cap source[Home[r]]
        BY <1>1, <1>2, <1>3 DEF TypeOK
    <2>2. \A q \in asking : q \in Readers /\ asked'[q] = asked[q] /\ next'[q] = next[q]
                            /\ seen'[q] = seen[q] /\ kept'[q] = kept[q]
        BY <1>1, <1>2, <1>3 DEF TypeOK
    <2> SUFFICES ASSUME NEW q \in asking \cup {r}
        PROVE /\ Home[q] \in serving
              /\ Candidates(asked'[q]) \cap table \subseteq seen'[q]
              /\ kept'[q] \subseteq table \cap source[Home[q]] \cap Candidates(asked'[q])
              /\ \A i \in 1..Len(Suffixes[asked'[q]]) :
                    Suffixes[asked'[q]][i] \in kept'[q] => next'[q] <= i
        BY <1>3 DEF LookupsInStep, Candidates
    <2>3. CASE q = r
        BY <1>3, <2>1, <2>3
    <2>4. CASE q \in asking
        BY <1>1, <1>3, <2>2, <2>4 DEF LookupsInStep
    <2> QED
        BY <2>3, <2>4
<1>7. AllowedWasListed' /\ KeptIsAllowed'
    BY <1>1, <1>2, <1>3 DEF AllowedWasListed, KeptIsAllowed, TypeOK
<1> QED
    BY <1>4, <1>5, <1>6, <1>7 DEF IInv

\* One candidate of a lookup, or its end.
LEMMA LookupKeepsInv ==
    ASSUME IInv, NEW r \in Readers, Lookup(r) PROVE IInv'
<1>1. /\ TypeOK /\ FilterMatches /\ LookupsInStep /\ EventsInStep
      /\ AllowedWasListed /\ KeptIsAllowed /\ CompletedIsLoaded
    BY DEF IInv
<1>2. /\ r \in asking /\ asked[r] \in Domains /\ Home[r] \in Processes
      /\ UNCHANGED <<table, filter, source, loaded, serving, loader, list, outcome, asked,
                     writer, seen, runs>>
    BY <1>1, WhitelistAssumption DEF Lookup, Ask, AskFails, Deny, filterVars, TypeOK
<1>3. next[r] \in Nat \ {0} /\ Len(Suffixes[asked[r]]) \in Nat
    BY <1>1, <1>2, WhitelistAssumption DEF TypeOK
<1>4. FilterMatches' /\ EventsInStep' /\ CompletedIsLoaded'
    BY <1>1, <1>2 DEF FilterMatches, EventsInStep, CompletedIsLoaded
<1>5. /\ kept' = kept \/ kept' = [kept EXCEPT ![r] = {}]
      /\ \/ PassOn(r)
         \/ \E a \in {"yes", "no"} : Return(r, a)
    BY DEF Lookup, Ask, AskFails, Deny
<1>6. TypeOK'
    BY <1>1, <1>2, <1>5 DEF TypeOK, PassOn, Return
<1>7. CASE PassOn(r)
    <2>1. /\ next' = [next EXCEPT ![r] = next[r] + 1] /\ UNCHANGED <<asking, answer>>
        BY <1>7 DEF PassOn
    <2>2. r \in asking' /\ next'[r] = next[r] + 1
        BY <1>1, <1>2, <2>1 DEF TypeOK
    <2>3. /\ next[r] \in 1..Len(Suffixes[asked[r]]) \/ next[r] <= Len(Suffixes[asked[r]])
          /\ Suffixes[asked[r]][next[r]] \notin kept'[r]
        <3>1. CASE AskFails(r)
            BY <1>1, <3>1 DEF AskFails, TypeOK
        <3>2. CASE Ask(r)
            <4> DEFINE c == Suffixes[asked[r]][next[r]]
            <4>1. ~(Test(filter[Home[r]], c) /\ c \in table)
                <5>1. ~Return(r, "yes")
                    BY <1>2, <2>2 DEF Return
                <5> QED
                    BY <3>2, <5>1 DEF Ask
            <4>2. kept' = kept /\ next[r] <= Len(Suffixes[asked[r]])
                BY <3>2 DEF Ask
            <4>3. c \in kept[r] => c \in table /\ c \in source[Home[r]]
                BY <1>1, <1>2 DEF LookupsInStep
            <4>4. filter[Home[r]] = Build(source[Home[r]]) /\ source[Home[r]] \in SUBSET Domains
                BY <1>1, <1>2 DEF FilterMatches, TypeOK
            <4>5. c \in source[Home[r]] => Test(filter[Home[r]], c)
                BY <4>4, NoFalseNegative
            <4> QED
                BY <4>1, <4>2, <4>3, <4>5
        <3>3. CASE Deny(r)
            BY <1>2, <2>2, <3>3 DEF Deny, Return
        <3> QED
            BY <3>1, <3>2, <3>3 DEF Lookup
    <2>4. kept'[r] \subseteq kept[r] /\ \A q \in Readers \ {r} : kept'[q] = kept[q] /\ next'[q] = next[q]
        BY <1>1, <1>5, <2>1 DEF TypeOK
    <2>5. LookupsInStep'
        <3> SUFFICES ASSUME NEW q \in asking
            PROVE /\ Home[q] \in serving
                  /\ Candidates(asked[q]) \cap table \subseteq seen[q]
                  /\ kept'[q] \subseteq table \cap source[Home[q]] \cap Candidates(asked[q])
                  /\ \A i \in 1..Len(Suffixes[asked[q]]) :
                        Suffixes[asked[q]][i] \in kept'[q] => next'[q] <= i
            BY <1>2, <2>1 DEF LookupsInStep, Candidates
        <3>1. CASE q = r
            BY <1>1, <1>2, <1>3, <2>2, <2>3, <2>4, <3>1 DEF LookupsInStep
        <3>2. CASE q # r
            BY <1>1, <2>4, <3>2 DEF LookupsInStep, TypeOK
        <3> QED
            BY <3>1, <3>2
    <2>6. AllowedWasListed' /\ KeptIsAllowed'
        <3>1. \A q \in Readers : kept'[q] \subseteq kept[q]
            BY <2>4
        <3> QED
            BY <1>1, <1>2, <2>1, <3>1 DEF AllowedWasListed, KeptIsAllowed
    <2> QED
        BY <1>4, <1>6, <2>5, <2>6 DEF IInv
<1>8. ASSUME NEW a \in {"yes", "no"}, Return(r, a) PROVE IInv'
    <2>1. /\ answer' = [answer EXCEPT ![r] = a] /\ asking' = asking \ {r} /\ next' = next
          /\ answer'[r] = a /\ r \notin asking'
        BY <1>1, <1>8 DEF Return, TypeOK
    <2>2. kept' = kept
        BY <1>2, <2>1 DEF Lookup, Ask, AskFails, Deny, PassOn
    <2>3. LookupsInStep'
        BY <1>1, <1>2, <2>1, <2>2 DEF LookupsInStep
    <2>7. ~PassOn(r) /\ \A b : Return(r, b) => b = a
        BY <1>1, <1>2, <2>1 DEF PassOn, Return, TypeOK
    <2>4. a = "yes" => seen[r] # {}
        <3> SUFFICES ASSUME a = "yes" PROVE seen[r] # {}
            OBVIOUS
        <3>1. Ask(r)
            BY <2>7 DEF Lookup, AskFails, Deny
        <3>2. next[r] <= Len(Suffixes[asked[r]]) /\ Suffixes[asked[r]][next[r]] \in table
            BY <2>7, <3>1 DEF Ask
        <3> QED
            BY <1>1, <1>2, <1>3, <3>2 DEF LookupsInStep, Candidates
    <2>5. a = "no" => kept[r] = {}
        <3> SUFFICES ASSUME a = "no" PROVE kept[r] = {}
            OBVIOUS
        <3>3. ~Return(r, "yes")
            <4>1. "yes" # a
                OBVIOUS
            <4> QED
                BY <2>7, <4>1
        <3>4. ~Ask(r)
            BY <2>7, <3>3 DEF Ask
        <3>5. ~AskFails(r)
            BY <2>7 DEF AskFails
        <3>1. next[r] > Len(Suffixes[asked[r]])
            BY <1>2, <3>4, <3>5 DEF Lookup, Deny
        <3>6. /\ kept[r] \subseteq Candidates(asked[r])
              /\ \A i \in 1..Len(Suffixes[asked[r]]) :
                    Suffixes[asked[r]][i] \in kept[r] => next[r] <= i
            BY <1>1, <1>2 DEF LookupsInStep
        <3>7. Len(Suffixes[asked[r]]) \in Nat /\ next[r] \in Nat
            BY <1>1, <1>2, <1>3
        <3>2. ASSUME NEW i \in 1..Len(Suffixes[asked[r]]) PROVE Suffixes[asked[r]][i] \notin kept[r]
            <4>1. ~(next[r] <= i)
                BY <3>1, <3>7
            <4> QED
                BY <3>6, <4>1
        <3> QED
            BY <3>2, <3>6 DEF Candidates
    <2>6. AllowedWasListed' /\ KeptIsAllowed'
        BY <1>1, <1>2, <2>1, <2>2, <2>4, <2>5 DEF AllowedWasListed, KeptIsAllowed, TypeOK
    <2> QED
        BY <1>4, <1>6, <2>3, <2>6 DEF IInv
<1> QED
    BY <1>5, <1>7, <1>8

LEMMA NextInv == IInv /\ [Next]_vars => IInv'
<1> SUFFICES ASSUME IInv, [Next]_vars PROVE IInv'
    OBVIOUS
<1>1. CASE UNCHANGED vars
    <2>1. UNCHANGED <<table, filter, source, loaded, serving, loader, list, outcome, asking, asked,
                      next, answer, writer, seen, kept, runs>>
        BY <1>1 DEF vars, filterVars, lookupVars
    <2> QED
        BY <2>1 DEF IInv, TypeOK, FilterMatches, LookupsInStep, EventsInStep,
            AllowedWasListed, KeptIsAllowed, CompletedIsLoaded
<1>2. Updater \in Processes
    BY WhitelistAssumption
<1> QED
    BY <1>1, <1>2, LoadStepsKeepInv, WriteKeepsInv, FilterStepsKeepInv, BeginKeepsInv,
        LookupKeepsInv DEF Next, Load

THEOREM InvHolds == Spec => []IInv
BY InitInv, NextInv, PTL DEF Spec

\* The state is well typed; in particular every filter is one Build makes.
THEOREM WhitelistTypeCorrect == Spec => []TypeOK
<1>1. IInv => TypeOK
    BY DEF IInv
<1> QED
    BY <1>1, InvHolds, PTL

\* IsAllowed lets through only what was listed while it ran, whatever the filter
\* takes for listed.
THEOREM FilterIsVerified == Spec => []AllowedWasListed
<1>1. IInv => AllowedWasListed
    BY DEF IInv
<1> QED
    BY <1>1, InvHolds, PTL

\* A suffix on every list and in the filter is not passed over, for any hash
\* function, any lists and any interleaving of updates, restarts and lookups.
THEOREM UpdatesDenyNothing == Spec => []KeptIsAllowed
<1>1. IInv => KeptIsAllowed
    BY DEF IInv
<1> QED
    BY <1>1, InvHolds, PTL

\* A completed update leaves the updater's filter in step with the table.
THEOREM UpdateLoads == Spec => []CompletedIsLoaded
<1>1. IInv => CompletedIsLoaded
    BY DEF IInv
<1> QED
    BY <1>1, InvHolds, PTL

-----------------------------------------------------------------------------
(* Loads and lookups get on: what NoStandstill rests on, besides fairness *)

\* A lookup asks for one suffix after another and at most once for each.
InRange == \A r \in asking : next[r] <= Len(Suffixes[asked[r]]) + 1

LookupsGetOn ==
    \A r \in asking :
        \/ r \notin asking'
        \/ /\ asked'[r] = asked[r]
           /\ next'[r] = IF Lookup(r) THEN next[r] + 1 ELSE next[r]

\* The steps a load may still take.
LoadSteps(where) == CASE where \in {"downloading"} -> 4
                      [] where \in {"writing"} -> 3
                      [] where \in {"reading"} -> 2
                      [] where \in {"locking"} -> 1
                      [] OTHER -> 0

LoadsGetOn ==
    \A p \in Processes : \/ loader[p] = "idle" \/ loader'[p] = loader[p]
                         \/ LoadSteps(loader'[p]) < LoadSteps(loader[p])

\* While a load waits for the write lock no lookup joins those that hold the lock.
HoldersLeave ==
    \A p \in Processes : loader[p] = "locking" =>
        {r \in asking' : Home[r] = p} \subseteq {r \in asking : Home[r] = p}

LEMMA LenOfSeq == ASSUME NEW S, NEW s \in Seq(S) PROVE Len(s) \in Nat
OBVIOUS

\* A load's own steps, and the stop of its process, touch no other process's load.
LEMMA LoadSide ==
    ASSUME TypeOK, NEW p \in Processes, Start(p) \/ Load(p) \/ Stop(p)
    PROVE  /\ LoadsGetOn
           /\ asking' \subseteq asking /\ asked' = asked /\ next' = next
<1> USE DEF Goes, Finish, LoadSteps, TypeOK
<1>1. CASE Start(p)
    BY <1>1 DEF Start, LoadsGetOn, lookupVars
<1>2. CASE Write(p) \/ WriteFails(p)
    BY <1>2 DEF Write, WriteFails, LoadsGetOn, lookupVars
<1>3. CASE Read(p) \/ ReadFails(p)
    BY <1>3 DEF Read, ReadFails, LoadsGetOn, lookupVars
<1>4. CASE Swap(p)
    BY <1>4 DEF Swap, LoadsGetOn, lookupVars
<1>5. CASE Stop(p)
    BY <1>5 DEF Stop, LoadsGetOn
<1> QED
    BY <1>1, <1>2, <1>3, <1>4, <1>5 DEF Load

LEMMA UpdateSide ==
    ASSUME TypeOK, Update \/ Download
    PROVE  LoadsGetOn /\ UNCHANGED lookupVars
<1> USE WhitelistAssumption DEF Goes, Finish, LoadSteps, TypeOK
<1>1. CASE Update
    BY <1>1 DEF Update, LoadsGetOn
<1>2. CASE Download
    BY <1>2 DEF Download, LoadsGetOn
<1> QED
    BY <1>1, <1>2

\* A lookup's own step answers, or passes on to the next suffix.
LEMMA LookupMoves ==
    ASSUME TypeOK, NEW r \in Readers, Lookup(r)
    PROVE  /\ r \in asking /\ asking' \subseteq asking /\ asked' = asked /\ loader' = loader
           /\ \/ r \notin asking' /\ next' = next
              \/ /\ next' = [next EXCEPT ![r] = next[r] + 1] /\ next'[r] = next[r] + 1
                 /\ next[r] <= Len(Suffixes[asked[r]])
<1>1. r \in asking /\ asked' = asked /\ loader' = loader
    BY DEF Lookup, Ask, AskFails, Deny
<1>2. \/ PassOn(r) /\ next[r] <= Len(Suffixes[asked[r]])
      \/ \E a \in {"yes", "no"} : Return(r, a)
    BY DEF Lookup, Ask, AskFails, Deny
<1> QED
    BY <1>1, <1>2 DEF PassOn, Return, TypeOK

\* One that begins was not among those that go on, and none of its process has to wait.
LEMMA BeginJoins ==
    ASSUME TypeOK, NEW r \in Readers, Begin(r)
    PROVE  /\ r \notin asking /\ asking' = asking \cup {r} /\ loader' = loader
           /\ loader[Home[r]] # "locking" /\ next'[r] = 1 /\ asked'[r] \in Domains
           /\ \A q \in asking : asked'[q] = asked[q] /\ next'[q] = next[q]
<1>1. PICK d \in Domains : asked' = [asked EXCEPT ![r] = d]
    BY DEF Begin
<1> QED
    BY <1>1 DEF Begin, TypeOK

\* Whatever is not a step of the lookup r leaves it alone, or ends it.
LEMMA LookupLeftAlone ==
    ASSUME TypeOK, [Next]_vars, NEW r \in asking, ~Lookup(r)
    PROVE  r \notin asking' \/ (asked'[r] = asked[r] /\ next'[r] = next[r])
<1>1. ASSUME NEW p \in Processes, Start(p) \/ Load(p) \/ Stop(p)
      PROVE  asked' = asked /\ next' = next
    BY <1>1, LoadSide
<1>2. CASE Update \/ Download
    BY <1>2, UpdateSide DEF lookupVars
<1>3. ASSUME NEW q \in Readers, Begin(q) PROVE asked'[r] = asked[r] /\ next'[r] = next[r]
    BY <1>3, BeginJoins
<1>4. ASSUME NEW q \in Readers, Lookup(q), q # r PROVE asked'[r] = asked[r] /\ next'[r] = next[r]
    BY <1>4, LookupMoves DEF TypeOK
<1>5. CASE UNCHANGED vars
    BY <1>5 DEF vars, lookupVars
<1> QED
    BY <1>1, <1>2, <1>3, <1>4, <1>5 DEF Next

LEMMA GetOnStep ==
    ASSUME TypeOK, [Next]_vars
    PROVE  LookupsGetOn /\ LoadsGetOn /\ HoldersLeave
<1>1. LookupsGetOn
    <2> SUFFICES ASSUME NEW r \in asking
                 PROVE  \/ r \notin asking'
                        \/ /\ asked'[r] = asked[r]
                           /\ next'[r] = IF Lookup(r) THEN next[r] + 1 ELSE next[r]
        BY DEF LookupsGetOn
    <2>1. ASSUME Lookup(r)
          PROVE  r \notin asking' \/ (asked'[r] = asked[r] /\ next'[r] = next[r] + 1)
        BY <2>1, LookupMoves DEF TypeOK
    <2>2. ASSUME ~Lookup(r)
          PROVE  r \notin asking' \/ (asked'[r] = asked[r] /\ next'[r] = next[r])
        BY <2>2, LookupLeftAlone
    <2> QED
        BY <2>1, <2>2
<1>2. ASSUME NEW p \in Processes, Start(p) \/ Load(p) \/ Stop(p)
      PROVE  LoadsGetOn /\ HoldersLeave
    BY <1>2, LoadSide DEF HoldersLeave
<1>3. CASE Update \/ Download
    BY <1>1, <1>3, UpdateSide DEF HoldersLeave, lookupVars
<1>4. ASSUME NEW r \in Readers, Begin(r) PROVE LoadsGetOn /\ HoldersLeave
    BY <1>4, BeginJoins DEF LoadsGetOn, HoldersLeave
<1>5. ASSUME NEW r \in Readers, Lookup(r) PROVE LoadsGetOn /\ HoldersLeave
    BY <1>5, LookupMoves DEF LoadsGetOn, HoldersLeave
<1>6. CASE UNCHANGED vars
    BY <1>1, <1>6 DEF vars, lookupVars, LoadsGetOn, HoldersLeave
<1> QED
    BY <1>1, <1>2, <1>3, <1>4, <1>5, <1>6 DEF Next

LEMMA InRangeStep == ASSUME TypeOK, InRange, [Next]_vars PROVE InRange'
<1>1. \A d \in Domains : Len(Suffixes[d]) \in Nat
    BY WhitelistAssumption, LenOfSeq
<1> SUFFICES ASSUME NEW r \in asking' PROVE next'[r] <= Len(Suffixes[asked'[r]]) + 1
    BY DEF InRange
<1>2. CASE r \in asking
    <2>1. asked[r] \in Domains /\ next[r] \in Nat /\ r \in Readers
        BY <1>2 DEF TypeOK
    <2>2. CASE Lookup(r)
        BY <1>1, <2>1, <2>2, LookupMoves
    <2>3. CASE ~Lookup(r)
        BY <1>2, <2>3, LookupLeftAlone DEF InRange
    <2> QED
        BY <2>2, <2>3
<1>3. CASE r \notin asking
    <2>1. PICK q \in Readers : Begin(q)
        <3>1. ASSUME NEW p \in Processes, Start(p) \/ Load(p) \/ Stop(p) PROVE FALSE
            BY <1>3, <3>1, LoadSide
        <3>2. ~(Update \/ Download \/ UNCHANGED vars)
            BY <1>3, UpdateSide DEF vars, lookupVars
        <3>3. ASSUME NEW q \in Readers, Lookup(q) PROVE FALSE
            BY <1>3, <3>3, LookupMoves
        <3> QED
            BY <3>1, <3>2, <3>3 DEF Next
    <2>2. r = q
        BY <1>3, <2>1, BeginJoins
    <2>3. next'[r] = 1 /\ asked'[r] \in Domains
        BY <2>1, <2>2, BeginJoins
    <2> QED
        BY <1>1, <2>3
<1> QED
    BY <1>2, <1>3

\* For every set of processes, readers and lists: a lookup asks for each suffix once and
\* is answered after the last, a load never goes back, and while it waits for the write
\* lock (whitelist.go:59) the lookups that hold the lock only become fewer.
THEOREM NothingHoldsUp ==
    Spec => []InRange /\ [][LookupsGetOn /\ LoadsGetOn /\ HoldersLeave]_vars
<1>1. Init => InRange
    BY DEF Init, InRange
<1>2. TypeOK /\ InRange /\ [Next]_vars => InRange'
    BY InRangeStep
<1>3. TypeOK /\ [Next]_vars => LookupsGetOn /\ LoadsGetOn /\ HoldersLeave
    BY GetOnStep
<1> QED
    BY <1>1, <1>2, <1>3, WhitelistTypeCorrect, PTL DEF Spec
=============================================================================
