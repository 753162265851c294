------------------------------ MODULE ClientPolicy ------------------------------
(***************************************************************************)
(* Policies by client (risk.Service.Policy and the tables it asks):        *)
(* administrators keep groups, mappings of clients to groups and override  *)
(* rules in SQLite through core-api; core-api and dns-resolver look them   *)
(* up query by query for every request.  The ranges (CIDR mappings) are    *)
(* matched in a list each process holds in memory, which core-api loads    *)
(* again after a change and dns-resolver loads when it starts.             *)
(***************************************************************************)
EXTENDS Integers, Sequences, FiniteSets

CONSTANTS
    Requests, Clients, Admins,
    Groups,       \* ids of the groups administrators may create
    Default,      \* id 1, the group named default
    Global,       \* the scope of local_overrides, beside those of the groups
    Direct,       \* a client's ID and address, as keys of mappings, in this order
    RangesOf,     \* the ranges a client's address is in
    RangeOrder,   \* the ranges in the order SQLite returns them
    Line,         \* a domain and its parents, nearest first
    Whitelisted,  \* the domains on the whitelist
    Threats,      \* what the assessment of a domain may report, as sets of traits
    Settings,     \* what a group may be set to block, as sets of traits
    Failing,      \* what may fail: "store", "reload", "foreignKeys", "restart"
    MaxChanges    \* bound: changes administrators make

Domains == DOMAIN Line
Keys == UNION {{Direct[c][i] : i \in DOMAIN Direct[c]} : c \in Clients}
Ranges == {RangeOrder[i] : i \in DOMAIN RangeOrder}
AllGroups == Groups \cup {Default}
Names == UNION {{Line[d][i] : i \in DOMAIN Line[d]} : d \in Domains}
Rows == (AllGroups \cup {Global}) \X Names
Processes == {"core", "dns"}
Builtin == {"malware"}
None == "none"

ASSUME PolicyAssumption ==
    /\ Clients # {} /\ Domains # {}
    /\ Default \notin Groups /\ Global \notin AllGroups /\ None \notin AllGroups
    /\ \A c \in Clients : Direct[c] \in Seq(Keys)
    /\ RangesOf \in [Clients -> SUBSET Ranges]
    /\ Keys \cap Ranges = {}
    /\ \A i, j \in DOMAIN RangeOrder : RangeOrder[i] = RangeOrder[j] => i = j
    /\ \A d \in Domains : Line[d] \in Seq(Names) /\ Len(Line[d]) > 0
    /\ \A d \in Domains : \A i, j \in DOMAIN Line[d] : Line[d][i] = Line[d][j] => i = j
    /\ Builtin \in Settings
    /\ \A d \in Domains : Threats[d] \subseteq SUBSET UNION Settings
    /\ Failing \subseteq {"store", "reload", "foreignKeys", "restart"}
    /\ MaxChanges \in Nat

VARIABLES
    groups,      \* client_groups: the ids
    used,        \* ids given out so far (AUTOINCREMENT gives none twice)
    early,       \* history: ids a mapping or a rule named before they were given
    blocks,      \* client_groups: what each group blocks
    mapping,     \* client_mappings: the group of a key or range, or None
    rules,       \* group_overrides and local_overrides: an action, or None
    list,        \* cidrCache of each process: the group of a range, or None
    handler,     \* what each administrator's request does: "idle", "loading",
                 \* "installing"
    loaded,      \* the list it has read from the table
    overlapped,  \* history: the last reload began before an older one was
                 \* installed, or one has failed since
    req,         \* the requests, see Request
    changes      \* changes made so far

tableVars == <<groups, used, early, blocks, mapping, rules>>
listVars == <<list, handler, loaded, overlapped>>
vars == <<tableVars, listVars, req, changes>>

Request == [
    pc : {"idle", "keys", "ranges", "group", "rules", "whitelist", "assess", "done"},
    at : Processes, client : Clients, domain : Domains,
    next : Nat,                           \* index of the key or row asked for next
    group : AllGroups,                    \* first what a mapping says, then in force
    settings : SUBSET UNION Settings,     \* what that group blocks
    rule : SUBSET Rows,                   \* the row that decided, if any
    threat : SUBSET UNION Settings,       \* what the assessment reported
    answer : {"none", "allow", "block"},
    standing : SUBSET Rows,               \* history: rules in force since the start
    quiet : BOOLEAN]                      \* history: nothing changed or failed since

\* Every variable has its type; the group with id 1 is always there.
TypeOK ==
    /\ groups \subseteq AllGroups /\ Default \in groups
    /\ used \subseteq Groups /\ early \subseteq Groups
    /\ blocks \in [AllGroups -> Settings]
    /\ mapping \in [Keys \cup Ranges -> AllGroups \cup {None}]
    /\ rules \in [Rows -> {None, "allow", "block"}]
    /\ list \in [Processes -> [Ranges -> AllGroups \cup {None}]]
    /\ handler \in [Admins -> {"idle", "loading", "installing"}]
    /\ loaded \in [Admins -> [Ranges -> AllGroups \cup {None}]]
    /\ overlapped \in BOOLEAN
    /\ req \in [Requests -> Request]
    /\ changes \in Nat

Unmapped == [k \in Ranges |-> None]

NoRequest == [pc |-> "idle", at |-> "core", client |-> CHOOSE c \in Clients : TRUE,
              domain |-> CHOOSE d \in Domains : TRUE, next |-> 1, group |-> Default,
              settings |-> {}, rule |-> {}, threat |-> {}, answer |-> "none",
              standing |-> {}, quiet |-> TRUE]

\* A new database, into which CreateDefaultGroups has put the default group, or one
\* with groups made by an earlier run.
Init ==
    /\ used \in SUBSET Groups
    /\ groups = used \cup {Default}
    /\ early = {}
    /\ blocks = [g \in AllGroups |-> Builtin]
    /\ mapping = [k \in Keys \cup Ranges |-> None]
    /\ rules = [x \in Rows |-> None]
    /\ list = [p \in Processes |-> Unmapped]
    /\ handler = [a \in Admins |-> "idle"]
    /\ loaded = [a \in Admins |-> Unmapped]
    /\ overlapped = FALSE
    /\ req = [r \in Requests |-> NoRequest]
    /\ changes = 0

-----------------------------------------------------------------------------
(* Policy *)

InForce == {x \in Rows : rules[x] # None}

\* Request r is now q.
Becomes(r, q) == req' = [req EXCEPT ![r] = q]

Begin(r) ==
    /\ req[r].pc = "idle"
    /\ \E p \in Processes, c \in Clients, d \in Domains :
          Becomes(r, [NoRequest EXCEPT
                        !.pc = IF Direct[c] = <<>> THEN "ranges" ELSE "keys",
                        !.at = p, !.client = c, !.domain = d, !.standing = InForce])
    /\ UNCHANGED <<tableVars, listVars, changes>>

\* Mutant: the address is looked up before the client ID.
LastKeyFirst(r) == LET keys == Direct[req[r].client] IN keys[Len(keys) + 1 - req[r].next]

\* The client's ID, then its address.
Key(r) == Direct[req[r].client][req[r].next]

\* One query of GetGroupForClient; an error is taken for "no row".
AskKey(r) ==
    /\ req[r].pc = "keys"
    /\ \/ /\ mapping[Key(r)] # None
          /\ Becomes(r, [req[r] EXCEPT !.pc = "group", !.group = mapping[Key(r)]])
       \/ /\ mapping[Key(r)] = None \/ "store" \in Failing
          /\ Becomes(r, [req[r] EXCEPT
                !.pc = IF req[r].next < Len(Direct[req[r].client])
                       THEN "keys" ELSE "ranges",
                !.next = @ + 1,
                !.quiet = @ /\ mapping[Key(r)] = None])
    /\ UNCHANGED <<tableVars, listVars, changes>>

\* The first range of a list that holds the client's address, as a set.
FirstMatch(c, groupOf) ==
    LET matches == {i \in DOMAIN RangeOrder :
                        RangeOrder[i] \in RangesOf[c] /\ groupOf[RangeOrder[i]] # None}
    IN  {RangeOrder[i] : i \in {i \in matches : \A j \in matches : i <= j}}

\* The list in memory is searched; without a match the default group is asked for.
MatchRange(r) ==
    /\ req[r].pc = "ranges"
    /\ LET found == FirstMatch(req[r].client, list[req[r].at])
       IN  Becomes(r, [req[r] EXCEPT
                        !.pc = "group",
                        !.group = IF found = {} THEN Default
                                  ELSE list[req[r].at][CHOOSE k \in found : TRUE]])
    /\ UNCHANGED <<tableVars, listVars, changes>>

\* GetGroup or GetGroupByName; Policy falls back to a built-in default group.
GetGroup(r) ==
    /\ req[r].pc = "group"
    /\ \/ /\ req[r].group \in groups
          /\ Becomes(r, [req[r] EXCEPT !.pc = "rules", !.next = 1,
                                       !.settings = blocks[req[r].group]])
       \/ /\ req[r].group \notin groups \/ "store" \in Failing
          /\ Becomes(r, [req[r] EXCEPT !.pc = "rules", !.next = 1,
                                       !.group = Default, !.settings = Builtin,
                                       !.quiet = @ /\ req[r].group \notin groups])
    /\ UNCHANGED <<tableVars, listVars, changes>>

\* Mutant: rules for everybody come before those of the group.
GlobalFirst(r, n) ==
    <<IF n % 2 = 1 THEN Global ELSE req[r].group, Line[req[r].domain][(n + 1) \div 2]>>

\* The n-th row GetEffectiveOverride asks for: for each name from the domain
\* upwards the group's rule, then everybody's.
RowAt(r, n) ==
    <<IF n % 2 = 1 THEN req[r].group ELSE Global, Line[req[r].domain][(n + 1) \div 2]>>

\* One query of GetEffectiveOverride: the row decides, or the next is asked for.
AskRule(r) ==
    /\ req[r].pc = "rules"
    /\ LET row == RowAt(r, req[r].next)
       IN  \/ /\ rules[row] # None
              /\ Becomes(r, [req[r] EXCEPT !.pc = "done", !.rule = {row},
                                           !.answer = rules[row]])
           \/ /\ rules[row] = None
              /\ Becomes(r, [req[r] EXCEPT
                    !.pc = IF req[r].next < 2 * Len(Line[req[r].domain])
                           THEN "rules" ELSE "whitelist",
                    !.next = @ + 1])
    /\ UNCHANGED <<tableVars, listVars, changes>>

\* An error ends the lookup as if there were no rule.
AskRuleFails(r) ==
    /\ req[r].pc = "rules" /\ "store" \in Failing
    /\ Becomes(r, [req[r] EXCEPT !.pc = "whitelist", !.quiet = FALSE, !.standing = {}])
    /\ UNCHANGED <<tableVars, listVars, changes>>

InWhitelist(d) == \E i \in DOMAIN Line[d] : Line[d][i] \in Whitelisted

\* IsAllowed: an error of the table behind the Bloom filter is taken for "no".
Whitelist(r) ==
    /\ req[r].pc = "whitelist"
    /\ \/ /\ InWhitelist(req[r].domain)
          /\ Becomes(r, [req[r] EXCEPT !.pc = "done", !.answer = "allow"])
       \/ /\ ~InWhitelist(req[r].domain) \/ "store" \in Failing
          /\ Becomes(r, [req[r] EXCEPT !.pc = "assess",
                                       !.quiet = @ /\ ~InWhitelist(req[r].domain)])
    /\ UNCHANGED <<tableVars, listVars, changes>>

\* analyze, and the enforcement of the group's settings.
Enforce(r) ==
    /\ req[r].pc = "assess"
    /\ \E t \in Threats[req[r].domain] :
          Becomes(r, [req[r] EXCEPT !.pc = "done", !.threat = t,
                        !.answer = IF t \cap req[r].settings # {} THEN "block"
                                   ELSE "allow"])
    /\ UNCHANGED <<tableVars, listVars, changes>>

Respond(r) ==
    /\ req[r].pc = "done"
    /\ Becomes(r, NoRequest)
    /\ UNCHANGED <<tableVars, listVars, changes>>

-----------------------------------------------------------------------------
(* The tables, changed through core-api *)

\* What a change means to the requests under way: they are no longer quiet, and
\* the rows it deletes have not stood since they began.
Disturb(rows) ==
    req' = [r \in Requests |->
              IF req[r].pc = "idle" THEN req[r]
              ELSE [req[r] EXCEPT !.quiet = FALSE, !.standing = @ \ rows]]

Change == changes < MaxChanges /\ changes' = changes + 1

InsertGroup(g, s) ==
    /\ Change
    /\ groups' = groups \cup {g}
    /\ used' = used \cup {g}
    /\ blocks' = [blocks EXCEPT ![g] = s]
    /\ Disturb({})
    /\ UNCHANGED <<early, mapping, rules, listVars>>

\* Mutant: without AUTOINCREMENT SQLite may give the id of a deleted row again.
CreateGroupAgain(g, s) == g \notin groups /\ InsertGroup(g, s)

CreateGroup(g, s) == g \notin used /\ InsertGroup(g, s)

UpdateGroup(g, s) ==
    /\ Change
    /\ g \in groups
    /\ blocks' = [blocks EXCEPT ![g] = s]
    /\ Disturb({})
    /\ UNCHANGED <<groups, used, early, mapping, rules, listVars>>

RowsOf(g) == {x \in Rows : x[1] = g}

\* The row goes, and with it what refers to it, unless the connection taken from
\* the pool is one on which foreign_keys was never switched on.
RemoveGroup(g) ==
    /\ Change
    /\ g \in groups
    /\ groups' = groups \ {g}
    /\ \/ /\ mapping' = [k \in DOMAIN mapping |->
                            IF mapping[k] = g THEN None ELSE mapping[k]]
          /\ rules' = [x \in Rows |-> IF x[1] = g THEN None ELSE rules[x]]
          /\ Disturb(RowsOf(g))
       \/ /\ "foreignKeys" \in Failing
          /\ Disturb({})
          /\ UNCHANGED <<mapping, rules>>
    /\ UNCHANGED <<used, early, blocks, listVars>>

DeleteGroup(g) == g # Default /\ RemoveGroup(g)

\* A row may name a group that does not exist only where the keys are not enforced.
MayName(g) ==
    /\ g \in groups \/ "foreignKeys" \in Failing
    /\ early' = early \cup ({g} \ (used \cup {Default}))

\* The mappings are UNIQUE; after a new range the handler reloads the list.
AddMapping(a, k, g) ==
    /\ Change
    /\ handler[a] = "idle" /\ mapping[k] = None
    /\ MayName(g)
    /\ mapping' = [mapping EXCEPT ![k] = g]
    /\ handler' = [handler EXCEPT ![a] = IF k \in Ranges THEN "loading" ELSE @]
    /\ Disturb({})
    /\ UNCHANGED <<groups, used, blocks, rules, list, loaded, overlapped>>

RemoveMapping(a, k) ==
    /\ Change
    /\ handler[a] = "idle" /\ mapping[k] # None
    /\ mapping' = [mapping EXCEPT ![k] = None]
    /\ Disturb({})
    /\ UNCHANGED <<groups, used, early, blocks, rules, list, loaded, overlapped>>

\* Mutant: the list is not reloaded.
DeleteMappingOnly(a, k) == RemoveMapping(a, k) /\ UNCHANGED handler

\* After any mapping is deleted the handler reloads the list.
DeleteMapping(a, k) ==
    /\ RemoveMapping(a, k)
    /\ handler' = [handler EXCEPT ![a] = "loading"]

\* UpsertGroupOverride, and UpsertOverride for everybody's rules.
SetRule(x, action) ==
    /\ Change
    /\ IF x[1] = Global THEN UNCHANGED early ELSE MayName(x[1])
    /\ rules' = [rules EXCEPT ![x] = action]
    /\ Disturb({})
    /\ UNCHANGED <<groups, used, blocks, mapping, listVars>>

\* DeleteGroupOverride and DeleteOverride.
DeleteRule(x) ==
    /\ Change
    /\ rules[x] # None
    /\ rules' = [rules EXCEPT ![x] = None]
    /\ Disturb({x})
    /\ UNCHANGED <<groups, used, early, blocks, mapping, listVars>>

-----------------------------------------------------------------------------
(* loadCIDRCache *)

InTable == [k \in Ranges |-> mapping[k]]

\* The handler reads the ranges; it ignores an error.
Load(a) ==
    /\ handler[a] = "loading"
    /\ \/ /\ handler' = [handler EXCEPT ![a] = "installing"]
          /\ loaded' = [loaded EXCEPT ![a] = InTable]
          /\ overlapped' = (\E b \in Admins \ {a} : handler[b] = "installing")
       \/ /\ "reload" \in Failing
          /\ handler' = [handler EXCEPT ![a] = "idle"]
          /\ overlapped' = TRUE
          /\ UNCHANGED loaded
    /\ UNCHANGED <<tableVars, list, req, changes>>

\* Under the lock, which it takes only now, it puts them in place of the list.
Install(a) ==
    /\ handler[a] = "installing"
    /\ handler' = [handler EXCEPT ![a] = "idle"]
    /\ list' = [list EXCEPT !["core"] = loaded[a]]
    /\ loaded' = [loaded EXCEPT ![a] = Unmapped]
    /\ req' = [r \in Requests |->
                 IF req[r].pc # "idle" /\ req[r].at = "core"
                 THEN [req[r] EXCEPT !.quiet = FALSE] ELSE req[r]]
    /\ UNCHANGED <<tableVars, overlapped, changes>>

\* A process stops, its requests with it, and starts again: New loads the list.
Restart(p) ==
    /\ "restart" \in Failing
    /\ list' = [list EXCEPT ![p] = InTable]
    /\ req' = [r \in Requests |-> IF req[r].at = p THEN NoRequest ELSE req[r]]
    /\ IF p = "core"
       THEN /\ handler' = [a \in Admins |-> "idle"]
            /\ loaded' = [a \in Admins |-> Unmapped]
            /\ overlapped' = FALSE
       ELSE UNCHANGED <<handler, loaded, overlapped>>
    /\ UNCHANGED <<tableVars, changes>>

Next ==
    \/ \E r \in Requests :
          Begin(r) \/ AskKey(r) \/ MatchRange(r) \/ GetGroup(r) \/ AskRule(r)
          \/ AskRuleFails(r) \/ Whitelist(r) \/ Enforce(r) \/ Respond(r)
    \/ \E g \in Groups, s \in Settings : CreateGroup(g, s)
    \/ \E g \in AllGroups : DeleteGroup(g) \/ \E s \in Settings : UpdateGroup(g, s)
    \/ \E a \in Admins, k \in Keys \cup Ranges :
          DeleteMapping(a, k) \/ \E g \in AllGroups : AddMapping(a, k, g)
    \/ \E x \in Rows : DeleteRule(x) \/ \E act \in {"allow", "block"} : SetRule(x, act)
    \/ \E a \in Admins : Load(a) \/ Install(a)
    \/ \E p \in Processes : Restart(p)

Spec == Init /\ [][Next]_vars

-----------------------------------------------------------------------------
(* Properties *)

\* How near a row's name is to a domain.
Distance(d, x) == CHOOSE i \in DOMAIN Line[d] : Line[d][i] = x[2]

\* The rows that concern a domain asked for by a client of group g.
Concerning(g, d) ==
    {x \in Rows : x[1] \in {g, Global} /\ \E i \in DOMAIN Line[d] : Line[d][i] = x[2]}

\* Row x goes before row y: the nearer name, then the group before everybody.
Before(x, y, d) ==
    \/ Distance(d, x) < Distance(d, y)
    \/ Distance(d, x) = Distance(d, y) /\ x[1] # Global /\ y[1] = Global

\* GetEffectiveOverride asks row by row while administrators change rows: of the
\* rules that stood all the while, it never passes over one for a lesser one, or
\* for none.
RulesInOrder ==
    \A r \in Requests :
        req[r].pc \in {"whitelist", "assess", "done"} =>
            \A x \in req[r].standing \cap Concerning(req[r].group, req[r].domain) :
                \E y \in req[r].rule : y = x \/ Before(y, x, req[r].domain)

\* The group the tables give a client: that of its ID, else of its address, else of
\* the first range it is in, else the default group.
GroupOf(c) ==
    LET named == {i \in DOMAIN Direct[c] : mapping[Direct[c][i]] # None}
        ranges == FirstMatch(c, mapping)
    IN  IF named # {}
        THEN mapping[Direct[c][CHOOSE i \in named : \A j \in named : i <= j]]
        ELSE IF ranges # {} THEN mapping[CHOOSE k \in ranges : TRUE] ELSE Default

\* What the tables decide of a domain, given what its assessment reports.
Decision(c, d, threat) ==
    LET g == GroupOf(c)
        there == g \in groups
        rows == InForce \cap Concerning(IF there THEN g ELSE Default, d)
        first == CHOOSE x \in rows : \A y \in rows \ {x} : Before(x, y, d)
    IN  IF rows # {} THEN rules[first]
        ELSE IF InWhitelist(d) THEN "allow"
        ELSE IF threat \cap (IF there THEN blocks[g] ELSE Builtin) # {} THEN "block"
        ELSE "allow"

\* A request during which nothing changed or failed, in a process whose list agrees
\* with the table, is answered as the tables decide.
DecidesByTables ==
    \A r \in Requests :
        req[r].pc = "done" /\ req[r].quiet /\ list[req[r].at] = InTable
        => req[r].answer = Decision(req[r].client, req[r].domain, req[r].threat)

\* When no reload is under way, and the last did not overlap another and did not
\* fail, core-api's list is that of the table, but for ranges of deleted groups
\* (which stay in it until the next reload).
ListFollowsTable ==
    ~overlapped /\ (\A a \in Admins : handler[a] = "idle")
    => \A k \in Ranges :
          list["core"][k] # mapping[k] =>
              mapping[k] = None /\ list["core"][k] \notin groups

\* Deleting a group leaves entries behind (in the lists, and in the tables where
\* foreign keys are not enforced): a group created later takes over none of them,
\* unless an administrator gave its id before there was such a group.
NewGroupsStartEmpty ==
    [][\A g \in groups' \ (groups \cup early) :
          /\ \A k \in DOMAIN mapping : mapping[k] # g
          /\ \A p \in Processes, k \in Ranges : list[p][k] # g
          /\ \A a \in Admins, k \in Ranges : loaded[a][k] # g
          /\ \A x \in RowsOf(g) : rules[x] = None]_vars
=============================================================================
