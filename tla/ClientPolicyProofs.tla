--------------------------- MODULE ClientPolicyProofs ---------------------------
(***************************************************************************)
(* Proofs about ClientPolicy, for all clients, groups, lines of domains    *)
(* and numbers of requests and changes.                                    *)
(***************************************************************************)
EXTENDS ClientPolicy, TLAPS

-----------------------------------------------------------------------------
(* Typing *)

\* What is asked for next exists.
InRange(q) ==
    /\ q.pc = "keys" => q.next \in DOMAIN Direct[q.client]
    /\ q.pc = "rules" => q.next \in 1..(2 * Len(Line[q.domain]))

NextExists == \A r \in Requests : InRange(req[r])

TypeInv == TypeOK /\ NextExists

LEMMA NoRequestType == NoRequest \in Request
BY PolicyAssumption DEF NoRequest, Request, AllGroups, Processes

LEMMA KeyType ==
    ASSUME TypeInv, NEW r \in Requests, req[r].pc = "keys"
    PROVE  /\ Key(r) \in Keys
           /\ mapping[Key(r)] \in AllGroups \cup {None}
<1>1. req[r].client \in Clients /\ Direct[req[r].client] \in Seq(Keys)
    BY PolicyAssumption DEF TypeInv, TypeOK, Request
<1>2. Key(r) \in Keys
    BY <1>1 DEF TypeInv, NextExists, InRange, Key
<1> QED
    BY <1>2 DEF TypeInv, TypeOK

\* The n-th row of a lookup, and the position of a row in it.
LEMMA RowType ==
    ASSUME NEW r \in Requests, req[r] \in Request,
           NEW n \in 1..(2 * Len(Line[req[r].domain]))
    PROVE  RowAt(r, n) \in Concerning(req[r].group, req[r].domain)
<1>1. req[r].domain \in Domains /\ req[r].group \in AllGroups
    BY DEF Request
<1>2. Len(Line[req[r].domain]) \in Nat /\ n \in Nat
    BY <1>1
<1>. USE PolicyAssumption
<1>3. (n + 1) \div 2 \in 1..Len(Line[req[r].domain])
    BY <1>2
<1>4. Line[req[r].domain][(n + 1) \div 2] \in Names
    BY <1>1, <1>3
<1> QED
    BY <1>1, <1>3, <1>4 DEF RowAt, Concerning, Rows

LEMMA FirstMatchType ==
    ASSUME NEW c \in Clients, NEW groupOf
    PROVE  FirstMatch(c, groupOf) \subseteq {k \in Ranges : groupOf[k] # None}
BY DEF FirstMatch, Ranges

LEMMA DisturbRequest ==
    ASSUME TypeInv, NEW rows, Disturb(rows), NEW r \in Requests
    PROVE  /\ req'[r] \in Request
           /\ \A f \in DOMAIN req[r] \ {"quiet", "standing"} : req'[r][f] = req[r][f]
           /\ req[r].pc # "idle" => ~req'[r].quiet
           /\ req'[r].standing =
                 IF req[r].pc = "idle" THEN req[r].standing ELSE req[r].standing \ rows
<1> DEFINE q == req[r]
           t == [q EXCEPT !.quiet = FALSE, !.standing = @ \ rows]
<1>1. q \in Request
    BY DEF TypeInv, TypeOK
<1>2. t \in Request /\ ~t.quiet /\ t.standing = q.standing \ rows
    BY <1>1 DEF Request
<1>3. \A f \in DOMAIN q \ {"quiet", "standing"} : t[f] = q[f]
    BY <1>1 DEF Request
<1>4. req'[r] = IF q.pc = "idle" THEN q ELSE t
    BY DEF Disturb
<1> QED
    BY <1>1, <1>2, <1>3, <1>4

LEMMA DisturbType ==
    ASSUME TypeInv, NEW rows, Disturb(rows)
    PROVE  req' \in [Requests -> Request] /\ NextExists'
<1>1. ASSUME NEW r \in Requests
      PROVE  /\ req'[r] \in Request
             /\ req'[r].pc = req[r].pc /\ req'[r].next = req[r].next
             /\ req'[r].client = req[r].client /\ req'[r].domain = req[r].domain
    <2>1. {"pc", "next", "client", "domain"} \subseteq DOMAIN req[r] \ {"quiet", "standing"}
        BY DEF TypeInv, TypeOK, Request
    <2> QED
        BY <2>1, DisturbRequest
<1>2. req' \in [Requests -> Request]
    BY <1>1 DEF Disturb
<1> QED
    BY <1>1, <1>2 DEF TypeInv, NextExists, InRange

LEMMA InitType == Init => TypeInv
<1> SUFFICES ASSUME Init PROVE TypeInv
    OBVIOUS
<1>1. req \in [Requests -> Request]
    BY NoRequestType DEF Init
<1>2. NextExists
    BY DEF Init, NextExists, InRange, NoRequest
<1>3. TypeOK
    BY <1>1, PolicyAssumption DEF Init, TypeOK, AllGroups, Unmapped, Processes
<1> QED
    BY <1>2, <1>3 DEF TypeInv

RequestStep(r) ==
    Begin(r) \/ AskKey(r) \/ MatchRange(r) \/ GetGroup(r) \/ AskRule(r)
    \/ AskRuleFails(r) \/ Whitelist(r) \/ Enforce(r) \/ Respond(r)

\* A request's step changes only this request.
LEMMA StepChanges ==
    ASSUME TypeInv, NEW r \in Requests, RequestStep(r)
    PROVE  /\ req' = [req EXCEPT ![r] = req'[r]]
           /\ UNCHANGED <<tableVars, listVars, changes>>
<1>1. req \in [Requests -> Request]
    BY DEF TypeInv, TypeOK
<1> QED
    BY <1>1 DEF Becomes, RequestStep, Begin, AskKey, MatchRange, GetGroup, AskRule,
        AskRuleFails, Whitelist, Enforce, Respond

LEMMA Becoming ==
    ASSUME TypeInv, NEW r \in Requests, NEW q, Becomes(r, q)
    PROVE  req'[r] = q
BY DEF TypeInv, TypeOK, Becomes

LEMMA StepType ==
    ASSUME TypeInv, NEW r \in Requests, RequestStep(r)
    PROVE  req'[r] \in Request /\ InRange(req'[r])
<1> DEFINE q == req[r]
<1>0. q \in Request
    BY DEF TypeInv, TypeOK
<1>1. /\ q \in Request /\ InRange(q)
      /\ q.at \in Processes /\ q.client \in Clients /\ q.domain \in Domains
      /\ blocks \in [AllGroups -> Settings]
      /\ rules \in [Rows -> {None, "allow", "block"}]
      /\ \A p \in Processes : list[p] \in [Ranges -> AllGroups \cup {None}]
    BY DEF TypeInv, TypeOK, NextExists, Request
<1>2. CASE Begin(r)
    <2>1. PICK p \in Processes, c \in Clients, d \in Domains :
            Becomes(r, [NoRequest EXCEPT
                    !.pc = IF Direct[c] = <<>> THEN "ranges" ELSE "keys",
                    !.at = p, !.client = c, !.domain = d, !.standing = InForce])
        BY <1>2 DEF Begin
    <2> DEFINE to == IF Direct[c] = <<>> THEN "ranges" ELSE "keys"
    <2>2. to \in {"ranges", "keys"} /\ (to = "keys" => 1 \in DOMAIN Direct[c])
        BY PolicyAssumption
    <2>3. InForce \in SUBSET Rows
        BY DEF InForce
    <2> HIDE DEF to
    <2>4. req'[r] = [NoRequest EXCEPT !.pc = to, !.at = p, !.client = c, !.domain = d,
                                      !.standing = InForce]
        BY <2>1, Becoming DEF to
    <2>5. NoRequest.next = 1
        BY DEF NoRequest
    <2>6. req'[r] \in Request
        BY <2>2, <2>3, <2>4, NoRequestType DEF Request
    <2>7. InRange(req'[r])
        BY <2>2, <2>4, <2>5, NoRequestType DEF Request, InRange
    <2> QED
        BY <2>6, <2>7
<1>3. CASE AskKey(r)
    <2>1. CASE Becomes(r, [q EXCEPT !.pc = "group", !.group = mapping[Key(r)]])
               /\ mapping[Key(r)] # None
        <3>1. req'[r] = [q EXCEPT !.pc = "group", !.group = mapping[Key(r)]]
            BY <2>1, Becoming
        <3>2. mapping[Key(r)] \in AllGroups
            BY <1>3, <2>1, KeyType DEF AskKey
        <3> QED
            BY <1>1, <3>1, <3>2 DEF Request, InRange
    <2>2. CASE Becomes(r, [q EXCEPT
                !.pc = IF q.next < Len(Direct[q.client]) THEN "keys" ELSE "ranges",
                !.next = @ + 1, !.quiet = @ /\ mapping[Key(r)] = None])
        <3>1. req'[r] = [q EXCEPT
                !.pc = IF q.next < Len(Direct[q.client]) THEN "keys" ELSE "ranges",
                !.next = @ + 1, !.quiet = @ /\ mapping[Key(r)] = None]
            BY <2>2, Becoming
        <3>2. q.next \in Nat /\ Len(Direct[q.client]) \in Nat
              /\ DOMAIN Direct[q.client] = 1..Len(Direct[q.client])
              /\ q.next \in DOMAIN Direct[q.client]
            BY <1>1, <1>3 DEF Request, InRange, AskKey
        <3> DEFINE to == IF q.next < Len(Direct[q.client]) THEN "keys" ELSE "ranges"
                   b == q.quiet /\ mapping[Key(r)] = None
                   n == q.next + 1
        <3>3. to \in {"keys", "ranges"} /\ b \in BOOLEAN /\ n \in Nat
              /\ (to = "keys" => n \in DOMAIN Direct[q.client])
            BY <1>1, <3>2 DEF Request
        <3> HIDE DEF to, b, n
        <3>4. req'[r] = [q EXCEPT !.pc = to, !.next = n, !.quiet = b]
            BY <3>1 DEF to, b, n
        <3>5. [q EXCEPT !.pc = to, !.next = n, !.quiet = b] \in Request
            BY <1>0, <3>3 DEF Request
        <3>6. InRange(req'[r])
            BY <1>1, <3>3, <3>4 DEF Request, InRange
        <3> QED
            BY <3>4, <3>5, <3>6
    <2> QED
        BY <1>3, <2>1, <2>2 DEF AskKey
<1>4. CASE MatchRange(r)
    <2> DEFINE found == FirstMatch(q.client, list[q.at])
               g == IF found = {} THEN Default
                    ELSE list[q.at][CHOOSE k \in found : TRUE]
    <2>1. g \in AllGroups
        BY <1>1, FirstMatchType DEF AllGroups
    <2>2. Becomes(r, [q EXCEPT !.pc = "group", !.group = g])
        BY <1>4 DEF MatchRange
    <2> HIDE DEF g
    <2>3. req'[r] = [q EXCEPT !.pc = "group", !.group = g]
        BY <2>2, Becoming
    <2> QED
        BY <1>1, <2>1, <2>3 DEF Request, InRange
<1>5. CASE GetGroup(r)
    <2>1. PICK g \in AllGroups, s \in Settings, b \in BOOLEAN :
            Becomes(r, [q EXCEPT !.pc = "rules", !.next = 1, !.group = g,
                                 !.settings = s, !.quiet = b])
        <3>1. CASE q.group \in groups
                   /\ Becomes(r, [q EXCEPT !.pc = "rules", !.next = 1,
                                           !.settings = blocks[q.group]])
            <4>1. q.group \in AllGroups /\ blocks[q.group] \in Settings /\ q.quiet \in BOOLEAN
                BY <1>1 DEF Request
            <4>2. [q EXCEPT !.pc = "rules", !.next = 1, !.settings = blocks[q.group]] =
                  [q EXCEPT !.pc = "rules", !.next = 1, !.group = q.group,
                            !.settings = blocks[q.group], !.quiet = q.quiet]
                BY <1>1 DEF Request
            <4> QED
                BY <3>1, <4>1, <4>2
        <3>2. CASE Becomes(r, [q EXCEPT !.pc = "rules", !.next = 1,
                                       !.group = Default, !.settings = Builtin,
                                       !.quiet = @ /\ q.group \notin groups])
            <4>1. Default \in AllGroups
                BY DEF AllGroups
            <4>2. Builtin \in Settings /\ (q.quiet /\ q.group \notin groups) \in BOOLEAN
                BY PolicyAssumption
            <4> QED
                BY <3>2, <4>1, <4>2
        <3> QED
            BY <1>5, <3>1, <3>2 DEF GetGroup
    <2> DEFINE n == 1
    <2>2. req'[r] = [q EXCEPT !.pc = "rules", !.next = n, !.group = g,
                              !.settings = s, !.quiet = b]
        BY <2>1, Becoming
    <2>3. n \in Nat /\ n \in 1..(2 * Len(Line[q.domain])) /\ Len(Line[q.domain]) \in Nat \ {0} /\ s \in SUBSET UNION Settings
        BY <1>1, PolicyAssumption
    <2> HIDE DEF n
    <2>4. req'[r] \in Request
        BY <1>0, <2>2, <2>3 DEF Request
    <2>5. InRange(req'[r])
        BY <1>1, <2>2, <2>3 DEF Request, InRange
    <2> QED
        BY <2>4, <2>5
<1>6. CASE AskRule(r)
    <2> DEFINE row == RowAt(r, q.next)
    <2>1. CASE Becomes(r, [q EXCEPT !.pc = "done", !.rule = {row}, !.answer = rules[row]])
               /\ rules[row] # None
        <3>1. req'[r] = [q EXCEPT !.pc = "done", !.rule = {row}, !.answer = rules[row]]
            BY <2>1, Becoming
        <3>2. row \in Rows
            BY <1>1, <1>6, RowType DEF AskRule, InRange, Concerning
        <3>3. {row} \in SUBSET Rows /\ rules[row] \in {"allow", "block"}
            BY <1>1, <2>1, <3>2
        <3> HIDE DEF row
        <3>4. req'[r] \in Request
            BY <1>1, <3>1, <3>3 DEF Request
        <3>5. InRange(req'[r])
            BY <1>1, <3>1 DEF Request, InRange
        <3> QED
            BY <3>4, <3>5
    <2>2. CASE Becomes(r, [q EXCEPT
                    !.pc = IF q.next < 2 * Len(Line[q.domain]) THEN "rules" ELSE "whitelist",
                    !.next = @ + 1])
        <3>1. req'[r] = [q EXCEPT
                    !.pc = IF q.next < 2 * Len(Line[q.domain]) THEN "rules" ELSE "whitelist",
                    !.next = @ + 1]
            BY <2>2, Becoming
        <3>2. q.next \in Nat /\ Len(Line[q.domain]) \in Nat
              /\ q.next \in 1..(2 * Len(Line[q.domain]))
            BY <1>1, <1>6 DEF Request, InRange, AskRule
        <3> DEFINE to == IF q.next < 2 * Len(Line[q.domain]) THEN "rules" ELSE "whitelist"
                   n == q.next + 1
        <3>3. to \in {"rules", "whitelist"} /\ n \in Nat
              /\ (to = "rules" => n \in 1..(2 * Len(Line[q.domain])))
            BY <3>2
        <3> HIDE DEF to, n
        <3>4. req'[r] = [q EXCEPT !.pc = to, !.next = n]
            BY <3>1 DEF to, n
        <3>5. [q EXCEPT !.pc = to, !.next = n] \in Request
            BY <1>0, <3>3 DEF Request
        <3>6. InRange(req'[r])
            BY <1>1, <3>3, <3>4 DEF Request, InRange
        <3> QED
            BY <3>4, <3>5, <3>6
    <2> QED
        BY <1>6, <2>1, <2>2 DEF AskRule
<1>7. CASE AskRuleFails(r)
    <2>1. req'[r] = [q EXCEPT !.pc = "whitelist", !.quiet = FALSE, !.standing = {}]
        BY <1>7, Becoming DEF AskRuleFails
    <2> QED
        BY <1>1, <2>1 DEF Request, InRange
<1>8. CASE Whitelist(r)
    <2>1. \/ req'[r] = [q EXCEPT !.pc = "done", !.answer = "allow"]
          \/ \E b \in BOOLEAN : req'[r] = [q EXCEPT !.pc = "assess", !.quiet = b]
        BY <1>8, Becoming DEF Whitelist
    <2>2. CASE req'[r] = [q EXCEPT !.pc = "done", !.answer = "allow"]
        BY <1>1, <2>2 DEF Request, InRange
    <2>3. ASSUME NEW b \in BOOLEAN, req'[r] = [q EXCEPT !.pc = "assess", !.quiet = b]
          PROVE  req'[r] \in Request /\ InRange(req'[r])
        BY <1>1, <2>3 DEF Request, InRange
    <2> QED
        BY <2>1, <2>2, <2>3
<1>9. CASE Enforce(r)
    <2>1. PICK t \in Threats[q.domain], a \in {"allow", "block"} :
              Becomes(r, [q EXCEPT !.pc = "done", !.threat = t, !.answer = a])
        BY <1>9 DEF Enforce
    <2>2. req'[r] = [q EXCEPT !.pc = "done", !.threat = t, !.answer = a]
        BY <2>1, Becoming
    <2>3. t \in SUBSET UNION Settings
        BY <1>1, PolicyAssumption
    <2>4. req'[r] \in Request
        BY <1>0, <2>2, <2>3 DEF Request
    <2>5. InRange(req'[r])
        BY <1>1, <2>2 DEF Request, InRange
    <2> QED
        BY <2>4, <2>5
<1>10. CASE Respond(r)
    <2>1. req'[r] = NoRequest
        BY <1>10, Becoming DEF Respond
    <2> QED
        BY <2>1, NoRequestType DEF NoRequest, InRange
<1> QED
    BY <1>2, <1>3, <1>4, <1>5, <1>6, <1>7, <1>8, <1>9, <1>10 DEF RequestStep

\* What administrators and their handlers do to the tables.
TableChange ==
    \/ \E g \in Groups, t \in Settings : CreateGroup(g, t)
    \/ \E g \in AllGroups : DeleteGroup(g) \/ \E t \in Settings : UpdateGroup(g, t)
    \/ \E a \in Admins, k \in Keys \cup Ranges :
          DeleteMapping(a, k) \/ \E g \in AllGroups : AddMapping(a, k, g)
    \/ \E x \in Rows : DeleteRule(x) \/ \E act \in {"allow", "block"} : SetRule(x, act)

\* A table change touches no list, and disturbs the requests by the rules it deletes.
LEMMA ChangeDisturbs ==
    ASSUME TypeInv, TableChange
    PROVE  /\ UNCHANGED <<list, loaded, overlapped>>
           /\ \E rows \in SUBSET Rows : Disturb(rows) /\ InForce \ rows \subseteq InForce'
<1> USE DEF listVars
<1>1. rules \in [Rows -> {None, "allow", "block"}]
    BY DEF TypeInv, TypeOK
<1>2. ASSUME NEW g \in Groups, NEW t \in Settings, CreateGroup(g, t)
      PROVE  UNCHANGED <<list, loaded, overlapped, rules>> /\ Disturb({})
    BY <1>2 DEF CreateGroup, InsertGroup
<1>3. ASSUME NEW g \in AllGroups, NEW t \in Settings, UpdateGroup(g, t)
      PROVE  UNCHANGED <<list, loaded, overlapped, rules>> /\ Disturb({})
    BY <1>3 DEF UpdateGroup
<1>4. ASSUME NEW g \in AllGroups, DeleteGroup(g)
      PROVE  /\ UNCHANGED <<list, loaded, overlapped>>
             /\ \/ UNCHANGED rules /\ Disturb({})
                \/ /\ rules' = [x \in Rows |-> IF x[1] = g THEN None ELSE rules[x]]
                   /\ Disturb(RowsOf(g))
    BY <1>4 DEF DeleteGroup, RemoveGroup
<1>5. ASSUME NEW a \in Admins, NEW k \in Keys \cup Ranges, DeleteMapping(a, k)
      PROVE  UNCHANGED <<list, loaded, overlapped, rules>> /\ Disturb({})
    BY <1>5 DEF DeleteMapping, RemoveMapping
<1>6. ASSUME NEW a \in Admins, NEW k \in Keys \cup Ranges, NEW g \in AllGroups,
             AddMapping(a, k, g)
      PROVE  UNCHANGED <<list, loaded, overlapped, rules>> /\ Disturb({})
    BY <1>6 DEF AddMapping
<1>7. ASSUME NEW x \in Rows, DeleteRule(x)
      PROVE  /\ UNCHANGED <<list, loaded, overlapped>>
             /\ rules' = [rules EXCEPT ![x] = None] /\ Disturb({x})
    BY <1>7 DEF DeleteRule
<1>8. ASSUME NEW x \in Rows, NEW act \in {"allow", "block"}, SetRule(x, act)
      PROVE  /\ UNCHANGED <<list, loaded, overlapped>>
             /\ rules' = [rules EXCEPT ![x] = act] /\ Disturb({})
    BY <1>8 DEF SetRule
<1>9. ASSUME UNCHANGED rules, Disturb({})
      PROVE  \E rows \in SUBSET Rows : Disturb(rows) /\ InForce \ rows \subseteq InForce'
    <2>1. InForce \ {} \subseteq InForce'
        BY <1>9 DEF InForce
    <2> QED
        BY <1>9, <2>1
<1>10. ASSUME NEW g \in AllGroups, Disturb(RowsOf(g)),
              rules' = [x \in Rows |-> IF x[1] = g THEN None ELSE rules[x]]
       PROVE  \E rows \in SUBSET Rows : Disturb(rows) /\ InForce \ rows \subseteq InForce'
    <2>1. InForce \ RowsOf(g) \subseteq InForce' /\ RowsOf(g) \in SUBSET Rows
        BY <1>10 DEF InForce, RowsOf
    <2> QED
        BY <1>10, <2>1
<1>11. ASSUME NEW x \in Rows, Disturb({x}), rules' = [rules EXCEPT ![x] = None]
       PROVE  \E rows \in SUBSET Rows : Disturb(rows) /\ InForce \ rows \subseteq InForce'
    <2>1. InForce \ {x} \subseteq InForce' /\ {x} \in SUBSET Rows
        BY <1>1, <1>11 DEF InForce
    <2> QED
        BY <1>11, <2>1
<1>12. ASSUME NEW x \in Rows, NEW act \in {"allow", "block"}, Disturb({}),
              rules' = [rules EXCEPT ![x] = act]
       PROVE  \E rows \in SUBSET Rows : Disturb(rows) /\ InForce \ rows \subseteq InForce'
    <2>1. act # None
        BY DEF None
    <2>2. InForce \ {} \subseteq InForce'
        BY <1>1, <1>12, <2>1 DEF InForce
    <2> QED
        BY <1>12, <2>2
<1> QED
    BY <1>2, <1>3, <1>4, <1>5, <1>6, <1>7, <1>8, <1>9, <1>10, <1>11, <1>12 DEF TableChange

\* What the tables hold after a change is of their types.
LEMMA ChangeType ==
    ASSUME TypeInv, TableChange
    PROVE  TypeInv'
<1>1. TypeOK
    BY DEF TypeInv
<1> USE DEF AllGroups
<1>2. req' \in [Requests -> Request] /\ NextExists' /\ UNCHANGED <<list, loaded, overlapped>>
    BY ChangeDisturbs, DisturbType
<1>3. ASSUME Change PROVE changes' \in Nat
    BY <1>1, <1>3, PolicyAssumption DEF Change, TypeOK
<1>4. ASSUME NEW g \in AllGroups, MayName(g) PROVE early' \subseteq Groups
    BY <1>1, <1>4 DEF MayName, TypeOK
<1>5. ASSUME NEW g \in Groups, NEW t \in Settings, CreateGroup(g, t) PROVE TypeOK'
    BY <1>1, <1>2, <1>3, <1>5 DEF CreateGroup, InsertGroup, TypeOK, listVars
<1>6. ASSUME NEW g \in AllGroups, NEW t \in Settings, UpdateGroup(g, t) PROVE TypeOK'
    BY <1>1, <1>2, <1>3, <1>6 DEF UpdateGroup, TypeOK, listVars
<1>7. ASSUME NEW g \in AllGroups, DeleteGroup(g) PROVE TypeOK'
    <2>1. mapping' \in [Keys \cup Ranges -> AllGroups \cup {None}]
        BY <1>1, <1>7 DEF DeleteGroup, RemoveGroup, TypeOK
    <2>2. rules' \in [Rows -> {None, "allow", "block"}]
        BY <1>1, <1>7 DEF DeleteGroup, RemoveGroup, TypeOK
    <2> QED
        BY <1>1, <1>2, <1>3, <1>7, <2>1, <2>2
        DEF DeleteGroup, RemoveGroup, TypeOK, listVars
<1>8. ASSUME NEW a \in Admins, NEW k \in Keys \cup Ranges, DeleteMapping(a, k) PROVE TypeOK'
    BY <1>1, <1>2, <1>3, <1>8 DEF DeleteMapping, RemoveMapping, TypeOK
<1>9. ASSUME NEW a \in Admins, NEW k \in Keys \cup Ranges, NEW g \in AllGroups,
             AddMapping(a, k, g)
      PROVE  TypeOK'
    <2>1. early' \subseteq Groups
        BY <1>4, <1>9 DEF AddMapping
    <2> QED
        BY <1>1, <1>2, <1>3, <1>9, <2>1 DEF AddMapping, TypeOK
<1>10. ASSUME NEW x \in Rows, DeleteRule(x) PROVE TypeOK'
    BY <1>1, <1>2, <1>3, <1>10 DEF DeleteRule, TypeOK, listVars
<1>11. ASSUME NEW x \in Rows, NEW act \in {"allow", "block"}, SetRule(x, act) PROVE TypeOK'
    <2>1. early' \subseteq Groups
        BY <1>1, <1>4, <1>11 DEF SetRule, Rows, TypeOK
    <2> QED
        BY <1>1, <1>2, <1>3, <1>11, <2>1 DEF SetRule, TypeOK, listVars
<1> QED
    BY <1>2, <1>5, <1>6, <1>7, <1>8, <1>9, <1>10, <1>11 DEF TableChange, TypeInv

LEMMA InTableType ==
    ASSUME TypeInv PROVE InTable \in [Ranges -> AllGroups \cup {None}]
BY DEF TypeInv, TypeOK, InTable

LEMMA InstallRequests ==
    ASSUME TypeInv, NEW a \in Admins, Install(a), NEW r \in Requests
    PROVE  \/ req'[r] = req[r]
           \/ req'[r] = [req[r] EXCEPT !.quiet = FALSE] /\ req[r].pc # "idle"
BY DEF Install

LEMMA NextType == TypeInv /\ [Next]_vars => TypeInv'
<1> SUFFICES ASSUME TypeInv, [Next]_vars PROVE TypeInv'
    OBVIOUS
<1>1. TypeOK /\ NextExists
    BY DEF TypeInv
<1>2. ASSUME NEW r \in Requests, RequestStep(r) PROVE TypeInv'
    <2>1. req' \in [Requests -> Request]
        BY <1>1, <1>2, StepChanges, StepType DEF TypeOK
    <2>2. NextExists'
        <3>1. ASSUME NEW t \in Requests, t # r PROVE req'[t] = req[t]
            BY <1>1, <1>2, <3>1, StepChanges DEF TypeOK
        <3>2. ASSUME NEW t \in Requests PROVE InRange(req'[t])
            <4>1. CASE t = r
                BY <1>2, <4>1, StepType
            <4>2. CASE t # r
                BY <1>1, <3>1, <4>2 DEF NextExists
            <4> QED
                BY <4>1, <4>2
        <3> QED
            BY <3>2 DEF NextExists, InRange
    <2>3. TypeOK'
        BY <1>1, <1>2, <2>1, StepChanges DEF TypeOK, tableVars, listVars
    <2> QED
        BY <2>2, <2>3 DEF TypeInv
<1>3. CASE TableChange
    BY <1>3, ChangeType
<1>4. ASSUME NEW a \in Admins, Load(a) PROVE TypeInv'
    <2>1. UNCHANGED <<tableVars, list, req, changes>>
        BY <1>4 DEF Load
    <2>2. /\ handler' \in [Admins -> {"idle", "loading", "installing"}]
          /\ loaded' \in [Admins -> [Ranges -> AllGroups \cup {None}]]
          /\ overlapped' \in BOOLEAN
        BY <1>1, <1>4, InTableType DEF Load, TypeOK
    <2> QED
        BY <1>1, <2>1, <2>2 DEF TypeInv, TypeOK, NextExists, InRange, tableVars
<1>5. ASSUME NEW a \in Admins, Install(a) PROVE TypeInv'
    <2>1. ASSUME NEW r \in Requests
          PROVE  req'[r] \in Request /\ InRange(req'[r])
        <3>1. req[r] \in Request /\ InRange(req[r])
            BY <1>1 DEF TypeOK, NextExists
        <3>2. CASE req'[r] = [req[r] EXCEPT !.quiet = FALSE]
            BY <3>1, <3>2 DEF Request, InRange
        <3> QED
            BY <1>5, <3>1, <3>2, InstallRequests
    <2>2. req' \in [Requests -> Request]
        BY <1>5, <2>1 DEF Install
    <2>3. NextExists'
        BY <2>1 DEF NextExists, InRange
    <2>4. UNCHANGED <<tableVars, overlapped, changes>>
        BY <1>5 DEF Install
    <2>5. Unmapped \in [Ranges -> AllGroups \cup {None}]
        BY DEF Unmapped
    <2>6. /\ handler' \in [Admins -> {"idle", "loading", "installing"}]
          /\ loaded' \in [Admins -> [Ranges -> AllGroups \cup {None}]]
          /\ list' \in [Processes -> [Ranges -> AllGroups \cup {None}]]
        BY <1>1, <1>5, <2>5 DEF Install, TypeOK, Processes
    <2> QED
        BY <1>1, <2>2, <2>3, <2>4, <2>6 DEF TypeInv, TypeOK, tableVars
<1>6. ASSUME NEW p \in Processes, Restart(p) PROVE TypeInv'
    <2>1. \A r \in Requests : req'[r] \in {NoRequest, req[r]}
        BY <1>6 DEF Restart
    <2>2. ASSUME NEW r \in Requests
          PROVE  req'[r] \in Request /\ InRange(req'[r])
        <3>1. req[r] \in Request /\ InRange(req[r])
            BY <1>1 DEF TypeOK, NextExists
        <3>2. NoRequest \in Request /\ InRange(NoRequest)
            BY NoRequestType DEF NoRequest, InRange
        <3> QED
            BY <2>1, <3>1, <3>2
    <2>3. req' \in [Requests -> Request]
        BY <1>6, <2>2 DEF Restart
    <2>4. NextExists'
        BY <2>2 DEF NextExists, InRange
    <2>5. UNCHANGED <<tableVars, changes>>
        BY <1>6 DEF Restart
    <2>6. Unmapped \in [Ranges -> AllGroups \cup {None}]
        BY DEF Unmapped
    <2>7. /\ handler' \in [Admins -> {"idle", "loading", "installing"}]
          /\ loaded' \in [Admins -> [Ranges -> AllGroups \cup {None}]]
          /\ list' \in [Processes -> [Ranges -> AllGroups \cup {None}]]
          /\ overlapped' \in BOOLEAN
        BY <1>1, <1>6, <2>6, InTableType DEF Restart, TypeOK
    <2> QED
        BY <1>1, <2>3, <2>4, <2>5, <2>7 DEF TypeInv, TypeOK, tableVars
<1>7. CASE UNCHANGED vars
    BY <1>1, <1>7 DEF TypeInv, TypeOK, NextExists, InRange, vars, tableVars, listVars
<1> QED
    BY <1>2, <1>3, <1>4, <1>5, <1>6, <1>7 DEF Next, RequestStep, TableChange

LEMMA TypeInvariant == Spec => []TypeInv
BY InitType, NextType, PTL DEF Spec

\* Every state of the tables, the lists and the requests is of its type, the
\* default group (which DeleteGroup refuses to delete) included.
THEOREM PolicyTypeCorrect == Spec => []TypeOK
<1>1. TypeInv => TypeOK
    BY DEF TypeInv
<1> QED
    BY <1>1, TypeInvariant, PTL

-----------------------------------------------------------------------------
(* Groups created later *)

Known == used \cup early \cup {Default}

\* Whatever a table, a list or a handler names has been given, or was named early.
NamesKnown ==
    /\ groups \subseteq used \cup {Default}
    /\ \A k \in Keys \cup Ranges : mapping[k] \in Known \cup {None}
    /\ \A p \in Processes, k \in Ranges : list[p][k] \in Known \cup {None}
    /\ \A a \in Admins, k \in Ranges : loaded[a][k] \in Known \cup {None}
    /\ \A x \in Rows : rules[x] # None => x[1] \in Known \cup {Global}

GroupsInv == TypeInv /\ NamesKnown

LEMMA InitKnown == Init => NamesKnown
BY DEF Init, NamesKnown, Known, Unmapped

\* The tables keep naming what is known.
LEMMA ChangeKnown ==
    ASSUME GroupsInv, TableChange
    PROVE  NamesKnown'
<1> DEFINE Tables ==
        /\ groups' \subseteq used' \cup {Default}
        /\ \A k \in Keys \cup Ranges : mapping'[k] \in Known' \cup {None}
        /\ \A x \in Rows : rules'[x] # None => x[1] \in Known' \cup {Global}
        /\ Known \subseteq Known'
<1>1. TypeOK /\ NamesKnown
    BY DEF GroupsInv, TypeInv
<1>2. UNCHANGED <<list, loaded>>
    BY ChangeDisturbs DEF GroupsInv
<1> USE DEF NamesKnown, Known
<1>3. ASSUME NEW g \in Groups, NEW t \in Settings, CreateGroup(g, t) PROVE Tables
    BY <1>1, <1>3 DEF CreateGroup, InsertGroup
<1>4. ASSUME NEW g \in AllGroups, NEW t \in Settings, UpdateGroup(g, t) PROVE Tables
    BY <1>1, <1>4 DEF UpdateGroup
<1>5. ASSUME NEW g \in AllGroups, DeleteGroup(g) PROVE Tables
    <2>1. UNCHANGED <<used, early>> /\ groups' \subseteq groups
        BY <1>5 DEF DeleteGroup, RemoveGroup
    <2>2. \A k \in Keys \cup Ranges : mapping'[k] \in {mapping[k], None}
        BY <1>1, <1>5 DEF DeleteGroup, RemoveGroup, TypeOK
    <2>3. \A x \in Rows : rules'[x] \in {rules[x], None}
        BY <1>1, <1>5 DEF DeleteGroup, RemoveGroup, TypeOK
    <2> QED
        BY <1>1, <2>1, <2>2, <2>3
<1>6. ASSUME NEW a \in Admins, NEW k \in Keys \cup Ranges, DeleteMapping(a, k) PROVE Tables
    BY <1>1, <1>6 DEF DeleteMapping, RemoveMapping, TypeOK
<1>7. ASSUME NEW a \in Admins, NEW k \in Keys \cup Ranges, NEW g \in AllGroups,
             AddMapping(a, k, g)
      PROVE  Tables
    <2>1. UNCHANGED <<groups, used, rules>> /\ mapping' = [mapping EXCEPT ![k] = g]
          /\ early' = early \cup ({g} \ (used \cup {Default}))
        BY <1>7 DEF AddMapping, MayName
    <2> QED
        BY <1>1, <2>1 DEF TypeOK
<1>8. ASSUME NEW x \in Rows, DeleteRule(x) PROVE Tables
    BY <1>1, <1>8 DEF DeleteRule, TypeOK
<1>9. ASSUME NEW x \in Rows, NEW act \in {"allow", "block"}, SetRule(x, act) PROVE Tables
    <2>1. /\ UNCHANGED <<groups, used, mapping>> /\ rules' = [rules EXCEPT ![x] = act]
          /\ \/ x[1] = Global /\ UNCHANGED early
             \/ early' = early \cup ({x[1]} \ (used \cup {Default}))
        BY <1>9 DEF SetRule, MayName
    <2> QED
        BY <1>1, <2>1 DEF TypeOK
<1>10. Tables
    BY <1>3, <1>4, <1>5, <1>6, <1>7, <1>8, <1>9 DEF TableChange
<1> QED
    BY <1>1, <1>2, <1>10

LEMMA NextKnown == GroupsInv /\ [Next]_vars => NamesKnown'
<1> SUFFICES ASSUME GroupsInv, [Next]_vars PROVE NamesKnown'
    OBVIOUS
<1>1. TypeInv /\ TypeOK /\ NamesKnown
    BY DEF GroupsInv, TypeInv
<1>2. ASSUME NEW r \in Requests, RequestStep(r) PROVE NamesKnown'
    BY <1>1, <1>2, StepChanges DEF NamesKnown, Known, tableVars, listVars
<1>3. CASE TableChange
    BY <1>3, ChangeKnown
<1>4. ASSUME NEW a \in Admins, Load(a) PROVE NamesKnown'
    <2>1. UNCHANGED <<tableVars, list>>
        BY <1>4 DEF Load
    <2>2. \A b \in Admins, k \in Ranges : loaded'[b][k] \in {loaded[b][k], mapping[k]}
        <3>1. loaded' = loaded \/ loaded' = [loaded EXCEPT ![a] = InTable]
            BY <1>4 DEF Load
        <3> QED
            BY <1>1, <3>1 DEF TypeOK, InTable
    <2> QED
        BY <1>1, <2>1, <2>2 DEF NamesKnown, Known, tableVars
<1>5. ASSUME NEW a \in Admins, Install(a) PROVE NamesKnown'
    <2>1. UNCHANGED tableVars
        BY <1>5 DEF Install
    <2>2. \A b \in Admins, k \in Ranges : loaded'[b][k] \in {loaded[b][k], None}
        BY <1>1, <1>5 DEF Install, TypeOK, Unmapped
    <2>3. \A p \in Processes, k \in Ranges : list'[p][k] \in {list[p][k], loaded[a][k]}
        BY <1>1, <1>5 DEF Install, TypeOK
    <2> QED
        BY <1>1, <2>1, <2>2, <2>3 DEF NamesKnown, Known, tableVars
<1>6. ASSUME NEW p \in Processes, Restart(p) PROVE NamesKnown'
    <2>1. UNCHANGED tableVars
        BY <1>6 DEF Restart
    <2>2. \A b \in Admins, k \in Ranges : loaded'[b][k] \in {loaded[b][k], None}
        BY <1>1, <1>6 DEF Restart, TypeOK, Unmapped
    <2>3. \A o \in Processes, k \in Ranges : list'[o][k] \in {list[o][k], mapping[k]}
        BY <1>1, <1>6 DEF Restart, TypeOK, InTable
    <2> QED
        BY <1>1, <2>1, <2>2, <2>3 DEF NamesKnown, Known, tableVars
<1>7. CASE UNCHANGED vars
    BY <1>1, <1>7 DEF NamesKnown, Known, vars, tableVars, listVars
<1> QED
    BY <1>2, <1>3, <1>4, <1>5, <1>6, <1>7 DEF Next, RequestStep, TableChange

\* A step adds no group, or it is CreateGroup.
LEMMA OnlyCreateAdds ==
    ASSUME TypeInv, [Next]_vars, NEW g \in groups' \ groups
    PROVE  g \in Groups \ used
<1>1. ASSUME NEW r \in Requests, RequestStep(r) PROVE groups' = groups
    BY <1>1, StepChanges DEF tableVars
<1>2. ASSUME NEW h \in Groups, NEW t \in Settings, CreateGroup(h, t) PROVE g \in Groups \ used
    BY <1>2 DEF CreateGroup, InsertGroup
<1>3. ASSUME NEW h \in AllGroups, DeleteGroup(h) \/ \E t \in Settings : UpdateGroup(h, t)
      PROVE  groups' \subseteq groups
    BY <1>3 DEF DeleteGroup, RemoveGroup, UpdateGroup
<1>4. ASSUME NEW a \in Admins, NEW k \in Keys \cup Ranges,
             DeleteMapping(a, k) \/ \E h \in AllGroups : AddMapping(a, k, h)
      PROVE  groups' = groups
    BY <1>4 DEF DeleteMapping, RemoveMapping, AddMapping
<1>5. ASSUME NEW x \in Rows, DeleteRule(x) \/ \E act \in {"allow", "block"} : SetRule(x, act)
      PROVE  groups' = groups
    BY <1>5 DEF DeleteRule, SetRule
<1>6. ASSUME NEW a \in Admins, Load(a) \/ Install(a) PROVE groups' = groups
    BY <1>6 DEF Load, Install, tableVars
<1>7. ASSUME NEW p \in Processes, Restart(p) PROVE groups' = groups
    BY <1>7 DEF Restart, tableVars
<1>8. CASE UNCHANGED vars
    BY <1>8 DEF vars, tableVars
<1> QED
    BY <1>1, <1>2, <1>3, <1>4, <1>5, <1>6, <1>7, <1>8 DEF Next, RequestStep

\* What deleted groups leave behind, in lists or in tables whose foreign keys are
\* not enforced, is never taken over by a group created later.
THEOREM DeletedGroupsStayDeleted == Spec => NewGroupsStartEmpty
<1>1. Init => GroupsInv
    BY InitType, InitKnown DEF GroupsInv
<1>2. GroupsInv /\ [Next]_vars => GroupsInv'
    BY NextType, NextKnown DEF GroupsInv
<1> DEFINE Empty(g) ==
        /\ \A k \in DOMAIN mapping : mapping[k] # g
        /\ \A p \in Processes, k \in Ranges : list[p][k] # g
        /\ \A a \in Admins, k \in Ranges : loaded[a][k] # g
        /\ \A x \in RowsOf(g) : rules[x] = None
<1>3. ASSUME GroupsInv, [Next]_vars, NEW g \in groups' \ (groups \cup early)
      PROVE  Empty(g)
    <2>1. TypeInv /\ TypeOK /\ NamesKnown
        BY <1>3 DEF GroupsInv, TypeInv
    <2>2. g \in Groups \ used
        BY <1>3, <2>1, OnlyCreateAdds
    <2>3. g \notin Known \cup {None, Global}
        BY <1>3, <2>1, <2>2, PolicyAssumption DEF Known, AllGroups, TypeOK
    <2>4. DOMAIN mapping = Keys \cup Ranges
        BY <2>1 DEF TypeOK
    <2> QED
        BY <2>1, <2>3, <2>4 DEF NamesKnown, RowsOf
<1>4. GroupsInv /\ [Next]_vars => [\A g \in groups' \ (groups \cup early) : Empty(g)]_vars
    BY <1>3
<1> QED
    BY <1>1, <1>2, <1>4, PTL DEF Spec, NewGroupsStartEmpty

-----------------------------------------------------------------------------
(* Rules in order *)

\* The place of a row in a lookup.
LEMMA PlaceOf ==
    ASSUME NEW r \in Requests, req[r] \in Request,
           NEW x \in Concerning(req[r].group, req[r].domain)
    PROVE  /\ Distance(req[r].domain, x) \in 1..Len(Line[req[r].domain])
           /\ RowAt(r, IF x[1] = Global THEN 2 * Distance(req[r].domain, x)
                       ELSE 2 * Distance(req[r].domain, x) - 1) = x
<1> DEFINE d == req[r].domain
           i == Distance(d, x)
<1>1. d \in Domains /\ req[r].group \in AllGroups /\ req[r].group # Global
    BY PolicyAssumption DEF Request
<1>2. Line[d] \in Seq(Names)
    BY <1>1, PolicyAssumption
<1>3. i \in DOMAIN Line[d] /\ Line[d][i] = x[2]
    BY DEF Concerning, Distance
<1>4. i \in 1..Len(Line[d]) /\ i \in Nat
    BY <1>2, <1>3
<1>5. x = <<x[1], x[2]>>
    BY DEF Concerning, Rows
<1>6. x[1] = Global \/ x[1] = req[r].group
    BY DEF Concerning
<1> HIDE DEF i
<1>7. CASE x[1] = Global
    <2>1. (2 * i) % 2 # 1 /\ (2 * i + 1) \div 2 = i
        BY <1>4
    <2> QED
        BY <1>3, <1>4, <1>5, <1>7, <2>1 DEF RowAt, i
<1>8. CASE x[1] # Global
    <2>1. (2 * i - 1) % 2 = 1 /\ (2 * i - 1 + 1) \div 2 = i
        BY <1>4
    <2> QED
        BY <1>3, <1>4, <1>5, <1>6, <1>8, <2>1 DEF RowAt, i
<1> QED
    BY <1>7, <1>8

\* A name occurs once in a line, so a row's distance is that of its place.
LEMMA DistanceAt ==
    ASSUME NEW r \in Requests, req[r] \in Request,
           NEW n \in 1..(2 * Len(Line[req[r].domain]))
    PROVE  /\ Distance(req[r].domain, RowAt(r, n)) = (n + 1) \div 2
           /\ RowAt(r, n)[1] = Global <=> n % 2 # 1
<1> DEFINE d == req[r].domain
           i == (n + 1) \div 2
           x == RowAt(r, n)
<1>1. d \in Domains /\ req[r].group # Global
    BY PolicyAssumption DEF Request
<1>2. Line[d] \in Seq(Names) /\ Len(Line[d]) \in Nat
    BY <1>1, PolicyAssumption
<1>3. i \in DOMAIN Line[d]
    BY <1>2
<1>4. x[2] = Line[d][i] /\ (x[1] = Global <=> n % 2 # 1)
    BY <1>1 DEF RowAt
<1>5. \A j \in DOMAIN Line[d] : Line[d][j] = Line[d][i] => j = i
    BY <1>1, <1>3, PolicyAssumption
<1> HIDE DEF x, i
<1>6. Distance(d, x) = i
    BY <1>3, <1>4, <1>5 DEF Distance
<1> QED
    BY <1>4, <1>6 DEF x, i

\* The row asked for goes before every row not asked for yet.
LEMMA AskedFirst ==
    ASSUME NEW r \in Requests, req[r] \in Request,
           NEW n \in 1..(2 * Len(Line[req[r].domain])),
           NEW x \in Concerning(req[r].group, req[r].domain),
           \A m \in 1..(n - 1) : RowAt(r, m) # x
    PROVE  RowAt(r, n) = x \/ Before(RowAt(r, n), x, req[r].domain)
<1> DEFINE d == req[r].domain
           i == Distance(d, x)
           m == IF x[1] = Global THEN 2 * i ELSE 2 * i - 1
<1>1. i \in Nat \ {0} /\ i <= Len(Line[d]) /\ Len(Line[d]) \in Nat /\ RowAt(r, m) = x
    <2>1. Len(Line[d]) \in Nat
        BY PolicyAssumption DEF Request
    <2>2. i \in 1..Len(Line[d]) /\ RowAt(r, m) = x
        BY PlaceOf
    <2> HIDE DEF i, m
    <2> QED
        BY <2>1, <2>2
<1>2. /\ Distance(d, RowAt(r, n)) = (n + 1) \div 2
      /\ RowAt(r, n)[1] = Global <=> n % 2 # 1
    BY DistanceAt
<1>3. m \in Nat \ {0} /\ n \in Nat \ {0}
    BY <1>1
<1>4. m >= n
    <2>1. ~(m <= n - 1)
        BY <1>1, <1>3
    <2> QED
        BY <1>3, <2>1
<1>5. CASE m = n
    BY <1>1, <1>5
<1>6. CASE m > n /\ x[1] = Global
    <2>1. m = 2 * i
        BY <1>6
    <2>2. (n + 1) \div 2 < i \/ ((n + 1) \div 2 = i /\ n % 2 = 1)
        BY <1>1, <1>3, <1>6, <2>1
    <2> QED
        BY <1>2, <1>6, <2>2 DEF Before
<1>7. CASE m > n /\ x[1] # Global
    <2>1. m = 2 * i - 1
        BY <1>7
    <2>2. (n + 1) \div 2 < i
        BY <1>1, <1>3, <1>7, <2>1
    <2> QED
        BY <1>2, <2>2 DEF Before
<1> QED
    BY <1>3, <1>4, <1>5, <1>6, <1>7

\* What a request has asked for so far has not stood since it began; what has
\* stood is in force; and what decided is as RulesInOrder says.
LookupOK(r) ==
    LET q == req[r]
    IN  /\ q.standing \subseteq InForce /\ (q.pc = "idle" => q.standing = {})
        /\ q.pc \in {"keys", "ranges", "group", "rules", "whitelist", "assess"} => q.rule = {}
        /\ q.pc = "rules" => \A m \in 1..(q.next - 1) : RowAt(r, m) \notin q.standing
        /\ q.pc \in {"whitelist", "assess", "done"} =>
              \A x \in q.standing \cap Concerning(q.group, q.domain) :
                  \E y \in q.rule : y = x \/ Before(y, x, q.domain)

RulesInv == TypeInv /\ \A r \in Requests : LookupOK(r)

\* Only what stands shrinks: the request's lookup stays as it is.
LEMMA LookupStays ==
    ASSUME NEW r \in Requests, LookupOK(r),
           req'[r].standing \subseteq req[r].standing,
           req'[r].standing \subseteq InForce',
           \A f \in {"pc", "rule", "next", "group", "domain"} : req'[r][f] = req[r][f]
    PROVE  LookupOK(r)'
<1>1. /\ req'[r].pc = req[r].pc /\ req'[r].rule = req[r].rule /\ req'[r].next = req[r].next
      /\ req'[r].group = req[r].group /\ req'[r].domain = req[r].domain
    OBVIOUS
<1>2. \A m : RowAt(r, m)' = RowAt(r, m)
    BY <1>1 DEF RowAt
<1>3. /\ Concerning(req[r].group, req[r].domain)' = Concerning(req[r].group, req[r].domain)
      /\ \A x, y : Before(y, x, req[r].domain)' = Before(y, x, req[r].domain)
    BY <1>1 DEF Concerning, Before, Distance
<1> QED
    BY <1>1, <1>2, <1>3 DEF LookupOK

LEMMA IdleLookup ==
    ASSUME NEW r \in Requests, req'[r] = NoRequest
    PROVE  LookupOK(r)'
BY DEF LookupOK, NoRequest

LEMMA LookupStep ==
    ASSUME RulesInv, NEW r \in Requests, RequestStep(r)
    PROVE  LookupOK(r)'
<1> DEFINE q == req[r]
           t == req'[r]
<1>1. TypeInv /\ q \in Request /\ InRange(q) /\ LookupOK(r)
    BY DEF RulesInv, TypeInv, TypeOK, NextExists
<1>2. InForce' = InForce
    BY <1>1, StepChanges DEF tableVars, InForce
<1>3. \A m, x, y :
         t.group = q.group /\ t.domain = q.domain =>
            /\ RowAt(r, m)' = RowAt(r, m)
            /\ Concerning(q.group, q.domain)' = Concerning(q.group, q.domain)
            /\ Before(y, x, q.domain)' = Before(y, x, q.domain)
    BY DEF RowAt, Concerning, Before, Distance
<1>4. CASE Begin(r)
    <2>1. PICK p \in Processes, c \in Clients, d \in Domains :
            Becomes(r, [NoRequest EXCEPT
                    !.pc = IF Direct[c] = <<>> THEN "ranges" ELSE "keys",
                    !.at = p, !.client = c, !.domain = d, !.standing = InForce])
        BY <1>4 DEF Begin
    <2> DEFINE to == IF Direct[c] = <<>> THEN "ranges" ELSE "keys"
    <2>2. to \in {"ranges", "keys"}
        OBVIOUS
    <2> HIDE DEF to
    <2>3. t = [NoRequest EXCEPT !.pc = to, !.at = p, !.client = c, !.domain = d,
                                !.standing = InForce]
        BY <1>1, <2>1, Becoming DEF to
    <2>4. t.pc = to /\ t.standing = InForce /\ t.rule = {}
        BY <2>3 DEF NoRequest
    <2> QED
        BY <1>2, <2>2, <2>4 DEF LookupOK
<1>5. CASE AskKey(r) \/ MatchRange(r)
    <2>1. t.pc \in {"keys", "ranges", "group"} /\ t.standing = q.standing /\ t.rule = q.rule
        <3>1. CASE AskKey(r)
            <4>1. \/ t = [q EXCEPT !.pc = "group", !.group = mapping[Key(r)]]
                  \/ t = [q EXCEPT
                            !.pc = IF q.next < Len(Direct[q.client]) THEN "keys" ELSE "ranges",
                            !.next = @ + 1, !.quiet = @ /\ mapping[Key(r)] = None]
                BY <1>1, <3>1, Becoming DEF AskKey
            <4> QED
                BY <1>1, <4>1 DEF Request
        <3>2. CASE MatchRange(r)
            <4>1. PICK g : Becomes(r, [q EXCEPT !.pc = "group", !.group = g])
                BY <3>2 DEF MatchRange
            <4>2. t = [q EXCEPT !.pc = "group", !.group = g]
                BY <1>1, <4>1, Becoming
            <4> QED
                BY <1>1, <4>2 DEF Request
        <3> QED
            BY <1>5, <3>1, <3>2
    <2>2. q.pc \in {"keys", "ranges"}
        BY <1>5 DEF AskKey, MatchRange
    <2> QED
        BY <1>1, <1>2, <2>1, <2>2 DEF LookupOK
<1>6. CASE GetGroup(r)
    <2>1. /\ t.pc = "rules" /\ t.next = 1
          /\ t.standing = q.standing /\ t.rule = q.rule
        <3>1. \/ t = [q EXCEPT !.pc = "rules", !.next = 1, !.settings = blocks[q.group]]
              \/ t = [q EXCEPT !.pc = "rules", !.next = 1, !.group = Default,
                               !.settings = Builtin,
                               !.quiet = @ /\ q.group \notin groups]
            BY <1>1, <1>6, Becoming DEF GetGroup
        <3> QED
            BY <1>1, <3>1 DEF Request
    <2>2. q.pc = "group"
        BY <1>6 DEF GetGroup
    <2>3. 1..(t.next - 1) = {}
        BY <2>1
    <2> QED
        BY <1>1, <1>2, <2>1, <2>2, <2>3 DEF LookupOK
<1>7. CASE AskRule(r)
    <2> DEFINE row == RowAt(r, q.next)
               N == 2 * Len(Line[q.domain])
    <2>1. /\ q.pc = "rules" /\ q.rule = {} /\ q.standing \subseteq InForce
          /\ \A m \in 1..(q.next - 1) : RowAt(r, m) \notin q.standing
          /\ q.next \in 1..N /\ N \in Nat
        <3>1. q.pc = "rules"
            BY <1>7 DEF AskRule
        <3>2. Line[q.domain] \in Seq(Names)
            BY <1>1, PolicyAssumption DEF Request
        <3> QED
            BY <1>1, <3>1, <3>2 DEF LookupOK, InRange
    <2>2. CASE rules[row] # None /\ t = [q EXCEPT !.pc = "done", !.rule = {row},
                                                 !.answer = rules[row]]
        <3>1. /\ t.pc = "done" /\ t.rule = {row} /\ t.standing = q.standing
              /\ t.group = q.group /\ t.domain = q.domain
            BY <1>1, <2>2 DEF Request
        <3>2. ASSUME NEW x \in q.standing \cap Concerning(q.group, q.domain)
              PROVE  row = x \/ Before(row, x, q.domain)
            <4>1. \A m \in 1..(q.next - 1) : RowAt(r, m) # x
                BY <2>1
            <4> QED
                BY <1>1, <2>1, <4>1, AskedFirst
        <3> HIDE DEF row
        <3> QED
            BY <1>2, <1>3, <2>1, <3>1, <3>2 DEF LookupOK
    <2>3. CASE /\ rules[row] = None
               /\ t = [q EXCEPT !.pc = IF q.next < N THEN "rules" ELSE "whitelist",
                                !.next = @ + 1]
        <3>1. /\ t.pc = IF q.next < N THEN "rules" ELSE "whitelist"
              /\ t.next = q.next + 1 /\ t.rule = {} /\ t.standing = q.standing
              /\ t.group = q.group /\ t.domain = q.domain
            BY <1>1, <2>1, <2>3 DEF Request
        <3>2. \A m \in 1..q.next : RowAt(r, m) \notin q.standing
            <4>1. row \notin q.standing
                BY <2>1, <2>3 DEF InForce
            <4>2. \A m \in 1..q.next : m = q.next \/ m \in 1..(q.next - 1)
                BY <2>1
            <4> QED
                BY <2>1, <4>1, <4>2
        <3>3. CASE q.next < N
            <4>1. t.pc = "rules" /\ 1..(t.next - 1) = 1..q.next
                BY <2>1, <3>1, <3>3
            <4> QED
                BY <1>2, <1>3, <2>1, <3>1, <3>2, <4>1 DEF LookupOK
        <3>4. CASE ~(q.next < N)
            <4>1. t.pc = "whitelist" /\ q.next = N
                BY <2>1, <3>1, <3>4
            <4>2. ASSUME NEW x \in q.standing \cap Concerning(q.group, q.domain) PROVE FALSE
                <5> DEFINE i == Distance(q.domain, x)
                           m == IF x[1] = Global THEN 2 * i ELSE 2 * i - 1
                <5>1. i \in 1..Len(Line[q.domain]) /\ RowAt(r, m) = x
                    BY <1>1, PlaceOf
                <5> HIDE DEF i
                <5>2. m \in 1..N
                    BY <2>1, <5>1
                <5> QED
                    BY <3>2, <4>1, <5>1, <5>2
            <4> QED
                BY <1>2, <1>3, <2>1, <3>1, <4>1, <4>2 DEF LookupOK
        <3> QED
            BY <3>3, <3>4
    <2> QED
        BY <1>1, <1>7, <2>2, <2>3, Becoming DEF AskRule
<1>8. CASE AskRuleFails(r)
    <2>1. t = [q EXCEPT !.pc = "whitelist", !.quiet = FALSE, !.standing = {}]
          /\ q.pc = "rules"
        BY <1>1, <1>8, Becoming DEF AskRuleFails
    <2>2. t.pc = "whitelist" /\ t.standing = {} /\ t.rule = q.rule
        BY <1>1, <2>1 DEF Request
    <2> QED
        BY <1>1, <2>1, <2>2 DEF LookupOK
<1>9. CASE Whitelist(r) \/ Enforce(r)
    <2>1. /\ q.pc \in {"whitelist", "assess"} /\ t.pc \in {"assess", "done"}
          /\ t.standing = q.standing /\ t.rule = q.rule
          /\ t.group = q.group /\ t.domain = q.domain
        <3>1. CASE Whitelist(r)
            <4>1. \/ t = [q EXCEPT !.pc = "done", !.answer = "allow"]
                  \/ t = [q EXCEPT !.pc = "assess", !.quiet = @ /\ ~InWhitelist(q.domain)]
                BY <1>1, <3>1, Becoming DEF Whitelist
            <4> QED
                BY <1>1, <3>1, <4>1 DEF Request, Whitelist
        <3>2. CASE Enforce(r)
            <4>1. PICK x, a : Becomes(r, [q EXCEPT !.pc = "done", !.threat = x, !.answer = a])
                BY <3>2 DEF Enforce
            <4>2. t = [q EXCEPT !.pc = "done", !.threat = x, !.answer = a]
                BY <1>1, <4>1, Becoming
            <4> QED
                BY <1>1, <3>2, <4>2 DEF Request, Enforce
        <3> QED
            BY <1>9, <3>1, <3>2
    <2> QED
        BY <1>1, <1>2, <1>3, <2>1 DEF LookupOK
<1>10. CASE Respond(r)
    BY <1>1, <1>10, Becoming, IdleLookup DEF Respond
<1> QED
    BY <1>4, <1>5, <1>6, <1>7, <1>8, <1>9, <1>10 DEF RequestStep

LEMMA RulesStep == RulesInv /\ [Next]_vars => RulesInv'
<1> SUFFICES ASSUME RulesInv, [Next]_vars PROVE RulesInv'
    OBVIOUS
<1>1. TypeInv /\ TypeOK /\ TypeInv'
    BY NextType DEF RulesInv, TypeInv
<1>2. \A r \in Requests : req[r] \in Request /\ LookupOK(r)
    BY <1>1 DEF RulesInv, TypeOK
<1> DEFINE Fields == {"pc", "rule", "next", "group", "domain"}
<1>3. \A r \in Requests : Fields \subseteq DOMAIN req[r] \ {"quiet", "standing"}
    BY <1>2 DEF Request
<1>4. ASSUME NEW r \in Requests, req'[r] = req[r], UNCHANGED rules
      PROVE  LookupOK(r)'
    <2>1. InForce' = InForce
        BY <1>4 DEF InForce
    <2>2. req'[r].standing \subseteq InForce'
        BY <1>2, <1>4, <2>1 DEF LookupOK
    <2> QED
        BY <1>2, <1>4, <2>2, LookupStays
<1>5. ASSUME NEW t \in Requests, RequestStep(t) PROVE RulesInv'
    <2>1. ASSUME NEW r \in Requests, r # t PROVE LookupOK(r)'
        <3>1. req'[r] = req[r] /\ UNCHANGED rules
            BY <1>1, <1>5, <2>1, StepChanges DEF tableVars, TypeOK
        <3> QED
            BY <1>4, <3>1
    <2>2. LookupOK(t)'
        BY <1>5, LookupStep
    <2> QED
        BY <1>1, <2>1, <2>2 DEF RulesInv
<1>6. CASE TableChange
    <2>1. PICK rows \in SUBSET Rows : Disturb(rows) /\ InForce \ rows \subseteq InForce'
        BY <1>1, <1>6, ChangeDisturbs
    <2>2. ASSUME NEW r \in Requests PROVE LookupOK(r)'
        <3>1. \A f \in Fields : req'[r][f] = req[r][f]
            BY <1>1, <1>3, <2>1, DisturbRequest
        <3>2. req'[r].standing =
                 IF req[r].pc = "idle" THEN req[r].standing ELSE req[r].standing \ rows
            BY <1>1, <2>1, DisturbRequest
        <3>3. req[r].pc = "idle" => req[r].standing = {}
            BY <1>2 DEF LookupOK
        <3>4. req'[r].standing \subseteq InForce' /\ req'[r].standing \subseteq req[r].standing
            BY <1>2, <2>1, <3>2, <3>3 DEF LookupOK
        <3> QED
            BY <1>2, <3>1, <3>4, LookupStays
    <2> QED
        BY <1>1, <2>2 DEF RulesInv
<1>7. ASSUME NEW a \in Admins, Load(a) PROVE RulesInv'
    <2>1. UNCHANGED <<req, rules>>
        BY <1>7 DEF Load, tableVars
    <2> QED
        BY <1>1, <1>4, <2>1 DEF RulesInv
<1>8. ASSUME NEW a \in Admins, Install(a) PROVE RulesInv'
    <2>1. InForce' = InForce /\ UNCHANGED rules
        BY <1>8 DEF Install, tableVars, InForce
    <2>2. ASSUME NEW r \in Requests PROVE LookupOK(r)'
        <3>1. CASE req'[r] = req[r]
            BY <1>4, <2>1, <3>1
        <3>2. CASE req'[r] = [req[r] EXCEPT !.quiet = FALSE]
            <4>1. /\ \A f \in Fields : req'[r][f] = req[r][f]
                  /\ req'[r].standing = req[r].standing
                BY <1>2, <3>2 DEF Request
            <4>2. req'[r].standing \subseteq InForce'
                BY <1>2, <2>1, <4>1 DEF LookupOK
            <4> QED
                BY <1>2, <4>1, <4>2, LookupStays
        <3> QED
            BY <1>1, <1>8, <3>1, <3>2, InstallRequests
    <2> QED
        BY <1>1, <2>2 DEF RulesInv
<1>9. ASSUME NEW p \in Processes, Restart(p) PROVE RulesInv'
    <2>1. UNCHANGED rules /\ \A r \in Requests : req'[r] \in {NoRequest, req[r]}
        BY <1>9 DEF Restart, tableVars
    <2> QED
        BY <1>1, <1>4, <2>1, IdleLookup DEF RulesInv
<1>10. CASE UNCHANGED vars
    BY <1>1, <1>4, <1>10 DEF RulesInv, vars, tableVars
<1> QED
    BY <1>5, <1>6, <1>7, <1>8, <1>9, <1>10 DEF Next, RequestStep, TableChange

\* However administrators change the rules during a lookup, no rule that stood all
\* the while is passed over for a lesser one, or for none.
THEOREM RulesKeepOrder == Spec => []RulesInOrder
<1>1. Init => RulesInv
    <2> SUFFICES ASSUME Init PROVE RulesInv
        OBVIOUS
    <2>1. \A r \in Requests : LookupOK(r)
        BY DEF Init, LookupOK, NoRequest
    <2> QED
        BY <2>1, InitType DEF RulesInv
<1>2. RulesInv => RulesInOrder
    BY DEF RulesInv, LookupOK, RulesInOrder
<1> QED
    BY <1>1, <1>2, RulesStep, PTL DEF Spec

-----------------------------------------------------------------------------
(* The list of ranges *)

\* A list is that of the table, but for ranges whose groups have been deleted.
Current(f) ==
    \A k \in Ranges : f[k] # mapping[k] => mapping[k] = None /\ f[k] \in used \ groups

\* If reloads have not overlapped nor failed, one is about to begin, or at most one
\* is under way, and what it has read, or else the list, is current.
ListOK ==
    ~overlapped =>
        /\ \A a, b \in Admins :
              handler[a] = "installing" /\ handler[b] = "installing" => a = b
        /\ \/ \E a \in Admins : handler[a] = "loading"
           \/ \E a \in Admins : handler[a] = "installing" /\ Current(loaded[a])
           \/ (\A a \in Admins : handler[a] = "idle") /\ Current(list["core"])

ListInv == GroupsInv /\ ListOK

LEMMA InitList == Init => ListOK
BY DEF Init, ListOK, Current, Unmapped, Processes

\* The handlers and lists stay, and so does what is current.
LEMMA ListStays ==
    ASSUME ListOK, UNCHANGED <<list, loaded, overlapped, handler>>,
           \A f : Current(f) => Current(f)'
    PROVE  ListOK'
BY DEF ListOK, Current

\* A handler that is about to reload makes up for everything.
LEMMA ListReloads ==
    ASSUME ListInv, UNCHANGED <<list, loaded, overlapped>>, NEW a \in Admins,
           handler' = [handler EXCEPT ![a] = "loading"]
    PROVE  ListOK'
<1>1. handler \in [Admins -> {"idle", "loading", "installing"}]
    BY DEF ListInv, GroupsInv, TypeInv, TypeOK
<1>2. handler'[a] = "loading" /\ \A b \in Admins \ {a} : handler'[b] = handler[b]
    BY <1>1
<1>3. \A b \in Admins : handler'[b] = "installing" => handler[b] = "installing"
    BY <1>2
<1> QED
    BY <1>2, <1>3 DEF ListOK, ListInv

LEMMA ChangeList ==
    ASSUME ListInv, TableChange
    PROVE  ListOK'
<1>1. TypeInv /\ TypeOK /\ NamesKnown /\ ListOK
    BY DEF ListInv, GroupsInv, TypeInv
<1>2. UNCHANGED <<list, loaded, overlapped>>
    BY <1>1, ChangeDisturbs
<1>3. ASSUME UNCHANGED <<groups, used, mapping, handler>> PROVE ListOK'
    BY <1>1, <1>2, <1>3, ListStays DEF Current
<1>4. ASSUME NEW g \in Groups, NEW t \in Settings, CreateGroup(g, t) PROVE ListOK'
    <2>1. /\ used' = used \cup {g} /\ groups' = groups \cup {g} /\ g \notin used
          /\ UNCHANGED <<mapping, handler>>
        BY <1>4 DEF CreateGroup, InsertGroup, listVars
    <2>2. \A f : Current(f) => Current(f)'
        BY <2>1 DEF Current
    <2> QED
        BY <1>1, <1>2, <2>1, <2>2, ListStays
<1>5. ASSUME NEW g \in AllGroups, NEW t \in Settings, UpdateGroup(g, t) PROVE ListOK'
    BY <1>3, <1>5 DEF UpdateGroup, listVars
<1>6. ASSUME NEW g \in AllGroups, DeleteGroup(g) PROVE ListOK'
    <2>1. /\ used' = used /\ groups' = groups \ {g} /\ g \in used
          /\ UNCHANGED handler
          /\ \/ UNCHANGED mapping
             \/ mapping' = [k \in DOMAIN mapping |-> IF mapping[k] = g THEN None ELSE mapping[k]]
        BY <1>1, <1>6 DEF DeleteGroup, RemoveGroup, NamesKnown, listVars
    <2>2. \A k \in Ranges : mapping'[k] = mapping[k] \/ (mapping[k] = g /\ mapping'[k] = None)
        BY <1>1, <2>1 DEF TypeOK
    <2>3. ASSUME NEW f, Current(f), NEW k \in Ranges, f[k] # mapping'[k]
          PROVE  mapping'[k] = None /\ f[k] \in used' \ groups'
        <3>1. CASE f[k] = mapping[k]
            BY <2>1, <2>2, <2>3, <3>1
        <3>2. CASE f[k] # mapping[k]
            <4>1. mapping[k] = None /\ f[k] \in used \ groups
                BY <2>3, <3>2 DEF Current
            <4>2. mapping'[k] = None
                BY <2>2, <4>1
            <4> QED
                BY <2>1, <4>1, <4>2
        <3> QED
            BY <3>1, <3>2
    <2>4. \A f : Current(f) => Current(f)'
        BY <2>3 DEF Current
    <2> QED
        BY <1>1, <1>2, <2>1, <2>4, ListStays
<1>7. ASSUME NEW a \in Admins, NEW k \in Keys \cup Ranges, DeleteMapping(a, k) PROVE ListOK'
    BY <1>2, <1>7, ListReloads DEF DeleteMapping
<1>8. ASSUME NEW a \in Admins, NEW k \in Keys \cup Ranges, NEW g \in AllGroups,
             AddMapping(a, k, g)
      PROVE  ListOK'
    <2>1. /\ mapping' = [mapping EXCEPT ![k] = g] /\ UNCHANGED <<groups, used>>
          /\ handler' = [handler EXCEPT ![a] = IF k \in Ranges THEN "loading" ELSE @]
        BY <1>8 DEF AddMapping
    <2>2. CASE k \in Ranges
        BY <1>2, <2>1, <2>2, ListReloads
    <2>3. CASE k \notin Ranges
        <3>1. UNCHANGED handler /\ \A l \in Ranges : mapping'[l] = mapping[l]
            BY <1>1, <2>1, <2>3 DEF TypeOK
        <3>2. \A f : Current(f) => Current(f)'
            BY <2>1, <3>1 DEF Current
        <3> QED
            BY <1>1, <1>2, <3>1, <3>2, ListStays
    <2> QED
        BY <2>2, <2>3
<1>9. ASSUME NEW x \in Rows, DeleteRule(x) PROVE ListOK'
    BY <1>3, <1>9 DEF DeleteRule, listVars
<1>10. ASSUME NEW x \in Rows, NEW act \in {"allow", "block"}, SetRule(x, act) PROVE ListOK'
    BY <1>3, <1>10 DEF SetRule, listVars
<1> QED
    BY <1>4, <1>5, <1>6, <1>7, <1>8, <1>9, <1>10 DEF TableChange

LEMMA NextList == ListInv /\ [Next]_vars => ListOK'
<1> SUFFICES ASSUME ListInv, [Next]_vars PROVE ListOK'
    OBVIOUS
<1>1. TypeInv /\ TypeOK /\ NamesKnown /\ ListOK
    BY DEF ListInv, GroupsInv, TypeInv
<1>2. ASSUME UNCHANGED <<tableVars, listVars>> PROVE ListOK'
    BY <1>1, <1>2, ListStays DEF Current, tableVars, listVars
<1>3. ASSUME NEW r \in Requests, RequestStep(r) PROVE ListOK'
    BY <1>1, <1>2, <1>3, StepChanges
<1>4. CASE TableChange
    BY <1>4, ChangeList
<1>5. ASSUME NEW a \in Admins, Load(a) PROVE ListOK'
    <2>1. UNCHANGED <<groups, used, mapping, list>>
        BY <1>5 DEF Load, tableVars
    <2>2. CASE ~overlapped'
        <3>1. /\ handler' = [handler EXCEPT ![a] = "installing"]
              /\ loaded' = [loaded EXCEPT ![a] = InTable]
              /\ \A b \in Admins \ {a} : handler[b] # "installing"
            BY <1>5, <2>2 DEF Load
        <3>2. handler'[a] = "installing" /\ loaded'[a] = InTable
              /\ \A b \in Admins \ {a} : handler'[b] # "installing"
            BY <1>1, <3>1 DEF TypeOK
        <3>3. Current(loaded[a])'
            BY <2>1, <3>2 DEF Current, InTable
        <3> QED
            BY <3>2, <3>3 DEF ListOK
    <2> QED
        BY <2>2 DEF ListOK
<1>6. ASSUME NEW a \in Admins, Install(a) PROVE ListOK'
    <2>1. /\ UNCHANGED <<groups, used, mapping, overlapped>> /\ handler[a] = "installing"
          /\ handler' = [handler EXCEPT ![a] = "idle"]
          /\ list' = [list EXCEPT !["core"] = loaded[a]]
        BY <1>6 DEF Install, tableVars
    <2>2. list'["core"] = loaded[a] /\ handler'[a] = "idle"
          /\ \A b \in Admins \ {a} : handler'[b] = handler[b]
        BY <1>1, <2>1 DEF TypeOK, Processes
    <2>3. CASE ~overlapped
        <3>1. \A b \in Admins \ {a} : handler'[b] \in {"idle", "loading"}
            BY <1>1, <2>1, <2>2, <2>3 DEF ListOK, TypeOK
        <3>2. CASE \E b \in Admins : handler[b] = "loading"
            <4>1. \E b \in Admins : handler'[b] = "loading"
                BY <2>1, <2>2, <3>2
            <4> QED
                BY <2>2, <3>1, <4>1 DEF ListOK
        <3>3. CASE ~\E b \in Admins : handler[b] = "loading"
            <4>1. Current(loaded[a])
                BY <1>1, <2>1, <2>3, <3>3 DEF ListOK
            <4>2. Current(list["core"])'
                BY <2>1, <2>2, <4>1 DEF Current
            <4>3. \A b \in Admins : handler'[b] = "idle"
                BY <2>2, <3>1, <3>3
            <4> QED
                BY <4>2, <4>3 DEF ListOK
        <3> QED
            BY <3>2, <3>3
    <2> QED
        BY <2>1, <2>3 DEF ListOK
<1>7. ASSUME NEW p \in Processes, Restart(p) PROVE ListOK'
    <2>1. UNCHANGED <<groups, used, mapping>>
        BY <1>7 DEF Restart, tableVars
    <2>2. CASE p = "core"
        <3>1. /\ \A a \in Admins : handler'[a] = "idle"
              /\ list'["core"] = InTable
            BY <1>1, <1>7, <2>2 DEF Restart, TypeOK
        <3>2. Current(list["core"])'
            BY <2>1, <3>1 DEF Current, InTable
        <3> QED
            BY <3>1, <3>2 DEF ListOK
    <2>3. CASE p # "core"
        <3>1. UNCHANGED <<handler, loaded, overlapped>> /\ list'["core"] = list["core"]
            BY <1>1, <1>7, <2>3 DEF Restart, TypeOK, Processes
        <3>2. Current(list["core"]) => Current(list["core"])'
            BY <2>1, <3>1 DEF Current
        <3>3. \A a \in Admins : Current(loaded[a]) => Current(loaded[a])'
            BY <2>1, <3>1 DEF Current
        <3> QED
            BY <1>1, <3>1, <3>2, <3>3 DEF ListOK
    <2> QED
        BY <2>2, <2>3
<1>8. CASE UNCHANGED vars
    BY <1>2, <1>8 DEF vars
<1> QED
    BY <1>3, <1>4, <1>5, <1>6, <1>7, <1>8 DEF Next, RequestStep, TableChange

\* When the handlers are done and their reloads neither overlapped nor failed,
\* core-api's list is that of the table, but for ranges of deleted groups.
THEOREM ListKeepsUp == Spec => []ListFollowsTable
<1>1. Init => ListInv
    BY InitType, InitKnown, InitList DEF ListInv, GroupsInv
<1>2. ListInv /\ [Next]_vars => ListInv'
    BY NextType, NextKnown, NextList DEF ListInv, GroupsInv
<1>3. ListInv => ListFollowsTable
    <2> SUFFICES ASSUME ListInv, ~overlapped, \A a \in Admins : handler[a] = "idle"
                 PROVE  Current(list["core"])
        BY DEF ListFollowsTable, Current
    <2> QED
        BY DEF ListInv, ListOK
<1> QED
    BY <1>1, <1>2, <1>3, PTL DEF Spec

-----------------------------------------------------------------------------
(* Answers *)

GroupInForce(c) == IF GroupOf(c) \in groups THEN GroupOf(c) ELSE Default
SettingsInForce(c) == IF GroupOf(c) \in groups THEN blocks[GroupOf(c)] ELSE Builtin

\* What a request knows of the tables while it is quiet and its process's list is
\* theirs: no key asked for so far is mapped, the group is the client's, no row asked
\* for so far is in force, the domain is not on the whitelist.
QuietOK(r) ==
    LET q == req[r]
    IN  q.quiet /\ list[q.at] = InTable =>
          /\ q.pc = "keys" =>
                \A i \in 1..(q.next - 1) : mapping[Direct[q.client][i]] = None
          /\ q.pc = "ranges" =>
                \A i \in DOMAIN Direct[q.client] : mapping[Direct[q.client][i]] = None
          /\ q.pc = "group" => q.group = GroupOf(q.client)
          /\ q.pc \in {"rules", "whitelist", "assess"} =>
                q.group = GroupInForce(q.client) /\ q.settings = SettingsInForce(q.client)
          /\ q.pc = "rules" => \A m \in 1..(q.next - 1) : rules[RowAt(r, m)] = None
          /\ q.pc \in {"whitelist", "assess"} =>
                InForce \cap Concerning(q.group, q.domain) = {}
          /\ q.pc = "assess" => ~InWhitelist(q.domain)
          /\ q.pc = "done" => q.answer = Decision(q.client, q.domain, q.threat)

QuietInv == TypeInv /\ \A r \in Requests : QuietOK(r)

LEMMA IdleQuiet ==
    ASSUME NEW r \in Requests, req'[r].pc = "idle" \/ ~req'[r].quiet
    PROVE  QuietOK(r)'
BY DEF QuietOK

\* Tables and lists that stay decide as before.
LEMMA SameTables ==
    ASSUME UNCHANGED tableVars
    PROVE  /\ InForce' = InForce /\ InTable' = InTable
           /\ \A c : /\ GroupOf(c)' = GroupOf(c) /\ GroupInForce(c)' = GroupInForce(c)
                     /\ SettingsInForce(c)' = SettingsInForce(c)
           /\ \A c, d, threat : Decision(c, d, threat)' = Decision(c, d, threat)
<1>1. InForce' = InForce /\ InTable' = InTable /\ UNCHANGED <<groups, blocks, mapping, rules>>
    BY DEF tableVars, InForce, InTable
<1>2. ASSUME NEW c
      PROVE  /\ GroupOf(c)' = GroupOf(c) /\ GroupInForce(c)' = GroupInForce(c)
             /\ SettingsInForce(c)' = SettingsInForce(c)
    BY <1>1 DEF GroupOf, FirstMatch, GroupInForce, SettingsInForce
<1>3. ASSUME NEW c, NEW d, NEW threat PROVE Decision(c, d, threat)' = Decision(c, d, threat)
    <2> DEFINE rows == InForce \cap Concerning(GroupInForce(c), d)
               first == CHOOSE x \in rows : \A y \in rows \ {x} : Before(x, y, d)
    <2>1. Decision(c, d, threat) =
            IF rows # {} THEN rules[first]
            ELSE IF InWhitelist(d) THEN "allow"
            ELSE IF threat \cap SettingsInForce(c) # {} THEN "block" ELSE "allow"
        BY Zenon DEF Decision, GroupInForce, SettingsInForce
    <2>2. Concerning(GroupInForce(c), d)' = Concerning(GroupInForce(c), d)
        BY <1>2 DEF Concerning
    <2>3. rows' = rows
        BY <1>1, <2>2
    <2>4. \A x, y : Before(x, y, d)' = Before(x, y, d)
        BY DEF Before, Distance
    <2> HIDE DEF rows
    <2>5. first' = first
        BY <2>3, <2>4
    <2>6. InWhitelist(d)' = InWhitelist(d)
        BY DEF InWhitelist
    <2>7. SettingsInForce(c)' = SettingsInForce(c)
        BY <1>2
    <2> HIDE DEF first
    <2>8. Decision(c, d, threat)' =
            (IF rows # {} THEN rules[first]
             ELSE IF InWhitelist(d) THEN "allow"
             ELSE IF threat \cap SettingsInForce(c) # {} THEN "block" ELSE "allow")'
        BY Zenon DEF Decision, GroupInForce, SettingsInForce, rows, first
    <2> QED
        BY <1>1, <2>1, <2>3, <2>5, <2>6, <2>7, <2>8
<1> QED
    BY <1>1, <1>2, <1>3

LEMMA QuietStays ==
    ASSUME NEW r \in Requests, QuietOK(r), UNCHANGED tableVars,
           req'[r] = req[r], list'[req[r].at] = list[req[r].at]
    PROVE  QuietOK(r)'
<1>1. \A m : RowAt(r, m)' = RowAt(r, m)
    BY DEF RowAt
<1>2. UNCHANGED <<mapping, rules>>
    BY DEF tableVars
<1>3. \A g, d : Concerning(g, d)' = Concerning(g, d) /\ InWhitelist(d)' = InWhitelist(d)
    BY DEF Concerning, InWhitelist
<1> QED
    BY <1>1, <1>2, <1>3, SameTables DEF QuietOK

\* The first key that is mapped gives a client its group.
LEMMA FirstKey ==
    ASSUME NEW c \in Clients, NEW i \in DOMAIN Direct[c],
           mapping[Direct[c][i]] # None,
           \A j \in 1..(i - 1) : mapping[Direct[c][j]] = None
    PROVE  GroupOf(c) = mapping[Direct[c][i]]
<1> DEFINE named == {j \in DOMAIN Direct[c] : mapping[Direct[c][j]] # None}
<1>1. DOMAIN Direct[c] \subseteq Nat \ {0}
    BY PolicyAssumption
<1>2. i \in named
    OBVIOUS
<1>3. \A j \in named : i <= j
    BY <1>1
<1>4. \A k \in named : (\A j \in named : k <= j) => k = i
    BY <1>1, <1>2, <1>3
<1>5. (CHOOSE k \in named : \A j \in named : k <= j) = i
    BY <1>2, <1>3, <1>4
<1> QED
    BY <1>2, <1>5 DEF GroupOf

\* A list that is that of the table finds the same range as the table.
LEMMA SameMatch ==
    ASSUME NEW c, NEW f, f = InTable
    PROVE  FirstMatch(c, f) = FirstMatch(c, mapping)
<1>1. \A i \in DOMAIN RangeOrder : f[RangeOrder[i]] = mapping[RangeOrder[i]]
    BY DEF InTable, Ranges
<1> QED
    BY <1>1 DEF FirstMatch

\* Of the rows in force, the first in the order of the lookup decides.
LEMMA FirstRow ==
    ASSUME NEW r \in Requests, req[r] \in Request,
           NEW n \in 1..(2 * Len(Line[req[r].domain])),
           \A m \in 1..(n - 1) : rules[RowAt(r, m)] = None,
           rules[RowAt(r, n)] # None,
           req[r].group = GroupInForce(req[r].client),
           NEW threat
    PROVE  rules[RowAt(r, n)] = Decision(req[r].client, req[r].domain, threat)
<1> DEFINE d == req[r].domain
           row == RowAt(r, n)
           rows == InForce \cap Concerning(req[r].group, d)
           first == CHOOSE x \in rows : \A y \in rows \ {x} : Before(x, y, d)
<1>1. row \in rows
    BY RowType DEF InForce, Concerning
<1>2. ASSUME NEW y \in rows \ {row} PROVE Before(row, y, d)
    <2>1. y \in Concerning(req[r].group, d) /\ rules[y] # None
        BY DEF InForce
    <2>2. \A m \in 1..(n - 1) : RowAt(r, m) # y
        BY <2>1
    <2> QED
        BY <2>1, <2>2, AskedFirst
<1>3. \A x \in rows : Distance(d, x) \in Int
    BY PlaceOf
<1>4. ASSUME NEW x \in rows, \A y \in rows \ {x} : Before(x, y, d) PROVE x = row
    <2>1. SUFFICES ASSUME x # row PROVE FALSE
        OBVIOUS
    <2>2. Before(x, row, d) /\ Before(row, x, d)
        BY <1>1, <1>2, <1>4, <2>1
    <2>3. Distance(d, x) \in Int /\ Distance(d, row) \in Int
        BY <1>1, <1>3
    <2> QED
        BY <2>2, <2>3 DEF Before
<1> HIDE DEF row, rows
<1>5. first = row
    BY <1>1, <1>2, <1>4
<1>6. rows = InForce \cap
        Concerning(IF GroupOf(req[r].client) \in groups THEN GroupOf(req[r].client)
                   ELSE Default, d)
    BY DEF rows, GroupInForce
<1>7. Decision(req[r].client, d, threat) = rules[first]
    BY <1>1, <1>6 DEF Decision
<1> QED
    BY <1>5, <1>7 DEF row

LEMMA QuietStep ==
    ASSUME QuietInv, NEW r \in Requests, RequestStep(r)
    PROVE  QuietOK(r)'
<1> DEFINE q == req[r]
           t == req'[r]
           c == q.client
<1>1. TypeInv /\ q \in Request /\ InRange(q) /\ QuietOK(r)
    BY DEF QuietInv, TypeInv, TypeOK, NextExists
<1>2. /\ q.client \in Clients /\ q.domain \in Domains /\ q.at \in Processes
      /\ Direct[c] \in Seq(Keys) /\ Line[q.domain] \in Seq(Names)
    BY <1>1, PolicyAssumption DEF Request
<1>3. UNCHANGED <<tableVars, list>>
    BY <1>1, StepChanges DEF listVars
<1>4. UNCHANGED <<mapping, rules, groups, blocks>>
    BY <1>3 DEF tableVars
<1>5. SUFFICES ASSUME t.quiet, list[t.at] = InTable PROVE QuietOK(r)'
    BY <1>3, SameTables DEF QuietOK
<1>6. CASE Begin(r)
    <2>1. PICK p \in Processes, e \in Clients, d \in Domains :
            Becomes(r, [NoRequest EXCEPT
                    !.pc = IF Direct[e] = <<>> THEN "ranges" ELSE "keys",
                    !.at = p, !.client = e, !.domain = d, !.standing = InForce])
        BY <1>6 DEF Begin
    <2> DEFINE to == IF Direct[e] = <<>> THEN "ranges" ELSE "keys"
    <2>2. to \in {"ranges", "keys"} /\ (to = "ranges" => Direct[e] = <<>>)
        OBVIOUS
    <2> HIDE DEF to
    <2>3. t = [NoRequest EXCEPT !.pc = to, !.at = p, !.client = e, !.domain = d,
                                !.standing = InForce]
        BY <1>1, <2>1, Becoming DEF to
    <2>4. t.pc = to /\ t.next = 1 /\ t.client = e
        BY <2>3 DEF NoRequest
    <2>5. 1..(t.next - 1) = {} /\ (t.pc = "ranges" => DOMAIN Direct[t.client] = {})
        BY <2>2, <2>4
    <2> QED
        BY <2>2, <2>4, <2>5 DEF QuietOK
<1>7. CASE AskKey(r)
    <2>1. q.pc = "keys" /\ q.next \in Nat \ {0} /\ q.next \in DOMAIN Direct[c]
          /\ Len(Direct[c]) \in Nat /\ DOMAIN Direct[c] = 1..Len(Direct[c])
        BY <1>1, <1>2, <1>7 DEF AskKey, InRange
    <2>2. CASE /\ mapping[Key(r)] # None
               /\ t = [q EXCEPT !.pc = "group", !.group = mapping[Key(r)]]
        <3>1. t.pc = "group" /\ t.client = c /\ t.group = mapping[Key(r)]
              /\ q.quiet /\ list[q.at] = InTable
            BY <1>1, <1>5, <2>2 DEF Request
        <3>2. \A j \in 1..(q.next - 1) : mapping[Direct[c][j]] = None
            BY <1>1, <2>1, <3>1 DEF QuietOK
        <3>3. GroupOf(c) = mapping[Key(r)]
            BY <1>2, <2>1, <2>2, <3>2, FirstKey DEF Key
        <3> QED
            BY <1>3, <3>1, <3>3, SameTables DEF QuietOK
    <2>3. CASE t = [q EXCEPT
                !.pc = IF q.next < Len(Direct[c]) THEN "keys" ELSE "ranges",
                !.next = @ + 1, !.quiet = @ /\ mapping[Key(r)] = None]
        <3>1. /\ t.pc = IF q.next < Len(Direct[c]) THEN "keys" ELSE "ranges"
              /\ t.next = q.next + 1 /\ t.client = c /\ t.at = q.at
              /\ q.quiet /\ mapping[Key(r)] = None
            BY <1>1, <1>5, <2>3 DEF Request
        <3>2. \A j \in 1..(q.next - 1) : mapping[Direct[c][j]] = None
            BY <1>1, <1>5, <2>1, <3>1 DEF QuietOK
        <3>3. \A j \in 1..q.next : mapping[Direct[c][j]] = None
            <4>1. \A j \in 1..q.next : j = q.next \/ j \in 1..(q.next - 1)
                BY <2>1
            <4> QED
                BY <3>1, <3>2, <4>1 DEF Key
        <3>4. CASE q.next < Len(Direct[c])
            <4>1. t.pc = "keys" /\ 1..(t.next - 1) = 1..q.next
                BY <2>1, <3>1, <3>4
            <4> QED
                BY <1>4, <3>1, <3>3, <4>1 DEF QuietOK
        <3>5. CASE ~(q.next < Len(Direct[c]))
            <4>1. t.pc = "ranges" /\ DOMAIN Direct[c] = 1..q.next
                BY <2>1, <3>1, <3>5
            <4> QED
                BY <1>4, <3>1, <3>3, <4>1 DEF QuietOK
        <3> QED
            BY <3>4, <3>5
    <2> QED
        BY <1>1, <1>7, <2>2, <2>3, Becoming DEF AskKey
<1>8. CASE MatchRange(r)
    <2> DEFINE found == FirstMatch(c, list[q.at])
               g == IF found = {} THEN Default
                    ELSE list[q.at][CHOOSE k \in found : TRUE]
    <2>1. Becomes(r, [q EXCEPT !.pc = "group", !.group = g]) /\ q.pc = "ranges"
        BY <1>8 DEF MatchRange
    <2> HIDE DEF g
    <2>2. t = [q EXCEPT !.pc = "group", !.group = g]
        BY <1>1, <2>1, Becoming
    <2>3. t.pc = "group" /\ t.client = c /\ t.group = g /\ t.at = q.at
          /\ q.quiet /\ list[q.at] = InTable
        BY <1>1, <1>5, <2>2 DEF Request
    <2>4. {i \in DOMAIN Direct[c] : mapping[Direct[c][i]] # None} = {}
        BY <1>1, <2>1, <2>3 DEF QuietOK
    <2>5. found = FirstMatch(c, mapping) /\ found \subseteq Ranges
        BY <1>2, <2>3, SameMatch, FirstMatchType
    <2> HIDE DEF found
    <2>6. GroupOf(c) = IF found = {} THEN Default ELSE mapping[CHOOSE k \in found : TRUE]
        BY <2>4, <2>5 DEF GroupOf
    <2>7. \A k \in found : list[q.at][k] = mapping[k]
        BY <2>3, <2>5 DEF InTable
    <2>8. g = GroupOf(c)
        BY <2>6, <2>7 DEF g
    <2> QED
        BY <1>3, <2>3, <2>8, SameTables DEF QuietOK
<1>9. CASE GetGroup(r)
    <2>1. q.pc = "group"
        BY <1>9 DEF GetGroup
    <2>2. CASE q.group \in groups
               /\ t = [q EXCEPT !.pc = "rules", !.next = 1, !.settings = blocks[q.group]]
        <3>1. t.pc = "rules" /\ t.next = 1 /\ t.client = c /\ t.group = q.group /\ t.at = q.at
              /\ t.settings = blocks[q.group] /\ q.quiet /\ list[q.at] = InTable
            BY <1>1, <1>5, <2>2 DEF Request
        <3>2. q.group = GroupOf(c)
            BY <1>1, <2>1, <3>1 DEF QuietOK
        <3>3. t.group = GroupInForce(c) /\ t.settings = SettingsInForce(c)
            BY <2>2, <3>1, <3>2 DEF GroupInForce, SettingsInForce
        <3>4. 1..(t.next - 1) = {}
            BY <3>1
        <3> QED
            BY <1>3, <3>1, <3>3, <3>4, SameTables DEF QuietOK
    <2>3. CASE t = [q EXCEPT !.pc = "rules", !.next = 1, !.group = Default,
                             !.settings = Builtin, !.quiet = @ /\ q.group \notin groups]
        <3>1. t.pc = "rules" /\ t.next = 1 /\ t.client = c /\ t.group = Default /\ t.at = q.at
              /\ t.settings = Builtin /\ q.quiet /\ list[q.at] = InTable
              /\ q.group \notin groups
            <4> DEFINE b == q.quiet /\ q.group \notin groups
            <4>1. t = [q EXCEPT !.pc = "rules", !.next = 1, !.group = Default,
                                !.settings = Builtin, !.quiet = b]
                BY <2>3
            <4> HIDE DEF b
            <4>2. /\ t.pc = "rules" /\ t.next = 1 /\ t.client = c /\ t.group = Default
                  /\ t.at = q.at /\ t.settings = Builtin /\ t.quiet = b
                BY <1>1, <4>1 DEF Request
            <4> QED
                BY <1>5, <4>2 DEF b
        <3>2. q.group = GroupOf(c)
            BY <1>1, <2>1, <3>1 DEF QuietOK
        <3>3. t.group = GroupInForce(c) /\ t.settings = SettingsInForce(c)
            BY <3>1, <3>2 DEF GroupInForce, SettingsInForce
        <3>4. 1..(t.next - 1) = {}
            BY <3>1
        <3> QED
            BY <1>3, <3>1, <3>3, <3>4, SameTables DEF QuietOK
    <2> QED
        BY <1>1, <1>9, <2>2, <2>3, Becoming DEF GetGroup
<1>10. CASE AskRule(r)
    <2> DEFINE row == RowAt(r, q.next)
               N == 2 * Len(Line[q.domain])
    <2>1. q.pc = "rules" /\ q.next \in 1..N /\ N \in Nat
        BY <1>1, <1>2, <1>10 DEF AskRule, InRange
    <2>2. ASSUME q.quiet, list[q.at] = InTable
          PROVE  /\ \A m \in 1..(q.next - 1) : rules[RowAt(r, m)] = None
                 /\ q.group = GroupInForce(c) /\ q.settings = SettingsInForce(c)
        BY <1>1, <2>1, <2>2 DEF QuietOK
    <2>3. CASE rules[row] # None /\ t = [q EXCEPT !.pc = "done", !.rule = {row},
                                                 !.answer = rules[row]]
        <3>1. t.pc = "done" /\ t.answer = rules[row] /\ t.threat = q.threat
              /\ t.client = c /\ t.domain = q.domain /\ q.quiet /\ list[q.at] = InTable
            BY <1>1, <1>5, <2>3 DEF Request
        <3>2. rules[row] = Decision(c, q.domain, q.threat)
            BY <1>1, <2>1, <2>2, <2>3, <3>1, FirstRow
        <3> QED
            BY <1>3, <3>1, <3>2, SameTables DEF QuietOK
    <2>4. CASE /\ rules[row] = None
               /\ t = [q EXCEPT !.pc = IF q.next < N THEN "rules" ELSE "whitelist",
                                !.next = @ + 1]
        <3>1. /\ t.pc = IF q.next < N THEN "rules" ELSE "whitelist"
              /\ t.next = q.next + 1 /\ t.client = c /\ t.at = q.at
              /\ t.group = q.group /\ t.domain = q.domain /\ t.settings = q.settings
              /\ q.quiet /\ list[q.at] = InTable
            BY <1>1, <1>5, <2>1, <2>4 DEF Request
        <3>2. \A m \in 1..q.next : rules[RowAt(r, m)] = None
            <4>1. \A m \in 1..q.next : m = q.next \/ m \in 1..(q.next - 1)
                BY <2>1
            <4> QED
                BY <2>2, <2>4, <3>1, <4>1
        <3>3. t.group = GroupInForce(c) /\ t.settings = SettingsInForce(c)
            BY <2>2, <3>1
        <3>4. CASE q.next < N
            <4>1. t.pc = "rules" /\ 1..(t.next - 1) = 1..q.next
                BY <2>1, <3>1, <3>4
            <4>2. \A m : RowAt(r, m)' = RowAt(r, m)
                BY <3>1 DEF RowAt
            <4> QED
                BY <1>3, <1>4, <3>1, <3>2, <3>3, <4>1, <4>2, SameTables DEF QuietOK
        <3>5. CASE ~(q.next < N)
            <4>1. t.pc = "whitelist" /\ q.next = N
                BY <2>1, <3>1, <3>5
            <4>2. ASSUME NEW x \in InForce \cap Concerning(q.group, q.domain) PROVE FALSE
                <5> DEFINE i == Distance(q.domain, x)
                           m == IF x[1] = Global THEN 2 * i ELSE 2 * i - 1
                <5>1. i \in 1..Len(Line[q.domain]) /\ RowAt(r, m) = x
                    BY <1>1, PlaceOf
                <5> HIDE DEF i
                <5>2. m \in 1..N
                    BY <2>1, <5>1
                <5> QED
                    BY <3>2, <4>1, <4>2, <5>1, <5>2 DEF InForce
            <4>3. InForce' \cap Concerning(t.group, t.domain) = {}
                BY <1>3, <3>1, <4>2, SameTables
            <4> QED
                BY <1>3, <3>1, <3>3, <4>1, <4>3, SameTables DEF QuietOK, Concerning
        <3> QED
            BY <3>4, <3>5
    <2> QED
        BY <1>1, <1>10, <2>3, <2>4, Becoming DEF AskRule
<1>11. CASE AskRuleFails(r)
    <2>1. t = [q EXCEPT !.pc = "whitelist", !.quiet = FALSE, !.standing = {}]
        BY <1>1, <1>11, Becoming DEF AskRuleFails
    <2> QED
        BY <1>1, <1>5, <2>1 DEF Request
<1>12. ASSUME q.quiet, list[q.at] = InTable, q.pc \in {"whitelist", "assess"}, NEW threat
       PROVE  Decision(c, q.domain, threat) =
                IF InWhitelist(q.domain) THEN "allow"
                ELSE IF threat \cap q.settings # {} THEN "block" ELSE "allow"
    <2>1. q.group = GroupInForce(c) /\ q.settings = SettingsInForce(c)
          /\ InForce \cap Concerning(q.group, q.domain) = {}
        BY <1>1, <1>12 DEF QuietOK
    <2> QED
        BY <2>1, Zenon DEF Decision, GroupInForce, SettingsInForce
<1>13. CASE Whitelist(r)
    <2>1. q.pc = "whitelist"
        BY <1>13 DEF Whitelist
    <2>2. CASE InWhitelist(q.domain) /\ t = [q EXCEPT !.pc = "done", !.answer = "allow"]
        <3>1. t.pc = "done" /\ t.answer = "allow" /\ t.threat = q.threat
              /\ t.client = c /\ t.domain = q.domain /\ q.quiet /\ list[q.at] = InTable
            BY <1>1, <1>5, <2>2 DEF Request
        <3>2. t.answer = Decision(c, q.domain, q.threat)
            BY <1>12, <2>1, <2>2, <3>1
        <3> QED
            BY <1>3, <3>1, <3>2, SameTables DEF QuietOK
    <2>3. CASE t = [q EXCEPT !.pc = "assess", !.quiet = @ /\ ~InWhitelist(q.domain)]
        <3>1. /\ t.pc = "assess" /\ t.client = c /\ t.group = q.group /\ t.domain = q.domain
              /\ t.settings = q.settings /\ q.quiet /\ list[q.at] = InTable
              /\ ~InWhitelist(q.domain)
            <4> DEFINE b == q.quiet /\ ~InWhitelist(q.domain)
            <4>1. t = [q EXCEPT !.pc = "assess", !.quiet = b]
                BY <2>3
            <4> HIDE DEF b
            <4>2. /\ t.pc = "assess" /\ t.client = c /\ t.group = q.group
                  /\ t.domain = q.domain /\ t.settings = q.settings /\ t.quiet = b
                  /\ t.at = q.at
                BY <1>1, <4>1 DEF Request
            <4> QED
                BY <1>5, <4>2 DEF b
        <3>2. t.group = GroupInForce(c) /\ t.settings = SettingsInForce(c)
              /\ InForce \cap Concerning(t.group, t.domain) = {}
            BY <1>1, <2>1, <3>1 DEF QuietOK
        <3>3. InForce' \cap Concerning(t.group, t.domain) = {}
            BY <1>3, <3>2, SameTables
        <3> QED
            BY <1>3, <3>1, <3>2, <3>3, SameTables DEF QuietOK, Concerning, InWhitelist
    <2> QED
        BY <1>1, <1>13, <2>2, <2>3, Becoming DEF Whitelist
<1>14. CASE Enforce(r)
    <2>1. PICK x \in Threats[q.domain] :
            Becomes(r, [q EXCEPT !.pc = "done", !.threat = x,
                        !.answer = IF x \cap q.settings # {} THEN "block" ELSE "allow"])
        BY <1>14 DEF Enforce
    <2> DEFINE a == IF x \cap q.settings # {} THEN "block" ELSE "allow"
    <2>2. q.pc = "assess" /\ Becomes(r, [q EXCEPT !.pc = "done", !.threat = x, !.answer = a])
        BY <1>14, <2>1 DEF Enforce
    <2> HIDE DEF a
    <2>3. t = [q EXCEPT !.pc = "done", !.threat = x, !.answer = a]
        BY <1>1, <2>2, Becoming
    <2>4. t.pc = "done" /\ t.answer = a /\ t.threat = x
          /\ t.client = c /\ t.domain = q.domain /\ q.quiet /\ list[q.at] = InTable
        BY <1>1, <1>5, <2>3 DEF Request
    <2>5. ~InWhitelist(q.domain)
        BY <1>1, <2>2, <2>4 DEF QuietOK
    <2>6. a = Decision(c, q.domain, x)
        BY <1>12, <2>2, <2>4, <2>5 DEF a
    <2> QED
        BY <1>3, <2>4, <2>6, SameTables DEF QuietOK
<1>15. CASE Respond(r)
    <2>1. t.pc = "idle"
        BY <1>1, <1>15, Becoming DEF Respond, NoRequest
    <2> QED
        BY <2>1, IdleQuiet
<1> QED
    BY <1>6, <1>7, <1>8, <1>9, <1>10, <1>11, <1>13, <1>14, <1>15 DEF RequestStep

LEMMA QuietNext == QuietInv /\ [Next]_vars => QuietInv'
<1> SUFFICES ASSUME QuietInv, [Next]_vars PROVE QuietInv'
    OBVIOUS
<1>1. TypeInv /\ TypeOK /\ TypeInv'
    BY NextType DEF QuietInv, TypeInv
<1>2. \A r \in Requests : req[r] \in Request /\ QuietOK(r)
    BY <1>1 DEF QuietInv, TypeOK
<1>3. ASSUME NEW r \in Requests, RequestStep(r) PROVE QuietInv'
    <2>1. ASSUME NEW u \in Requests, u # r PROVE QuietOK(u)'
        <3>1. req'[u] = req[u] /\ UNCHANGED tableVars /\ UNCHANGED list
            BY <1>1, <1>3, <2>1, StepChanges DEF listVars, TypeOK
        <3> QED
            BY <1>2, <3>1, QuietStays
    <2>2. QuietOK(r)'
        BY <1>3, QuietStep
    <2> QED
        BY <1>1, <2>1, <2>2 DEF QuietInv
<1>4. CASE TableChange
    <2>1. PICK rows \in SUBSET Rows : Disturb(rows)
        BY <1>1, <1>4, ChangeDisturbs
    <2>2. ASSUME NEW r \in Requests PROVE QuietOK(r)'
        <3>1. req'[r].pc = req[r].pc /\ (req[r].pc # "idle" => ~req'[r].quiet)
            <4>1. "pc" \in DOMAIN req[r] \ {"quiet", "standing"}
                BY <1>2 DEF Request
            <4> QED
                BY <1>1, <2>1, <4>1, DisturbRequest
        <3> QED
            BY <3>1, IdleQuiet
    <2> QED
        BY <1>1, <2>2 DEF QuietInv
<1>5. ASSUME NEW a \in Admins, Load(a) PROVE QuietInv'
    <2>1. UNCHANGED <<tableVars, list, req>>
        BY <1>5 DEF Load
    <2> QED
        BY <1>1, <1>2, <2>1, QuietStays DEF QuietInv
<1>6. ASSUME NEW a \in Admins, Install(a) PROVE QuietInv'
    <2>1. UNCHANGED tableVars /\ list' = [list EXCEPT !["core"] = loaded[a]]
        BY <1>6 DEF Install
    <2>2. ASSUME NEW r \in Requests PROVE QuietOK(r)'
        <3>1. req'[r] = IF req[r].pc # "idle" /\ req[r].at = "core"
                        THEN [req[r] EXCEPT !.quiet = FALSE] ELSE req[r]
            BY <1>6 DEF Install
        <3>2. CASE req[r].pc # "idle" /\ req[r].at = "core"
            <4>1. ~req'[r].quiet
                BY <1>2, <3>1, <3>2 DEF Request
            <4> QED
                BY <4>1, IdleQuiet
        <3>3. CASE req[r].pc = "idle"
            BY <3>1, <3>3, IdleQuiet
        <3>4. CASE req[r].pc # "idle" /\ req[r].at # "core"
            <4>1. req'[r] = req[r] /\ list'[req[r].at] = list[req[r].at]
                BY <1>1, <1>2, <2>1, <3>1, <3>4 DEF TypeOK, Request
            <4> QED
                BY <1>2, <2>1, <4>1, QuietStays
        <3> QED
            BY <3>2, <3>3, <3>4
    <2> QED
        BY <1>1, <2>2 DEF QuietInv
<1>7. ASSUME NEW p \in Processes, Restart(p) PROVE QuietInv'
    <2>1. UNCHANGED tableVars /\ list' = [list EXCEPT ![p] = InTable]
        BY <1>7 DEF Restart
    <2>2. ASSUME NEW r \in Requests PROVE QuietOK(r)'
        <3>1. req'[r] = IF req[r].at = p THEN NoRequest ELSE req[r]
            BY <1>7 DEF Restart
        <3>2. CASE req[r].at = p
            <4>1. req'[r].pc = "idle"
                BY <3>1, <3>2 DEF NoRequest
            <4> QED
                BY <4>1, IdleQuiet
        <3>3. CASE req[r].at # p
            <4>1. req'[r] = req[r] /\ list'[req[r].at] = list[req[r].at]
                BY <1>1, <1>2, <2>1, <3>1, <3>3 DEF TypeOK, Request
            <4> QED
                BY <1>2, <2>1, <4>1, QuietStays
        <3> QED
            BY <3>2, <3>3
    <2> QED
        BY <1>1, <2>2 DEF QuietInv
<1>8. CASE UNCHANGED vars
    <2>1. UNCHANGED <<tableVars, list, req>>
        BY <1>8 DEF vars, listVars
    <2> QED
        BY <1>1, <1>2, <2>1, QuietStays DEF QuietInv
<1> QED
    BY <1>3, <1>4, <1>5, <1>6, <1>7, <1>8 DEF Next, RequestStep, TableChange

\* A request during which nothing changed or failed, in a process whose list agrees
\* with the table, is answered as the tables decide: by its client's group, the first
\* rule in the order of the names, the whitelist, and what the group blocks.
THEOREM TablesDecide == Spec => []DecidesByTables
<1>1. Init => QuietInv
    <2> SUFFICES ASSUME Init PROVE QuietInv
        OBVIOUS
    <2>1. \A r \in Requests : QuietOK(r)
        BY DEF Init, QuietOK, NoRequest
    <2> QED
        BY <2>1, InitType DEF QuietInv
<1>2. QuietInv => DecidesByTables
    BY DEF QuietInv, QuietOK, DecidesByTables
<1> QED
    BY <1>1, <1>2, QuietNext, PTL DEF Spec

=============================================================================
