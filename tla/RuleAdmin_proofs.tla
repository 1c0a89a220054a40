--------------------------- MODULE RuleAdmin_proofs ---------------------------
(***************************************************************************)
(* Proofs about RuleAdmin: type correctness, that the manager holds the    *)
(* cancel function of every capture that runs, and that with no request    *)
(* under way the captures and the has_rule column follow the table.        *)
(***************************************************************************)
EXTENDS RuleAdmin, SequenceTheorems, TLAPS

\* What stands for the row of an id that was never used.
LEMMA NoRowIsRow == NoRow \in Row
<1>1. PICK p \in Ports : TRUE
  BY CaptureAssumption
<1>2. [port |-> p, direction |-> "server_to_client", enabled |-> FALSE] \in Row
  BY DEF Row, Directions
<1>3. \E x \in Row : ~x.enabled
  BY <1>2
<1> QED
  BY <1>3 DEF NoRow

\* A goroutine that is started for a rule.
LEMMA StartedType == \A r \in RuleIds, p \in Ports : Started(r, p) \in Goroutine
  BY DEF Started, Goroutine

\* What a server starts with.
LEMMA StartsType ==
    ASSUME NEW captured \in SUBSET RuleIds, NEW start \in Starts(captured),
           NEW rows \in [RuleIds -> Row]
    PROVE  /\ ActiveAfter(start) \in [RuleIds -> CaptureIds \cup {NoCapture}]
           /\ GoroutinesAfter(start, rows) \in [CaptureIds -> Goroutine]
<1>1. start \in [captured -> CaptureIds]
  BY DEF Starts
<1>2. Unused \in Goroutine
  BY CaptureAssumption DEF Unused, Goroutine
<1>3. ASSUME NEW i \in CaptureIds, \E r \in DOMAIN start : start[r] = i
      PROVE  GoroutinesAfter(start, rows)[i] \in Goroutine
  <2> DEFINE r == CHOOSE s \in DOMAIN start : start[s] = i
  <2>1. r \in RuleIds
    BY <1>1, <1>3
  <2>2. rows[r].port \in Ports
    BY <2>1 DEF Row
  <2>3. GoroutinesAfter(start, rows)[i] = Started(r, rows[r].port)
    BY <1>3 DEF GoroutinesAfter
  <2> QED
    BY <2>1, <2>2, <2>3, StartedType
<1>4. ASSUME NEW i \in CaptureIds, ~\E r \in DOMAIN start : start[r] = i
      PROVE  GoroutinesAfter(start, rows)[i] \in Goroutine
  BY <1>2, <1>4 DEF GoroutinesAfter
<1>5. GoroutinesAfter(start, rows) \in [CaptureIds -> Goroutine]
  BY <1>3, <1>4 DEF GoroutinesAfter
<1> QED
  BY <1>1, <1>5 DEF ActiveAfter

\* What a server starts with is all held.
LEMMA StartsHeld ==
    ASSUME NEW captured \in SUBSET RuleIds, NEW start \in Starts(captured),
           NEW rows, NEW i \in CaptureIds,
           GoroutinesAfter(start, rows)[i].pc \in {"starting", "listening"}
    PROVE  ActiveAfter(start)[GoroutinesAfter(start, rows)[i].rule] = i
<1>1. start \in [captured -> CaptureIds]
  BY DEF Starts
<1>2. \E r \in DOMAIN start : start[r] = i
  BY DEF GoroutinesAfter, Unused
<1> DEFINE r == CHOOSE s \in DOMAIN start : start[s] = i
<1>3. r \in DOMAIN start /\ start[r] = i
  BY <1>2
<1>4. GoroutinesAfter(start, rows)[i].rule = r
  BY <1>2 DEF GoroutinesAfter, Started
<1> HIDE DEF r
<1> QED
  BY <1>1, <1>3, <1>4 DEF ActiveAfter

\* The manager's methods keep the types.
LEMMA ManagerType ==
    ASSUME CaptureTypeOK, NEW r \in RuleIds, NEW x \in Row
    PROVE  /\ Stop(r) => CaptureTypeOK'
           /\ Sync(r, x) => CaptureTypeOK'
<1>1. Cancelling(r) \in [CaptureIds -> Goroutine]
  BY DEF CaptureTypeOK, Cancelling, Goroutine
<1>2. Stop(r) => CaptureTypeOK'
  BY <1>1 DEF CaptureTypeOK, Stop
<1>3. Start(r, x) => CaptureTypeOK'
  <2> SUFFICES ASSUME NEW i \in Free,
                      cap' = [Cancelling(r) EXCEPT ![i] = Started(r, x.port)],
                      active' = [active EXCEPT ![r] = i]
               PROVE  CaptureTypeOK'
    BY DEF Start
  <2>1. i \in CaptureIds /\ Started(r, x.port) \in Goroutine
    BY StartedType DEF Free, Row
  <2> QED
    BY <1>1, <2>1 DEF CaptureTypeOK
<1> QED
  BY <1>2, <1>3 DEF Sync

\* The goroutines' own steps keep the types.
LEMMA GoroutineType == CaptureTypeOK /\ CaptureStep => CaptureTypeOK'
<1> SUFFICES ASSUME CaptureTypeOK, NEW i \in CaptureIds, Bind(i) \/ CloseSocket(i)
             PROVE  CaptureTypeOK'
  BY DEF CaptureStep
<1> QED
  BY DEF Bind, CloseSocket, CaptureTypeOK, Goroutine

\* Where a handler goes next is a request or nothing.
LEMMA RefreshingType ==
    \A q \in Request, ports \in Seq(Ports) :
        /\ Refreshing(q, ports) \in Request \cup {IdleReq}
        /\ Refreshing(q, ports).pc \in {"count", "mark"} => Refreshing(q, ports).ports # <<>>
  BY DEF Refreshing, Request, IdleReq

\* A rule's port is one.
LEMMA UnlistedType == ASSUME TypeOK, NEW r, NEW ports PROVE Unlisted(r, ports) \subseteq Ports
<1>1. \A s \in {r} \cap exists : row[s].port \in Ports
  BY DEF TypeOK, Row
<1> QED
  BY <1>1 DEF Unlisted

(* The manager, the tables and the requests hold values of their types,    *)
(* and a handler that counts has a port to count for (RuleAdmin, TypeOK).  *)
THEOREM TypeCorrect == Spec => []TypeOK
<1>1. Init => TypeOK
  <2> SUFFICES ASSUME Init PROVE TypeOK
    OBVIOUS
  <2>1. row \in [RuleIds -> Row]
    BY NoRowIsRow DEF Init
  <2>2. CaptureTypeOK
    <3> DEFINE captured == {r \in InitRules : Capturable(row[r])}
    <3>1. captured \in SUBSET RuleIds
      BY RuleAdminAssumption
    <3>2. PICK start \in Starts(captured) :
              active = ActiveAfter(start) /\ cap = GoroutinesAfter(start, row)
      BY DEF Init
    <3> HIDE DEF captured
    <3> QED
      BY <2>1, <3>1, <3>2, StartsType DEF CaptureTypeOK
  <2> QED
    BY <2>1, <2>2, RuleAdminAssumption DEF Init, TypeOK, IdleReq
<1>2. TypeOK /\ [Next]_vars => TypeOK'
  <2>a. SUFFICES ASSUME TypeOK, [Next]_vars PROVE TypeOK'
    OBVIOUS
  <2>b. /\ \A a \in Admins : req[a] \in Request \cup {IdleReq}
        /\ \A a \in Admins : req[a].pc # "idle" => req[a] \in Request
    BY <2>a DEF TypeOK, IdleReq
  <2>1. ASSUME NEW a \in Admins, NEW r \in RuleIds, NEW p \in Ports,
               NEW d \in Directions, HandleCreateRule(a, r, p, d)
        PROVE  TypeOK'
    <3> DEFINE x == [port |-> p, direction |-> DefaultDirection(d), enabled |-> TRUE]
    <3>1. x \in Row
      BY <2>1 DEF Row, Directions, DefaultDirection
    <3>2. req' = [req EXCEPT ![a] = [pc |-> "sync", rule |-> r, row |-> x, ports |-> <<p>>,
                                     covered |-> FALSE]]
      BY <2>1 DEF HandleCreateRule, Begin
    <3>3. [pc |-> "sync", rule |-> r, row |-> x, ports |-> <<p>>, covered |-> FALSE] \in Request
      <4>1. <<p>> \in Seq(Ports)
        OBVIOUS
      <4> HIDE DEF x
      <4> QED
        BY ONLY <3>1, <4>1, r \in RuleIds DEF Request
    <3>4. row' \in [RuleIds -> Row]
      BY <2>1, <2>a, <3>1 DEF HandleCreateRule, TypeOK
    <3>5. requests' \in 0 .. MaxRequests
      <4>1. /\ requests' = requests + 1 /\ requests < MaxRequests
            /\ requests \in 0 .. MaxRequests /\ MaxRequests \in Nat
        BY <2>1, <2>a, RuleAdminAssumption DEF HandleCreateRule, NewRequest, TypeOK
      <4> QED
        BY ONLY <4>1
    <3> HIDE DEF x
    <3> QED
      BY <2>1, <2>a, <3>2, <3>3, <3>4, <3>5
      DEF HandleCreateRule, TypeOK, CaptureTypeOK, captureVars, historyVars
  <2>2. ASSUME NEW a \in Admins, NEW r \in RuleIds, NEW p \in Ports, NEW d \in Directions,
               HandleUpdateRule(a, r, p, d)
        PROVE  TypeOK'
    <3>1. row[r] \in Row /\ row[r].port \in Ports
      BY <2>a DEF TypeOK, Row
    <3>2. req' = [req EXCEPT ![a] = [pc |-> "get", rule |-> r, row |-> row[r], ports |-> <<p>>,
                                     covered |-> FALSE]]
      BY <2>2 DEF HandleUpdateRule, Begin
    <3>3. [pc |-> "get", rule |-> r, row |-> row[r], ports |-> <<p>>, covered |-> FALSE] \in Request
      BY <3>1 DEF Request
    <3>4. row' \in [RuleIds -> Row]
      BY <2>2, <2>a DEF HandleUpdateRule, TypeOK, Row
    <3>5. requests' \in 0 .. MaxRequests
      BY <2>2, <2>a, RuleAdminAssumption DEF HandleUpdateRule, NewRequest, TypeOK
    <3>6. excused' \subseteq Ports
      BY <2>2, <2>a, UnlistedType DEF HandleUpdateRule, TypeOK
    <3> QED
      BY <2>2, <2>a, <3>2, <3>3, <3>4, <3>5, <3>6
      DEF HandleUpdateRule, TypeOK, CaptureTypeOK, captureVars, historyVars
  <2>3. ASSUME NEW a \in Admins, NEW r \in RuleIds, HandleToggleRule(a, r) PROVE TypeOK'
    <3>1. row[r] \in Row
      BY <2>a DEF TypeOK
    <3>2. req' = [req EXCEPT ![a] = [pc |-> "get", rule |-> r, row |-> row[r], ports |-> <<>>,
                                     covered |-> FALSE]]
      BY <2>3 DEF HandleToggleRule, Begin
    <3>3. [pc |-> "get", rule |-> r, row |-> row[r], ports |-> <<>>, covered |-> FALSE] \in Request
      BY <3>1 DEF Request
    <3>4. row' \in [RuleIds -> Row]
      <4>1. PICK x : x = [row[r] EXCEPT !.enabled = ~@]
        OBVIOUS
      <4>2. row' = [row EXCEPT ![r] = x] \/ row' = row
        BY <2>3, <4>1 DEF HandleToggleRule
      <4>3. x \in Row
        BY <3>1, <4>1 DEF Row
      <4> QED
        BY <2>a, <4>2, <4>3 DEF TypeOK
    <3>5. requests' \in 0 .. MaxRequests
      BY <2>3, <2>a, RuleAdminAssumption DEF HandleToggleRule, NewRequest, TypeOK
    <3> QED
      BY <2>3, <2>a, <3>2, <3>3, <3>4, <3>5
      DEF HandleToggleRule, TypeOK, CaptureTypeOK, captureVars, historyVars
  <2>4. ASSUME NEW a \in Admins, NEW r \in RuleIds, HandleDeleteRule(a, r) PROVE TypeOK'
    <3>1. row[r] \in Row /\ row[r].port \in Ports
      BY <2>a DEF TypeOK, Row
    <3>3. PICK ports \in Seq(Ports) : Begin(a, "delete", r, row[r], ports)
      <4>1. PICK ports \in {<<>>} \cup {<<row[s].port>> : s \in {r} \cap exists} :
                Begin(a, "delete", r, row[r], ports)
        BY <2>4 DEF HandleDeleteRule
      <4>2. ports = <<>> \/ ports = <<row[r].port>>
        BY <4>1
      <4>3. ports \in Seq(Ports)
        <5>1. CASE ports = <<>>
          BY <5>1
        <5>2. CASE ports = <<row[r].port>>
          <6>1. row[r].port \in Ports
            BY <3>1
          <6> QED
            BY <5>2, <6>1
        <5> QED
          BY <4>2, <5>1, <5>2
      <4> QED
        BY <4>1, <4>3
    <3> DEFINE q == [pc |-> "delete", rule |-> r, row |-> row[r], ports |-> ports,
                     covered |-> FALSE]
    <3>2. req' = [req EXCEPT ![a] = q]
      BY <3>3 DEF Begin
    <3>4. q \in Request /\ q.pc = "delete"
      BY <3>1, <3>3 DEF Request
    <3>5. requests' \in 0 .. MaxRequests
      BY <2>4, <2>a, RuleAdminAssumption DEF HandleDeleteRule, NewRequest, TypeOK
    <3> HIDE DEF q
    <3> QED
      BY <2>4, <2>a, <3>2, <3>4, <3>5
      DEF HandleDeleteRule, TypeOK, CaptureTypeOK, captureVars, tableVars, historyVars
  <2>5. ASSUME NEW a \in Admins, GetRule(a) PROVE TypeOK'
    <3> DEFINE q == req[a]
               x == row[q.rule]
               next == [q EXCEPT !.pc = "sync", !.row = x, !.ports = <<x.port>> \o @]
    <3>1. q \in Request
      BY <2>5, <2>b DEF GetRule
    <3>2. q.rule \in RuleIds /\ q.ports \in Seq(Ports)
      BY <3>1 DEF Request
    <3>3. x \in Row /\ x.port \in Ports
      BY <2>a, <3>2 DEF TypeOK, Row
    <3>4. <<x.port>> \o q.ports \in Seq(Ports)
      BY <3>2, <3>3, ConcatProperties
    <3>5. next \in Request /\ next.pc = "sync"
      BY <3>1, <3>3, <3>4 DEF Request
    <3>6. \/ req' = [req EXCEPT ![a] = next]
          \/ req' = [req EXCEPT ![a] = Refreshing(q, q.ports)]
      BY <2>5 DEF GetRule, Continue
    <3> HIDE DEF next, q
    <3>7. /\ req' \in [Admins -> Request \cup {IdleReq}]
          /\ \A b \in Admins : req'[b].pc \in {"count", "mark"} => req'[b].ports # <<>>
      BY <2>a, <3>1, <3>2, <3>5, <3>6, RefreshingType DEF TypeOK
    <3> QED
      BY <2>5, <2>a, <3>7 DEF GetRule, TypeOK, CaptureTypeOK, captureVars, tableVars, historyVars
  <2>14. ASSUME NEW a \in Admins, GetRuleFails(a) PROVE TypeOK'
    <3>1. req[a] \in Request
      BY <2>14, <2>b DEF GetRuleFails
    <3>2. req[a].rule \in RuleIds /\ req[a].ports \in Seq(Ports)
      BY <3>1 DEF Request
    <3>3. req' = [req EXCEPT ![a] = Refreshing(req[a], req[a].ports)]
      BY <2>14 DEF GetRuleFails, Continue
    <3>4. /\ req' \in [Admins -> Request \cup {IdleReq}]
          /\ \A b \in Admins : req'[b].pc \in {"count", "mark"} => req'[b].ports # <<>>
      BY <2>a, <3>1, <3>2, <3>3, RefreshingType DEF TypeOK
    <3>5. excused' \subseteq Ports /\ unsure' \subseteq RuleIds
      BY <2>14, <2>a, <3>2, UnlistedType DEF GetRuleFails, TypeOK
    <3> QED
      BY <2>14, <2>a, <3>4, <3>5 DEF GetRuleFails, TypeOK, CaptureTypeOK, captureVars, tableVars
  <2>15. ASSUME NEW a \in Admins, DeleteRowFails(a) PROVE TypeOK'
    <3>1. /\ req' \in [Admins -> Request \cup {IdleReq}]
          /\ \A b \in Admins : req'[b].pc \in {"count", "mark"} => req'[b].ports # <<>>
      BY <2>15, <2>a DEF DeleteRowFails, Continue, TypeOK, IdleReq
    <3> QED
      BY <2>15, <2>a, <3>1
      DEF DeleteRowFails, TypeOK, CaptureTypeOK, captureVars, tableVars, historyVars
  <2>16. ASSUME NEW a \in Admins, RefreshFails(a) PROVE TypeOK'
    <3> DEFINE q == req[a]
               p == Head(q.ports)
    <3>1. q \in Request /\ q.ports # <<>>
      BY <2>16, <2>a, <2>b DEF RefreshFails, TypeOK
    <3>2. q.ports \in Seq(Ports)
      BY <3>1 DEF Request
    <3>3. p \in Ports /\ Tail(q.ports) \in Seq(Ports)
      BY <3>1, <3>2
    <3>4. /\ excused' = excused \cup {p}
          /\ req' = [req EXCEPT ![a] = Refreshing(q, Tail(q.ports))]
      BY <2>16 DEF RefreshFails, Continue
    <3> HIDE DEF q, p
    <3>5. excused' \subseteq Ports
      BY <2>a, <3>3, <3>4 DEF TypeOK
    <3>6. /\ req' \in [Admins -> Request \cup {IdleReq}]
          /\ \A b \in Admins : req'[b].pc \in {"count", "mark"} => req'[b].ports # <<>>
      BY <2>a, <3>1, <3>3, <3>4, RefreshingType DEF TypeOK
    <3> QED
      BY <2>16, <2>a, <3>5, <3>6 DEF RefreshFails, TypeOK, CaptureTypeOK, captureVars, tableVars
  <2>6. ASSUME NEW a \in Admins, SyncCapture(a) \/ StopCapture(a) PROVE TypeOK'
    <3>1. req[a] \in Request
      BY <2>6, <2>b DEF SyncCapture, StopCapture
    <3>2. req[a].rule \in RuleIds /\ req[a].row \in Row /\ req[a].ports \in Seq(Ports)
      BY <3>1 DEF Request
    <3>3. CaptureTypeOK'
      BY <2>6, <2>a, <3>2, ManagerType DEF SyncCapture, StopCapture, TypeOK
    <3>4. req' = [req EXCEPT ![a] = Refreshing(req[a], req[a].ports)]
      BY <2>6 DEF SyncCapture, StopCapture, Continue
    <3>5. /\ req' \in [Admins -> Request \cup {IdleReq}]
          /\ \A b \in Admins : req'[b].pc \in {"count", "mark"} => req'[b].ports # <<>>
      BY <2>a, <3>1, <3>2, <3>4, RefreshingType DEF TypeOK
    <3>6. unsure' \subseteq RuleIds
      BY <2>6, <2>a, <3>2 DEF SyncCapture, StopCapture, TypeOK
    <3> QED
      BY <2>6, <2>a, <3>3, <3>5, <3>6 DEF SyncCapture, StopCapture, TypeOK, tableVars
  <2>7. ASSUME NEW a \in Admins, DeleteRow(a) PROVE TypeOK'
    <3> DEFINE next == [req[a] EXCEPT !.pc = "stop"]
    <3>1. next \in Request /\ next.pc = "stop"
      BY <2>7, <2>b DEF DeleteRow, Request
    <3>2. req' = [req EXCEPT ![a] = next]
      BY <2>7 DEF DeleteRow, Continue
    <3> HIDE DEF next
    <3>3. excused' \subseteq Ports
      BY <2>7, <2>a, UnlistedType DEF DeleteRow, TypeOK
    <3> QED
      BY <2>7, <2>a, <3>1, <3>2, <3>3 DEF DeleteRow, TypeOK, CaptureTypeOK, captureVars, historyVars
  <2>8. ASSUME NEW a \in Admins, CountEnabled(a) PROVE TypeOK'
    <3> DEFINE b == Covered(Head(req[a].ports))
               next == [req[a] EXCEPT !.pc = "mark", !.covered = b]
    <3>1. b \in BOOLEAN
      BY DEF Covered
    <3>2. req' = [req EXCEPT ![a] = next]
      BY <2>8 DEF CountEnabled, Continue
    <3> HIDE DEF b
    <3>3. next \in Request /\ next.ports = req[a].ports
      BY <2>8, <2>b, <3>1 DEF CountEnabled, Request
    <3>4. req[a].ports # <<>>
      BY <2>8, <2>a DEF CountEnabled, TypeOK
    <3> HIDE DEF next
    <3> QED
      BY <2>8, <2>a, <3>2, <3>3, <3>4
      DEF CountEnabled, TypeOK, CaptureTypeOK, captureVars, tableVars, historyVars
  <2>9. ASSUME NEW a \in Admins, MarkObservations(a) PROVE TypeOK'
    <3> DEFINE q == req[a]
               p == Head(q.ports)
    <3>1. q \in Request /\ q.ports # <<>>
      BY <2>9, <2>a, <2>b DEF MarkObservations, TypeOK
    <3>2. q.ports \in Seq(Ports) /\ q.covered \in BOOLEAN
      BY <3>1 DEF Request
    <3>3. p \in Ports /\ Tail(q.ports) \in Seq(Ports)
      BY <3>1, <3>2
    <3>4. /\ obs' = [obs EXCEPT ![p] = IF @ = {} THEN {} ELSE {q.covered}]
          /\ excused' \in {excused \ {p}, excused \cup {p}}
          /\ req' = [req EXCEPT ![a] = Refreshing(q, Tail(q.ports))]
      BY <2>9 DEF MarkObservations, Continue
    <3> HIDE DEF q, p
    <3>5. obs' \in [Ports -> SUBSET BOOLEAN] /\ excused' \subseteq Ports
      BY <2>a, <3>2, <3>3, <3>4 DEF TypeOK
    <3>6. /\ req' \in [Admins -> Request \cup {IdleReq}]
          /\ \A b \in Admins : req'[b].pc \in {"count", "mark"} => req'[b].ports # <<>>
      BY <2>a, <3>1, <3>3, <3>4, RefreshingType DEF TypeOK
    <3> QED
      BY <2>9, <2>a, <3>5, <3>6
      DEF MarkObservations, TypeOK, CaptureTypeOK, captureVars, tableVars, historyVars
  <2>10. ASSUME CaptureStep, UNCHANGED <<tableVars, obs, req, requests, restarts, historyVars>>
         PROVE  TypeOK'
    BY <2>10, <2>a, GoroutineType DEF TypeOK, tableVars, historyVars
  <2>11. ASSUME NEW p \in Ports, Observe(p) PROVE TypeOK'
    BY <2>11, <2>a DEF Observe, TypeOK, CaptureTypeOK, captureVars, tableVars, historyVars
  <2>12. ASSUME Restart PROVE TypeOK'
    <3> DEFINE captured == {r \in exists : Capturable(row[r])}
    <3>1. captured \in SUBSET RuleIds /\ row \in [RuleIds -> Row]
      BY <2>a DEF TypeOK
    <3>2. PICK start \in Starts(captured) :
              active' = ActiveAfter(start) /\ cap' = GoroutinesAfter(start, row)
      BY <2>12 DEF Restart
    <3> HIDE DEF captured
    <3>3. CaptureTypeOK'
      BY <3>1, <3>2, StartsType DEF CaptureTypeOK
    <3>4. \A a \in Admins : CutOff(a) \subseteq Ports
      <4> SUFFICES ASSUME NEW a \in Admins, req[a] # IdleReq PROVE CutOff(a) \subseteq Ports
        BY DEF CutOff
      <4>1. req[a] \in Request
        BY <2>b
      <4>2. req[a].rule \in RuleIds /\ req[a].ports \in Seq(Ports)
        BY <4>1 DEF Request
      <4>3. row[req[a].rule].port \in Ports
        BY <3>1, <4>2 DEF Row
      <4>4. Range(req[a].ports) \subseteq Ports
        BY <4>2 DEF Range
      <4> QED
        BY <4>3, <4>4 DEF CutOff
    <3>5. excused' \subseteq Ports /\ restarts' \in 0 .. MaxRestarts
      BY <2>12, <2>a, <3>4, RuleAdminAssumption DEF Restart, TypeOK
    <3>6. /\ req' \in [Admins -> Request \cup {IdleReq}]
          /\ \A a \in Admins : req'[a].pc \in {"count", "mark"} => req'[a].ports # <<>>
      BY <2>12 DEF Restart, IdleReq
    <3> QED
      BY <2>12, <2>a, <3>3, <3>5, <3>6 DEF Restart, TypeOK, tableVars
  <2>13. CASE UNCHANGED vars
    BY <2>13, <2>a DEF vars, TypeOK, CaptureTypeOK, captureVars, tableVars, historyVars
  <2> QED
    BY <2>a, <2>1, <2>2, <2>3, <2>4, <2>5, <2>6, <2>7, <2>8, <2>9, <2>10, <2>11, <2>12, <2>13,
       <2>14, <2>15, <2>16
    DEF Next, Receive, Resume
<1> QED
  BY <1>1, <1>2, PTL DEF Spec

\* The steps of a request that do not call the manager.
TableStep(a) ==
    \/ GetRule(a) \/ GetRuleFails(a) \/ DeleteRow(a) \/ DeleteRowFails(a)
    \/ CountEnabled(a) \/ MarkObservations(a) \/ RefreshFails(a)

\* A request's steps at the table leave the captures to the manager.
LEMMA TableStepFrame ==
    ASSUME NEW a \in Admins, Receive(a) \/ TableStep(a) PROVE UNCHANGED captureVars
  BY DEF Receive, HandleCreateRule, HandleUpdateRule, HandleToggleRule, HandleDeleteRule,
         TableStep, GetRule, GetRuleFails, DeleteRow, DeleteRowFails, CountEnabled,
         MarkObservations, RefreshFails

\* The manager's methods lose no capture: what they forget they cancel.
LEMMA ManagerHolds ==
    ASSUME CaptureTypeOK, EveryCaptureIsHeld, NEW r \in RuleIds, NEW x \in Row
    PROVE  /\ Stop(r) => EveryCaptureIsHeld'
           /\ Sync(r, x) => EveryCaptureIsHeld'
<1>0. /\ active \in [RuleIds -> CaptureIds \cup {NoCapture}]
      /\ cap \in [CaptureIds -> Goroutine]
      /\ \A i \in CaptureIds : cap[i].rule \in RuleIds /\ cap[i].cancelled \in BOOLEAN
  BY DEF CaptureTypeOK, Goroutine
<1>1. \A i \in CaptureIds :
         /\ Cancelling(r)[i].pc = cap[i].pc
         /\ Cancelling(r)[i].rule = cap[i].rule
         /\ ~Cancelling(r)[i].cancelled => ~cap[i].cancelled /\ i # active[r]
  BY <1>0 DEF Cancelling, Goroutine
<1>2. ASSUME NEW i \in CaptureIds, Alive(i), ~Cancelling(r)[i].cancelled
      PROVE  active[cap[i].rule] = i /\ cap[i].rule # r
  BY <1>1, <1>2 DEF EveryCaptureIsHeld
<1>3. Stop(r) => EveryCaptureIsHeld'
  <2> SUFFICES ASSUME Stop(r), NEW i \in CaptureIds, Alive(i)', ~cap'[i].cancelled
               PROVE  active'[cap'[i].rule] = i
    BY DEF EveryCaptureIsHeld
  <2>1. cap' = Cancelling(r) /\ active' = [active EXCEPT ![r] = NoCapture]
    BY DEF Stop
  <2>2. Alive(i)
    BY <1>1, <2>1 DEF Alive
  <2> QED
    BY <1>0, <1>1, <1>2, <2>1, <2>2
<1>4. Start(r, x) => EveryCaptureIsHeld'
  <2> SUFFICES ASSUME NEW n \in Free,
                      cap' = [Cancelling(r) EXCEPT ![n] = Started(r, x.port)],
                      active' = [active EXCEPT ![r] = n],
                      NEW i \in CaptureIds, Alive(i)', ~cap'[i].cancelled
               PROVE  active'[cap'[i].rule] = i
    BY DEF EveryCaptureIsHeld, Start
  <2>1. n \in CaptureIds /\ DOMAIN Cancelling(r) = CaptureIds
    BY DEF Cancelling, Free
  <2>2. CASE i = n
    <3>1. cap'[i].rule = r
      BY <2>1, <2>2 DEF Started
    <3> QED
      BY <1>0, <2>2, <3>1
  <2>3. CASE i # n
    <3>1. cap'[i] = Cancelling(r)[i]
      BY <2>1, <2>3
    <3>2. Alive(i)
      BY <1>1, <3>1 DEF Alive
    <3>3. active[cap[i].rule] = i /\ cap[i].rule # r /\ cap'[i].rule = cap[i].rule
      BY <1>1, <1>2, <3>1, <3>2
    <3> QED
      BY <1>0, <3>3
  <2> QED
    BY <2>2, <2>3
<1> QED
  BY <1>3, <1>4 DEF Sync

(* However requests, goroutines and crashes interleave, a capture that     *)
(* runs and is not cancelled is one the manager can cancel                 *)
(* (BroadcastManager, "All methods are safe for concurrent use").          *)
THEOREM CapturesHeld == Spec => []EveryCaptureIsHeld
<1>1. Init => EveryCaptureIsHeld
  <2> SUFFICES ASSUME Init, NEW i \in CaptureIds, Alive(i)
               PROVE  active[cap[i].rule] = i
    BY DEF EveryCaptureIsHeld
  <2> DEFINE captured == {r \in InitRules : Capturable(row[r])}
  <2>1. captured \in SUBSET RuleIds
    BY RuleAdminAssumption
  <2>2. PICK start \in Starts(captured) :
            active = ActiveAfter(start) /\ cap = GoroutinesAfter(start, row)
    BY DEF Init
  <2> HIDE DEF captured
  <2> QED
    BY <2>1, <2>2, StartsHeld DEF Alive
<1>2. TypeOK /\ EveryCaptureIsHeld /\ [Next]_vars => EveryCaptureIsHeld'
  <2>a. SUFFICES ASSUME TypeOK, EveryCaptureIsHeld, [Next]_vars PROVE EveryCaptureIsHeld'
    OBVIOUS
  <2>1. ASSUME UNCHANGED captureVars PROVE EveryCaptureIsHeld'
    BY <2>1, <2>a DEF captureVars, EveryCaptureIsHeld, Alive
  <2>2. ASSUME NEW a \in Admins, SyncCapture(a) \/ StopCapture(a) PROVE EveryCaptureIsHeld'
    <3>1. req[a] \in Request
      BY <2>2, <2>a DEF SyncCapture, StopCapture, TypeOK, IdleReq
    <3>2. req[a].rule \in RuleIds /\ req[a].row \in Row
      BY <3>1 DEF Request
    <3> QED
      BY <2>2, <2>a, <3>2, ManagerHolds DEF SyncCapture, StopCapture, TypeOK
  <2>3. ASSUME NEW i \in CaptureIds, Bind(i) \/ CloseSocket(i) PROVE EveryCaptureIsHeld'
    <3>1. active' = active /\ cap \in [CaptureIds -> Goroutine]
      BY <2>3, <2>a DEF Bind, CloseSocket, TypeOK, CaptureTypeOK
    <3>2. \A j \in CaptureIds : /\ cap'[j].rule = cap[j].rule
                                /\ cap'[j].cancelled = cap[j].cancelled
                                /\ Alive(j)' => Alive(j)
      BY <2>3, <3>1 DEF Bind, CloseSocket, Goroutine, Alive
    <3> QED
      BY <2>a, <3>1, <3>2 DEF EveryCaptureIsHeld
  <2>4. ASSUME Restart PROVE EveryCaptureIsHeld'
    <3> DEFINE captured == {r \in exists : Capturable(row[r])}
    <3>1. captured \in SUBSET RuleIds
      BY <2>a DEF TypeOK
    <3>2. PICK start \in Starts(captured) :
              active' = ActiveAfter(start) /\ cap' = GoroutinesAfter(start, row)
      BY <2>4 DEF Restart
    <3> HIDE DEF captured
    <3>3. ASSUME NEW i \in CaptureIds, cap'[i].pc \in {"starting", "listening"}
          PROVE  active'[cap'[i].rule] = i
      BY <3>1, <3>2, <3>3, StartsHeld
    <3> QED
      BY <3>3 DEF EveryCaptureIsHeld, Alive
  <2>5. ASSUME NEW a \in Admins, Receive(a) \/ TableStep(a) PROVE UNCHANGED captureVars
    BY <2>5, TableStepFrame
  <2>6. ASSUME NEW p \in Ports, Observe(p) PROVE UNCHANGED captureVars
    BY <2>6 DEF Observe
  <2> QED
    BY <2>a, <2>1, <2>2, <2>3, <2>4, <2>5, <2>6 DEF Next, Resume, TableStep, CaptureStep, vars
<1> QED
  BY TypeCorrect, <1>1, <1>2, PTL DEF Spec

\* The port is in line for a handler's refreshing.
Lists(ports, p) == \E i \in DOMAIN ports : ports[i] = p

\* The capture the manager holds for a rule is the one its row asks for.
Agrees(r) ==
    IF r \in exists /\ Capturable(row[r])
      THEN active[r] # NoCapture /\ cap[active[r]].port = row[r].port
      ELSE active[r] = NoCapture

\* A request is going to give the manager the row of a rule that is there, or to stop
\* the capture of one that is not.
Told(r) ==
    \E a \in Admins :
        /\ req[a] # IdleReq /\ req[a].rule = r
        /\ req[a].pc \in IF r \in exists THEN {"get", "sync"} ELSE {"stop"}

\* A request is going to refresh the observations of a port.
Refreshes(a, p) ==
    /\ req[a].pc \notin {"idle", "delete"}
    /\ \/ Lists(req[a].ports, p)
       \/ req[a].pc = "get" /\ req[a].rule \in exists /\ row[req[a].rule].port = p

\* A rule that a request deletes was made, and is gone once its row is deleted.
DeletesFollow ==
    \A a \in Admins :
        /\ req[a].pc \in {"delete", "stop"} => req[a].rule \in made
        /\ req[a].pc = "stop" => req[a].rule \notin exists

\* CapturesFollowTable with requests at work.
CaptureInv == \A r \in RuleIds \ unsure : Agrees(r) \/ Told(r)

\* HasRuleFollowsTable with requests at work.
RefreshInv ==
    \A p \in Ports \ excused :
        obs[p] \subseteq {Covered(p)} \/ \E a \in Admins : Refreshes(a, p)

\* The head of a list, or one that is in its tail.
LEMMA ListsParts ==
    ASSUME NEW ports \in Seq(Ports), ports # <<>>, NEW p, Lists(ports, p), p # Head(ports)
    PROVE  Lists(Tail(ports), p)
<1>1. PICK i \in DOMAIN ports : ports[i] = p
  BY DEF Lists
<1>2. i \in 2 .. Len(ports) /\ Len(ports) \in Nat
  BY <1>1
<1>3. i - 1 \in DOMAIN Tail(ports) /\ Tail(ports)[i - 1] = p
  BY <1>1, <1>2
<1> QED
  BY <1>3 DEF Lists

\* A port put before the others is in line, and so are the others.
LEMMA ListsBefore ==
    ASSUME NEW ports \in Seq(Ports), NEW x \in Ports
    PROVE  /\ Lists(<<x>> \o ports, x)
           /\ \A p : Lists(ports, p) => Lists(<<x>> \o ports, p)
<1> DEFINE s == <<x>> \o ports
<1>1. Len(s) = 1 + Len(ports) /\ s \in Seq(Ports) /\ Len(ports) \in Nat
  BY ConcatProperties
<1>2. 1 \in DOMAIN s /\ s[1] = x
  BY <1>1, ConcatProperties
<1>3. ASSUME NEW p, NEW i \in DOMAIN ports, ports[i] = p PROVE Lists(s, p)
  <2>1. i \in 1 .. Len(ports) /\ i + 1 \in DOMAIN s
    BY <1>1
  <2>2. s[i + 1] = p
    BY <1>3, <2>1, ConcatProperties
  <2> QED
    BY <2>1, <2>2 DEF Lists
<1> QED
  BY <1>2, <1>3 DEF Lists

\* What a handler refreshes afterwards is what it had in line.
LEMMA RefreshingLists ==
    ASSUME NEW q \in Request, NEW ports \in Seq(Ports)
    PROVE  /\ Refreshing(q, ports).pc \in {"idle", "count"}
           /\ \A p : Lists(ports, p) =>
                 /\ Refreshing(q, ports).pc = "count"
                 /\ Lists(Refreshing(q, ports).ports, p)
<1>1. CASE ports = <<>>
  BY <1>1 DEF Refreshing, IdleReq, Lists
<1>2. CASE ports # <<>>
  <2>1. Refreshing(q, ports) = [q EXCEPT !.pc = "count", !.ports = ports]
    BY <1>2 DEF Refreshing
  <2>2. Refreshing(q, ports).pc = "count" /\ Refreshing(q, ports).ports = ports
    BY <2>1 DEF Request
  <2> QED
    BY <2>2
<1> QED
  BY <1>1, <1>2

\* A request at work is one, with a rule, a row and ports to refresh.
LEMMA AtWork ==
    ASSUME TypeOK, NEW a \in Admins, req[a].pc # "idle"
    PROVE  /\ req[a] \in Request /\ req[a] # IdleReq
           /\ req[a].rule \in RuleIds /\ req[a].row \in Row
           /\ req[a].ports \in Seq(Ports) /\ req[a].covered \in BOOLEAN
<1>1. req[a] \in Request
  BY DEF TypeOK, IdleReq
<1>2. req[a] # IdleReq
  BY DEF IdleReq
<1> QED
  BY <1>1, <1>2 DEF Request

\* A rule's creation or update begins as a request with one port to refresh.
LEMMA RequestBegun ==
    ASSUME TypeOK, NEW a \in Admins, NEW r, NEW p, NEW d
    PROVE  /\ HandleCreateRule(a, r, p, d) =>
                 /\ req'[a].pc = "sync" /\ req'[a].rule = r /\ req'[a].ports = <<p>>
                 /\ \A b \in Admins \ {a} : req'[b] = req[b]
           /\ HandleUpdateRule(a, r, p, d) =>
                 /\ req'[a].pc = "get" /\ req'[a].rule = r /\ req'[a].ports = <<p>>
                 /\ \A b \in Admins \ {a} : req'[b] = req[b]
<1>1. req \in [Admins -> Request \cup {IdleReq}]
  BY DEF TypeOK
<1>2. ASSUME HandleCreateRule(a, r, p, d)
      PROVE  /\ req'[a].pc = "sync" /\ req'[a].rule = r /\ req'[a].ports = <<p>>
             /\ \A b \in Admins \ {a} : req'[b] = req[b]
  BY <1>1, <1>2 DEF HandleCreateRule, Begin
<1>3. ASSUME HandleUpdateRule(a, r, p, d)
      PROVE  /\ req'[a].pc = "get" /\ req'[a].rule = r /\ req'[a].ports = <<p>>
             /\ \A b \in Admins \ {a} : req'[b] = req[b]
  BY <1>1, <1>3 DEF HandleUpdateRule, Begin
<1> QED
  BY <1>2, <1>3

\* Where a step of a request leaves it, and the others where they were.
LEMMA RequestSteps ==
    ASSUME TypeOK, NEW a \in Admins
    PROVE  /\ Receive(a) \/ Resume(a) => \A b \in Admins \ {a} : req'[b] = req[b]
           /\ \A r, p, d : HandleCreateRule(a, r, p, d) =>
                 req'[a].pc = "sync" /\ req'[a].rule = r /\ req'[a].ports = <<p>>
           /\ \A r, p, d : HandleUpdateRule(a, r, p, d) =>
                 req'[a].pc = "get" /\ req'[a].rule = r /\ req'[a].ports = <<p>>
           /\ \A r : HandleToggleRule(a, r) => req'[a].pc = "get" /\ req'[a].rule = r
           /\ \A r : HandleDeleteRule(a, r) => req'[a].pc = "delete" /\ req'[a].rule = r
           /\ GetRule(a) =>
                 IF req[a].rule \in exists
                   THEN /\ req'[a].pc = "sync" /\ req'[a].rule = req[a].rule
                        /\ req'[a].row = row[req[a].rule]
                        /\ req'[a].ports = <<row[req[a].rule].port>> \o req[a].ports
                   ELSE req'[a] = Refreshing(req[a], req[a].ports)
           /\ SyncCapture(a) \/ StopCapture(a) \/ GetRuleFails(a) =>
                 req'[a] = Refreshing(req[a], req[a].ports)
           /\ DeleteRowFails(a) => req'[a] = IdleReq
           /\ DeleteRow(a) =>
                 /\ req'[a].pc = "stop" /\ req'[a].rule = req[a].rule
                 /\ req'[a].ports = req[a].ports
           /\ CountEnabled(a) => req'[a].pc = "mark" /\ req'[a].ports = req[a].ports
           /\ MarkObservations(a) \/ RefreshFails(a) =>
                 req'[a] = Refreshing(req[a], Tail(req[a].ports))
<1>1. req \in [Admins -> Request \cup {IdleReq}]
  BY DEF TypeOK
<1>2. ASSUME NEW q, req' = [req EXCEPT ![a] = q]
      PROVE  req'[a] = q /\ \A b \in Admins \ {a} : req'[b] = req[b]
  BY <1>1, <1>2
<1>3. ASSUME NEW r, NEW p, NEW d, HandleCreateRule(a, r, p, d)
      PROVE  /\ req'[a].pc = "sync" /\ req'[a].rule = r /\ req'[a].ports = <<p>>
             /\ \A b \in Admins \ {a} : req'[b] = req[b]
  BY <1>3, RequestBegun
<1>4. ASSUME NEW r, NEW p, NEW d, HandleUpdateRule(a, r, p, d)
      PROVE  /\ req'[a].pc = "get" /\ req'[a].rule = r /\ req'[a].ports = <<p>>
             /\ \A b \in Admins \ {a} : req'[b] = req[b]
  BY <1>4, RequestBegun
<1>5. ASSUME NEW r, HandleToggleRule(a, r)
      PROVE  /\ req'[a].pc = "get" /\ req'[a].rule = r
             /\ \A b \in Admins \ {a} : req'[b] = req[b]
  BY <1>1, <1>5 DEF HandleToggleRule, Begin
<1>6. ASSUME NEW r, HandleDeleteRule(a, r)
      PROVE  /\ req'[a].pc = "delete" /\ req'[a].rule = r
             /\ \A b \in Admins \ {a} : req'[b] = req[b]
  BY <1>1, <1>6 DEF HandleDeleteRule, Begin
<1>7. ASSUME GetRule(a)
      PROVE  /\ IF req[a].rule \in exists
                  THEN /\ req'[a].pc = "sync" /\ req'[a].rule = req[a].rule
                       /\ req'[a].row = row[req[a].rule]
                       /\ req'[a].ports = <<row[req[a].rule].port>> \o req[a].ports
                  ELSE req'[a] = Refreshing(req[a], req[a].ports)
             /\ \A b \in Admins \ {a} : req'[b] = req[b]
  <2>1. req[a] \in Request
    BY <1>7, AtWork DEF GetRule
  <2>2. CASE req[a].rule \in exists
    <3>1. PICK ports : ports = <<row[req[a].rule].port>> \o req[a].ports
      OBVIOUS
    <3>2. req' = [req EXCEPT ![a] = [req[a] EXCEPT !.pc = "sync", !.row = row[req[a].rule],
                                                   !.ports = ports]]
      BY <1>7, <2>2, <3>1 DEF GetRule, Continue
    <3> QED
      BY <1>1, <2>1, <2>2, <3>1, <3>2 DEF Request
  <2>3. CASE req[a].rule \notin exists
    <3>1. req' = [req EXCEPT ![a] = Refreshing(req[a], req[a].ports)]
      BY <1>7, <2>3 DEF GetRule, Continue
    <3> QED
      BY <1>2, <2>3, <3>1
  <2> QED
    BY <2>2, <2>3
<1>8. ASSUME SyncCapture(a) \/ StopCapture(a) \/ GetRuleFails(a)
      PROVE  /\ req'[a] = Refreshing(req[a], req[a].ports)
             /\ \A b \in Admins \ {a} : req'[b] = req[b]
  BY <1>2, <1>8 DEF SyncCapture, StopCapture, GetRuleFails, Continue
<1>12. ASSUME DeleteRowFails(a)
       PROVE  req'[a] = IdleReq /\ \A b \in Admins \ {a} : req'[b] = req[b]
  BY <1>2, <1>12 DEF DeleteRowFails, Continue
<1>9. ASSUME DeleteRow(a)
      PROVE  /\ req'[a].pc = "stop" /\ req'[a].rule = req[a].rule
             /\ req'[a].ports = req[a].ports
             /\ \A b \in Admins \ {a} : req'[b] = req[b]
  <2>1. req[a] \in Request
    BY <1>9, AtWork DEF DeleteRow
  <2> QED
    BY <1>1, <1>9, <2>1 DEF DeleteRow, Continue, Request
<1>10. ASSUME CountEnabled(a)
       PROVE  /\ req'[a].pc = "mark" /\ req'[a].ports = req[a].ports
              /\ \A b \in Admins \ {a} : req'[b] = req[b]
  <2>1. req[a] \in Request
    BY <1>10, AtWork DEF CountEnabled
  <2> QED
    BY <1>1, <1>10, <2>1 DEF CountEnabled, Continue, Request
<1>11. ASSUME MarkObservations(a) \/ RefreshFails(a)
       PROVE  /\ req'[a] = Refreshing(req[a], Tail(req[a].ports))
              /\ \A b \in Admins \ {a} : req'[b] = req[b]
  BY <1>2, <1>11 DEF MarkObservations, RefreshFails, Continue
<1> QED
  BY <1>3, <1>4, <1>5, <1>6, <1>7, <1>8, <1>9, <1>10, <1>11, <1>12 DEF Receive, Resume

(* What a request says of the rule it deletes stays true however other     *)
(* requests change or delete that rule in between: an id is never used     *)
(* twice (forward_rules.id, AUTOINCREMENT).                                *)
LEMMA DeletesAreFollowed == Spec => []DeletesFollow
<1>1. Init => DeletesFollow
  BY DEF Init, DeletesFollow, IdleReq
<1>2. TypeOK /\ DeletesFollow /\ [Next]_vars => DeletesFollow'
  <2>a. SUFFICES ASSUME TypeOK, DeletesFollow, [Next]_vars PROVE DeletesFollow'
    OBVIOUS
  <2>b. ASSUME NEW a \in Admins, Receive(a) \/ Resume(a),
               req'[a].pc \notin {"delete", "stop"}, UNCHANGED <<exists, made>>
        PROVE  DeletesFollow'
    BY <2>a, <2>b, RequestSteps DEF DeletesFollow
  <2>1. ASSUME NEW a \in Admins, NEW r \in RuleIds, NEW p \in Ports,
               NEW d \in Directions, HandleCreateRule(a, r, p, d)
        PROVE  DeletesFollow'
    <3>1. req'[a].pc = "sync" /\ \A b \in Admins \ {a} : req'[b] = req[b]
      BY <2>1, <2>a, RequestSteps DEF Receive
    <3>2. r \notin made /\ exists' = exists \cup {r} /\ made' = made \cup {r}
      BY <2>1 DEF HandleCreateRule
    <3> QED
      BY <2>a, <3>1, <3>2 DEF DeletesFollow
  <2>2. ASSUME NEW a \in Admins, NEW r \in RuleIds, NEW p \in Ports, NEW d \in Directions,
               HandleUpdateRule(a, r, p, d)
        PROVE  DeletesFollow'
    <3>1. req'[a].pc = "get" /\ Receive(a)
      BY <2>2, <2>a, RequestSteps DEF Receive
    <3> QED
      BY <2>2, <2>b, <3>1 DEF HandleUpdateRule
  <2>2a. ASSUME NEW a \in Admins, NEW r \in RuleIds, HandleToggleRule(a, r)
         PROVE  DeletesFollow'
    <3>1. req'[a].pc = "get" /\ Receive(a)
      BY <2>2a, <2>a, RequestSteps DEF Receive
    <3> QED
      BY <2>2a, <2>b, <3>1 DEF HandleToggleRule
  <2>3. ASSUME NEW a \in Admins, NEW r \in RuleIds, HandleDeleteRule(a, r)
        PROVE  DeletesFollow'
    <3>1. r \in made /\ UNCHANGED <<exists, made>>
      BY <2>3 DEF HandleDeleteRule, tableVars
    <3>2. /\ req'[a].pc = "delete" /\ req'[a].rule = r
          /\ \A b \in Admins \ {a} : req'[b] = req[b]
      BY <2>3, <2>a, RequestSteps DEF Receive
    <3> QED
      BY <2>a, <3>1, <3>2 DEF DeletesFollow
  <2>4. ASSUME NEW a \in Admins, GetRule(a) PROVE DeletesFollow'
    <3>1. req[a] \in Request /\ req[a].ports \in Seq(Ports)
      BY <2>4, <2>a, AtWork DEF GetRule
    <3>2. Resume(a) /\ req'[a].pc \in {"sync", "idle", "count"}
      <4>1. \/ req'[a].pc = "sync"
            \/ req'[a] = Refreshing(req[a], req[a].ports)
        BY ONLY <2>4, <2>a, RequestSteps
      <4>2. Refreshing(req[a], req[a].ports).pc \in {"idle", "count"}
        BY ONLY <3>1, RefreshingLists
      <4> QED
        BY <2>4, <4>1, <4>2 DEF Resume
    <3> QED
      BY <2>4, <2>b, <3>2 DEF GetRule, tableVars
  <2>5. ASSUME NEW a \in Admins, SyncCapture(a) \/ StopCapture(a) \/ GetRuleFails(a)
        PROVE  DeletesFollow'
    <3>1. req[a] \in Request /\ req[a].ports \in Seq(Ports)
      BY <2>5, <2>a, AtWork DEF SyncCapture, StopCapture, GetRuleFails
    <3>2. Resume(a) /\ req'[a].pc \in {"idle", "count"}
      BY <2>5, <2>a, <3>1, RefreshingLists, RequestSteps DEF Resume
    <3> QED
      BY <2>5, <2>b, <3>2 DEF SyncCapture, StopCapture, GetRuleFails, tableVars
  <2>5a. ASSUME NEW a \in Admins, DeleteRowFails(a) PROVE DeletesFollow'
    <3>1. Resume(a) /\ req'[a].pc = "idle"
      <4>1. req'[a] = IdleReq
        BY ONLY <2>5a, <2>a, RequestSteps
      <4> QED
        BY <2>5a, <4>1 DEF Resume, IdleReq
    <3> QED
      BY <2>5a, <2>b, <3>1 DEF DeleteRowFails, tableVars
  <2>6. ASSUME NEW a \in Admins, DeleteRow(a) PROVE DeletesFollow'
    <3>1. req'[a].pc = "stop" /\ req'[a].rule = req[a].rule
      BY <2>6, <2>a, RequestSteps
    <3>2. \A b \in Admins \ {a} : req'[b] = req[b]
      BY <2>6, <2>a, RequestSteps DEF Resume
    <3>3. req[a].pc = "delete" /\ exists' = exists \ {req[a].rule} /\ made' = made
      BY <2>6 DEF DeleteRow
    <3> QED
      BY <2>a, <3>1, <3>2, <3>3 DEF DeletesFollow
  <2>7. ASSUME NEW a \in Admins, CountEnabled(a) PROVE DeletesFollow'
    <3>1. Resume(a) /\ req'[a].pc = "mark"
      BY <2>7, <2>a, RequestSteps DEF Resume
    <3> QED
      BY <2>7, <2>b, <3>1 DEF CountEnabled, tableVars
  <2>8. ASSUME NEW a \in Admins, MarkObservations(a) \/ RefreshFails(a) PROVE DeletesFollow'
    <3>1. req[a] \in Request /\ req[a].ports \in Seq(Ports) /\ req[a].ports # <<>>
      BY <2>8, <2>a, AtWork DEF MarkObservations, RefreshFails, TypeOK
    <3>2. Tail(req[a].ports) \in Seq(Ports)
      BY <3>1
    <3>3. Resume(a) /\ req'[a].pc \in {"idle", "count"}
      BY <2>8, <2>a, <3>1, <3>2, RefreshingLists, RequestSteps DEF Resume
    <3> QED
      BY <2>8, <2>b, <3>3 DEF MarkObservations, RefreshFails, tableVars
  <2>9. CASE Restart
    BY <2>9 DEF Restart, DeletesFollow, IdleReq
  <2>10. ASSUME UNCHANGED <<exists, made, req>> PROVE DeletesFollow'
    BY <2>10, <2>a DEF DeletesFollow
  <2>11. ASSUME NEW a \in Admins, Receive(a) PROVE DeletesFollow'
    BY <2>11, <2>1, <2>2, <2>2a, <2>3 DEF Receive
  <2>12. ASSUME NEW a \in Admins, Resume(a) PROVE DeletesFollow'
    BY <2>12, <2>4, <2>5, <2>5a, <2>6, <2>7, <2>8 DEF Resume
  <2>13. ASSUME NEW p \in Ports, Observe(p) PROVE UNCHANGED <<exists, made, req>>
    BY <2>13 DEF Observe, tableVars
  <2>14. UNCHANGED vars => UNCHANGED <<exists, made, req>>
    BY DEF vars, tableVars
  <2>15. UNCHANGED <<tableVars, obs, req, requests, restarts, historyVars>>
            => UNCHANGED <<exists, made, req>>
    BY DEF tableVars
  <2> QED
    BY <2>a, <2>9, <2>10, <2>11, <2>12, <2>13, <2>14, <2>15 DEF Next
<1> QED
  BY TypeCorrect, <1>1, <1>2, PTL DEF Spec

\* What the manager holds for a rule it has started with, and for the others.
LEMMA StartsAgree ==
    ASSUME NEW captured \in SUBSET RuleIds, NEW start \in Starts(captured),
           NEW rows \in [RuleIds -> Row], NEW r \in RuleIds
    PROVE  IF r \in captured
             THEN /\ ActiveAfter(start)[r] \in CaptureIds
                  /\ GoroutinesAfter(start, rows)[ActiveAfter(start)[r]].port = rows[r].port
             ELSE ActiveAfter(start)[r] = NoCapture
<1>1. start \in [captured -> CaptureIds] /\ \A s, t \in captured : start[s] = start[t] => s = t
  BY DEF Starts
<1>2. CASE r \in captured
  <2>1. ActiveAfter(start)[r] = start[r] /\ start[r] \in CaptureIds
    BY <1>1, <1>2 DEF ActiveAfter
  <2>2. (CHOOSE s \in DOMAIN start : start[s] = start[r]) = r
    BY <1>1, <1>2
  <2>3. GoroutinesAfter(start, rows)[start[r]] = Started(r, rows[r].port)
    BY <1>1, <1>2, <2>1, <2>2 DEF GoroutinesAfter
  <2> QED
    BY <1>2, <2>1, <2>3 DEF Started
<1>3. CASE r \notin captured
  BY <1>1, <1>3 DEF ActiveAfter
<1> QED
  BY <1>2, <1>3

\* What the manager holds for the rule it is given, and for the others, afterwards.
LEMMA ManagerAgrees ==
    ASSUME CaptureTypeOK, NEW r \in RuleIds, NEW x \in Row
    PROVE  /\ Stop(r) => active'[r] = NoCapture
           /\ Sync(r, x) => IF Capturable(x)
                              THEN active'[r] \in CaptureIds /\ cap'[active'[r]].port = x.port
                              ELSE active'[r] = NoCapture
           /\ Stop(r) \/ Sync(r, x) =>
                 \A s \in RuleIds \ {r} :
                    /\ active'[s] = active[s]
                    /\ active[s] # NoCapture => cap'[active[s]].port = cap[active[s]].port
<1>1. /\ active \in [RuleIds -> CaptureIds \cup {NoCapture}]
      /\ Cancelling(r) \in [CaptureIds -> Goroutine]
      /\ \A i \in CaptureIds : Cancelling(r)[i].port = cap[i].port
  BY DEF CaptureTypeOK, Cancelling, Goroutine
<1>2. ASSUME Stop(r)
      PROVE  /\ active'[r] = NoCapture
             /\ \A s \in RuleIds \ {r} :
                   /\ active'[s] = active[s]
                   /\ active[s] # NoCapture => cap'[active[s]].port = cap[active[s]].port
  BY <1>1, <1>2 DEF Stop
<1>3. ASSUME Start(r, x)
      PROVE  /\ active'[r] \in CaptureIds /\ cap'[active'[r]].port = x.port
             /\ \A s \in RuleIds \ {r} :
                   /\ active'[s] = active[s]
                   /\ active[s] # NoCapture => cap'[active[s]].port = cap[active[s]].port
  <2>1. PICK i \in Free : /\ cap' = [Cancelling(r) EXCEPT ![i] = Started(r, x.port)]
                          /\ active' = [active EXCEPT ![r] = i]
    BY <1>3 DEF Start
  <2>2. i \in CaptureIds /\ \A s \in RuleIds : active[s] # i
    BY DEF Free
  <2>3. active'[r] = i /\ cap'[i].port = x.port
    BY <1>1, <2>1, <2>2 DEF Started
  <2>4. ASSUME NEW s \in RuleIds \ {r}
        PROVE  /\ active'[s] = active[s]
               /\ active[s] # NoCapture => cap'[active[s]].port = cap[active[s]].port
    BY <1>1, <2>1, <2>2
  <2> QED
    BY <2>2, <2>3, <2>4
<1> QED
  BY <1>2, <1>3 DEF Sync

(* The manager agrees with the table on every rule no request is about to  *)
(* tell it of, but those it was last given as another request had left     *)
(* them.                                                                   *)
LEMMA CapturesAgree == Spec => []CaptureInv
<1>1. Init => CaptureInv
  <2> SUFFICES ASSUME Init, NEW r \in RuleIds PROVE Agrees(r)
    BY DEF CaptureInv
  <2> DEFINE captured == {s \in InitRules : Capturable(row[s])}
  <2>1. captured \in SUBSET RuleIds
    BY RuleAdminAssumption
  <2>2. PICK start \in Starts(captured) :
            active = ActiveAfter(start) /\ cap = GoroutinesAfter(start, row)
    BY DEF Init
  <2>3. row \in [RuleIds -> Row]
    BY NoRowIsRow DEF Init
  <2>4. r \in captured <=> r \in exists /\ Capturable(row[r])
    BY DEF Init
  <2> HIDE DEF captured
  <2> QED
    BY <2>1, <2>2, <2>3, <2>4, StartsAgree, CaptureAssumption DEF Agrees
<1>2. TypeOK /\ DeletesFollow /\ CaptureInv /\ [Next]_vars => CaptureInv'
  <2>a. SUFFICES ASSUME TypeOK, DeletesFollow, CaptureInv, [Next]_vars,
                        NEW s \in RuleIds, s \notin unsure'
                 PROVE  Agrees(s)' \/ Told(s)'
    BY DEF CaptureInv
  <2>b. /\ active \in [RuleIds -> CaptureIds \cup {NoCapture}]
        /\ cap \in [CaptureIds -> Goroutine]
        /\ row \in [RuleIds -> Row]
        /\ exists \subseteq made
    BY <2>a DEF TypeOK, CaptureTypeOK
  <2>c. s \notin unsure => Agrees(s) \/ Told(s)
    BY <2>a DEF CaptureInv
  \* A step that changes neither the row nor the capture of s, and leaves who tells of it.
  <2>d. ASSUME UNCHANGED captureVars, s \notin unsure,
               (s \in exists)' = (s \in exists), row'[s] = row[s], Told(s) => Told(s)'
        PROVE  Agrees(s)' \/ Told(s)'
    BY <2>c, <2>d DEF Agrees, captureVars
  \* A step of a request that has nothing to tell of s.
  <2>e. ASSUME NEW a \in Admins, Receive(a) \/ Resume(a), Told(s),
               (s \in exists)' = (s \in exists),
               \/ req[a].pc \notin {"get", "sync", "stop"}
               \/ req[a].rule # s
        PROVE  Told(s)'
    <3>1. PICK b \in Admins :
              /\ req[b] # IdleReq /\ req[b].rule = s
              /\ req[b].pc \in IF s \in exists THEN {"get", "sync"} ELSE {"stop"}
      BY <2>e DEF Told
    <3>2. b # a
      BY <2>e, <3>1
    <3>3. req'[b] = req[b]
      BY <2>a, <2>e, <3>2, RequestSteps
    <3> QED
      BY <2>e, <3>1, <3>3 DEF Told
  <2>1. ASSUME NEW a \in Admins, NEW r \in RuleIds, NEW p \in Ports,
               NEW d \in Directions, HandleCreateRule(a, r, p, d)
        PROVE  Agrees(s)' \/ Told(s)'
    <3>1. /\ req'[a].pc = "sync" /\ req'[a].rule = r
          /\ req[a] = IdleReq /\ Receive(a)
      <4>1. req[a] = IdleReq /\ Receive(a)
        BY <2>1 DEF Receive, HandleCreateRule, NewRequest
      <4> QED
        BY ONLY <2>1, <2>a, <4>1, RequestBegun
    <3>2. /\ r \notin made /\ exists' = exists \cup {r} /\ UNCHANGED <<captureVars, unsure>>
          /\ r # s => row'[s] = row[s]
      BY <2>1, <2>b DEF HandleCreateRule, historyVars
    <3>3. CASE r = s
      BY <3>1, <3>2, <3>3 DEF Told, IdleReq
    <3>4. CASE r # s
      BY <2>a, <2>d, <2>e, <3>1, <3>2, <3>4 DEF IdleReq
    <3> QED
      BY <3>3, <3>4
  <2>2. ASSUME NEW a \in Admins, NEW r \in RuleIds, NEW p \in Ports, NEW d \in Directions,
               HandleUpdateRule(a, r, p, d)
        PROVE  Agrees(s)' \/ Told(s)'
    <3>1. /\ req'[a].pc = "get" /\ req'[a].rule = r
          /\ req[a] = IdleReq /\ Receive(a)
      <4>1. req[a] = IdleReq /\ Receive(a)
        BY <2>2 DEF Receive, HandleUpdateRule, NewRequest
      <4> QED
        BY ONLY <2>2, <2>a, <4>1, RequestBegun
    <3>2. /\ UNCHANGED <<captureVars, exists, unsure>>
          /\ r # s \/ r \notin exists => row'[s] = row[s]
      BY <2>2, <2>b DEF HandleUpdateRule
    <3>3. CASE r = s /\ r \in exists
      BY <3>1, <3>2, <3>3 DEF Told, IdleReq
    <3>4. CASE r # s \/ r \notin exists
      BY <2>a, <2>d, <2>e, <3>1, <3>2, <3>4 DEF IdleReq
    <3> QED
      BY <3>3, <3>4
  <2>3. ASSUME NEW a \in Admins, NEW r \in RuleIds, HandleToggleRule(a, r)
        PROVE  Agrees(s)' \/ Told(s)'
    <3>1. /\ req'[a].pc = "get" /\ req'[a].rule = r
          /\ req[a] = IdleReq /\ Receive(a)
      <4>1. req[a] = IdleReq /\ Receive(a)
        BY <2>3 DEF Receive, HandleToggleRule, NewRequest
      <4> QED
        BY ONLY <2>3, <2>a, <4>1, RequestSteps
    <3>2. /\ UNCHANGED <<captureVars, exists, unsure>>
          /\ r # s \/ r \notin exists => row'[s] = row[s]
      BY <2>3, <2>b DEF HandleToggleRule, historyVars
    <3>3. CASE r = s /\ r \in exists
      BY <3>1, <3>2, <3>3 DEF Told, IdleReq
    <3>4. CASE r # s \/ r \notin exists
      BY <2>a, <2>d, <2>e, <3>1, <3>2, <3>4 DEF IdleReq
    <3> QED
      BY <3>3, <3>4
  <2>4. ASSUME NEW a \in Admins, NEW r \in RuleIds, HandleDeleteRule(a, r)
        PROVE  Agrees(s)' \/ Told(s)'
    <3>1. req[a] = IdleReq /\ Receive(a)
      BY <2>4 DEF Receive, HandleDeleteRule, NewRequest
    <3>2. UNCHANGED <<captureVars, exists, row, unsure>>
      BY <2>4 DEF HandleDeleteRule, historyVars, tableVars
    <3> QED
      BY <2>a, <2>d, <2>e, <3>1, <3>2 DEF IdleReq
  <2>5. ASSUME NEW a \in Admins, GetRule(a) PROVE Agrees(s)' \/ Told(s)'
    <3>1. Resume(a) /\ req[a].pc = "get" /\ UNCHANGED <<captureVars, exists, row, unsure>>
      BY <2>5 DEF Resume, GetRule, historyVars, tableVars
    <3>2. CASE req[a].rule = s /\ s \in exists
      <4>1. req'[a].pc = "sync" /\ req'[a].rule = s
        BY <2>5, <2>a, <3>2, RequestSteps
      <4> QED
        BY <3>1, <3>2, <4>1 DEF Told, IdleReq
    <3>3. CASE req[a].rule = s /\ s \notin exists
      <4>1. Told(s) => Told(s)'
        <5> SUFFICES ASSUME Told(s) PROVE Told(s)'
          OBVIOUS
        <5>1. PICK b \in Admins : req[b] # IdleReq /\ req[b].rule = s /\ req[b].pc = "stop"
          BY <3>3 DEF Told
        <5>2. req'[b] = req[b]
          BY <2>a, <3>1, <5>1, RequestSteps
        <5> QED
          BY <3>1, <3>3, <5>1, <5>2 DEF Told
      <4> QED
        BY <2>a, <2>d, <3>1, <4>1
    <3>4. CASE req[a].rule # s
      BY <2>a, <2>d, <2>e, <3>1, <3>4
    <3> QED
      BY <3>2, <3>3, <3>4
  <2>5a. ASSUME NEW a \in Admins, GetRuleFails(a) PROVE Agrees(s)' \/ Told(s)'
    <3>1. /\ Resume(a) /\ req[a].pc = "get" /\ UNCHANGED <<captureVars, exists, row>>
          /\ unsure' = unsure \cup ({req[a].rule} \cap exists)
      BY <2>5a DEF Resume, GetRuleFails, tableVars
    <3>2. s \notin unsure /\ (req[a].rule = s => s \notin exists)
      BY <2>a, <3>1
    <3>3. CASE req[a].rule = s
      <4>1. Told(s) => Told(s)'
        <5> SUFFICES ASSUME Told(s) PROVE Told(s)'
          OBVIOUS
        <5>1. PICK b \in Admins : req[b] # IdleReq /\ req[b].rule = s /\ req[b].pc = "stop"
          BY <3>2, <3>3 DEF Told
        <5>2. req'[b] = req[b]
          BY <2>a, <3>1, <5>1, RequestSteps
        <5> QED
          BY <3>1, <3>2, <3>3, <5>1, <5>2 DEF Told
      <4> QED
        BY <2>d, <3>1, <3>2, <4>1
    <3>4. CASE req[a].rule # s
      BY <2>d, <2>e, <3>1, <3>2, <3>4
    <3> QED
      BY <3>3, <3>4
  <2>6. ASSUME NEW a \in Admins, SyncCapture(a) PROVE Agrees(s)' \/ Told(s)'
    <3>1. /\ Resume(a) /\ req[a].pc = "sync" /\ UNCHANGED <<exists, row>>
          /\ req[a].rule \in RuleIds /\ req[a].row \in Row
          /\ Sync(req[a].rule, req[a].row)
      BY <2>6, <2>a, AtWork DEF Resume, SyncCapture, tableVars
    <3>2. CASE req[a].rule = s
      <4>1. s \in exists /\ req[a].row = row[s]
        BY <2>6, <2>a, <3>2 DEF SyncCapture
      <4>2. IF Capturable(row[s])
              THEN active'[s] \in CaptureIds /\ cap'[active'[s]].port = row[s].port
              ELSE active'[s] = NoCapture
        BY <2>a, <3>1, <3>2, <4>1, ManagerAgrees DEF TypeOK
      <4> QED
        BY <3>1, <4>1, <4>2, CaptureAssumption DEF Agrees
    <3>3. CASE req[a].rule # s
      <4>1. s \notin unsure /\ (Told(s) => Told(s)')
        BY <2>6, <2>a, <2>e, <3>1, <3>3 DEF SyncCapture
      <4>2. /\ active'[s] = active[s]
            /\ active[s] # NoCapture => cap'[active[s]].port = cap[active[s]].port
        BY <2>a, <3>1, <3>3, ManagerAgrees DEF TypeOK
      <4>3. Agrees(s) => Agrees(s)'
        BY <3>1, <4>2 DEF Agrees
      <4> QED
        BY <2>c, <4>1, <4>3
    <3> QED
      BY <3>2, <3>3
  <2>7. ASSUME NEW a \in Admins, StopCapture(a) PROVE Agrees(s)' \/ Told(s)'
    <3>1. /\ Resume(a) /\ req[a].pc = "stop" /\ UNCHANGED <<exists, row>>
          /\ req[a].rule \in RuleIds /\ req[a].row \in Row
          /\ Stop(req[a].rule)
      BY <2>7, <2>a, AtWork DEF Resume, StopCapture, tableVars
    <3>2. CASE req[a].rule = s
      <4>1. s \notin exists
        BY <2>a, <3>1, <3>2 DEF DeletesFollow
      <4>2. active'[s] = NoCapture
        BY <2>a, <3>1, <3>2, ManagerAgrees DEF TypeOK
      <4> QED
        BY <3>1, <4>1, <4>2 DEF Agrees
    <3>3. CASE req[a].rule # s
      <4>1. s \notin unsure /\ (Told(s) => Told(s)')
        BY <2>7, <2>a, <2>e, <3>1, <3>3 DEF StopCapture
      <4>2. /\ active'[s] = active[s]
            /\ active[s] # NoCapture => cap'[active[s]].port = cap[active[s]].port
        BY <2>a, <3>1, <3>3, ManagerAgrees DEF TypeOK
      <4>3. Agrees(s) => Agrees(s)'
        BY <3>1, <4>2 DEF Agrees
      <4> QED
        BY <2>c, <4>1, <4>3
    <3> QED
      BY <3>2, <3>3
  <2>8. ASSUME NEW a \in Admins, DeleteRow(a) PROVE Agrees(s)' \/ Told(s)'
    <3>1. /\ Resume(a) /\ req[a].pc = "delete" /\ UNCHANGED <<captureVars, row, unsure>>
          /\ exists' = exists \ {req[a].rule}
      BY <2>8 DEF Resume, DeleteRow
    <3>2. CASE req[a].rule = s
      <4>1. req'[a].pc = "stop" /\ req'[a].rule = s
        BY <2>8, <2>a, <3>2, RequestSteps
      <4> QED
        BY <3>1, <3>2, <4>1 DEF Told, IdleReq
    <3>3. CASE req[a].rule # s
      BY <2>a, <2>d, <2>e, <3>1, <3>3
    <3> QED
      BY <3>2, <3>3
  <2>9. ASSUME NEW a \in Admins,
               CountEnabled(a) \/ MarkObservations(a) \/ RefreshFails(a) \/ DeleteRowFails(a)
        PROVE  Agrees(s)' \/ Told(s)'
    <3>1. /\ Resume(a) /\ req[a].pc \notin {"get", "sync", "stop"}
          /\ UNCHANGED <<captureVars, exists, row, unsure>>
      BY <2>9 DEF Resume, CountEnabled, MarkObservations, RefreshFails, DeleteRowFails, tableVars,
                  historyVars
    <3> QED
      BY <2>a, <2>d, <2>e, <3>1
  <2>10. ASSUME NEW i \in CaptureIds, Bind(i) \/ CloseSocket(i),
                UNCHANGED <<tableVars, obs, req, requests, restarts, historyVars>>
         PROVE  Agrees(s)' \/ Told(s)'
    <3>1. /\ UNCHANGED <<active, exists, row, req, unsure>>
          /\ \A j \in CaptureIds : cap'[j].port = cap[j].port
      BY <2>10, <2>b DEF Bind, CloseSocket, Goroutine, tableVars, historyVars
    <3> QED
      BY <2>a, <2>b, <2>c, <3>1 DEF Agrees, Told
  <2>11. ASSUME NEW p \in Ports, Observe(p) PROVE Agrees(s)' \/ Told(s)'
    <3>1. UNCHANGED <<captureVars, exists, row, req, unsure>>
      BY <2>11 DEF Observe, tableVars
    <3> QED
      BY <2>a, <2>d, <3>1 DEF Told
  <2>12. ASSUME Restart PROVE Agrees(s)' \/ Told(s)'
    <3> DEFINE captured == {r \in exists : Capturable(row[r])}
    <3>1. captured \in SUBSET RuleIds /\ row \in [RuleIds -> Row]
      BY <2>a DEF TypeOK
    <3>2. PICK start \in Starts(captured) :
              active' = ActiveAfter(start) /\ cap' = GoroutinesAfter(start, row)
      BY <2>12 DEF Restart
    <3>3. (s \in captured <=> s \in exists /\ Capturable(row[s])) /\ UNCHANGED <<exists, row>>
      BY <2>12 DEF Restart, tableVars
    <3> HIDE DEF captured
    <3> QED
      BY <3>1, <3>2, <3>3, StartsAgree, CaptureAssumption DEF Agrees
  <2>13. ASSUME UNCHANGED vars PROVE Agrees(s)' \/ Told(s)'
    <3>1. UNCHANGED <<captureVars, exists, row, req, unsure>>
      BY <2>13 DEF vars, tableVars, historyVars
    <3> QED
      BY <2>a, <2>d, <3>1 DEF Told
  <2>14. ASSUME NEW a \in Admins, Receive(a) PROVE Agrees(s)' \/ Told(s)'
    BY <2>14, <2>1, <2>2, <2>3, <2>4 DEF Receive
  <2>15. ASSUME NEW a \in Admins, Resume(a) PROVE Agrees(s)' \/ Told(s)'
    BY <2>15, <2>5, <2>5a, <2>6, <2>7, <2>8, <2>9 DEF Resume
  <2> QED
    BY <2>a, <2>10, <2>11, <2>12, <2>13, <2>14, <2>15 DEF Next, CaptureStep
<1> QED
  BY TypeCorrect, DeletesAreFollowed, <1>1, <1>2, PTL DEF Spec

(* With no request under way the captures the manager holds are those the  *)
(* table asks for, however requests, goroutines and crashes interleaved,   *)
(* but for a rule last synced as another request had left it, or whose row *)
(* could not be read back                                                  *)
(* (handleUpdateRule, handleToggleRule and handleDeleteRule, webui.go).    *)
THEOREM CapturesFollow == Spec => []CapturesFollowTable
<1>1. CaptureInv => CapturesFollowTable
  <2> SUFFICES ASSUME CaptureInv, Quiet, NEW r \in RuleIds \ unsure PROVE Agrees(r)
    BY DEF CapturesFollowTable, Agrees
  <2>1. ~Told(r)
    BY DEF Told, Quiet
  <2> QED
    BY <2>1 DEF CaptureInv
<1> QED
  BY CapturesAgree, <1>1, PTL

(* The observations of a port say whether an enabled rule listens there,   *)
(* or a request is going to mark them, but on the ports in excused.        *)
LEMMA ObservationsAgree == Spec => []RefreshInv
<1>1. Init => RefreshInv
  BY DEF Init, RefreshInv
<1>2. TypeOK /\ DeletesFollow /\ RefreshInv /\ [Next]_vars => RefreshInv'
  <2> DEFINE Goal(p) == obs[p] \subseteq {Covered(p)} \/ \E a \in Admins : Refreshes(a, p)
  <2>a. SUFFICES ASSUME TypeOK, DeletesFollow, RefreshInv, [Next]_vars,
                        NEW p \in Ports, p \notin excused'
                 PROVE  Goal(p)'
    BY DEF RefreshInv
  <2>b. /\ obs \in [Ports -> SUBSET BOOLEAN] /\ row \in [RuleIds -> Row]
        /\ exists \subseteq made /\ made \subseteq RuleIds
    BY <2>a DEF TypeOK
  <2>c. p \notin excused => Goal(p)
    BY <2>a DEF RefreshInv
  \* A step that leaves the port's rules and observations, and who refreshes them.
  <2>d. ASSUME p \notin excused, obs'[p] = obs[p], Covered(p)' = Covered(p),
               \A b \in Admins : Refreshes(b, p) => Refreshes(b, p)'
        PROVE  Goal(p)'
    BY <2>c, <2>d
  \* What the other requests refresh is kept where the rules of the port are.
  <2>e. ASSUME NEW a \in Admins, Receive(a) \/ Resume(a), NEW b \in Admins \ {a},
               \A r \in exists : row[r].port = p => r \in exists' /\ row'[r].port = p,
               Refreshes(b, p)
        PROVE  Refreshes(b, p)'
    <3>1. req'[b] = req[b]
      BY <2>a, <2>e, RequestSteps
    <3> QED
      BY <2>e, <3>1 DEF Refreshes
  <2>f. ASSUME UNCHANGED <<row, exists>> PROVE Covered(p)' = Covered(p)
    BY <2>f DEF Covered
  <2>1. ASSUME NEW a \in Admins, NEW r \in RuleIds, NEW x \in Ports,
               NEW d \in Directions, HandleCreateRule(a, r, x, d)
        PROVE  Goal(p)'
    <3>1. /\ req'[a].pc = "sync" /\ req'[a].ports = <<x>>
          /\ req[a] = IdleReq /\ Receive(a)
      <4>1. req[a] = IdleReq /\ Receive(a)
        BY <2>1 DEF Receive, HandleCreateRule, NewRequest
      <4> QED
        BY ONLY <2>1, <2>a, <4>1, RequestBegun
    <3>2. /\ exists' = exists \cup {r} /\ r \notin exists /\ obs' = obs /\ excused' = excused
          /\ \A s \in RuleIds \ {r} : row'[s] = row[s]
          /\ row'[r].port = x
      BY <2>1, <2>b DEF HandleCreateRule, historyVars
    <3>3. CASE x = p
      <4>1. Lists(req'[a].ports, p)
        BY <3>1, <3>3 DEF Lists
      <4> QED
        BY <3>1, <4>1 DEF Refreshes
    <3>4. CASE x # p
      <4>1. Covered(p)' = Covered(p)
        BY <2>b, <3>2, <3>4 DEF Covered
      <4>2. ~Refreshes(a, p)
        BY <3>1 DEF Refreshes, IdleReq
      <4>3. \A s \in exists : row[s].port = p => s \in exists' /\ row'[s].port = p
        BY <2>b, <3>2
      <4> QED
        BY <2>a, <2>d, <2>e, <3>1, <3>2, <4>1, <4>2, <4>3
    <3> QED
      BY <3>3, <3>4
  <2>2. ASSUME NEW a \in Admins, NEW r \in RuleIds, NEW x \in Ports, NEW d \in Directions,
               HandleUpdateRule(a, r, x, d)
        PROVE  Goal(p)'
    <3>1. /\ req'[a].pc = "get" /\ req'[a].ports = <<x>>
          /\ req[a] = IdleReq /\ Receive(a)
      <4>1. req[a] = IdleReq /\ Receive(a)
        BY <2>2 DEF Receive, HandleUpdateRule, NewRequest
      <4> QED
        BY ONLY <2>2, <2>a, <4>1, RequestBegun
    <3>2. /\ exists' = exists /\ obs' = obs
          /\ \A s \in RuleIds \ {r} : row'[s] = row[s]
          /\ r \in exists => row'[r].port = x
          /\ r \notin exists => row' = row
          /\ excused' = excused \cup Unlisted(r, <<x>>)
      BY <2>2, <2>b DEF HandleUpdateRule, Row
    <3>3. CASE x = p
      <4>1. Lists(req'[a].ports, p)
        BY <3>1, <3>3 DEF Lists
      <4> QED
        BY <3>1, <4>1 DEF Refreshes
    <3>4. CASE x # p
      <4>1. p \notin excused /\ (r \in exists => row[r].port # p)
        <5>1. Range(<<x>>) = {x}
          BY DEF Range
        <5> QED
          BY <2>a, <3>2, <3>4, <5>1 DEF Unlisted
      <4>2. Covered(p)' = Covered(p)
        BY <2>b, <3>2, <3>4, <4>1 DEF Covered
      <4>3. ~Refreshes(a, p)
        BY <3>1 DEF Refreshes, IdleReq
      <4>4. \A s \in exists : row[s].port = p => s \in exists' /\ row'[s].port = p
        BY <2>b, <3>2, <4>1
      <4> QED
        BY <2>d, <2>e, <3>1, <3>2, <4>1, <4>2, <4>3, <4>4
    <3> QED
      BY <3>3, <3>4
  <2>3. ASSUME NEW a \in Admins, NEW r \in RuleIds, HandleToggleRule(a, r) PROVE Goal(p)'
    <3>1. /\ req'[a].pc = "get" /\ req'[a].rule = r
          /\ req[a] = IdleReq /\ Receive(a)
      <4>1. req[a] = IdleReq /\ Receive(a)
        BY <2>3 DEF Receive, HandleToggleRule, NewRequest
      <4> QED
        BY ONLY <2>3, <2>a, <4>1, RequestSteps
    <3>2. /\ exists' = exists /\ obs' = obs /\ excused' = excused
          /\ \A s \in RuleIds \ {r} : row'[s] = row[s]
          /\ row'[r].port = row[r].port
          /\ r \notin exists => row' = row
      BY <2>3, <2>b DEF HandleToggleRule, historyVars, Row
    <3>3. CASE r \in exists /\ row[r].port = p
      BY <3>1, <3>2, <3>3 DEF Refreshes
    <3>4. CASE ~(r \in exists /\ row[r].port = p)
      <4>1. Covered(p)' = Covered(p)
        BY <2>b, <3>2, <3>4 DEF Covered
      <4>2. ~Refreshes(a, p)
        BY <3>1 DEF Refreshes, IdleReq
      <4>3. \A s \in exists : row[s].port = p => s \in exists' /\ row'[s].port = p
        BY <2>b, <3>2
      <4> QED
        BY <2>a, <2>d, <2>e, <3>1, <3>2, <4>1, <4>2, <4>3
    <3> QED
      BY <3>3, <3>4
  <2>4. ASSUME NEW a \in Admins, NEW r \in RuleIds, HandleDeleteRule(a, r) PROVE Goal(p)'
    <3>1. Receive(a) /\ req[a] = IdleReq /\ UNCHANGED <<row, exists, obs, excused>>
      BY <2>4 DEF Receive, HandleDeleteRule, NewRequest, tableVars, historyVars
    <3>2. ~Refreshes(a, p)
      BY <3>1 DEF Refreshes, IdleReq
    <3> QED
      BY <2>a, <2>d, <2>e, <2>f, <3>1, <3>2
  <2>5. ASSUME NEW a \in Admins, GetRule(a) PROVE Goal(p)'
    <3>1. Resume(a) /\ req[a].pc = "get" /\ UNCHANGED <<row, exists, obs, excused>>
      BY <2>5 DEF Resume, GetRule, tableVars, historyVars
    <3>2. req[a] \in Request /\ req[a].rule \in RuleIds /\ req[a].ports \in Seq(Ports)
      BY <2>a, <3>1, AtWork
    <3>3. ASSUME Refreshes(a, p) PROVE Refreshes(a, p)'
      <4>1. CASE req[a].rule \in exists
        <5> DEFINE x == row[req[a].rule].port
        <5>1. req'[a].pc = "sync" /\ req'[a].ports = <<x>> \o req[a].ports
          BY ONLY <2>5, <2>a, <4>1, RequestSteps
        <5>2. x \in Ports
          BY <2>b, <3>2 DEF Row
        <5>3. x = p \/ Lists(req[a].ports, p)
          BY <3>1, <3>3 DEF Refreshes
        <5> HIDE DEF x
        <5>4. Lists(req'[a].ports, p)
          BY <3>2, <5>1, <5>2, <5>3, ListsBefore
        <5> QED
          BY <5>1, <5>4 DEF Refreshes
      <4>2. CASE req[a].rule \notin exists
        <5>1. req'[a] = Refreshing(req[a], req[a].ports)
          BY <2>5, <2>a, <4>2, RequestSteps
        <5>2. Lists(req[a].ports, p)
          BY <3>1, <3>3, <4>2 DEF Refreshes
        <5>3. req'[a].pc = "count" /\ Lists(req'[a].ports, p)
          BY <3>2, <5>1, <5>2, RefreshingLists
        <5> QED
          BY <5>3 DEF Refreshes
      <4> QED
        BY <4>1, <4>2
    <3> QED
      BY <2>a, <2>d, <2>e, <2>f, <3>1, <3>3
  <2>5a. ASSUME NEW a \in Admins, GetRuleFails(a) PROVE Goal(p)'
    <3>1. /\ Resume(a) /\ req[a].pc = "get" /\ UNCHANGED <<row, exists, obs>>
          /\ excused' = excused \cup Unlisted(req[a].rule, req[a].ports)
      BY <2>5a DEF Resume, GetRuleFails, tableVars
    <3>2. req[a] \in Request /\ req[a].ports \in Seq(Ports)
      BY <2>a, <3>1, AtWork
    <3>3. req'[a] = Refreshing(req[a], req[a].ports)
      BY <2>5a, <2>a, RequestSteps
    <3>4. ASSUME Refreshes(a, p) PROVE Refreshes(a, p)'
      <4>1. Lists(req[a].ports, p)
        BY <2>a, <3>1, <3>4 DEF Refreshes, Unlisted, Range, Lists
      <4>2. req'[a].pc = "count" /\ Lists(req'[a].ports, p)
        BY <3>2, <3>3, <4>1, RefreshingLists
      <4> QED
        BY <4>2 DEF Refreshes
    <3>5. p \notin excused
      BY <2>a, <3>1
    <3> QED
      BY <2>d, <2>e, <2>f, <3>1, <3>4, <3>5
  <2>5b. ASSUME NEW a \in Admins, DeleteRowFails(a) PROVE Goal(p)'
    <3>1. Resume(a) /\ req[a].pc = "delete" /\ UNCHANGED <<row, exists, obs, excused>>
      BY <2>5b DEF Resume, DeleteRowFails, tableVars, historyVars
    <3>2. ~Refreshes(a, p)
      BY <3>1 DEF Refreshes
    <3> QED
      BY <2>a, <2>d, <2>e, <2>f, <3>1, <3>2
  <2>6. ASSUME NEW a \in Admins, SyncCapture(a) \/ StopCapture(a) PROVE Goal(p)'
    <3>1. /\ Resume(a) /\ req[a].pc \in {"sync", "stop"}
          /\ UNCHANGED <<row, exists, obs, excused>>
      BY <2>6 DEF Resume, SyncCapture, StopCapture, tableVars
    <3>2. req[a] \in Request /\ req[a].ports \in Seq(Ports)
      BY <2>a, <3>1, AtWork
    <3>3. req'[a] = Refreshing(req[a], req[a].ports)
      BY <2>6, <2>a, RequestSteps
    <3>4. ASSUME Refreshes(a, p) PROVE Refreshes(a, p)'
      <4>1. Lists(req[a].ports, p)
        BY <3>1, <3>4 DEF Refreshes
      <4>2. req'[a].pc = "count" /\ Lists(req'[a].ports, p)
        BY <3>2, <3>3, <4>1, RefreshingLists
      <4> QED
        BY <4>2 DEF Refreshes
    <3> QED
      BY <2>a, <2>d, <2>e, <2>f, <3>1, <3>4
  <2>7. ASSUME NEW a \in Admins, DeleteRow(a) PROVE Goal(p)'
    <3> DEFINE r == req[a].rule
    <3>1. /\ Resume(a) /\ req[a].pc = "delete" /\ row' = row /\ obs' = obs
          /\ exists' = exists \ {r}
          /\ excused' = excused \cup Unlisted(r, req[a].ports)
      BY <2>7 DEF Resume, DeleteRow
    <3>2. req'[a].pc = "stop" /\ req'[a].ports = req[a].ports
      BY <2>7, <2>a, RequestSteps
    <3> HIDE DEF r
    <3>4. CASE r \in exists /\ row[r].port = p
      <4>1. Lists(req[a].ports, p)
        BY <2>a, <3>1, <3>4 DEF Unlisted, Range, Lists
      <4> QED
        BY <3>2, <4>1 DEF Refreshes
    <3>5. CASE ~(r \in exists /\ row[r].port = p)
      <4>1. Covered(p)' = Covered(p)
        BY <3>1, <3>5 DEF Covered
      <4>2. ~Refreshes(a, p) /\ p \notin excused
        BY <2>a, <3>1 DEF Refreshes
      <4>3. \A s \in exists : row[s].port = p => s \in exists' /\ row'[s].port = p
        BY <3>1, <3>5
      <4> QED
        BY <2>d, <2>e, <3>1, <4>1, <4>2, <4>3
    <3> QED
      BY <3>4, <3>5
  <2>8. ASSUME NEW a \in Admins, CountEnabled(a) PROVE Goal(p)'
    <3>1. /\ Resume(a) /\ req[a].pc = "count" /\ UNCHANGED <<row, exists, obs, excused>>
      BY <2>8 DEF Resume, CountEnabled, tableVars, historyVars
    <3>2. req'[a].pc = "mark" /\ req'[a].ports = req[a].ports
      BY <2>8, <2>a, RequestSteps
    <3>3. Refreshes(a, p) => Refreshes(a, p)'
      BY <3>1, <3>2 DEF Refreshes
    <3> QED
      BY <2>a, <2>d, <2>e, <2>f, <3>1, <3>3
  <2>9. ASSUME NEW a \in Admins, MarkObservations(a) PROVE Goal(p)'
    <3> DEFINE q == req[a]
               h == Head(q.ports)
    <3>1. /\ Resume(a) /\ q.pc = "mark" /\ UNCHANGED <<row, exists>>
          /\ obs' = [obs EXCEPT ![h] = IF @ = {} THEN {} ELSE {q.covered}]
          /\ excused' = IF q.covered = Covered(h) THEN excused \ {h} ELSE excused \cup {h}
      BY <2>9 DEF Resume, MarkObservations, tableVars
    <3>2. q \in Request /\ q.ports \in Seq(Ports) /\ q.ports # <<>>
      BY <2>a, <3>1, AtWork DEF TypeOK
    <3>3a. Tail(q.ports) \in Seq(Ports)
      BY <3>2
    <3>3. PICK tail \in Seq(Ports) : tail = Tail(q.ports)
      BY <3>3a
    <3>4. req'[a] = Refreshing(q, tail)
      BY <2>9, <2>a, <3>3, RequestSteps
    <3>5. CASE h = p
      <4>1. q.covered = Covered(p) /\ obs'[p] \subseteq {q.covered}
        BY <2>a, <2>b, <3>1, <3>5
      <4>2. Covered(p)' = Covered(p)
        BY <2>f, <3>1
      <4> QED
        BY <4>1, <4>2
    <3>6. CASE h # p
      <4>1. ASSUME Refreshes(a, p) PROVE Refreshes(a, p)'
        <5>1. Lists(q.ports, p)
          BY <3>1, <4>1 DEF Refreshes
        <5>2. Lists(tail, p)
          BY <3>2, <3>3, <3>6, <5>1, ListsParts
        <5>3. req'[a].pc = "count" /\ Lists(req'[a].ports, p)
          <6> HIDE DEF q
          <6>1. Refreshing(q, tail).pc = "count" /\ Lists(Refreshing(q, tail).ports, p)
            BY <3>2, <5>2, RefreshingLists
          <6> QED
            BY <3>4, <6>1
        <5> QED
          BY <5>3 DEF Refreshes
      <4>2. p \notin excused /\ obs'[p] = obs[p]
        BY <2>a, <2>b, <3>1, <3>6
      <4>3. Covered(p)' = Covered(p)
        BY <2>f, <3>1
      <4> QED
        BY <2>d, <2>e, <3>1, <4>1, <4>2, <4>3
    <3> QED
      BY <3>5, <3>6
  <2>9a. ASSUME NEW a \in Admins, RefreshFails(a) PROVE Goal(p)'
    <3> DEFINE q == req[a]
               h == Head(q.ports)
    <3>1. /\ Resume(a) /\ q.pc \in {"count", "mark"} /\ UNCHANGED <<row, exists, obs>>
          /\ excused' = excused \cup {h}
      BY <2>9a DEF Resume, RefreshFails, tableVars
    <3>2. q \in Request /\ q.ports \in Seq(Ports) /\ q.ports # <<>>
      BY <2>a, <3>1, AtWork DEF TypeOK
    <3>3a. Tail(q.ports) \in Seq(Ports)
      BY <3>2
    <3>3. PICK tail \in Seq(Ports) : tail = Tail(q.ports)
      BY <3>3a
    <3>4. req'[a] = Refreshing(q, tail)
      BY <2>9a, <2>a, <3>3, RequestSteps
    <3>5. h # p /\ p \notin excused
      BY <2>a, <3>1
    <3>6. ASSUME Refreshes(a, p) PROVE Refreshes(a, p)'
      <4>1. Lists(q.ports, p)
        BY <3>1, <3>6 DEF Refreshes
      <4>2. Lists(tail, p)
        BY <3>2, <3>3, <3>5, <4>1, ListsParts
      <4>3. req'[a].pc = "count" /\ Lists(req'[a].ports, p)
        <5> HIDE DEF q
        <5>1. Refreshing(q, tail).pc = "count" /\ Lists(Refreshing(q, tail).ports, p)
          BY <3>2, <4>2, RefreshingLists
        <5> QED
          BY <3>4, <5>1
      <4> QED
        BY <4>3 DEF Refreshes
    <3> QED
      BY <2>d, <2>e, <2>f, <3>1, <3>5, <3>6
  <2>10. ASSUME UNCHANGED <<row, exists, obs, req, excused>> PROVE Goal(p)'
    <3>1. \A b \in Admins : Refreshes(b, p) => Refreshes(b, p)'
      BY <2>10 DEF Refreshes
    <3> QED
      BY <2>a, <2>d, <2>f, <2>10, <3>1
  <2>11. ASSUME NEW x \in Ports, Observe(x) PROVE Goal(p)'
    <3>1. /\ UNCHANGED <<row, exists, req>>
          /\ obs' = [obs EXCEPT ![x] = @ \cup {FALSE}]
          /\ excused' = IF Covered(x) THEN excused \cup {x} ELSE excused
      BY <2>11 DEF Observe, tableVars
    <3>2. \A b \in Admins : Refreshes(b, p) => Refreshes(b, p)'
      BY <3>1 DEF Refreshes
    <3>3. p \notin excused
      BY <2>a, <3>1
    <3>4. CASE x = p
      <4>1. ~Covered(p)
        BY <2>a, <3>1, <3>4
      <4>2. obs'[p] = obs[p] \cup {FALSE} /\ Covered(p)' = Covered(p)
        BY <2>b, <2>f, <3>1, <3>4
      <4>3. {Covered(p)} = {FALSE}
        BY <4>1 DEF Covered
      <4> QED
        BY <2>c, <3>2, <3>3, <4>2, <4>3
    <3>5. CASE x # p
      BY <2>b, <2>d, <2>f, <3>1, <3>2, <3>3, <3>5
    <3> QED
      BY <3>4, <3>5
  <2>12. ASSUME Restart PROVE Goal(p)'
    <3>1. /\ UNCHANGED <<row, exists, obs>>
          /\ excused' = excused \cup UNION {CutOff(a) : a \in Admins}
      BY <2>12 DEF Restart, tableVars
    <3>2. ASSUME NEW a \in Admins, Refreshes(a, p) PROVE p \in CutOff(a)
      <4>1. req[a] # IdleReq
        BY <3>2 DEF Refreshes, IdleReq
      <4> QED
        BY <3>2, <4>1 DEF Refreshes, CutOff, Lists, Range
    <3>3. p \notin excused /\ \A a \in Admins : ~Refreshes(a, p)
      BY <2>a, <3>1, <3>2
    <3> QED
      BY <2>d, <2>f, <3>1, <3>3
  <2>13. ASSUME NEW a \in Admins, Receive(a) PROVE Goal(p)'
    BY <2>13, <2>1, <2>2, <2>3, <2>4 DEF Receive
  <2>14. ASSUME NEW a \in Admins, Resume(a) PROVE Goal(p)'
    BY <2>14, <2>5, <2>5a, <2>5b, <2>6, <2>7, <2>8, <2>9, <2>9a DEF Resume
  <2>15. UNCHANGED vars => UNCHANGED <<row, exists, obs, req, excused>>
    BY DEF vars, tableVars, historyVars
  <2>16. UNCHANGED <<tableVars, obs, req, requests, restarts, historyVars>>
            => UNCHANGED <<row, exists, obs, req, excused>>
    BY DEF tableVars, historyVars
  <2> HIDE DEF Goal
  <2> QED
    BY <2>a, <2>10, <2>11, <2>12, <2>13, <2>14, <2>15, <2>16 DEF Next
<1> QED
  BY TypeCorrect, DeletesAreFollowed, <1>1, <1>2, PTL DEF Spec

(* With no request under way the has_rule column of a port's observations  *)
(* says whether an enabled rule listens there, except on the ports that    *)
(* excused names (syncObservationHasRule, webui.go).                       *)
THEOREM HasRuleFollows == Spec => []HasRuleFollowsTable
<1>1. RefreshInv => HasRuleFollowsTable
  <2>1. Quiet => \A a \in Admins, p \in Ports : ~Refreshes(a, p)
    BY DEF Quiet, Refreshes, IdleReq
  <2> QED
    BY <2>1 DEF RefreshInv, HasRuleFollowsTable
<1> QED
  BY ObservationsAgree, <1>1, PTL

(* What the manager keeps for a rule is a capture that was started for it  *)
(* and that nobody has cancelled.                                          *)
EntriesInv ==
    \A r \in RuleIds : active[r] # NoCapture =>
        /\ cap[active[r]].pc # "unused" /\ cap[active[r]].rule = r
        /\ ~cap[active[r]].cancelled

\* What a server starts with.
LEMMA StartsKept ==
    ASSUME NEW captured \in SUBSET RuleIds, NEW start \in Starts(captured), NEW rows,
           NEW r \in RuleIds, ActiveAfter(start)[r] # NoCapture
    PROVE  LET i == ActiveAfter(start)[r]
               g == GoroutinesAfter(start, rows)[i]
           IN  g.pc = "starting" /\ g.rule = r /\ ~g.cancelled
<1>1. start \in [captured -> CaptureIds] /\ \A s, t \in captured : start[s] = start[t] => s = t
  BY DEF Starts
<1>2. r \in captured /\ ActiveAfter(start)[r] = start[r] /\ start[r] \in CaptureIds
  BY <1>1 DEF ActiveAfter
<1>3. (CHOOSE s \in DOMAIN start : start[s] = start[r]) = r
  BY <1>1, <1>2
<1>4. GoroutinesAfter(start, rows)[start[r]] = Started(r, rows[r].port)
  BY <1>1, <1>2, <1>3 DEF GoroutinesAfter
<1> QED
  BY <1>2, <1>4 DEF Started

\* The manager's methods keep an entry apart from the others and from what they cancel.
LEMMA ManagerKeeps ==
    ASSUME CaptureTypeOK, EntriesInv, NEW r \in RuleIds, NEW x \in Row, Stop(r) \/ Sync(r, x)
    PROVE  EntriesInv'
<1>1. /\ active \in [RuleIds -> CaptureIds \cup {NoCapture}]
      /\ cap \in [CaptureIds -> Goroutine]
  BY DEF CaptureTypeOK
<1>2. ASSUME NEW s \in RuleIds \ {r}, active[s] # NoCapture
      PROVE  active[s] \in CaptureIds /\ Cancelling(r)[active[s]] = cap[active[s]]
  <2>1. active[s] \in CaptureIds
    BY <1>1, <1>2
  <2>2. active[s] # active[r]
    BY <1>1, <1>2 DEF EntriesInv
  <2> QED
    BY <2>1, <2>2 DEF Cancelling
<1>3. CASE Stop(r)
  <2> SUFFICES ASSUME NEW s \in RuleIds, active'[s] # NoCapture
               PROVE  /\ cap'[active'[s]].pc # "unused" /\ cap'[active'[s]].rule = s
                      /\ ~cap'[active'[s]].cancelled
    BY DEF EntriesInv
  <2>1. s # r /\ active'[s] = active[s] /\ cap' = Cancelling(r)
    BY <1>1, <1>3 DEF Stop
  <2>2. cap'[active'[s]] = cap[active[s]]
    BY <1>2, <2>1
  <2> QED
    BY <2>1, <2>2 DEF EntriesInv
<1>4. CASE Start(r, x)
  <2>1. PICK n \in Free : /\ cap' = [Cancelling(r) EXCEPT ![n] = Started(r, x.port)]
                          /\ active' = [active EXCEPT ![r] = n]
    BY <1>4 DEF Start
  <2>2. n \in CaptureIds /\ (\A s \in RuleIds : active[s] # n)
        /\ DOMAIN Cancelling(r) = CaptureIds
    BY DEF Free, Cancelling
  <2> SUFFICES ASSUME NEW s \in RuleIds, active'[s] # NoCapture
               PROVE  /\ cap'[active'[s]].pc # "unused" /\ cap'[active'[s]].rule = s
                      /\ ~cap'[active'[s]].cancelled
    BY DEF EntriesInv
  <2>3. CASE s = r
    <3>1. active'[s] = n /\ cap'[n] = Started(r, x.port)
      BY <1>1, <2>1, <2>2, <2>3
    <3> QED
      BY <2>3, <3>1 DEF Started
  <2>4. CASE s # r
    <3>1. active'[s] = active[s]
      BY <1>1, <2>1, <2>4
    <3>2. cap'[active[s]] = cap[active[s]]
      BY <1>2, <2>1, <2>2, <2>4, <3>1
    <3> QED
      BY <3>1, <3>2 DEF EntriesInv
  <2> QED
    BY <2>3, <2>4
<1> QED
  BY <1>3, <1>4 DEF Sync

\* A goroutine's own steps leave what the manager knows of it.
LEMMA GoroutineKeeps ==
    ASSUME CaptureTypeOK, EntriesInv, CaptureStep
    PROVE  EntriesInv'
<1>1. PICK i \in CaptureIds : Bind(i) \/ CloseSocket(i)
  BY DEF CaptureStep
<1>2. /\ active' = active /\ cap \in [CaptureIds -> Goroutine]
      /\ active \in [RuleIds -> CaptureIds \cup {NoCapture}]
  BY <1>1 DEF Bind, CloseSocket, CaptureTypeOK
<1>3. \A j \in CaptureIds : /\ cap'[j].rule = cap[j].rule
                            /\ cap'[j].cancelled = cap[j].cancelled
                            /\ cap[j].pc # "unused" => cap'[j].pc # "unused"
  BY <1>1, <1>2 DEF Bind, CloseSocket, Goroutine
<1> QED
  BY <1>2, <1>3 DEF EntriesInv

\* Every step keeps the manager's entries.
LEMMA EntriesKept == Spec => []EntriesInv
<1>1. Init => EntriesInv
  <2> SUFFICES ASSUME Init PROVE EntriesInv
    OBVIOUS
  <2> DEFINE captured == {s \in InitRules : Capturable(row[s])}
  <2>1. captured \in SUBSET RuleIds
    BY RuleAdminAssumption
  <2>2. PICK start \in Starts(captured) :
            active = ActiveAfter(start) /\ cap = GoroutinesAfter(start, row)
    BY DEF Init
  <2> HIDE DEF captured
  <2>3. ASSUME NEW r \in RuleIds, active[r] # NoCapture
        PROVE  /\ cap[active[r]].pc = "starting" /\ cap[active[r]].rule = r
               /\ ~cap[active[r]].cancelled
    BY <2>1, <2>2, <2>3, StartsKept
  <2> QED
    BY <2>3 DEF EntriesInv
<1>2. TypeOK /\ EntriesInv /\ [Next]_vars => EntriesInv'
  <2>a. SUFFICES ASSUME TypeOK, EntriesInv, [Next]_vars PROVE EntriesInv'
    OBVIOUS
  <2>1. ASSUME UNCHANGED captureVars PROVE EntriesInv'
    BY <2>1, <2>a DEF captureVars, EntriesInv
  <2>2. ASSUME NEW a \in Admins, SyncCapture(a) \/ StopCapture(a) PROVE EntriesInv'
    <3>1. req[a] \in Request
      BY <2>2, <2>a DEF SyncCapture, StopCapture, TypeOK, IdleReq
    <3>2. req[a].rule \in RuleIds /\ req[a].row \in Row
      BY <3>1 DEF Request
    <3>3. Sync(req[a].rule, req[a].row) \/ Stop(req[a].rule)
      BY <2>2 DEF SyncCapture, StopCapture
    <3> QED
      BY <2>a, <3>2, <3>3, ManagerKeeps DEF TypeOK
  <2>3. ASSUME CaptureStep PROVE EntriesInv'
    BY <2>3, <2>a, GoroutineKeeps DEF TypeOK
  <2>4. ASSUME Restart PROVE EntriesInv'
    <3> DEFINE captured == {r \in exists : Capturable(row[r])}
    <3>1. captured \in SUBSET RuleIds
      BY <2>a DEF TypeOK
    <3>2. PICK start \in Starts(captured) :
              active' = ActiveAfter(start) /\ cap' = GoroutinesAfter(start, row)
      BY <2>4 DEF Restart
    <3> HIDE DEF captured
    <3>3. ASSUME NEW r \in RuleIds, active'[r] # NoCapture
          PROVE  /\ cap'[active'[r]].pc = "starting" /\ cap'[active'[r]].rule = r
                 /\ ~cap'[active'[r]].cancelled
      BY <3>1, <3>2, <3>3, StartsKept
    <3> QED
      BY <3>3 DEF EntriesInv
  <2>5. ASSUME NEW a \in Admins, Receive(a) \/ TableStep(a) PROVE UNCHANGED captureVars
    BY <2>5, TableStepFrame
  <2>6. ASSUME NEW p \in Ports, Observe(p) PROVE UNCHANGED captureVars
    BY <2>6 DEF Observe
  <2> QED
    BY <2>a, <2>1, <2>2, <2>3, <2>4, <2>5, <2>6 DEF Next, Resume, TableStep, vars
<1> QED
  BY TypeCorrect, <1>1, <1>2, PTL DEF Spec

(* What is left of CapturedRulesListen: with no request under way and      *)
(* every goroutine settled, a rule to be captured whose port nobody        *)
(* listens on has a capture, started on that port, that has ended (its     *)
(* socket could not be bound), unless the manager was last given the rule  *)
(* as another request had left it, or could not be given it.               *)
ListensOrEnded ==
    Quiet /\ (\A i \in CaptureIds : Settled(i)) =>
        \A r \in exists \ unsure : Capturable(row[r]) =>
            \/ Bound(row[r].port)
            \/ /\ active[r] # NoCapture /\ cap[active[r]].pc = "ended"
               /\ cap[active[r]].rule = r /\ cap[active[r]].port = row[r].port

(* A rule is without a socket only because a bind failed: Sync starts what *)
(* the table asks for, and forgets nothing.                                *)
THEOREM OnlyABindLosesARule == Spec => []ListensOrEnded
<1>1. TypeOK /\ EntriesInv /\ CapturesFollowTable => ListensOrEnded
  <2> SUFFICES ASSUME TypeOK, EntriesInv, CapturesFollowTable, Quiet,
                      \A i \in CaptureIds : Settled(i),
                      NEW r \in exists \ unsure, Capturable(row[r]), ~Bound(row[r].port)
               PROVE  /\ active[r] # NoCapture /\ cap[active[r]].pc = "ended"
                      /\ cap[active[r]].rule = r /\ cap[active[r]].port = row[r].port
    BY DEF ListensOrEnded
  <2>1. /\ r \in RuleIds /\ cap \in [CaptureIds -> Goroutine]
        /\ active[r] \in CaptureIds \cup {NoCapture}
    BY DEF TypeOK, CaptureTypeOK
  <2>2. active[r] # NoCapture /\ cap[active[r]].port = row[r].port
    BY <2>1 DEF CapturesFollowTable
  <2>3. cap[active[r]].pc # "unused" /\ cap[active[r]].rule = r
    BY <2>1, <2>2 DEF EntriesInv
  <2>4. cap[active[r]].pc # "starting" /\ cap[active[r]].pc # "listening"
    BY <2>1, <2>2 DEF Settled, Bound
  <2>5. cap[active[r]].pc \in {"unused", "starting", "listening", "ended"}
    BY <2>1, <2>2 DEF Goroutine
  <2> QED
    BY <2>2, <2>3, <2>4, <2>5
<1> QED
  BY TypeCorrect, EntriesKept, CapturesFollow, <1>1, PTL

(* A capture that is wanted loses its bind only while a socket that is on  *)
(* its way out, or that of another rule with the same port, is open: two   *)
(* captures of one rule never compete unless the older was cancelled       *)
(* (Sync, broadcast.go:38-62).                                             *)
LosesOnlyToHolder ==
    \A i \in CaptureIds :
        cap[i].pc = "starting" /\ ~cap[i].cancelled /\ cap'[i].pc = "ended" =>
            \E j \in CaptureIds \ {i} :
                /\ cap[j].pc = "listening" /\ cap[j].port = cap[i].port
                /\ cap[j].cancelled \/ cap[j].rule # cap[i].rule

\* No step of a request or of a restart ends a capture that has not bound its socket.
LEMMA OnlyBindEnds ==
    ASSUME TypeOK, [Next]_vars, NEW i \in CaptureIds,
           cap[i].pc = "starting", cap'[i].pc = "ended"
    PROVE  Bind(i)
<1>0. cap \in [CaptureIds -> Goroutine]
  BY DEF TypeOK, CaptureTypeOK
<1>1. ASSUME UNCHANGED captureVars PROVE FALSE
  BY <1>1 DEF captureVars
<1>2. ASSUME NEW a \in Admins, SyncCapture(a) \/ StopCapture(a) PROVE FALSE
  <2>1. PICK r, x : Sync(r, x) \/ Stop(r)
    BY <1>2 DEF SyncCapture, StopCapture
  <2>2. Cancelling(r)[i].pc = "starting"
    BY <1>0 DEF Cancelling, Goroutine
  <2>3. DOMAIN Cancelling(r) = CaptureIds
    BY DEF Cancelling
  <2>4. CASE cap' = Cancelling(r)
    BY <2>2, <2>4
  <2>5. ASSUME NEW n, cap' = [Cancelling(r) EXCEPT ![n] = Started(r, x.port)] PROVE FALSE
    BY <2>2, <2>3, <2>5 DEF Started
  <2> QED
    BY <2>1, <2>4, <2>5 DEF Sync, Stop, Start
<1>3. ASSUME NEW j \in CaptureIds, Bind(j) \/ CloseSocket(j) PROVE Bind(i)
  BY <1>0, <1>3 DEF Bind, CloseSocket
<1>4. ASSUME Restart PROVE FALSE
  <2>1. PICK start : cap' = GoroutinesAfter(start, row)
    BY <1>4 DEF Restart
  <2> QED
    BY <2>1 DEF GoroutinesAfter, Started, Unused
<1>5. ASSUME NEW a \in Admins, Receive(a) \/ TableStep(a) PROVE UNCHANGED captureVars
  BY <1>5, TableStepFrame
<1>6. ASSUME NEW p \in Ports, Observe(p) PROVE UNCHANGED captureVars
  BY <1>6 DEF Observe
<1> QED
  BY <1>1, <1>2, <1>3, <1>4, <1>5, <1>6 DEF Next, Resume, TableStep, CaptureStep, vars

\* What the bind of a capture that fails can have run into.
THEOREM BindsLoseToHolders == Spec => [][LosesOnlyToHolder]_vars
<1>1. TypeOK /\ EveryCaptureIsHeld /\ [Next]_vars => LosesOnlyToHolder
  <2> SUFFICES ASSUME TypeOK, EveryCaptureIsHeld, [Next]_vars, NEW i \in CaptureIds,
                      cap[i].pc = "starting", ~cap[i].cancelled, cap'[i].pc = "ended"
               PROVE  \E j \in CaptureIds \ {i} :
                          /\ cap[j].pc = "listening" /\ cap[j].port = cap[i].port
                          /\ cap[j].cancelled \/ cap[j].rule # cap[i].rule
    BY DEF LosesOnlyToHolder
  <2>1. Bound(cap[i].port)
    <3>1. Bind(i) /\ cap \in [CaptureIds -> Goroutine]
      BY OnlyBindEnds DEF TypeOK, CaptureTypeOK
    <3> QED
      BY <3>1 DEF Bind
  <2>2. PICK j \in CaptureIds : cap[j].pc = "listening" /\ cap[j].port = cap[i].port
    BY <2>1 DEF Bound
  <2>3. active[cap[i].rule] = i
    BY DEF EveryCaptureIsHeld, Alive
  <2>4. ~cap[j].cancelled => active[cap[j].rule] = j
    BY <2>2 DEF EveryCaptureIsHeld, Alive
  <2> QED
    BY <2>2, <2>3, <2>4
<1> QED
  BY TypeCorrect, CapturesHeld, <1>1, PTL DEF Spec
=============================================================================
