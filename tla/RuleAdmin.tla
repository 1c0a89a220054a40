------------------------------ MODULE RuleAdmin ------------------------------
(***************************************************************************)
(* The web handlers that create, update, toggle and delete forwarding      *)
(* rules (internal/server/webui.go), the table they change                 *)
(* (internal/database/rules.go), the captures they start and stop          *)
(* (Capture) and the has_rule column of the observed broadcasts            *)
(* (internal/database/packets.go).                                         *)
(*                                                                         *)
(* A handler is a goroutine; every database call and every call of the     *)
(* manager is one step (the pool has a single connection), and other       *)
(* requests run in between.  Any call may fail; a handler whose first      *)
(* statement fails answers 500 and has changed nothing, which is no step.  *)
(***************************************************************************)
EXTENDS Capture, Sequences, Functions

CONSTANTS
    Admins,        \* concurrent requests
    InitRules,     \* rules the database starts with, enabled
    MaxRequests,   \* bound: requests made
    MaxRestarts    \* bound: crashes of the server

ASSUME RuleAdminAssumption ==
    /\ InitRules \subseteq RuleIds
    /\ MaxRequests \in Nat
    /\ MaxRestarts \in Nat

VARIABLES
    row,        \* forward_rules, by id
    exists,     \* ids of the rows that are there
    made,       \* ids handed out (AUTOINCREMENT: never twice)
    obs,        \* has_rule of the observations of each destination port
    req,        \* a request: where it is and what it carries
    requests, restarts,
    \* History.
    excused,    \* ports whose has_rule no handler has refreshed since an update or a
                \* delete of a moved rule, a new observation, a crash, a late count or
                \* a failed call
    unsure      \* rules the manager was last given as another request had left them, or
                \* was not given because their row could not be read back

tableVars   == <<row, exists, made>>
historyVars == <<excused, unsure>>
vars        == <<captureVars, tableVars, obs, req, requests, restarts, historyVars>>

Request == [pc : {"get", "sync", "delete", "stop", "count", "mark"}, rule : RuleIds,
            row : Row, ports : Seq(Ports), covered : BOOLEAN]
IdleReq == [pc |-> "idle"]

NoRow == CHOOSE x \in Row : ~x.enabled

Covered(p) == \E r \in exists : row[r].enabled /\ row[r].port = p

Init ==
    /\ exists = InitRules /\ made = InitRules
    /\ \E x \in [InitRules -> {y \in Row : y.enabled}] :
          row = [r \in RuleIds |-> IF r \in InitRules THEN x[r] ELSE NoRow]
    /\ \E start \in Starts({r \in InitRules : Capturable(row[r])}) :
          active = ActiveAfter(start) /\ cap = GoroutinesAfter(start, row)
    /\ obs = [p \in Ports |-> {}]
    /\ req = [a \in Admins |-> IdleReq]
    /\ requests = 0 /\ restarts = 0
    /\ excused = {} /\ unsure = {}

-----------------------------------------------------------------------------
(***************************************************************************)
(* Where a handler goes next.                                              *)
(***************************************************************************)
NewRequest(a) ==
    /\ req[a] = IdleReq /\ requests < MaxRequests
    /\ requests' = requests + 1

\* The rest of a handler once captures are settled: refresh the ports in turn.
Refreshing(q, ports) ==
    IF ports = <<>> THEN IdleReq ELSE [q EXCEPT !.pc = "count", !.ports = ports]

\* The port of a rule, unless the request is going to refresh it.
Unlisted(r, ports) == {row[s].port : s \in {r} \cap exists} \ Range(ports)

Begin(a, pc, r, x, ports) ==
    req' = [req EXCEPT ![a] =
               [pc |-> pc, rule |-> r, row |-> x, ports |-> ports, covered |-> FALSE]]

Continue(a, q) == req' = [req EXCEPT ![a] = q]

\* An update stores the direction it is sent; only a creation has a default.
DefaultDirection(d) == IF d = "" THEN "server_to_client" ELSE d

HandleCreateRule(a, r, p, d) ==
    /\ NewRequest(a)
    /\ r \notin made
    /\ LET x == [port |-> p, direction |-> DefaultDirection(d), enabled |-> TRUE]
       IN  /\ row' = [row EXCEPT ![r] = x]
           /\ Begin(a, "sync", r, x, <<p>>)
    /\ exists' = exists \cup {r}
    /\ made' = made \cup {r}
    /\ UNCHANGED <<captureVars, obs, restarts, historyVars>>

\* The port the rule had is not remembered.
HandleUpdateRule(a, r, p, d) ==
    /\ NewRequest(a)
    /\ r \in made
    /\ row' = IF r \in exists THEN [row EXCEPT ![r].port = p, ![r].direction = d] ELSE row
    /\ Begin(a, "get", r, row[r], <<p>>)
    /\ excused' = excused \cup Unlisted(r, <<p>>)
    /\ UNCHANGED <<captureVars, exists, made, obs, restarts, unsure>>

HandleToggleRule(a, r) ==
    /\ NewRequest(a)
    /\ r \in made
    /\ row' = IF r \in exists THEN [row EXCEPT ![r].enabled = ~@] ELSE row
    /\ Begin(a, "get", r, row[r], <<>>)
    /\ UNCHANGED <<captureVars, exists, made, obs, restarts, historyVars>>

\* The port is fetched before the row is deleted; that it could not be is ignored.
HandleDeleteRule(a, r) ==
    /\ NewRequest(a)
    /\ r \in made
    /\ \E ports \in {<<>>} \cup {<<row[s].port>> : s \in {r} \cap exists} :
          Begin(a, "delete", r, row[r], ports)
    /\ UNCHANGED <<captureVars, tableVars, obs, restarts, historyVars>>

\* Mutant: the manager is not told.
GetRuleOnly(a) ==
    /\ req[a].pc = "get"
    /\ Continue(a, Refreshing(req[a], req[a].ports))
    /\ UNCHANGED <<captureVars, tableVars, obs, requests, restarts, historyVars>>

\* Mutant: the rule's port is not refreshed.
GetRuleUnrefreshed(a) ==
    /\ req[a].pc = "get"
    /\ LET q == req[a]
       IN  Continue(a, IF q.rule \in exists
                         THEN [q EXCEPT !.pc = "sync", !.row = row[q.rule]]
                         ELSE Refreshing(q, q.ports))
    /\ UNCHANGED <<captureVars, tableVars, obs, requests, restarts, historyVars>>

GetRule(a) ==
    /\ req[a].pc = "get"
    /\ LET q == req[a]
           x == row[q.rule]
       IN  Continue(a, IF q.rule \in exists
                         THEN [q EXCEPT !.pc = "sync", !.row = x, !.ports = <<x.port>> \o @]
                         ELSE Refreshing(q, q.ports))
    /\ UNCHANGED <<captureVars, tableVars, obs, requests, restarts, historyVars>>

\* The row cannot be read back: the manager is not told, and the request succeeds.
GetRuleFails(a) ==
    /\ req[a].pc = "get"
    /\ LET q == req[a]
       IN  /\ unsure' = unsure \cup ({q.rule} \cap exists)
           /\ excused' = excused \cup Unlisted(q.rule, q.ports)
           /\ Continue(a, Refreshing(q, q.ports))
    /\ UNCHANGED <<captureVars, tableVars, obs, requests, restarts>>

SyncCapture(a) ==
    /\ req[a].pc = "sync"
    /\ Sync(req[a].rule, req[a].row)
    /\ Continue(a, Refreshing(req[a], req[a].ports))
    /\ unsure' = IF req[a].rule \in exists /\ req[a].row = row[req[a].rule]
                    THEN unsure \ {req[a].rule} ELSE unsure \cup {req[a].rule}
    /\ UNCHANGED <<tableVars, obs, requests, restarts, excused>>

\* The port refreshed afterwards is the one fetched before.
DeleteRow(a) ==
    /\ req[a].pc = "delete"
    /\ LET q == req[a]
       IN  /\ exists' = exists \ {q.rule}
           /\ excused' = excused \cup Unlisted(q.rule, q.ports)
           /\ Continue(a, [q EXCEPT !.pc = "stop"])
    /\ UNCHANGED <<captureVars, row, made, obs, requests, restarts, unsure>>

\* The row stays and the request ends with an error.
DeleteRowFails(a) ==
    /\ req[a].pc = "delete"
    /\ Continue(a, IdleReq)
    /\ UNCHANGED <<captureVars, tableVars, obs, requests, restarts, historyVars>>

StopCapture(a) ==
    /\ req[a].pc = "stop"
    /\ Stop(req[a].rule)
    /\ Continue(a, Refreshing(req[a], req[a].ports))
    /\ unsure' = unsure \ {req[a].rule}
    /\ UNCHANGED <<tableVars, obs, requests, restarts, excused>>

\* syncObservationHasRule: count, then write what was counted.
CountEnabled(a) ==
    /\ req[a].pc = "count"
    /\ Continue(a, [req[a] EXCEPT !.pc = "mark", !.covered = Covered(Head(req[a].ports))])
    /\ UNCHANGED <<captureVars, tableVars, obs, requests, restarts, historyVars>>

MarkObservations(a) ==
    /\ req[a].pc = "mark"
    /\ LET q == req[a]
           p == Head(q.ports)
       IN  /\ obs' = [obs EXCEPT ![p] = IF @ = {} THEN {} ELSE {q.covered}]
           /\ excused' = IF q.covered = Covered(p) THEN excused \ {p} ELSE excused \cup {p}
           /\ Continue(a, Refreshing(q, Tail(q.ports)))
    /\ UNCHANGED <<captureVars, tableVars, requests, restarts, unsure>>

\* The count or the update fails, and nobody is told.
RefreshFails(a) ==
    /\ req[a].pc \in {"count", "mark"}
    /\ excused' = excused \cup {Head(req[a].ports)}
    /\ Continue(a, Refreshing(req[a], Tail(req[a].ports)))
    /\ UNCHANGED <<captureVars, tableVars, obs, requests, restarts, unsure>>

-----------------------------------------------------------------------------
\* Monitor.processPacket: a stream seen for the first time gets a row with
\* has_rule 0; one seen before keeps its own.
Observe(p) ==
    /\ obs' = [obs EXCEPT ![p] = @ \cup {FALSE}]
    /\ excused' = IF Covered(p) THEN excused \cup {p} ELSE excused
    /\ UNCHANGED <<captureVars, tableVars, req, requests, restarts, unsure>>

\* The process dies with its goroutines and sockets and is started again: Run
\* starts a capture for each enabled rule.  The requests that were cut off had
\* these ports still to refresh.
CutOff(a) ==
    IF req[a] = IdleReq THEN {}
      ELSE {row[req[a].rule].port} \cup Range(req[a].ports)

Restart ==
    /\ restarts < MaxRestarts
    /\ restarts' = restarts + 1
    /\ \E start \in Starts({r \in exists : Capturable(row[r])}) :
          active' = ActiveAfter(start) /\ cap' = GoroutinesAfter(start, row)
    /\ req' = [a \in Admins |-> IdleReq]
    /\ excused' = excused \cup UNION {CutOff(a) : a \in Admins}
    /\ unsure' = {}
    /\ UNCHANGED <<tableVars, obs, requests>>

-----------------------------------------------------------------------------
Resume(a) ==
    \/ GetRule(a) \/ GetRuleFails(a) \/ SyncCapture(a)
    \/ DeleteRow(a) \/ DeleteRowFails(a) \/ StopCapture(a)
    \/ CountEnabled(a) \/ MarkObservations(a) \/ RefreshFails(a)

Receive(a) ==
    \/ \E r \in RuleIds, p \in Ports, d \in Directions :
          HandleCreateRule(a, r, p, d) \/ HandleUpdateRule(a, r, p, d)
    \/ \E r \in RuleIds : HandleToggleRule(a, r) \/ HandleDeleteRule(a, r)

Next ==
    \/ \E a \in Admins : Receive(a) \/ Resume(a)
    \/ CaptureStep /\ UNCHANGED <<tableVars, obs, req, requests, restarts, historyVars>>
    \/ \E p \in Ports : Observe(p)
    \/ Restart

Spec == Init /\ [][Next]_vars

-----------------------------------------------------------------------------
(* Rows, captures and requests hold values of their types: no rule exists  *)
(* that was not made, and a request that refreshes observations has a port *)
(* to refresh.                                                             *)
TypeOK ==
    /\ CaptureTypeOK
    /\ row \in [RuleIds -> Row]
    /\ made \subseteq RuleIds /\ exists \subseteq made
    /\ obs \in [Ports -> SUBSET BOOLEAN]
    /\ req \in [Admins -> Request \cup {IdleReq}]
    /\ \A a \in Admins : req[a].pc \in {"count", "mark"} => req[a].ports # <<>>
    /\ requests \in 0 .. MaxRequests /\ restarts \in 0 .. MaxRestarts
    /\ excused \subseteq Ports /\ unsure \subseteq RuleIds

\* No handler is at work.
Quiet == \A a \in Admins : req[a] = IdleReq

(* The manager can stop whatever is running: a capture that is alive and   *)
(* not cancelled is the one whose cancel function it keeps for the rule,   *)
(* however requests overlap (BroadcastManager, "safe for concurrent use"). *)
(* With CapturesFollowTable: the captures of a deleted rule are on their   *)
(* way out once no request is at work.                                     *)
EveryCaptureIsHeld ==
    \A i \in CaptureIds : Alive(i) /\ ~cap[i].cancelled => active[cap[i].rule] = i

(* With no request under way the manager's map is the table's: one capture *)
(* on the rule's port for every enabled rule that captures, none for a     *)
(* rule disabled, deleted or client_to_server, after a crash too.  Only    *)
(* Sync with a row another request has changed since it was read, and a    *)
(* row that could not be read back, leave them apart, until the rule is    *)
(* synced again.                                                           *)
CapturesFollowTable ==
    Quiet =>
        \A r \in RuleIds \ unsure :
            IF r \in exists /\ Capturable(row[r])
              THEN active[r] # NoCapture /\ cap[active[r]].port = row[r].port
              ELSE active[r] = NoCapture

(* With no request under way, the observations of a port are marked by     *)
(* whether an enabled rule listens there, except on a port some cause in   *)
(* excused has left unrefreshed.                                           *)
HasRuleFollowsTable ==
    Quiet => \A p \in Ports \ excused : obs[p] \subseteq {Covered(p)}

-----------------------------------------------------------------------------
(* What the comments say and the code does not keep.                       *)

(* broadcast.go:35-37 "starts a new one": with no request under way and    *)
(* every goroutine settled, a rule that is to be captured has an open      *)
(* socket, unless another rule has its port or the manager was not given   *)
(* its row.                                                                *)
Settled(i) == cap[i].pc # "starting" /\ (cap[i].pc = "listening" => ~cap[i].cancelled)

CapturedRulesListen ==
    Quiet /\ (\A i \in CaptureIds : Settled(i)) =>
        \A r \in exists \ unsure : Capturable(row[r]) => Bound(row[r].port)
=============================================================================
