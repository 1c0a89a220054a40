------------------------------- MODULE Capture -------------------------------
(***************************************************************************)
(* The capture goroutines of the server and their manager                  *)
(* (internal/server/broadcast.go).  BroadcastManager keeps, under a mutex, *)
(* the cancel function of the last capture it started for each rule.       *)
(* Cancelling is asynchronous: the goroutine may not have bound its socket *)
(* yet, and a bound socket stays open until the goroutine that waits for   *)
(* the context closes it.  A socket that cannot be bound ends the          *)
(* goroutine with a log line, and the manager is not told.                 *)
(***************************************************************************)
EXTENDS Naturals, FiniteSets

CONSTANTS
    RuleIds,      \* ids of forwarding rules
    Ports,        \* UDP ports
    CaptureIds,   \* bound: capture goroutines alive or known to the manager
    NoCapture     \* the manager has no entry for the rule

ASSUME CaptureAssumption ==
    /\ RuleIds # {} /\ Ports # {}
    /\ NoCapture \notin CaptureIds

VARIABLES
    active,   \* m.active: the capture whose cancel function is kept for a rule
    cap       \* the capture goroutines

captureVars == <<active, cap>>

\* Sync tells "bidirectional" from "server_to_client" nowhere; an update may store "",
\* which it captures too.
Directions == {"server_to_client", "client_to_server", ""}

Row == [port : Ports, direction : Directions, enabled : BOOLEAN]

Goroutine == [pc : {"unused", "starting", "listening", "ended"},
              rule : RuleIds, port : Ports, cancelled : BOOLEAN]

Capturable(row) == row.enabled /\ row.direction # "client_to_server"

Alive(i) == cap[i].pc \in {"starting", "listening"}

\* A goroutine that has returned is forgotten once the manager holds no entry for it.
Free == {i \in CaptureIds : ~Alive(i) /\ \A r \in RuleIds : active[r] # i}

Started(r, p) == [pc |-> "starting", rule |-> r, port |-> p, cancelled |-> FALSE]

CaptureTypeOK ==
    /\ active \in [RuleIds -> CaptureIds \cup {NoCapture}]
    /\ cap \in [CaptureIds -> Goroutine]

\* What a server starts with: a capture for each rule of captured (Run).
Starts(captured) ==
    {start \in [captured -> CaptureIds] :
        \A r, s \in captured : start[r] = start[s] => r = s}

ActiveAfter(start) ==
    [r \in RuleIds |-> IF r \in DOMAIN start THEN start[r] ELSE NoCapture]

Unused == [pc |-> "unused", rule |-> CHOOSE r \in RuleIds : TRUE,
           port |-> CHOOSE p \in Ports : TRUE, cancelled |-> FALSE]

GoroutinesAfter(start, row) ==
    [i \in CaptureIds |->
        IF \E r \in DOMAIN start : start[r] = i
          THEN LET r == CHOOSE s \in DOMAIN start : start[s] = i
               IN  Started(r, row[r].port)
          ELSE Unused]

-----------------------------------------------------------------------------
(***************************************************************************)
(* BroadcastManager.  The mutex makes each method one step.                *)
(***************************************************************************)
\* Mutant: the running capture is forgotten, not cancelled.
NotCancelling(r) == cap

\* The goroutines once the current capture of r, if any, is cancelled.
Cancelling(r) ==
    [i \in CaptureIds |-> IF i = active[r] THEN [cap[i] EXCEPT !.cancelled = TRUE] ELSE cap[i]]

Stop(r) ==
    /\ cap' = Cancelling(r)
    /\ active' = [active EXCEPT ![r] = NoCapture]

Start(r, row) ==
    \E i \in Free :
        /\ cap' = [Cancelling(r) EXCEPT ![i] = Started(r, row.port)]
        /\ active' = [active EXCEPT ![r] = i]

\* Sync reads the rule it is given, not the table.
Sync(r, row) ==
    \/ ~Capturable(row) /\ Stop(r)
    \/ Capturable(row) /\ Start(r, row)

-----------------------------------------------------------------------------
(***************************************************************************)
(* BroadcastCapture.Listen.  It does not look at its context before        *)
(* binding.                                                                *)
(***************************************************************************)
Bound(p) == \E i \in CaptureIds : cap[i].pc = "listening" /\ cap[i].port = p

Bind(i) ==
    /\ cap[i].pc = "starting"
    /\ cap' = [cap EXCEPT ![i].pc = IF Bound(cap[i].port) THEN "ended" ELSE "listening"]
    /\ UNCHANGED active

\* <-ctx.Done(): pc.Close(), and the read that fails returns.
CloseSocket(i) ==
    /\ cap[i].pc = "listening" /\ cap[i].cancelled
    /\ cap' = [cap EXCEPT ![i].pc = "ended"]
    /\ UNCHANGED active

CaptureStep == \E i \in CaptureIds : Bind(i) \/ CloseSocket(i)
=============================================================================
