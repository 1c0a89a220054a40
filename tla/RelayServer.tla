---------------------------- MODULE RelayServer ----------------------------
(***************************************************************************)
(* The relay server around the hub: the handler of each TCP connection     *)
(* with its read and write pumps (internal/server/relay.go), the capture   *)
(* goroutines as sources of packets (broadcast.go), and the web handlers   *)
(* that change rules and keys and talk to the hub (webui.go).              *)
(*                                                                         *)
(* A connection is handled by three goroutines: the handler (hpc), the     *)
(* read pump (rpc) and the write pump (wpc).  A web request is handled by  *)
(* a goroutine of its own (admin).  Each step below is the code between    *)
(* two points where another goroutine can run: a channel operation, a      *)
(* database call or a socket call.                                         *)
(***************************************************************************)
EXTENDS Hub, FiniteSets

CONSTANTS
    InitRules,    \* the direction of each rule the database starts with
    InitKeys,     \* the API keys the database starts with
    Ops,          \* the kinds of web requests made
    MaxPackets,   \* bound: packets published
    MaxOps        \* bound: web requests made

AllOps == {"assign", "unassign", "toggle", "update", "delete", "create", "revoke", "send",
           "list", "shutdown"}

ASSUME ServerAssumption ==
    /\ InitRules \in [RuleIds -> Directions]
    /\ InitKeys \subseteq Keys
    /\ Ops \subseteq AllOps
    /\ MaxPackets \in Nat
    /\ MaxOps \in Nat

VARIABLES
    hpc, rpc, wpc,   \* where the three goroutines of a connection are
    pend,            \* the rule of the packet the read pump is publishing
    peer,            \* "up" or "gone": the other end of the connection
    assigned,        \* table client_rules
    enabled,         \* rules with is_enabled = 1
    direction,       \* table forward_rules: NoRule once the row is deleted
    keyState,        \* table api_keys
    admin,           \* a web request: where it is and what it carries
    opsMade,         \* number of web requests made
    \* History.
    published,       \* every message ever put on the broadcast channel
    got,             \* ids of the packets written to the connection's peer
    view,            \* the rules last written to the connection's peer
    granted,         \* every <<key, rule>> that was ever effective
    touched,         \* rules toggled, updated or deleted
    unsure           \* keys whose latest change of rules met another under way, or
                     \* whose rules could not be read back after it

connVars  == <<hpc, rpc, wpc, pend, peer, got, view>>
dbVars    == <<assigned, enabled, direction, keyState, granted, touched>>
adminVars == <<admin, opsMade, unsure>>
vars      == <<hubVars, connVars, dbVars, adminVars, published>>

IdleAdmin == [pc |-> "idle"]

(***************************************************************************)
(* Database reads.                                                         *)
(***************************************************************************)
\* What is in force for a key: its assigned and enabled rules.
InForce(k, r) == <<k, r>> \in assigned /\ r \in enabled /\ direction[r] # NoRule

\* Mutant: the join with client_rules is lost.
EnabledRules(k) ==
    [r \in RuleIds |-> IF r \in enabled THEN direction[r] ELSE NoRule]

GetRulesForClient(k) ==
    [r \in RuleIds |-> IF InForce(k, r) THEN direction[r] ELSE NoRule]

ValidateAPIKey(k) == keyState[k] = "valid"

Init ==
    /\ HubInit
    /\ hpc = [c \in Conns |-> "none"]
    /\ rpc = [c \in Conns |-> "off"]
    /\ wpc = [c \in Conns |-> "off"]
    /\ pend = [c \in Conns |-> NoRule]
    /\ peer = [c \in Conns |-> "up"]
    /\ assigned \in SUBSET (InitKeys \X RuleIds)
    /\ enabled = RuleIds
    /\ direction = InitRules
    /\ keyState = [k \in Keys |-> IF k \in InitKeys THEN "valid" ELSE "none"]
    /\ admin = [a \in Admins |-> IdleAdmin]
    /\ opsMade = 0
    /\ published = <<>>
    /\ got = [c \in Conns |-> <<>>]
    /\ view = [c \in Conns |-> [r \in RuleIds |-> NoRule]]
    /\ granted = {kr \in Keys \X RuleIds : InForce(kr[1], kr[2])}
    /\ touched = {}
    /\ unsure = {}

-----------------------------------------------------------------------------
(***************************************************************************)
(* handleConnection.                                                       *)
(***************************************************************************)
GoTo(c, label) == hpc' = [hpc EXCEPT ![c] = label]

\* A key is accepted (MsgAuth), or a new one is made for a user who gave his
\* password (MsgAuthCredentials).
Authenticated(c, k) ==
    /\ hpc[c] = "none" /\ ctxUp
    /\ connKey' = [connKey EXCEPT ![c] = k]
    /\ GoTo(c, "get rules")
    /\ UNCHANGED <<queueVars, clients, rules, sendCh, closed, hubUp, ctxUp, panicked,
                   reply, historyVars, rpc, wpc, pend, peer, got, view, assigned,
                   enabled, direction, granted, touched, adminVars, published>>

AuthKey(c, k) ==
    /\ ValidateAPIKey(k)
    /\ Authenticated(c, k)
    /\ UNCHANGED keyState

AuthCredentials(c, k) ==
    /\ keyState[k] = "none"
    /\ keyState' = [keyState EXCEPT ![k] = "valid"]
    /\ Authenticated(c, k)

\* No frame in 30 s, an unexpected one, credentials that are refused, or a failing read
\* of the rules (a key that was made for it stays).
AuthFail(c) ==
    /\ \/ hpc[c] = "none" /\ ctxUp
       \/ hpc[c] = "get rules"
    /\ GoTo(c, "done")
    /\ UNCHANGED <<hubVars, rpc, wpc, pend, peer, got, view, dbVars, adminVars,
                   published>>

ReadRules(c) ==
    /\ hpc[c] = "get rules"
    /\ rules' = [rules EXCEPT ![c] = GetRulesForClient(connKey[c])]
    /\ missed' = [missed EXCEPT ![c] = FALSE]
    /\ GoTo(c, "auth ok")
    /\ UNCHANGED <<queueVars, clients, connKey, sendCh, closed, hubUp, ctxUp, panicked,
                   reply, dropped, overtaken, rpc, wpc, pend, peer, got, view, dbVars,
                   adminVars, published>>

\* A write to a peer that is gone may still be accepted by the kernel.
SendAuthOK(c) ==
    /\ hpc[c] = "auth ok"
    /\ view' = [view EXCEPT ![c] = IF peer[c] = "up" THEN rules[c] ELSE @]
    /\ GoTo(c, "register")
    /\ UNCHANGED <<hubVars, rpc, wpc, pend, peer, got, dbVars, adminVars, published>>

AuthOKFails(c) ==
    /\ hpc[c] = "auth ok"
    /\ GoTo(c, "done")
    /\ UNCHANGED <<hubVars, rpc, wpc, pend, peer, got, view, dbVars, adminVars,
                   published>>

\* Registering and starting both pumps.
StartPumps(c) ==
    /\ hpc[c] = "register"
    /\ Register(c)
    /\ GoTo(c, "wait")
    /\ rpc' = [rpc EXCEPT ![c] = "read"]
    /\ wpc' = [wpc EXCEPT ![c] = "run"]
    /\ QueuesOnly
    /\ UNCHANGED <<pend, peer, got, view, dbVars, adminVars, published>>

\* wg.Wait returned: the deferred calls unregister and close the connection.
PumpsEnded(c) == rpc[c] = "end" /\ wpc[c] = "end"

\* Mutant: the connection is closed without being unregistered.
FinishSilently(c) ==
    /\ hpc[c] = "wait" /\ PumpsEnded(c)
    /\ GoTo(c, "done")
    /\ UNCHANGED <<hubVars, rpc, wpc, pend, peer, got, view, dbVars, adminVars, published>>

Finish(c) ==
    /\ hpc[c] = "wait" /\ PumpsEnded(c)
    /\ Unregister(c)
    /\ GoTo(c, "done")
    /\ QueuesOnly
    /\ UNCHANGED <<rpc, wpc, pend, peer, got, view, dbVars, adminVars, published>>

-----------------------------------------------------------------------------
(***************************************************************************)
(* readPump.  Pings, pongs and MsgClientInfo only refresh what the         *)
(* dashboard shows; a relay packet that is refused changes nothing.  The   *)
(* pump looks at its context only after a read error, so nothing but the   *)
(* loss of the peer ends it.                                               *)
(***************************************************************************)
MayForward(c, r) == rules[c][r] \notin {NoRule, "server_to_client"}

Publishing == {c \in Conns : rpc[c] = "publish"}

PacketsLeft == Len(published) + Cardinality(Publishing) < MaxPackets

Publish(r, k) ==
    /\ Broadcast([id |-> Len(published) + 1, rule |-> r, sender |-> k])
    /\ published' = Append(published, [rule |-> r, sender |-> k])

ReceiveRelayPacket(c, r) ==
    /\ rpc[c] = "read" /\ peer[c] = "up" /\ PacketsLeft
    /\ MayForward(c, r)
    /\ pend' = [pend EXCEPT ![c] = r]
    /\ rpc' = [rpc EXCEPT ![c] = "publish"]
    /\ UNCHANGED <<hubVars, hpc, wpc, peer, got, view, dbVars, adminVars, published>>

PublishRelayPacket(c) ==
    /\ rpc[c] = "publish"
    /\ Publish(pend[c], connKey[c])
    /\ pend' = [pend EXCEPT ![c] = NoRule]
    /\ rpc' = [rpc EXCEPT ![c] = "read"]
    /\ QueuesOnly
    /\ UNCHANGED <<hpc, wpc, peer, got, view, dbVars, adminVars>>

ReadFails(c) ==
    /\ rpc[c] = "read" /\ peer[c] = "gone"
    /\ rpc' = [rpc EXCEPT ![c] = "end"]
    /\ UNCHANGED <<hubVars, hpc, wpc, pend, peer, got, view, dbVars, adminVars,
                   published>>

-----------------------------------------------------------------------------
(***************************************************************************)
(* writePump.  A write may fail because the peer is gone or because it     *)
(* took more than 10 s, whether it is a queued message or a ping.          *)
(***************************************************************************)
\* Mutant: the end of the read pump does not cancel the connection's context.
CancelledByServer(c) == ~ctxUp \/ wpc[c] = "end"

Cancelled(c) == ~ctxUp \/ rpc[c] = "end" \/ wpc[c] = "end"

Dequeue(c) == sendCh' = [sendCh EXCEPT ![c] = Tail(@)]

WriteMessage(c) ==
    /\ wpc[c] = "run" /\ sendCh[c] # <<>>
    /\ Dequeue(c)
    /\ LET msg == Head(sendCh[c]) IN
       /\ got' = [got EXCEPT ![c] = IF peer[c] = "up" /\ msg.type = "RelayPacket"
                                      THEN Append(@, msg.id) ELSE @]
       /\ view' = [view EXCEPT ![c] = IF peer[c] = "up" /\ msg.type = "RuleUpdate"
                                        THEN msg.rules ELSE @]
    /\ UNCHANGED <<queueVars, clients, connKey, rules, closed, hubUp, ctxUp, panicked,
                   reply, historyVars, hpc, rpc, wpc, pend, peer, dbVars, adminVars,
                   published>>

WriteFails(c) ==
    /\ wpc[c] = "run"
    /\ wpc' = [wpc EXCEPT ![c] = "end"]
    /\ \/ sendCh[c] # <<>> /\ Dequeue(c)
       \/ UNCHANGED sendCh
    /\ UNCHANGED <<queueVars, clients, connKey, rules, closed, hubUp, ctxUp, panicked,
                   reply, historyVars, hpc, rpc, pend, peer, got, view, dbVars,
                   adminVars, published>>

\* The context is done, or SendCh is closed and drained.
WritePumpEnds(c) ==
    /\ wpc[c] = "run"
    /\ Cancelled(c) \/ (closed[c] /\ sendCh[c] = <<>>)
    /\ wpc' = [wpc EXCEPT ![c] = "end"]
    /\ UNCHANGED <<hubVars, hpc, rpc, pend, peer, got, view, dbVars, adminVars,
                   published>>

-----------------------------------------------------------------------------
(***************************************************************************)
(* The environment: peers that vanish, captured packets, the signal that   *)
(* stops the server.                                                       *)
(***************************************************************************)
PeerGone(c) ==
    /\ hpc[c] \notin {"none", "done"} /\ peer[c] = "up"
    /\ peer' = [peer EXCEPT ![c] = "gone"]
    /\ UNCHANGED <<hubVars, hpc, rpc, wpc, pend, got, view, dbVars, adminVars,
                   published>>

\* The capture goroutine of a rule.  One may still publish after its rule was
\* disabled or deleted (Capture has its life cycle), so the tables do not guard it.
CapturePacket(r) ==
    /\ ctxUp /\ PacketsLeft
    /\ Publish(r, NoKey)
    /\ QueuesOnly
    /\ UNCHANGED <<connVars, dbVars, adminVars>>

Shutdown ==
    /\ "shutdown" \in Ops /\ ctxUp
    /\ ctxUp' = FALSE
    /\ UNCHANGED <<queueVars, clientVars, hubUp, panicked, reply, historyVars, connVars,
                   dbVars, adminVars, published>>

-----------------------------------------------------------------------------
(***************************************************************************)
(* The web handlers.                                                       *)
(***************************************************************************)
NewRequest(a, op) ==
    /\ op \in Ops /\ ctxUp
    /\ admin[a] = IdleAdmin /\ opsMade < MaxOps
    /\ opsMade' = opsMade + 1

\* Nothing but the database has changed.
DatabaseOnly == UNCHANGED <<hubVars, connVars, published>>

\* A request for the key is between its database write and the hub.
UnderWay(a, k) == admin[a].pc \in {"get rules", "push"} /\ admin[a].key = k

Contend(k) ==
    unsure' = IF \E a \in Admins : UnderWay(a, k) THEN unsure \cup {k}
                                                     ELSE unsure \ {k}

Remember == granted' = granted \cup {kr \in Keys \X RuleIds : InForce(kr[1], kr[2])'}

\* handleAssignRule, handleUnassignRule: change the table, read the key's rules
\* back, hand them to the hub.  The page offers the keys and rules there are.
HandleAssignRule(a, k, r) ==
    /\ NewRequest(a, "assign")
    /\ keyState[k] # "none" /\ direction[r] # NoRule
    /\ assigned' = assigned \cup {<<k, r>>}
    /\ admin' = [admin EXCEPT ![a] = [pc |-> "get rules", key |-> k]]
    /\ DatabaseOnly
    /\ UNCHANGED <<enabled, direction, keyState, touched>>
    /\ Contend(k)
    /\ Remember

\* Mutant: an unassignment is not pushed.
UnassignUnpushed(a, k, r) ==
    /\ NewRequest(a, "unassign")
    /\ keyState[k] # "none"
    /\ assigned' = assigned \ {<<k, r>>}
    /\ DatabaseOnly
    /\ UNCHANGED <<enabled, direction, keyState, granted, touched, admin, unsure>>

HandleUnassignRule(a, k, r) ==
    /\ NewRequest(a, "unassign")
    /\ keyState[k] # "none"
    /\ assigned' = assigned \ {<<k, r>>}
    /\ admin' = [admin EXCEPT ![a] = [pc |-> "get rules", key |-> k]]
    /\ DatabaseOnly
    /\ UNCHANGED <<enabled, direction, keyState, granted, touched>>
    /\ Contend(k)

ReadForPush(a) ==
    /\ admin[a].pc = "get rules"
    /\ admin' = [admin EXCEPT ![a] = [pc |-> "push", key |-> @.key,
                                      rules |-> GetRulesForClient(@.key)]]
    /\ DatabaseOnly
    /\ UNCHANGED <<dbVars, opsMade, unsure>>

\* The request is answered as a success all the same.
ReadForPushFails(a) ==
    /\ admin[a].pc = "get rules"
    /\ admin' = [admin EXCEPT ![a] = IdleAdmin]
    /\ unsure' = unsure \cup {admin[a].key}
    /\ DatabaseOnly
    /\ UNCHANGED <<dbVars, opsMade>>

PushRules(a) ==
    /\ admin[a].pc = "push"
    /\ PushRuleUpdate(admin[a].key, admin[a].rules)
    /\ admin' = [admin EXCEPT ![a] = IdleAdmin]
    /\ QueuesOnly
    /\ UNCHANGED <<connVars, dbVars, opsMade, unsure, published>>

\* handleToggleRule, handleUpdateRule, handleDeleteRule: no client is told.
HandleToggleRule(a, r) ==
    /\ NewRequest(a, "toggle")
    /\ direction[r] # NoRule
    /\ enabled' = IF r \in enabled THEN enabled \ {r} ELSE enabled \cup {r}
    /\ DatabaseOnly
    /\ touched' = touched \cup {r}
    /\ UNCHANGED <<assigned, direction, keyState, admin, unsure>>
    /\ Remember

HandleUpdateRule(a, r, d) ==
    /\ NewRequest(a, "update")
    /\ direction[r] # NoRule
    /\ direction' = [direction EXCEPT ![r] = d]
    /\ DatabaseOnly
    /\ touched' = touched \cup {r}
    /\ UNCHANGED <<assigned, enabled, keyState, granted, admin, unsure>>

HandleDeleteRule(a, r) ==
    /\ NewRequest(a, "delete")
    /\ direction[r] # NoRule
    /\ direction' = [direction EXCEPT ![r] = NoRule]
    /\ DatabaseOnly
    /\ touched' = touched \cup {r}
    /\ UNCHANGED <<assigned, enabled, keyState, granted, admin, unsure>>

\* handleCreateKey: the key is shown on the page.
HandleCreateKey(a, k) ==
    /\ NewRequest(a, "create")
    /\ keyState[k] = "none"
    /\ keyState' = [keyState EXCEPT ![k] = "valid"]
    /\ DatabaseOnly
    /\ UNCHANGED <<assigned, enabled, direction, granted, touched, admin, unsure>>

\* handleRevokeKey, handleDeleteKey: the rows of client_rules stay (the driver does not
\* know _foreign_keys, database.go:22), and a connection that uses the key stays.
HandleRevokeKey(a, k) ==
    /\ NewRequest(a, "revoke")
    /\ keyState[k] = "valid"
    /\ keyState' = [keyState EXCEPT ![k] = "revoked"]
    /\ DatabaseOnly
    /\ UNCHANGED <<assigned, enabled, direction, granted, touched, admin, unsure>>

\* handleSendClientUpdate and handleGetClients wait for the hub's reply.
HandleSendClientUpdate(a, k) ==
    /\ NewRequest(a, "send")
    /\ SendToClient(a, k)
    /\ admin' = [admin EXCEPT ![a] = [pc |-> "reply"]]
    /\ QueuesOnly
    /\ UNCHANGED <<connVars, dbVars, unsure, published>>

HandleGetClients(a) ==
    /\ NewRequest(a, "list")
    /\ GetConnectedClients(a)
    /\ admin' = [admin EXCEPT ![a] = [pc |-> "reply"]]
    /\ QueuesOnly
    /\ UNCHANGED <<connVars, dbVars, unsure, published>>

ReceiveReply(a) ==
    /\ admin[a].pc = "reply" /\ reply[a] # "none"
    /\ reply' = [reply EXCEPT ![a] = "none"]
    /\ admin' = [admin EXCEPT ![a] = IdleAdmin]
    /\ UNCHANGED <<queueVars, clientVars, hubUp, ctxUp, panicked, historyVars, connVars,
                   dbVars, opsMade, unsure, published>>

-----------------------------------------------------------------------------
HubOnly == UNCHANGED <<connVars, dbVars, adminVars, published>>

HubStep == HubNext /\ HubOnly

ConnStep(c) ==
    \/ \E k \in Keys : AuthKey(c, k) \/ AuthCredentials(c, k)
    \/ AuthFail(c) \/ ReadRules(c) \/ SendAuthOK(c) \/ AuthOKFails(c)
    \/ StartPumps(c) \/ Finish(c)
    \/ \E r \in RuleIds : ReceiveRelayPacket(c, r)
    \/ PublishRelayPacket(c) \/ ReadFails(c)
    \/ WriteMessage(c) \/ WriteFails(c) \/ WritePumpEnds(c)
    \/ PeerGone(c)

AdminStep(a) ==
    \/ \E k \in Keys, r \in RuleIds : HandleAssignRule(a, k, r) \/ HandleUnassignRule(a, k, r)
    \/ ReadForPush(a) \/ ReadForPushFails(a) \/ PushRules(a)
    \/ \E r \in RuleIds : HandleToggleRule(a, r) \/ HandleDeleteRule(a, r)
    \/ \E r \in RuleIds, d \in Directions : HandleUpdateRule(a, r, d)
    \/ \E k \in Keys : HandleCreateKey(a, k) \/ HandleRevokeKey(a, k) \/ HandleSendClientUpdate(a, k)
    \/ HandleGetClients(a) \/ ReceiveReply(a)

\* Nothing to do until the environment moves, or the process has exited.
NothingQueued ==
    /\ register = <<>> /\ unregister = <<>> /\ broadcast = <<>>
    /\ ruleUpdate = <<>> /\ directSend = <<>> /\ snapshot = {}

AtRest(c) ==
    \/ hpc[c] \in {"none", "done"}
    \/ /\ hpc[c] = "wait" /\ rpc[c] = "read" /\ peer[c] = "up"
       /\ wpc[c] = "run" => sendCh[c] = <<>> /\ ~closed[c]

Idle ==
    /\ \/ ~hubUp
       \/ /\ ctxUp /\ NothingQueued
          /\ \A c \in Conns : AtRest(c)
          /\ \A a \in Admins : admin[a] = IdleAdmin
    /\ UNCHANGED vars

Next ==
    \/ HubStep
    \/ \E c \in Conns : ConnStep(c)
    \/ \E a \in Admins : AdminStep(a)
    \/ \E r \in RuleIds : CapturePacket(r)
    \/ Shutdown
    \/ Idle

Spec == Init /\ [][Next]_vars

-----------------------------------------------------------------------------
(***************************************************************************)
(* Fairness.  A ready branch of a select stays ready until it is taken, and *)
(* Go picks among ready branches at random, so each is weakly fair.  A     *)
(* channel with room and blocked senders lets one of them in.  A write     *)
(* succeeds or misses its deadline, but an idle connection owes no failed  *)
(* ping.  Peers, signals and web users owe nothing.                        *)
(***************************************************************************)
FairHub ==
    /\ WF_vars(HubRegister /\ HubOnly) /\ WF_vars(HubUnregister /\ HubOnly)
    /\ WF_vars(HubBroadcast /\ HubOnly) /\ WF_vars(HubRuleUpdate /\ HubOnly)
    /\ WF_vars(HubDirectSend /\ HubOnly) /\ WF_vars(HubStop /\ HubOnly)
    /\ \A a \in Admins : WF_vars(HubSnapshot(a) /\ HubOnly)

FairConns ==
    /\ WF_vars(\E c \in Conns : StartPumps(c))
    /\ WF_vars(\E c \in Conns : Finish(c))
    /\ WF_vars(\E c \in Conns : PublishRelayPacket(c))
    /\ \A c \in Conns :
          /\ WF_vars(ReadRules(c)) /\ WF_vars(SendAuthOK(c) \/ AuthOKFails(c))
          /\ WF_vars(ReadFails(c)) /\ WF_vars(WritePumpEnds(c))
          /\ WF_vars(sendCh[c] # <<>> /\ (WriteMessage(c) \/ WriteFails(c)))

FairAdmins ==
    /\ WF_vars(\E a \in Admins : PushRules(a))
    /\ \A a \in Admins : WF_vars(ReadForPush(a)) /\ WF_vars(ReceiveReply(a))

Fairness == FairHub /\ FairConns /\ FairAdmins

FairSpec == Spec /\ Fairness

-----------------------------------------------------------------------------
\* The parts of TypeOK that are not the hub's.
ConnTypeOK ==
    /\ hpc \in [Conns -> {"none", "get rules", "auth ok", "register", "wait", "done"}]
    /\ rpc \in [Conns -> {"off", "read", "publish", "end"}]
    /\ wpc \in [Conns -> {"off", "run", "end"}]
    /\ pend \in [Conns -> RuleIds \cup {NoRule}]
    /\ \A c \in Conns : rpc[c] = "publish" => pend[c] \in RuleIds
    /\ peer \in [Conns -> {"up", "gone"}]
    /\ got \in [Conns -> Seq(Nat)]
    /\ view \in [Conns -> RuleSlice]

TablesTypeOK ==
    /\ assigned \subseteq Keys \X RuleIds
    /\ granted \subseteq Keys \X RuleIds
    /\ enabled \subseteq RuleIds /\ touched \subseteq RuleIds
    /\ direction \in [RuleIds -> Directions \cup {NoRule}]
    /\ keyState \in [Keys -> {"none", "valid", "revoked"}]

AdminState == {IdleAdmin, [pc |-> "reply"]}
              \cup [pc : {"get rules"}, key : Keys]
              \cup [pc : {"push"}, key : Keys, rules : RuleSlice]

(* The hub's channels, map and connections, and the server's tables, hold  *)
(* values of their Go types, no channel exceeds its capacity, and a        *)
(* connection past its authentication carries a key.                       *)
TypeOK ==
    /\ HubTypeOK
    /\ ConnTypeOK
    /\ TablesTypeOK
    /\ admin \in [Admins -> AdminState]
    /\ opsMade \in Nat
    /\ unsure \subseteq Keys
    /\ published \in Seq([rule : RuleIds, sender : Keys \cup {NoKey}])
    /\ \A c \in Conns : hpc[c] \notin {"none", "done"} => connKey[c] \in Keys

(* No SendCh is closed twice and nothing is sent on a closed one, either   *)
(* of which would panic the hub goroutine and take the server down: three  *)
(* places close (replacement, unregistration, shutdown) and three send.    *)
NoPanic == ~panicked

(* No live connection is lost by the hub: while the hub runs, a connection *)
(* whose pumps run and whose SendCh is open is in the client map or still  *)
(* in the register channel, whatever older connections of its key do.      *)
NoOrphan ==
    \A c \in Conns :
        hubUp /\ hpc[c] = "wait" /\ ~closed[c] =>
            clients[connKey[c]] = c \/ Queued(c, register)

\* Why NoPanic and NoOrphan hold, as an inductive invariant: the map holds open
\* connections under their own keys, what is still queued for registration is open
\* and not yet in the map, and only a handler that is done asks to unregister.
MapHoldsOpen ==
    \A k \in Keys : clients[k] # NoConn =>
        /\ ~closed[clients[k]]
        /\ connKey[clients[k]] = k
        /\ hpc[clients[k]] \in {"wait", "done"}

QueuedAreNew ==
    /\ \A i \in DOMAIN register :
          /\ ~closed[register[i]]
          /\ hpc[register[i]] \in {"wait", "done"}
          /\ clients[connKey[register[i]]] # register[i]
    /\ \A i, j \in DOMAIN register : register[i] = register[j] => i = j

UnstartedAreOpen == \A c \in Conns : closed[c] => hpc[c] \in {"wait", "done"}

LeaversAreDone == \A i \in DOMAIN unregister : hpc[unregister[i]] = "done"

HubInv ==
    /\ NoPanic /\ NoOrphan
    /\ hubUp => MapHoldsOpen /\ QueuedAreNew
    /\ UnstartedAreOpen /\ LeaversAreDone

(* A connection that has ended and was unregistered is still in the map    *)
(* only if the hub handled its unregistration before its registration: the *)
(* two travel in different channels.                                       *)
GhostOnlyByOvertaking ==
    \A c \in Connected :
        hubUp /\ hpc[c] = "done" /\ ~Queued(c, unregister) => overtaken[c]

\* Why, as an invariant that HubInv makes inductive: the hub keeps a connection that
\* has left, in its map or on the way there, only if it overtook itself.
LeftBehind(c) ==
    /\ hpc[c] = "done" /\ ~Queued(c, unregister)
    /\ c \in Connected \/ Queued(c, register)

LeftByOvertaking == hubUp => \A c \in Conns : LeftBehind(c) => overtaken[c]

(* The hub's slice of a connection and the rules its client was told agree *)
(* once the queued messages are written, unless a push found SendCh full.  *)
LastToldRules(c) ==
    LET pushes == {i \in DOMAIN sendCh[c] : sendCh[c][i].type = "RuleUpdate"}
    IN  IF pushes = {} THEN view[c]
        ELSE sendCh[c][CHOOSE i \in pushes : \A j \in pushes : j <= i].rules

ClientToldItsRules ==
    \A c \in Conns :
        hpc[c] = "wait" /\ peer[c] = "up" /\ wpc[c] = "run" /\ ~dropped[c] =>
            LastToldRules(c) = rules[c]

\* No web request for the key is between its database write and the hub.
Settled(k) ==
    /\ \A a \in Admins : ~UnderWay(a, k)
    /\ \A i \in DOMAIN ruleUpdate : ruleUpdate[i].key # k

(* Once the pushes for a key are handled, the hub relays to the key's      *)
(* registered connection by exactly the rules the database has in force    *)
(* for it, if no push was handled before the connection was registered,    *)
(* and the latest change was read back and met no other: a request reads   *)
(* the rules in one step and pushes them in another, and the older reading *)
(* may be pushed last.  Only of a rule whose own row was changed may it    *)
(* have an older state.                                                    *)
RulesSettled ==
    \A k \in Keys \ unsure :
        LET c == clients[k] IN
        hubUp /\ c # NoConn /\ Settled(k) /\ ~missed[c] =>
            \A r \in RuleIds \ touched : rules[c][r] = GetRulesForClient(k)[r]

(* The server keeps the promises of the abstract service, from the order   *)
(* of the broadcast channel to what each peer is sent.                     *)
Service == INSTANCE RelayService WITH owner <- connKey
ServiceSpec == Service!Spec

(* Every connection whose peer is gone is taken down: both pumps end, it   *)
(* is unregistered and its socket closed, unless the server is stopped.    *)
GoneIsReleased ==
    \A c \in Conns : peer[c] = "gone" ~> hpc[c] = "done" \/ ~ctxUp

(* Every web request that waits for the hub returns, whatever the clients  *)
(* do, unless the server is stopped.                                       *)
RequestsReturn ==
    \A a \in Admins : admin[a] # IdleAdmin ~> admin[a] = IdleAdmin \/ ~ctxUp

-----------------------------------------------------------------------------
(* What the documentation says and the code does not keep.                 *)

(* README.md:268 "Each client only receives/forwards traffic for its       *)
(* assigned rules": with no request under way, a connection that missed no *)
(* push cannot forward under a rule its key is not assigned.               *)
ForwardsOnlyAssigned ==
    \A c \in Conns, r \in RuleIds :
        rpc[c] = "read" /\ ~missed[c] /\ Settled(connKey[c]) /\ MayForward(c, r) =>
            <<connKey[c], r>> \in assigned
=============================================================================
