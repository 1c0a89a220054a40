-------------------------------- MODULE Hub --------------------------------
(***************************************************************************)
(* The hub goroutine of the relay server (internal/server/hub.go): the     *)
(* single owner of the map of connected clients.  Handlers, capture        *)
(* goroutines and web handlers talk to it only through its channels, and   *)
(* it writes to a connection only through the connection's SendCh.         *)
(*                                                                         *)
(* A buffered Go channel is a sequence with a capacity; a select with      *)
(* several ready branches picks one of them, so every branch is an action  *)
(* of its own.  One pass of fanOut is one step: its sends go to different  *)
(* channels, so draining one of them in the middle of the pass has the     *)
(* same effect as draining it before.                                      *)
(***************************************************************************)
EXTENDS Naturals, Sequences

CONSTANTS
    Keys,          \* ids of API keys
    Conns,         \* accepted connections, one ClientConn each
    RuleIds,       \* ids of forwarding rules
    Admins,        \* concurrent requests of the web interface
    NoKey,         \* sender 0: a packet captured by the server itself
    NoConn,        \* no entry in the client map
    HubCap,        \* capacity of register, unregister, ruleUpdate, directSend
    BroadcastCap,  \* capacity of broadcast
    SendCap        \* capacity of a connection's SendCh

ASSUME HubAssumption ==
    /\ NoKey \notin Keys
    /\ NoConn \notin Conns
    /\ HubCap \in Nat \ {0}
    /\ BroadcastCap \in Nat \ {0}
    /\ SendCap \in Nat \ {0}

VARIABLES
    register, unregister, broadcast, ruleUpdate, directSend, snapshot,
    clients,    \* h.clients
    connKey,    \* ClientConn.ID
    rules,      \* ClientConn.Rules, by rule id
    sendCh,     \* ClientConn.SendCh
    closed,     \* whether SendCh has been closed
    hubUp,      \* Run has not returned
    ctxUp,      \* the server's context is not cancelled
    panicked,   \* a SendCh was closed twice, or written after its close
    reply,      \* what the hub answered an admin's pending request
    \* History, read by the properties only.
    missed,     \* rule pushes for its key that found the connection unregistered
    dropped,    \* the last rule push found SendCh full
    overtaken   \* its unregistration was handled before its registration

queueVars   == <<register, unregister, broadcast, ruleUpdate, directSend, snapshot>>
clientVars  == <<clients, connKey, rules, sendCh, closed>>
historyVars == <<missed, dropped, overtaken>>
hubVars     == <<queueVars, clientVars, hubUp, ctxUp, panicked, reply, historyVars>>

\* An update stores an empty direction as it is (webui.go:330-342).
Directions == {"server_to_client", "client_to_server", "bidirectional", ""}
NoRule     == "none"

\* A slice of rules: the direction of every rule it holds, NoRule for the others.
RuleSlice == [RuleIds -> Directions \cup {NoRule}]

PacketMsg  == [type : {"RelayPacket"}, id : Nat]
RulesMsg   == [type : {"RuleUpdate"}, rules : RuleSlice]
CommandMsg == [type : {"UpdateCommand"}]
SendMsg    == PacketMsg \cup RulesMsg \cup CommandMsg

RelayMessage  == [id : Nat, rule : RuleIds, sender : Keys \cup {NoKey}]
RuleUpdateReq == [key : Keys, rules : RuleSlice]
DirectSendReq == [key : Keys, admin : Admins]

Queued(c, queue) == \E i \in DOMAIN queue : queue[i] = c
Connected        == {c \in Conns : \E k \in Keys : clients[k] = c}

HasRoom(c) == Len(sendCh[c]) < SendCap

clientHasRule(c, r) == rules[c][r] # NoRule

(***************************************************************************)
(* The two operations on SendCh.  A close of a closed channel and a send   *)
(* on one panic; a send with no room is dropped (select ... default).      *)
(***************************************************************************)
Close(C) ==
    /\ closed' = [c \in Conns |-> closed[c] \/ c \in C]
    /\ panicked' = (panicked \/ \E c \in C : closed[c])

\* Mutant: the select has no default branch.
OfferBlocking(C, msg) ==
    /\ \A c \in C : HasRoom(c)
    /\ sendCh' = [c \in Conns |-> IF c \in C THEN Append(sendCh[c], msg) ELSE sendCh[c]]
    /\ panicked' = (panicked \/ \E c \in C : closed[c])

Offer(C, msg) ==
    /\ sendCh' = [c \in Conns |-> IF c \in C /\ HasRoom(c)
                                    THEN Append(sendCh[c], msg) ELSE sendCh[c]]
    /\ panicked' = (panicked \/ \E c \in C : closed[c])

-----------------------------------------------------------------------------
HubInit ==
    /\ register = <<>> /\ unregister = <<>> /\ broadcast = <<>>
    /\ ruleUpdate = <<>> /\ directSend = <<>> /\ snapshot = {}
    /\ clients = [k \in Keys |-> NoConn]
    /\ connKey = [c \in Conns |-> NoKey]
    /\ rules = [c \in Conns |-> [r \in RuleIds |-> NoRule]]
    /\ sendCh = [c \in Conns |-> <<>>]
    /\ closed = [c \in Conns |-> FALSE]
    /\ hubUp = TRUE /\ ctxUp = TRUE /\ panicked = FALSE
    /\ reply = [a \in Admins |-> "none"]
    /\ missed = [c \in Conns |-> FALSE]
    /\ dropped = [c \in Conns |-> FALSE]
    /\ overtaken = [c \in Conns |-> FALSE]

\* case client := <-h.register: an older connection of the key is closed.
HubRegister ==
    /\ hubUp /\ register # <<>>
    /\ LET c == Head(register)
           k == connKey[c]
       IN  /\ Close({clients[k]} \ {NoConn})
           /\ clients' = [clients EXCEPT ![k] = c]
    /\ register' = Tail(register)
    /\ UNCHANGED <<unregister, broadcast, ruleUpdate, directSend, snapshot, connKey,
                   rules, sendCh, hubUp, ctxUp, reply, historyVars>>

\* Mutant: any connection of the key counts.
IsRegisteredByKey(c) == clients[connKey[c]] # NoConn

IsRegistered(c) == clients[connKey[c]] = c

\* case client := <-h.unregister: ignored unless the map holds this very connection.
HubUnregister ==
    /\ hubUp /\ unregister # <<>>
    /\ LET c == Head(unregister)
       IN  /\ overtaken' = [overtaken EXCEPT ![c] = Queued(c, register)]
           /\ \/ /\ IsRegistered(c)
                 /\ clients' = [clients EXCEPT ![connKey[c]] = NoConn]
                 /\ Close({c})
              \/ /\ ~IsRegistered(c)
                 /\ UNCHANGED <<clients, closed, panicked>>
    /\ unregister' = Tail(unregister)
    /\ UNCHANGED <<register, broadcast, ruleUpdate, directSend, snapshot, connKey,
                   rules, sendCh, hubUp, ctxUp, reply, missed, dropped>>

\* Mutant: the sender is not excluded.
AudienceWithSender(msg) ==
    {c \in Conns : /\ \E k \in Keys : clients[k] = c
                   /\ clientHasRule(c, msg.rule)}

\* The registered connections fanOut offers a message to: all but the sender's own.
Audience(msg) ==
    {c \in Conns : /\ \E k \in Keys \ {msg.sender} : clients[k] = c
                   /\ clientHasRule(c, msg.rule)}

\* case msg := <-h.broadcast.
HubBroadcast ==
    /\ hubUp /\ broadcast # <<>>
    /\ LET msg == Head(broadcast)
       IN  Offer(Audience(msg), [type |-> "RelayPacket", id |-> msg.id])
    /\ broadcast' = Tail(broadcast)
    /\ UNCHANGED <<register, unregister, ruleUpdate, directSend, snapshot, clients,
                   connKey, rules, closed, hubUp, ctxUp, reply, historyVars>>

\* Mutant: the new slice is sent to the client but not kept.
KeepOldRules(c, rs) == UNCHANGED rules

\* client.Rules = req.rules
ReplaceRules(c, rs) == rules' = [d \in Conns |-> IF d = c THEN rs ELSE rules[d]]

\* doRuleUpdate: the connection's own slice is replaced whether or not there is
\* room to tell the client.
HubRuleUpdate ==
    /\ hubUp /\ ruleUpdate # <<>>
    /\ LET req == Head(ruleUpdate)
           c   == clients[req.key]
       IN  /\ ReplaceRules(c, req.rules)
           /\ Offer({c} \ {NoConn}, [type |-> "RuleUpdate", rules |-> req.rules])
           /\ dropped' = [d \in Conns |-> IF d = c THEN ~HasRoom(d) ELSE dropped[d]]
           /\ missed' = [d \in Conns |-> \/ missed[d]
                                         \/ connKey[d] = req.key /\ d # c /\ ~closed[d]]
    /\ ruleUpdate' = Tail(ruleUpdate)
    /\ UNCHANGED <<register, unregister, broadcast, directSend, snapshot, clients,
                   connKey, closed, hubUp, ctxUp, reply, overtaken>>

\* case req := <-h.directSend: the requester is told whether there was a client
\* with room.
HubDirectSend ==
    /\ hubUp /\ directSend # <<>>
    /\ LET req == Head(directSend)
           c   == clients[req.key]
       IN  /\ Offer({c} \ {NoConn}, [type |-> "UpdateCommand"])
           /\ reply' = [reply EXCEPT ![req.admin] =
                           IF c # NoConn /\ HasRoom(c) THEN "sent" ELSE "not sent"]
    /\ directSend' = Tail(directSend)
    /\ UNCHANGED <<register, unregister, broadcast, ruleUpdate, snapshot, clients,
                   connKey, rules, closed, hubUp, ctxUp, historyVars>>

\* case replyCh := <-h.snapshot: the channel has no buffer, so the requester is
\* still waiting; what it is told is the map as it stands.
HubSnapshot(a) ==
    /\ hubUp /\ a \in snapshot
    /\ snapshot' = snapshot \ {a}
    /\ reply' = [reply EXCEPT ![a] = "clients"]
    /\ UNCHANGED <<register, unregister, broadcast, ruleUpdate, directSend, clientVars,
                   hubUp, ctxUp, panicked, historyVars>>

\* Mutant: the branch forgets to return.
HubStopWithoutReturn ==
    /\ hubUp /\ ~ctxUp
    /\ Close(Connected)
    /\ UNCHANGED <<queueVars, clients, connKey, rules, sendCh, hubUp, ctxUp, reply,
                   historyVars>>

\* case <-ctx.Done(): every registered SendCh is closed and Run returns.
HubStop ==
    /\ hubUp /\ ~ctxUp
    /\ Close(Connected)
    /\ hubUp' = FALSE
    /\ UNCHANGED <<queueVars, clients, connKey, rules, sendCh, ctxUp, reply, historyVars>>

HubNext ==
    \/ HubRegister \/ HubUnregister \/ HubBroadcast \/ HubRuleUpdate \/ HubDirectSend
    \/ \E a \in Admins : HubSnapshot(a)
    \/ HubStop

\* The hub's part of the type invariant.
HubTypeOK ==
    /\ register \in Seq(Conns) /\ Len(register) <= HubCap
    /\ unregister \in Seq(Conns) /\ Len(unregister) <= HubCap
    /\ broadcast \in Seq(RelayMessage) /\ Len(broadcast) <= BroadcastCap
    /\ ruleUpdate \in Seq(RuleUpdateReq) /\ Len(ruleUpdate) <= HubCap
    /\ directSend \in Seq(DirectSendReq) /\ Len(directSend) <= HubCap
    /\ snapshot \subseteq Admins
    /\ clients \in [Keys -> Conns \cup {NoConn}]
    /\ connKey \in [Conns -> Keys \cup {NoKey}]
    /\ \A i \in DOMAIN register : connKey[register[i]] \in Keys
    /\ \A i \in DOMAIN unregister : connKey[unregister[i]] \in Keys
    /\ rules \in [Conns -> RuleSlice]
    /\ sendCh \in [Conns -> Seq(SendMsg)]
    /\ \A c \in Conns : Len(sendCh[c]) <= SendCap
    /\ closed \in [Conns -> BOOLEAN]
    /\ hubUp \in BOOLEAN /\ ctxUp \in BOOLEAN /\ panicked \in BOOLEAN
    /\ reply \in [Admins -> {"none", "sent", "not sent", "clients"}]
    /\ missed \in [Conns -> BOOLEAN] /\ dropped \in [Conns -> BOOLEAN]
    /\ overtaken \in [Conns -> BOOLEAN]

-----------------------------------------------------------------------------
(***************************************************************************)
(* The hub's entry points, called by other goroutines.  Each blocks while  *)
(* its channel is full.                                                    *)
(***************************************************************************)
QueuesOnly == UNCHANGED <<clientVars, hubUp, ctxUp, panicked, reply, historyVars>>

Register(c) ==
    /\ Len(register) < HubCap
    /\ register' = Append(register, c)
    /\ UNCHANGED <<unregister, broadcast, ruleUpdate, directSend, snapshot>>

Unregister(c) ==
    /\ Len(unregister) < HubCap
    /\ unregister' = Append(unregister, c)
    /\ UNCHANGED <<register, broadcast, ruleUpdate, directSend, snapshot>>

Broadcast(msg) ==
    /\ Len(broadcast) < BroadcastCap
    /\ broadcast' = Append(broadcast, msg)
    /\ UNCHANGED <<register, unregister, ruleUpdate, directSend, snapshot>>

PushRuleUpdate(k, rs) ==
    /\ Len(ruleUpdate) < HubCap
    /\ ruleUpdate' = Append(ruleUpdate, [key |-> k, rules |-> rs])
    /\ UNCHANGED <<register, unregister, broadcast, directSend, snapshot>>

SendToClient(a, k) ==
    /\ Len(directSend) < HubCap
    /\ directSend' = Append(directSend, [key |-> k, admin |-> a])
    /\ UNCHANGED <<register, unregister, broadcast, ruleUpdate, snapshot>>

GetConnectedClients(a) ==
    /\ snapshot' = snapshot \cup {a}
    /\ UNCHANGED <<register, unregister, broadcast, ruleUpdate, directSend>>
=============================================================================
