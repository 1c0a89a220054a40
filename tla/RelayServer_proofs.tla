------------------------- MODULE RelayServer_proofs -------------------------
(***************************************************************************)
(* Theorems about the relay server, for every number of keys, connections, *)
(* rules and web requests and every channel capacity.                      *)
(***************************************************************************)
EXTENDS RelayServer, SequenceTheorems, TLAPS

(***************************************************************************)
(* What the hub's entry points and the head of a channel do to a queue.    *)
(***************************************************************************)
\* A queue with room stays typed and within its capacity when one is put in.
LEMMA Enqueue ==
    ASSUME NEW S, NEW q \in Seq(S), NEW cap \in Nat, Len(q) < cap, NEW e \in S
    PROVE  /\ Append(q, e) \in Seq(S)
           /\ Len(Append(q, e)) <= cap
           /\ \A i \in DOMAIN Append(q, e) :
                 \/ i \in DOMAIN q /\ Append(q, e)[i] = q[i]
                 \/ i = Len(q) + 1 /\ Append(q, e)[i] = e
  OBVIOUS

\* A queue that is not empty stays typed and within its capacity without its head.
LEMMA Serve ==
    ASSUME NEW S, NEW q \in Seq(S), NEW cap \in Nat, Len(q) <= cap, q # <<>>
    PROVE  /\ Head(q) \in S
           /\ Head(q) = q[1] /\ 1 \in DOMAIN q
           /\ Tail(q) \in Seq(S)
           /\ Len(Tail(q)) <= cap
           /\ \A i \in DOMAIN Tail(q) : i + 1 \in DOMAIN q /\ Tail(q)[i] = q[i + 1]
  OBVIOUS

\* The entries of a queue are of the queue's type.
LEMMA ElementsOf == \A S : \A q \in Seq(S) : \A i \in DOMAIN q : q[i] \in S
  OBVIOUS

(***************************************************************************)
(* Type correctness.                                                       *)
(***************************************************************************)
LEMMA InitTypeOK == Init => TypeOK
<1> SUFFICES ASSUME Init PROVE TypeOK
  OBVIOUS
<1>1. HubTypeOK
  <2> USE DEF Init, HubInit
  <2>1. /\ register \in Seq(Conns) /\ unregister \in Seq(Conns)
        /\ broadcast \in Seq(RelayMessage) /\ ruleUpdate \in Seq(RuleUpdateReq)
        /\ directSend \in Seq(DirectSendReq) /\ snapshot \subseteq Admins
    OBVIOUS
  <2>2. /\ Len(register) <= HubCap /\ Len(unregister) <= HubCap
        /\ Len(broadcast) <= BroadcastCap /\ Len(ruleUpdate) <= HubCap
        /\ Len(directSend) <= HubCap
    BY HubAssumption
  <2>3. /\ clients \in [Keys -> Conns \cup {NoConn}]
        /\ connKey \in [Conns -> Keys \cup {NoKey}]
        /\ \A i \in DOMAIN register : connKey[register[i]] \in Keys
        /\ \A i \in DOMAIN unregister : connKey[unregister[i]] \in Keys
    OBVIOUS
  <2>4. rules \in [Conns -> RuleSlice]
    BY DEF RuleSlice
  <2>5. /\ sendCh \in [Conns -> Seq(SendMsg)]
        /\ \A c \in Conns : Len(sendCh[c]) <= SendCap
    BY HubAssumption
  <2>6. /\ closed \in [Conns -> BOOLEAN]
        /\ hubUp \in BOOLEAN /\ ctxUp \in BOOLEAN /\ panicked \in BOOLEAN
        /\ missed \in [Conns -> BOOLEAN] /\ dropped \in [Conns -> BOOLEAN]
        /\ overtaken \in [Conns -> BOOLEAN]
    OBVIOUS
  <2>7. reply \in [Admins -> {"none", "sent", "not sent", "clients"}]
    OBVIOUS
  <2> QED
    BY <2>1, <2>2, <2>3, <2>4, <2>5, <2>6, <2>7 DEF HubTypeOK
<1>2. ConnTypeOK
  BY DEF Init, ConnTypeOK, RuleSlice, NoRule
<1>3. TablesTypeOK
  BY ServerAssumption DEF Init, TablesTypeOK
<1>4. admin \in [Admins -> AdminState]
  BY DEF Init, AdminState
<1> QED
  BY <1>1, <1>2, <1>3, <1>4 DEF Init, TypeOK

\* The hub's branches.
LEMMA HubNextTypeOK == HubTypeOK /\ HubNext => HubTypeOK'
<1> SUFFICES ASSUME HubTypeOK, HubNext PROVE HubTypeOK'
  OBVIOUS
<1> USE HubAssumption DEF HubTypeOK, historyVars, queueVars, clientVars
<1>1. CASE HubRegister
  <2> DEFINE c == Head(register)
  <2>0. /\ Head(register) \in Conns
        /\ Head(register) = register[1] /\ 1 \in DOMAIN register
        /\ Tail(register) \in Seq(Conns)
        /\ Len(Tail(register)) <= HubCap
        /\ \A i \in DOMAIN Tail(register) :
              i + 1 \in DOMAIN register /\ Tail(register)[i] = register[i + 1]
    <3>1. register \in Seq(Conns) /\ Len(register) <= HubCap /\ register # <<>> /\ HubCap \in Nat
      BY <1>1 DEF HubRegister
    <3> QED
      BY <3>1, Serve
  <2>1. /\ c \in Conns /\ connKey[c] \in Keys
        /\ Tail(register) \in Seq(Conns) /\ Len(Tail(register)) <= HubCap
        /\ \A i \in DOMAIN Tail(register) : connKey[Tail(register)[i]] \in Keys
    BY <2>0
  <2>2. closed' \in [Conns -> BOOLEAN] /\ panicked' \in BOOLEAN
    BY <1>1 DEF HubRegister, Close
  <2>3. clients' \in [Keys -> Conns \cup {NoConn}]
    BY <1>1, <2>1 DEF HubRegister
  <2>4. /\ register' = Tail(register)
        /\ UNCHANGED <<unregister, broadcast, ruleUpdate, directSend, snapshot, connKey,
                       rules, sendCh, hubUp, ctxUp, reply, missed, dropped, overtaken>>
    BY <1>1 DEF HubRegister
  <2>5. /\ \A i \in DOMAIN register' : connKey'[register'[i]] \in Keys
        /\ \A i \in DOMAIN unregister' : connKey'[unregister'[i]] \in Keys
    BY <2>1, <2>4
  <2> HIDE DEF c
  <2> QED
    BY <2>1, <2>2, <2>3, <2>4, <2>5
<1>2. CASE HubUnregister
  <2>0. /\ Head(unregister) \in Conns
        /\ Head(unregister) = unregister[1] /\ 1 \in DOMAIN unregister
        /\ Tail(unregister) \in Seq(Conns)
        /\ Len(Tail(unregister)) <= HubCap
        /\ \A i \in DOMAIN Tail(unregister) :
              i + 1 \in DOMAIN unregister /\ Tail(unregister)[i] = unregister[i + 1]
    <3>1. unregister \in Seq(Conns) /\ Len(unregister) <= HubCap /\ unregister # <<>> /\ HubCap \in Nat
      BY <1>2 DEF HubUnregister
    <3> QED
      BY <3>1, Serve
  <2>1. /\ Head(unregister) \in Conns /\ connKey[Head(unregister)] \in Keys
        /\ Tail(unregister) \in Seq(Conns) /\ Len(Tail(unregister)) <= HubCap
        /\ \A i \in DOMAIN Tail(unregister) : connKey[Tail(unregister)[i]] \in Keys
    BY <2>0
  <2>2. closed' \in [Conns -> BOOLEAN] /\ panicked' \in BOOLEAN
    BY <1>2 DEF HubUnregister, Close
  <2>3. /\ clients' \in [Keys -> Conns \cup {NoConn}]
        /\ overtaken' \in [Conns -> BOOLEAN]
    BY <1>2, <2>1 DEF HubUnregister, Queued
  <2>4. /\ unregister' = Tail(unregister)
        /\ UNCHANGED <<register, broadcast, ruleUpdate, directSend, snapshot, connKey,
                       rules, sendCh, hubUp, ctxUp, reply, missed, dropped>>
    BY <1>2 DEF HubUnregister
  <2>5. /\ \A i \in DOMAIN register' : connKey'[register'[i]] \in Keys
        /\ \A i \in DOMAIN unregister' : connKey'[unregister'[i]] \in Keys
    BY <2>1, <2>4
  <2> QED
    BY <2>1, <2>2, <2>3, <2>4, <2>5
<1>3. ASSUME NEW C, NEW msg \in SendMsg, Offer(C, msg)
      PROVE  /\ sendCh' \in [Conns -> Seq(SendMsg)]
             /\ \A c \in Conns : Len(sendCh'[c]) <= SendCap
             /\ panicked' \in BOOLEAN
  <2>1. ASSUME NEW c \in Conns, HasRoom(c)
        PROVE  Append(sendCh[c], msg) \in Seq(SendMsg) /\ Len(Append(sendCh[c], msg)) <= SendCap
    BY <2>1, Enqueue DEF HasRoom
  <2> QED
    BY <1>3, <2>1 DEF Offer
<1>4. CASE HubBroadcast
  <2>1. /\ Head(broadcast) \in RelayMessage
        /\ Tail(broadcast) \in Seq(RelayMessage) /\ Len(Tail(broadcast)) <= BroadcastCap
    BY <1>4, Serve DEF HubBroadcast
  <2>2. [type |-> "RelayPacket", id |-> Head(broadcast).id] \in SendMsg
    BY <2>1 DEF RelayMessage, SendMsg, PacketMsg
  <2> QED
    BY <1>3, <1>4, <2>1, <2>2 DEF HubBroadcast
<1>5. CASE HubRuleUpdate
  <2>1. /\ Head(ruleUpdate) \in RuleUpdateReq
        /\ Tail(ruleUpdate) \in Seq(RuleUpdateReq) /\ Len(Tail(ruleUpdate)) <= HubCap
    BY <1>5, Serve DEF HubRuleUpdate
  <2>2. [type |-> "RuleUpdate", rules |-> Head(ruleUpdate).rules] \in SendMsg
    BY <2>1 DEF RuleUpdateReq, SendMsg, RulesMsg
  <2>3. rules' \in [Conns -> RuleSlice]
    BY <1>5, <2>1 DEF HubRuleUpdate, ReplaceRules, RuleUpdateReq
  <2>4. missed' \in [Conns -> BOOLEAN] /\ dropped' \in [Conns -> BOOLEAN]
    BY <1>5 DEF HubRuleUpdate, HasRoom
  <2> QED
    BY <1>3, <1>5, <2>1, <2>2, <2>3, <2>4 DEF HubRuleUpdate
<1>6. CASE HubDirectSend
  <2>1. /\ Head(directSend) \in DirectSendReq
        /\ Tail(directSend) \in Seq(DirectSendReq) /\ Len(Tail(directSend)) <= HubCap
    BY <1>6, Serve DEF HubDirectSend
  <2>2. [type |-> "UpdateCommand"] \in SendMsg
    BY DEF SendMsg, CommandMsg
  <2>3. reply' \in [Admins -> {"none", "sent", "not sent", "clients"}]
    BY <1>6 DEF HubDirectSend
  <2> QED
    BY <1>3, <1>6, <2>1, <2>2, <2>3 DEF HubDirectSend
<1>7. CASE \E a \in Admins : HubSnapshot(a)
  BY <1>7 DEF HubSnapshot
<1>8. CASE HubStop
  BY <1>8 DEF HubStop, Close
<1> QED
  BY <1>1, <1>2, <1>4, <1>5, <1>6, <1>7, <1>8 DEF HubNext

\* The hub's entry points.
LEMMA EntryTypeOK ==
    ASSUME HubTypeOK, QueuesOnly
    PROVE  /\ \A c \in Conns : connKey[c] \in Keys /\ Register(c) => HubTypeOK'
           /\ \A c \in Conns : connKey[c] \in Keys /\ Unregister(c) => HubTypeOK'
           /\ \A msg \in RelayMessage : Broadcast(msg) => HubTypeOK'
           /\ \A k \in Keys, rs \in RuleSlice : PushRuleUpdate(k, rs) => HubTypeOK'
           /\ \A a \in Admins, k \in Keys : SendToClient(a, k) => HubTypeOK'
           /\ \A a \in Admins : GetConnectedClients(a) => HubTypeOK'
<1> USE HubAssumption DEF HubTypeOK, QueuesOnly, clientVars, historyVars
<1>1. ASSUME NEW c \in Conns, connKey[c] \in Keys, Register(c) PROVE HubTypeOK'
  <2>1. /\ register' \in Seq(Conns) /\ Len(register') <= HubCap
        /\ \A i \in DOMAIN register' :
              \/ i \in DOMAIN register /\ register'[i] = register[i]
              \/ i = Len(register) + 1 /\ register'[i] = c
    <3>1. register \in Seq(Conns) /\ HubCap \in Nat /\ Len(register) < HubCap /\ register' = Append(register, c)
      BY <1>1 DEF Register
    <3> QED
      BY ONLY <3>1, c \in Conns, Enqueue
  <2> QED
    BY <1>1, <2>1 DEF Register
<1>2. ASSUME NEW c \in Conns, connKey[c] \in Keys, Unregister(c) PROVE HubTypeOK'
  <2>1. /\ unregister' \in Seq(Conns) /\ Len(unregister') <= HubCap
        /\ \A i \in DOMAIN unregister' :
              \/ i \in DOMAIN unregister /\ unregister'[i] = unregister[i]
              \/ i = Len(unregister) + 1 /\ unregister'[i] = c
    <3>1. unregister \in Seq(Conns) /\ HubCap \in Nat /\ Len(unregister) < HubCap /\ unregister' = Append(unregister, c)
      BY <1>2 DEF Unregister
    <3> QED
      BY ONLY <3>1, c \in Conns, Enqueue
  <2> QED
    BY <1>2, <2>1 DEF Unregister
<1>3. ASSUME NEW msg \in RelayMessage, Broadcast(msg) PROVE HubTypeOK'
  <2>1. broadcast' \in Seq(RelayMessage) /\ Len(broadcast') <= BroadcastCap
    BY <1>3, Enqueue DEF Broadcast
  <2> QED
    BY <1>3, <2>1 DEF Broadcast
<1>4. ASSUME NEW k \in Keys, NEW rs \in RuleSlice, PushRuleUpdate(k, rs) PROVE HubTypeOK'
  <2>1. [key |-> k, rules |-> rs] \in RuleUpdateReq
    BY DEF RuleUpdateReq
  <2>2. ruleUpdate' \in Seq(RuleUpdateReq) /\ Len(ruleUpdate') <= HubCap
    BY <1>4, <2>1, Enqueue DEF PushRuleUpdate
  <2> QED
    BY <1>4, <2>2 DEF PushRuleUpdate
<1>5. ASSUME NEW a \in Admins, NEW k \in Keys, SendToClient(a, k) PROVE HubTypeOK'
  <2>1. [key |-> k, admin |-> a] \in DirectSendReq
    BY DEF DirectSendReq
  <2>2. directSend' \in Seq(DirectSendReq) /\ Len(directSend') <= HubCap
    BY <1>5, <2>1, Enqueue DEF SendToClient
  <2> QED
    BY <1>5, <2>2 DEF SendToClient
<1>6. ASSUME NEW a \in Admins, GetConnectedClients(a) PROVE HubTypeOK'
  BY <1>6 DEF GetConnectedClients
<1> QED
  BY <1>1, <1>2, <1>3, <1>4, <1>5, <1>6

\* The database read returns a slice of rules.
LEMMA GetRulesType ==
    ASSUME TablesTypeOK, NEW k \in Keys
    PROVE  GetRulesForClient(k) \in RuleSlice
  BY DEF TablesTypeOK, GetRulesForClient, RuleSlice

\* A step that leaves the hub's variables alone leaves its types alone.
LEMMA HubSame == HubTypeOK /\ UNCHANGED hubVars => HubTypeOK'
  BY DEF HubTypeOK, hubVars, queueVars, clientVars, historyVars

\* A packet that enters the broadcast channel is typed.
LEMMA PublishTypeOK ==
    ASSUME TypeOK, QueuesOnly, NEW r \in RuleIds, NEW k \in Keys \cup {NoKey}, Publish(r, k)
    PROVE  /\ HubTypeOK'
           /\ published' \in Seq([rule : RuleIds, sender : Keys \cup {NoKey}])
<1>1. [id |-> Len(published) + 1, rule |-> r, sender |-> k] \in RelayMessage
  BY DEF TypeOK, RelayMessage
<1>2. HubTypeOK'
  BY <1>1, EntryTypeOK DEF TypeOK, Publish
<1>3. [rule |-> r, sender |-> k] \in [rule : RuleIds, sender : Keys \cup {NoKey}]
  OBVIOUS
<1> QED
  BY <1>2, <1>3 DEF TypeOK, Publish

\* The steps of a connection.
LEMMA ConnStepTypeOK ==
    ASSUME TypeOK, NEW c \in Conns, ConnStep(c)
    PROVE  TypeOK'
<1> USE DEF connVars, dbVars, adminVars, GoTo
<1>1. ASSUME NEW k \in Keys, AuthKey(c, k) \/ AuthCredentials(c, k) PROVE TypeOK'
  <2>1. Authenticated(c, k) /\ keyState' \in [Keys -> {"none", "valid", "revoked"}]
    BY <1>1 DEF AuthKey, AuthCredentials, TypeOK, TablesTypeOK
  <2>2. HubTypeOK'
    <3>1. /\ connKey' = [connKey EXCEPT ![c] = k]
          /\ UNCHANGED <<queueVars, clients, rules, sendCh, closed, hubUp, ctxUp,
                         panicked, reply, historyVars>>
      BY <2>1 DEF Authenticated
    <3>2. /\ connKey' \in [Conns -> Keys \cup {NoKey}]
          /\ \A d \in Conns : connKey[d] \in Keys => connKey'[d] \in Keys
      BY <3>1 DEF TypeOK, HubTypeOK
    <3>3. /\ \A i \in DOMAIN register : register[i] \in Conns /\ connKey[register[i]] \in Keys
          /\ \A i \in DOMAIN unregister : unregister[i] \in Conns /\ connKey[unregister[i]] \in Keys
      <4>1. register \in Seq(Conns) /\ unregister \in Seq(Conns)
        BY DEF TypeOK, HubTypeOK
      <4>2. /\ \A i \in DOMAIN register : register[i] \in Conns
            /\ \A i \in DOMAIN unregister : unregister[i] \in Conns
        BY <4>1
      <4> QED
        BY <4>2 DEF TypeOK, HubTypeOK
    <3>4. /\ \A i \in DOMAIN register' : connKey'[register'[i]] \in Keys
          /\ \A i \in DOMAIN unregister' : connKey'[unregister'[i]] \in Keys
      <4>1. register' = register /\ unregister' = unregister
        BY <3>1 DEF queueVars
      <4>2. ASSUME NEW i \in DOMAIN register PROVE connKey'[register[i]] \in Keys
        BY <3>2, <3>3
      <4>3. ASSUME NEW i \in DOMAIN unregister PROVE connKey'[unregister[i]] \in Keys
        BY <3>2, <3>3
      <4> QED
        BY <4>1, <4>2, <4>3
    <3> QED
      BY <3>1, <3>2, <3>4 DEF TypeOK, HubTypeOK, queueVars, historyVars
  <2>3. ConnTypeOK' /\ TablesTypeOK'
    BY <2>1 DEF TypeOK, ConnTypeOK, TablesTypeOK, Authenticated
  <2>4. \A d \in Conns : hpc'[d] \notin {"none", "done"} => connKey'[d] \in Keys
    <3>1. /\ hpc' = [hpc EXCEPT ![c] = "get rules"]
          /\ connKey' = [connKey EXCEPT ![c] = k]
      BY <2>1 DEF Authenticated
    <3> QED
      BY <3>1 DEF TypeOK, ConnTypeOK, HubTypeOK
  <2> QED
    BY <2>1, <2>2, <2>3, <2>4 DEF TypeOK, Authenticated
<1>2. ASSUME AuthFail(c) \/ SendAuthOK(c) \/ AuthOKFails(c) PROVE TypeOK'
  <2>1. HubTypeOK'
    BY <1>2, HubSame DEF AuthFail, SendAuthOK, AuthOKFails, TypeOK
  <2>2. view' \in [Conns -> RuleSlice]
    <3>1. rules[c] \in RuleSlice /\ view \in [Conns -> RuleSlice]
      BY DEF TypeOK, HubTypeOK, ConnTypeOK
    <3>2. view' = view \/ view' = [view EXCEPT ![c] = IF peer[c] = "up" THEN rules[c] ELSE @]
      BY <1>2 DEF AuthFail, SendAuthOK, AuthOKFails
    <3> QED
      BY <3>1, <3>2
  <2>4. ConnTypeOK' /\ TablesTypeOK'
    BY <1>2, <2>2 DEF AuthFail, SendAuthOK, AuthOKFails, TypeOK, ConnTypeOK, TablesTypeOK
  <2>3. \A d \in Conns : hpc'[d] \notin {"none", "done"} => connKey'[d] \in Keys
    BY <1>2 DEF AuthFail, SendAuthOK, AuthOKFails, TypeOK, ConnTypeOK, hubVars, clientVars
  <2> QED
    BY <1>2, <2>1, <2>3, <2>4 DEF AuthFail, SendAuthOK, AuthOKFails, TypeOK
<1>3. ASSUME ReadRules(c) PROVE TypeOK'
  <2>1. connKey[c] \in Keys
    BY <1>3 DEF ReadRules, TypeOK
  <2>2. GetRulesForClient(connKey[c]) \in RuleSlice
    BY <2>1, GetRulesType DEF TypeOK
  <2>3. HubTypeOK'
    BY <1>3, <2>2 DEF ReadRules, TypeOK, HubTypeOK, queueVars
  <2>4. ConnTypeOK' /\ TablesTypeOK'
    BY <1>3 DEF ReadRules, TypeOK, ConnTypeOK, TablesTypeOK
  <2> QED
    <3>1. \A d \in Conns : hpc'[d] \notin {"none", "done"} => connKey'[d] \in Keys
      BY <1>3, <2>1 DEF ReadRules, TypeOK, ConnTypeOK
    <3> QED
      BY <1>3, <2>3, <2>4, <3>1 DEF ReadRules, TypeOK
<1>4. ASSUME StartPumps(c) PROVE TypeOK'
  <2>1. connKey[c] \in Keys /\ QueuesOnly /\ Register(c)
    BY <1>4 DEF StartPumps, TypeOK
  <2>2. HubTypeOK'
    BY <2>1, EntryTypeOK DEF TypeOK
  <2>3. ConnTypeOK' /\ TablesTypeOK'
    BY <1>4 DEF StartPumps, TypeOK, ConnTypeOK, TablesTypeOK
  <2> QED
    <3>1. \A d \in Conns : hpc'[d] \notin {"none", "done"} => connKey'[d] \in Keys
      BY <1>4, <2>1 DEF StartPumps, TypeOK, ConnTypeOK, QueuesOnly, clientVars
    <3> QED
      BY <1>4, <2>2, <2>3, <3>1 DEF StartPumps, TypeOK
<1>5. ASSUME Finish(c) PROVE TypeOK'
  <2>1. connKey[c] \in Keys /\ QueuesOnly /\ Unregister(c)
    BY <1>5 DEF Finish, TypeOK
  <2>2. HubTypeOK'
    BY <2>1, EntryTypeOK DEF TypeOK
  <2>3. ConnTypeOK' /\ TablesTypeOK'
    BY <1>5 DEF Finish, TypeOK, ConnTypeOK, TablesTypeOK
  <2> QED
    <3>1. \A d \in Conns : hpc'[d] \notin {"none", "done"} => connKey'[d] \in Keys
      BY <1>5, <2>1 DEF Finish, TypeOK, ConnTypeOK, QueuesOnly, clientVars
    <3> QED
      BY <1>5, <2>2, <2>3, <3>1 DEF Finish, TypeOK
<1>6. ASSUME NEW r \in RuleIds, ReceiveRelayPacket(c, r) PROVE TypeOK'
  <2>1. HubTypeOK'
    BY <1>6, HubSame DEF ReceiveRelayPacket, TypeOK
  <2>2. ConnTypeOK' /\ TablesTypeOK'
    BY <1>6 DEF ReceiveRelayPacket, TypeOK, ConnTypeOK, TablesTypeOK
  <2> QED
    BY <1>6, <2>1, <2>2 DEF ReceiveRelayPacket, TypeOK, hubVars, clientVars
<1>7. ASSUME PublishRelayPacket(c) PROVE TypeOK'
  <2>1. /\ pend[c] \in RuleIds /\ connKey[c] \in Keys \cup {NoKey}
        /\ QueuesOnly /\ Publish(pend[c], connKey[c])
    BY <1>7 DEF PublishRelayPacket, TypeOK, ConnTypeOK, HubTypeOK
  <2>2. HubTypeOK' /\ published' \in Seq([rule : RuleIds, sender : Keys \cup {NoKey}])
    BY <2>1, PublishTypeOK
  <2>3. ConnTypeOK' /\ TablesTypeOK'
    BY <1>7 DEF PublishRelayPacket, TypeOK, ConnTypeOK, TablesTypeOK
  <2> QED
    BY <1>7, <2>1, <2>2, <2>3 DEF PublishRelayPacket, TypeOK, QueuesOnly, clientVars
<1>8. ASSUME ReadFails(c) \/ WritePumpEnds(c) \/ PeerGone(c) PROVE TypeOK'
  <2>1. HubTypeOK'
    BY <1>8, HubSame DEF ReadFails, WritePumpEnds, PeerGone, TypeOK
  <2>2. ConnTypeOK' /\ TablesTypeOK'
    <3>1. TablesTypeOK'
      BY <1>8 DEF ReadFails, WritePumpEnds, PeerGone, TypeOK, TablesTypeOK
    <3>2. UNCHANGED <<hpc, pend, got, view>>
      BY <1>8 DEF ReadFails, WritePumpEnds, PeerGone
    <3>3. /\ rpc' = [rpc EXCEPT ![c] = "end"] \/ rpc' = rpc
          /\ wpc' = [wpc EXCEPT ![c] = "end"] \/ wpc' = wpc
          /\ peer' = [peer EXCEPT ![c] = "gone"] \/ peer' = peer
      BY <1>8 DEF ReadFails, WritePumpEnds, PeerGone
    <3>4. /\ rpc \in [Conns -> {"off", "read", "publish", "end"}]
          /\ wpc \in [Conns -> {"off", "run", "end"}]
          /\ peer \in [Conns -> {"up", "gone"}]
      BY DEF TypeOK, ConnTypeOK
    <3>5. /\ rpc' \in [Conns -> {"off", "read", "publish", "end"}]
          /\ wpc' \in [Conns -> {"off", "run", "end"}]
          /\ peer' \in [Conns -> {"up", "gone"}]
          /\ \A d \in Conns : rpc'[d] = "publish" => rpc[d] = "publish"
      BY <3>3, <3>4
    <3> QED
      BY <3>1, <3>2, <3>5 DEF TypeOK, ConnTypeOK
  <2> QED
    BY <1>8, <2>1, <2>2 DEF ReadFails, WritePumpEnds, PeerGone, TypeOK, hubVars, clientVars
<1>9. ASSUME sendCh[c] # <<>>, Dequeue(c)
      PROVE  /\ sendCh' \in [Conns -> Seq(SendMsg)]
             /\ \A d \in Conns : Len(sendCh'[d]) <= SendCap
             /\ Head(sendCh[c]) \in SendMsg
  <2>1. sendCh[c] \in Seq(SendMsg) /\ Len(sendCh[c]) <= SendCap /\ SendCap \in Nat
    BY HubAssumption DEF TypeOK, HubTypeOK
  <2>2. /\ Tail(sendCh[c]) \in Seq(SendMsg) /\ Len(Tail(sendCh[c])) <= SendCap
        /\ Head(sendCh[c]) \in SendMsg
    BY <1>9, <2>1, Serve
  <2> QED
    BY <1>9, <2>2 DEF TypeOK, HubTypeOK, Dequeue
<1>10. ASSUME WriteMessage(c) PROVE TypeOK'
  <2> DEFINE msg == Head(sendCh[c])
  <2>1. msg \in SendMsg
    BY <1>9, <1>10 DEF WriteMessage
  <2>2. /\ msg.type = "RelayPacket" => msg.id \in Nat
        /\ msg.type = "RuleUpdate" => msg.rules \in RuleSlice
    BY <2>1 DEF SendMsg, PacketMsg, RulesMsg, CommandMsg
  <2>3. HubTypeOK'
    BY <1>9, <1>10 DEF WriteMessage, TypeOK, HubTypeOK, queueVars, historyVars
  <2>4. got' \in [Conns -> Seq(Nat)] /\ view' \in [Conns -> RuleSlice]
    <3>1. /\ got' = [got EXCEPT ![c] = IF peer[c] = "up" /\ msg.type = "RelayPacket"
                                           THEN Append(@, msg.id) ELSE @]
          /\ view' = [view EXCEPT ![c] = IF peer[c] = "up" /\ msg.type = "RuleUpdate"
                                             THEN msg.rules ELSE @]
      BY <1>10 DEF WriteMessage
    <3>2. got \in [Conns -> Seq(Nat)] /\ view \in [Conns -> RuleSlice]
      BY DEF TypeOK, ConnTypeOK
    <3>3. msg.type = "RelayPacket" => Append(got[c], msg.id) \in Seq(Nat)
      BY <2>2, <3>2
    <3> HIDE DEF msg
    <3> QED
      BY <2>2, <3>1, <3>2, <3>3
  <2>5. ConnTypeOK' /\ TablesTypeOK'
    BY <1>10, <2>4 DEF WriteMessage, TypeOK, ConnTypeOK, TablesTypeOK
  <2> QED
    BY <1>10, <2>3, <2>5 DEF WriteMessage, TypeOK
<1>11. ASSUME WriteFails(c) PROVE TypeOK'
  <2>1. HubTypeOK'
    BY <1>9, <1>11 DEF WriteFails, TypeOK, HubTypeOK, queueVars, historyVars
  <2>2. ConnTypeOK' /\ TablesTypeOK'
    BY <1>11 DEF WriteFails, TypeOK, ConnTypeOK, TablesTypeOK
  <2> QED
    BY <1>11, <2>1, <2>2 DEF WriteFails, TypeOK
<1> QED
  BY <1>1, <1>2, <1>3, <1>4, <1>5, <1>6, <1>7, <1>8, <1>10, <1>11 DEF ConnStep

\* What a web request carries at each place it can be.
LEMMA AdminStates ==
    /\ IdleAdmin \in AdminState
    /\ [pc |-> "reply"] \in AdminState
    /\ \A k \in Keys : [pc |-> "get rules", key |-> k] \in AdminState
    /\ \A k \in Keys, rs \in RuleSlice : [pc |-> "push", key |-> k, rules |-> rs] \in AdminState
    /\ \A s \in AdminState : s.pc \in {"get rules", "push"} => s.key \in Keys
    /\ \A s \in AdminState : s.pc = "push" => s.rules \in RuleSlice
<1>1. ASSUME NEW s \in AdminState, s.pc \in {"get rules", "push"}
      PROVE  s.key \in Keys /\ (s.pc = "push" => s.rules \in RuleSlice)
  <2>1. s # IdleAdmin /\ s # [pc |-> "reply"]
    <3>1. IdleAdmin.pc = "idle" /\ [pc |-> "reply"].pc = "reply"
      BY DEF IdleAdmin
    <3>2. s.pc # "idle" /\ s.pc # "reply"
      BY <1>1
    <3> QED
      BY <3>1, <3>2
  <2>2. CASE s \in [pc : {"get rules"}, key : Keys]
    BY <2>2
  <2>3. CASE s \in [pc : {"push"}, key : Keys, rules : RuleSlice]
    BY <2>3
  <2> QED
    BY <2>1, <2>2, <2>3 DEF AdminState
<1> QED
  BY <1>1 DEF AdminState

\* The steps of a web request.
LEMMA AdminStepTypeOK ==
    ASSUME TypeOK, NEW a \in Admins, AdminStep(a)
    PROVE  TypeOK'
<1> USE DEF connVars, dbVars, adminVars, NewRequest, DatabaseOnly
<1>1. ASSUME NEW k \in Keys, NEW r \in RuleIds,
             HandleAssignRule(a, k, r) \/ HandleUnassignRule(a, k, r)
      PROVE  TypeOK'
  <2>1. HubTypeOK'
    BY <1>1, HubSame DEF HandleAssignRule, HandleUnassignRule, TypeOK
  <2>2. ConnTypeOK' /\ TablesTypeOK'
    <3>1. ConnTypeOK' /\ enabled' \subseteq RuleIds /\ UNCHANGED <<direction, keyState, touched>>
      BY <1>1 DEF HandleAssignRule, HandleUnassignRule, TypeOK, ConnTypeOK, TablesTypeOK
    <3>2. assigned' \subseteq Keys \X RuleIds
      <4>1. assigned' \in {assigned \cup {<<k, r>>}, assigned \ {<<k, r>>}}
        BY <1>1 DEF HandleAssignRule, HandleUnassignRule
      <4>2. <<k, r>> \in Keys \X RuleIds /\ assigned \subseteq Keys \X RuleIds
        BY DEF TypeOK, TablesTypeOK
      <4> QED
        BY <4>1, <4>2
    <3>3. granted' \subseteq Keys \X RuleIds
      BY <1>1 DEF HandleAssignRule, HandleUnassignRule, TypeOK, TablesTypeOK, Remember
    <3>4. touched' \subseteq RuleIds
      BY <3>1 DEF TypeOK, TablesTypeOK
    <3> QED
      BY <3>1, <3>2, <3>3, <3>4 DEF TypeOK, TablesTypeOK
  <2>3. admin' \in [Admins -> AdminState] /\ opsMade' \in Nat
    <3> DEFINE st == [pc |-> "get rules", key |-> k]
    <3>1. st \in AdminState
      BY AdminStates
    <3>2. admin' = [admin EXCEPT ![a] = st] /\ opsMade' = opsMade + 1
      BY <1>1 DEF HandleAssignRule, HandleUnassignRule
    <3>3. admin \in [Admins -> AdminState] /\ opsMade \in Nat
      BY DEF TypeOK
    <3> HIDE DEF st
    <3> QED
      BY <3>1, <3>2, <3>3
  <2>4. unsure' \subseteq Keys
    <3>1. unsure \subseteq Keys /\ Contend(k)
      BY <1>1 DEF HandleAssignRule, HandleUnassignRule, TypeOK
    <3> QED
      BY <3>1 DEF Contend
  <2> QED
    BY <1>1, <2>1, <2>2, <2>3, <2>4
    DEF HandleAssignRule, HandleUnassignRule, TypeOK, hubVars, clientVars
<1>2. ASSUME ReadForPush(a) PROVE TypeOK'
  <2>1. HubTypeOK'
    BY <1>2, HubSame DEF ReadForPush, TypeOK
  <2>2. ConnTypeOK' /\ TablesTypeOK'
    BY <1>2 DEF ReadForPush, TypeOK, ConnTypeOK, TablesTypeOK
  <2>3. admin[a].key \in Keys
    BY <1>2, AdminStates DEF ReadForPush, TypeOK
  <2>4. GetRulesForClient(admin[a].key) \in RuleSlice
    BY <2>3, GetRulesType DEF TypeOK
  <2>5. [pc |-> "push", key |-> admin[a].key, rules |-> GetRulesForClient(admin[a].key)]
            \in AdminState
    BY <2>3, <2>4, AdminStates
  <2>6. admin' \in [Admins -> AdminState] /\ opsMade' \in Nat
    BY <1>2, <2>5 DEF ReadForPush, TypeOK
  <2> QED
    BY <1>2, <2>1, <2>2, <2>6 DEF ReadForPush, TypeOK, hubVars, clientVars
<1>3. ASSUME PushRules(a) PROVE TypeOK'
  <2>1. admin[a].key \in Keys /\ admin[a].rules \in RuleSlice
    BY <1>3, AdminStates DEF PushRules, TypeOK
  <2>2. HubTypeOK'
    BY <1>3, <2>1, EntryTypeOK DEF PushRules, TypeOK
  <2>3. ConnTypeOK' /\ TablesTypeOK'
    BY <1>3 DEF PushRules, TypeOK, ConnTypeOK, TablesTypeOK
  <2>4. admin' \in [Admins -> AdminState] /\ opsMade' \in Nat
    BY <1>3, AdminStates DEF PushRules, TypeOK
  <2> QED
    BY <1>3, <2>2, <2>3, <2>4 DEF PushRules, TypeOK, QueuesOnly, clientVars
<1>4. ASSUME \/ \E r \in RuleIds : HandleToggleRule(a, r) \/ HandleDeleteRule(a, r)
             \/ \E r \in RuleIds, d \in Directions : HandleUpdateRule(a, r, d)
             \/ \E k \in Keys : HandleCreateKey(a, k) \/ HandleRevokeKey(a, k)
      PROVE  TypeOK'
  <2>1. HubTypeOK'
    BY <1>4, HubSame
    DEF HandleToggleRule, HandleUpdateRule, HandleDeleteRule, HandleCreateKey,
        HandleRevokeKey, TypeOK
  <2>2. ConnTypeOK' /\ TablesTypeOK'
    <3>1. ConnTypeOK' /\ assigned' = assigned
      <4>1. UNCHANGED connVars /\ assigned' = assigned
        BY <1>4 DEF HandleToggleRule, HandleUpdateRule, HandleDeleteRule, HandleCreateKey,
                    HandleRevokeKey, DatabaseOnly
      <4> QED
        BY <4>1 DEF TypeOK, ConnTypeOK, connVars
    <3>2. granted' \subseteq Keys \X RuleIds
      BY <1>4 DEF HandleToggleRule, HandleUpdateRule, HandleDeleteRule, HandleCreateKey,
                  HandleRevokeKey, TypeOK, TablesTypeOK, Remember
    <3>3. /\ enabled' \subseteq RuleIds
          /\ direction' \in [RuleIds -> Directions \cup {NoRule}]
          /\ touched' \subseteq RuleIds
      BY <1>4 DEF HandleToggleRule, HandleUpdateRule, HandleDeleteRule, HandleCreateKey,
                  HandleRevokeKey, TypeOK, TablesTypeOK
    <3>4. keyState' \in [Keys -> {"none", "valid", "revoked"}]
      BY <1>4 DEF HandleToggleRule, HandleUpdateRule, HandleDeleteRule, HandleCreateKey,
                  HandleRevokeKey, TypeOK, TablesTypeOK
    <3> QED
      BY <3>1, <3>2, <3>3, <3>4 DEF TypeOK, TablesTypeOK
  <2> QED
    BY <1>4, <2>1, <2>2
    DEF HandleToggleRule, HandleUpdateRule, HandleDeleteRule, HandleCreateKey,
        HandleRevokeKey, TypeOK, hubVars, clientVars
<1>5. ASSUME (\E k \in Keys : HandleSendClientUpdate(a, k)) \/ HandleGetClients(a)
      PROVE  TypeOK'
  <2>1. HubTypeOK'
    BY <1>5, EntryTypeOK DEF HandleSendClientUpdate, HandleGetClients, TypeOK
  <2>2. ConnTypeOK' /\ TablesTypeOK'
    BY <1>5 DEF HandleSendClientUpdate, HandleGetClients, TypeOK, ConnTypeOK, TablesTypeOK
  <2>3. admin' \in [Admins -> AdminState] /\ opsMade' \in Nat
    <3>1. admin' = [admin EXCEPT ![a] = [pc |-> "reply"]] /\ opsMade' = opsMade + 1
      BY <1>5 DEF HandleSendClientUpdate, HandleGetClients
    <3>2. [pc |-> "reply"] \in AdminState
      BY AdminStates
    <3>3. admin \in [Admins -> AdminState] /\ opsMade \in Nat
      BY DEF TypeOK
    <3> QED
      BY <3>1, <3>2, <3>3
  <2> QED
    BY <1>5, <2>1, <2>2, <2>3
    DEF HandleSendClientUpdate, HandleGetClients, TypeOK, QueuesOnly, clientVars
<1>6. ASSUME ReceiveReply(a) PROVE TypeOK'
  <2>1. HubTypeOK'
    BY <1>6 DEF ReceiveReply, TypeOK, HubTypeOK, queueVars, clientVars, historyVars
  <2>2. ConnTypeOK' /\ TablesTypeOK'
    BY <1>6 DEF ReceiveReply, TypeOK, ConnTypeOK, TablesTypeOK
  <2>3. admin' \in [Admins -> AdminState]
    BY <1>6, AdminStates DEF ReceiveReply, TypeOK
  <2> QED
    BY <1>6, <2>1, <2>2, <2>3 DEF ReceiveReply, TypeOK, clientVars
<1>7. ASSUME ReadForPushFails(a) PROVE TypeOK'
  <2>1. HubTypeOK'
    BY <1>7, HubSame DEF ReadForPushFails, TypeOK
  <2>2. ConnTypeOK' /\ TablesTypeOK'
    BY <1>7 DEF ReadForPushFails, TypeOK, ConnTypeOK, TablesTypeOK
  <2>3. admin' \in [Admins -> AdminState] /\ opsMade' \in Nat
    BY <1>7, AdminStates DEF ReadForPushFails, TypeOK
  <2>4. admin[a].key \in Keys
    BY <1>7, AdminStates DEF ReadForPushFails, TypeOK
  <2>5. unsure' \subseteq Keys
    BY <1>7, <2>4 DEF ReadForPushFails, TypeOK
  <2> QED
    BY <1>7, <2>1, <2>2, <2>3, <2>5 DEF ReadForPushFails, TypeOK, hubVars, clientVars
<1> QED
  BY <1>1, <1>2, <1>3, <1>4, <1>5, <1>6, <1>7 DEF AdminStep

(* The hub, the connections, the tables and the requests hold values of    *)
(* their types and every channel stays within its capacity, whatever the   *)
(* number of connections and the sizes of the channels (RelayServer).      *)
THEOREM TypeCorrect == Spec => []TypeOK
<1>1. TypeOK /\ [Next]_vars => TypeOK'
  <2> SUFFICES ASSUME TypeOK, [Next]_vars PROVE TypeOK'
    OBVIOUS
  <2>1. CASE HubStep
    <3>1. HubTypeOK'
      BY <2>1, HubNextTypeOK DEF HubStep, TypeOK
    <3>2. ConnTypeOK' /\ TablesTypeOK'
      BY <2>1 DEF HubStep, HubOnly, connVars, dbVars, TypeOK, ConnTypeOK, TablesTypeOK
    <3>3. connKey' = connKey
      BY <2>1 DEF HubStep, HubNext, HubRegister, HubUnregister, HubBroadcast,
                  HubRuleUpdate, HubDirectSend, HubSnapshot, HubStop, clientVars
    <3> QED
      BY <2>1, <3>1, <3>2, <3>3 DEF HubStep, HubOnly, connVars, adminVars, TypeOK
  <2>2. ASSUME NEW r \in RuleIds, CapturePacket(r) PROVE TypeOK'
    <3>1. HubTypeOK' /\ published' \in Seq([rule : RuleIds, sender : Keys \cup {NoKey}])
      BY <2>2, PublishTypeOK DEF CapturePacket
    <3> QED
      BY <2>2, <3>1 DEF CapturePacket, QueuesOnly, clientVars, connVars, dbVars, adminVars,
                        TypeOK, ConnTypeOK, TablesTypeOK
  <2>3. CASE Shutdown
    <3>1. HubTypeOK'
      BY <2>3 DEF Shutdown, TypeOK, HubTypeOK, queueVars, clientVars, historyVars
    <3> QED
      BY <2>3, <3>1 DEF Shutdown, clientVars, connVars, dbVars, adminVars, TypeOK,
                        ConnTypeOK, TablesTypeOK
  <2>4. CASE UNCHANGED vars
    <3>1. HubTypeOK'
      BY <2>4, HubSame DEF vars, TypeOK
    <3> QED
      BY <2>4, <3>1 DEF vars, hubVars, clientVars, connVars, dbVars, adminVars, TypeOK,
                        ConnTypeOK, TablesTypeOK
  <2> QED
    BY <2>1, <2>2, <2>3, <2>4, ConnStepTypeOK, AdminStepTypeOK DEF Next, Idle
<1> QED
  BY InitTypeOK, <1>1, PTL DEF Spec

(***************************************************************************)
(* The hub neither closes a SendCh twice nor sends on a closed one, and    *)
(* loses no live connection.                                               *)
(***************************************************************************)
LEMMA InitHubInv == Init => HubInv
  BY DEF Init, HubInit, HubInv, NoPanic, NoOrphan, MapHoldsOpen, QueuedAreNew,
         UnstartedAreOpen, LeaversAreDone, Queued

\* What HubInv reads, other than hpc.
hubCore == <<register, unregister, clients, connKey, closed, hubUp, panicked>>

\* Steps that write none of it.
LEMMA CoreSame == HubInv /\ UNCHANGED <<hubCore, hpc>> => HubInv'
  BY DEF hubCore, HubInv, NoPanic, NoOrphan, MapHoldsOpen, QueuedAreNew,
         UnstartedAreOpen, LeaversAreDone, Queued

\* A message is offered to registered connections only, and those are open.
LEMMA OfferIsSafe ==
    ASSUME TypeOK, HubInv, hubUp, NEW msg, NEW C,
           \A c \in C : \E k \in Keys : clients[k] = c /\ c # NoConn,
           Offer(C, msg), UNCHANGED <<register, unregister, clients, connKey, closed, hubUp, hpc>>
    PROVE  HubInv'
<1>1. \A c \in C : ~closed[c]
  BY DEF HubInv, MapHoldsOpen
<1>2. panicked' = FALSE
  BY <1>1 DEF Offer, HubInv, NoPanic, TypeOK, HubTypeOK
<1>3. panicked = FALSE
  BY DEF HubInv, NoPanic, TypeOK, HubTypeOK
<1>4. UNCHANGED <<hubCore, hpc>>
  BY <1>2, <1>3 DEF hubCore
<1> QED
  BY <1>4, CoreSame

\* A handler that has not registered its connection goes on, or gives up.
LEMMA UnstartedMoves ==
    \A c \in Conns, k \in Keys \cup {NoKey}, at \in {"get rules", "auth ok", "register", "done"} :
        /\ TypeOK /\ HubInv
        /\ hpc[c] \notin {"wait", "done"} /\ GoTo(c, at)
        /\ connKey' = [connKey EXCEPT ![c] = k]
        /\ UNCHANGED <<register, unregister, clients, closed, hubUp, panicked>>
        => HubInv'
<1> SUFFICES ASSUME NEW c, NEW k, NEW at PROVE
        /\ c \in Conns /\ k \in Keys \cup {NoKey} /\ at # "wait"
        /\ at \in {"none", "get rules", "auth ok", "register", "wait", "done"}
        /\ TypeOK /\ HubInv
        /\ hpc[c] \notin {"wait", "done"} /\ GoTo(c, at)
        /\ connKey' = [connKey EXCEPT ![c] = k]
        /\ UNCHANGED <<register, unregister, clients, closed, hubUp, panicked>>
        => HubInv'
  OBVIOUS
<1>a. SUFFICES ASSUME
        /\ c \in Conns /\ k \in Keys \cup {NoKey} /\ at # "wait"
        /\ at \in {"none", "get rules", "auth ok", "register", "wait", "done"}
        /\ TypeOK /\ HubInv
        /\ hpc[c] \notin {"wait", "done"} /\ GoTo(c, at)
        /\ connKey' = [connKey EXCEPT ![c] = k]
        /\ UNCHANGED <<register, unregister, clients, closed, hubUp, panicked>>
      PROVE HubInv'
  OBVIOUS
<1>1. /\ hpc' = [hpc EXCEPT ![c] = at]
      /\ connKey' = [connKey EXCEPT ![c] = k]
      /\ UNCHANGED <<register, unregister, clients, closed, hubUp, panicked>>
      /\ c \in Conns /\ at # "wait"
  BY <1>a DEF GoTo
<1>2. /\ hpc \in [Conns -> {"none", "get rules", "auth ok", "register", "wait", "done"}]
      /\ connKey \in [Conns -> Keys \cup {NoKey}]
      /\ clients \in [Keys -> Conns \cup {NoConn}]
      /\ register \in Seq(Conns) /\ unregister \in Seq(Conns)
  BY <1>a DEF TypeOK, HubTypeOK, ConnTypeOK
<1>3. \A d \in Conns : d # c => hpc'[d] = hpc[d] /\ connKey'[d] = connKey[d]
  BY <1>1, <1>2
<1>4. hpc'[c] # "wait"
  BY <1>1, <1>2
<1>5. /\ \A i \in DOMAIN register : register[i] \in Conns
      /\ \A i \in DOMAIN unregister : unregister[i] \in Conns /\ unregister[i] # c
  <2>1. /\ \A i \in DOMAIN register : register[i] \in Conns
        /\ \A i \in DOMAIN unregister : unregister[i] \in Conns
    BY <1>2, ElementsOf
  <2> QED
    BY <1>a, <2>1 DEF HubInv, LeaversAreDone
<1>6. hubUp => /\ \A i \in DOMAIN register : register[i] # c
               /\ \A kk \in Keys : clients[kk] # NoConn => clients[kk] # c /\ clients[kk] \in Conns
  <2>1. ASSUME hubUp, NEW i \in DOMAIN register PROVE register[i] # c
    BY <1>a, <2>1 DEF HubInv, QueuedAreNew
  <2>2. ASSUME hubUp, NEW kk \in Keys, clients[kk] # NoConn
        PROVE  clients[kk] # c /\ clients[kk] \in Conns
    BY <1>a, <1>2, <2>2 DEF HubInv, MapHoldsOpen
  <2> QED
    BY <2>1, <2>2
<1>7. ~closed[c]
  BY <1>a DEF HubInv, UnstartedAreOpen
<1>0. (hubUp' <=> hubUp) /\ (panicked' <=> panicked)
  <2>1. hubUp \in BOOLEAN /\ panicked \in BOOLEAN
    BY <1>a DEF TypeOK, HubTypeOK
  <2> QED
    BY <1>1, <2>1
<1>8. NoOrphan' /\ NoPanic'
  <2>1. NoPanic'
    BY <1>a, <1>0 DEF HubInv, NoPanic
  <2>2. ASSUME NEW d \in Conns, hubUp', hpc'[d] = "wait", ~closed'[d]
        PROVE  clients'[connKey'[d]] = d \/ Queued(d, register)'
    <3>1. d # c /\ hubUp /\ hpc[d] = "wait" /\ ~closed[d]
      BY <1>0, <1>1, <1>3, <1>4, <2>2
    <3>2. clients[connKey[d]] = d \/ Queued(d, register)
      BY <1>a, <3>1 DEF HubInv, NoOrphan
    <3> QED
      BY <1>1, <1>3, <3>1, <3>2 DEF Queued
  <2>3. NoOrphan'
    BY <2>2 DEF NoOrphan
  <2> QED
    BY <2>1, <2>3
<1>9. hubUp' => MapHoldsOpen'
  <2>1. SUFFICES ASSUME hubUp PROVE MapHoldsOpen'
    BY <1>0
  <2>2. MapHoldsOpen /\ clients' = clients /\ closed' = closed
    BY <1>a, <1>1, <2>1 DEF HubInv
  <2>3. ASSUME NEW kk \in Keys, clients[kk] # NoConn
        PROVE  /\ connKey'[clients[kk]] = connKey[clients[kk]]
               /\ hpc'[clients[kk]] = hpc[clients[kk]]
    BY <1>3, <1>6, <2>1, <2>3
  <2> QED
    BY <2>2, <2>3 DEF MapHoldsOpen
<1>10. hubUp' => QueuedAreNew'
  <2>1. SUFFICES ASSUME hubUp PROVE QueuedAreNew'
    BY <1>0
  <2>2. QueuedAreNew /\ register' = register /\ closed' = closed /\ clients' = clients
    BY <1>a, <1>1, <2>1 DEF HubInv
  <2>3. ASSUME NEW i \in DOMAIN register
        PROVE  hpc'[register[i]] = hpc[register[i]] /\ connKey'[register[i]] = connKey[register[i]]
    BY <1>3, <1>5, <1>6, <2>1
  <2> QED
    BY <2>2, <2>3 DEF QueuedAreNew
<1>11. UnstartedAreOpen' /\ LeaversAreDone'
  <2>1. UnstartedAreOpen'
    BY <1>a, <1>1, <1>3, <1>7 DEF HubInv, UnstartedAreOpen
  <2>2. LeaversAreDone'
    <3> SUFFICES ASSUME NEW i \in DOMAIN unregister PROVE hpc'[unregister[i]] = "done"
      BY <1>1 DEF LeaversAreDone
    <3>1. hpc[unregister[i]] = "done"
      BY <1>a DEF HubInv, LeaversAreDone
    <3> QED
      BY <1>3, <1>5, <3>1
  <2> QED
    BY <2>1, <2>2
<1> QED
  BY <1>8, <1>9, <1>10, <1>11 DEF HubInv

\* The hub takes a connection from the register channel.
LEMMA RegisterKeepsInv == TypeOK /\ HubInv /\ HubRegister /\ UNCHANGED hpc => HubInv'
<1>a. SUFFICES ASSUME TypeOK, HubInv, HubRegister, UNCHANGED hpc PROVE HubInv'
  OBVIOUS
<1> DEFINE c == Head(register)
           k == connKey[c]
<1>1. /\ register \in Seq(Conns) /\ register # <<>>
      /\ clients \in [Keys -> Conns \cup {NoConn}]
      /\ closed \in [Conns -> BOOLEAN]
      /\ \A i \in DOMAIN register : connKey[register[i]] \in Keys
  BY <1>a DEF TypeOK, HubTypeOK, HubRegister
<1>2. /\ c = register[1] /\ 1 \in DOMAIN register /\ c \in Conns
      /\ \A i \in DOMAIN register' : i + 1 \in DOMAIN register /\ register'[i] = register[i + 1]
      /\ \A i \in DOMAIN register : i = 1 \/ i - 1 \in DOMAIN register'
      /\ \A i \in DOMAIN register : register[i] \in Conns
  <2>1. register' = Tail(register)
    BY <1>a DEF HubRegister
  <2> QED
    BY <1>1, <2>1
<1>3. k \in Keys
  BY <1>1, <1>2
<1>4. /\ hubUp /\ hubUp' /\ hpc' = hpc /\ connKey' = connKey /\ unregister' = unregister
      /\ Close({clients[k]} \ {NoConn})
      /\ clients' = [clients EXCEPT ![k] = c]
  BY <1>a DEF HubRegister
<1>5. MapHoldsOpen /\ QueuedAreNew /\ NoOrphan /\ UnstartedAreOpen /\ LeaversAreDone /\ ~panicked
  BY <1>a, <1>4 DEF HubInv, NoPanic
<1>6. ~closed[c] /\ hpc[c] \in {"wait", "done"} /\ clients[k] # c
  BY <1>2, <1>5 DEF QueuedAreNew
<1>7. /\ \A d \in Conns : closed'[d] <=> closed[d] \/ (d = clients[k] /\ d # NoConn)
      /\ ~panicked'
  BY <1>1, <1>3, <1>4, <1>5 DEF Close, MapHoldsOpen
<1> HIDE DEF c, k
<1>8. MapHoldsOpen'
  BY <1>1, <1>2, <1>3, <1>4, <1>5, <1>6, <1>7 DEF MapHoldsOpen, k
<1>9. QueuedAreNew'
  <2>1. ASSUME NEW i \in DOMAIN register'
        PROVE  /\ i + 1 \in DOMAIN register /\ i + 1 # 1
               /\ register'[i] = register[i + 1] /\ register[i + 1] # c
               /\ register'[i] \in Conns
    <3>1. i + 1 \in DOMAIN register /\ register'[i] = register[i + 1]
      BY <1>2
    <3>2. i \in Nat /\ i # 0
      BY <1>1, <1>a DEF HubRegister
    <3>3. register[i + 1] = register[1] => i + 1 = 1
      BY <1>2, <1>5, <3>1 DEF QueuedAreNew
    <3> QED
      BY <1>2, <3>1, <3>2, <3>3
  <2>2. ASSUME NEW i \in DOMAIN register'
        PROVE  /\ ~closed'[register'[i]]
               /\ hpc'[register'[i]] \in {"wait", "done"}
               /\ clients'[connKey'[register'[i]]] # register'[i]
    <3> DEFINE d == register[i + 1]
    <3>1. /\ ~closed[d] /\ hpc[d] \in {"wait", "done"} /\ clients[connKey[d]] # d
          /\ connKey[d] \in Keys /\ d # c /\ d \in Conns /\ register'[i] = d
      BY <1>1, <2>1, <1>5 DEF QueuedAreNew
    <3>2. d # clients[k] \/ d = NoConn
      BY <1>3, <1>5, <3>1 DEF MapHoldsOpen
    <3>3. ~closed'[d]
      BY <1>7, <3>1, <3>2
    <3>4. clients'[connKey[d]] # d
      BY <1>1, <1>3, <1>4, <3>1
    <3> QED
      BY <1>4, <3>1, <3>3, <3>4
  <2>3. ASSUME NEW i \in DOMAIN register', NEW j \in DOMAIN register', register'[i] = register'[j]
        PROVE  i = j
    <3>1. i + 1 = j + 1
      BY <2>1, <2>3, <1>5 DEF QueuedAreNew
    <3>2. i \in Int /\ j \in Int
      BY <1>1, <1>2, <1>a DEF HubRegister
    <3> QED
      BY <3>1, <3>2
  <2> QED
    BY <2>2, <2>3 DEF QueuedAreNew
<1>10. NoOrphan'
  <2>1. ASSUME NEW d \in Conns, hpc[d] = "wait", ~closed'[d], d # c
        PROVE  clients'[connKey[d]] = d \/ Queued(d, register)'
    <3>1. ~closed[d] /\ (d # clients[k] \/ d = NoConn)
      BY <1>7, <2>1
    <3>2. CASE clients[connKey[d]] = d
      <4>1. connKey[d] \in Keys
        BY <1>a, <2>1 DEF TypeOK
      <4>2. connKey[d] # k
        BY <3>1, <3>2, HubAssumption
      <4> QED
        BY <1>1, <1>3, <1>4, <3>2, <4>1, <4>2
    <3>3. CASE Queued(d, register)
      <4>1. PICK i \in DOMAIN register : register[i] = d
        BY <3>3 DEF Queued
      <4>2. i # 1 /\ i - 1 \in DOMAIN register' /\ i \in Int
        BY <1>1, <1>2, <2>1, <4>1
      <4>3. register'[i - 1] = d
        BY <1>2, <4>1, <4>2
      <4> QED
        BY <4>2, <4>3 DEF Queued
    <3> QED
      BY <1>4, <1>5, <2>1, <3>1, <3>2, <3>3 DEF NoOrphan
  <2>2. clients'[connKey[c]] = c
    BY <1>1, <1>3, <1>4 DEF k
  <2> QED
    BY <1>4, <2>1, <2>2 DEF NoOrphan
<1>11. UnstartedAreOpen' /\ LeaversAreDone'
  <2>1. UnstartedAreOpen'
    BY <1>3, <1>4, <1>5, <1>7 DEF UnstartedAreOpen, MapHoldsOpen
  <2> QED
    BY <1>4, <1>5, <2>1 DEF LeaversAreDone
<1> QED
  BY <1>7, <1>8, <1>9, <1>10, <1>11 DEF HubInv, NoPanic

\* The hub takes a connection from the unregister channel.
LEMMA UnregisterKeepsInv == TypeOK /\ HubInv /\ HubUnregister /\ UNCHANGED hpc => HubInv'
<1>a. SUFFICES ASSUME TypeOK, HubInv, HubUnregister, UNCHANGED hpc PROVE HubInv'
  OBVIOUS
<1> DEFINE c == Head(unregister)
           k == connKey[c]
<1>1. /\ unregister \in Seq(Conns) /\ unregister # <<>>
      /\ register \in Seq(Conns)
      /\ clients \in [Keys -> Conns \cup {NoConn}]
      /\ closed \in [Conns -> BOOLEAN]
      /\ \A i \in DOMAIN unregister : connKey[unregister[i]] \in Keys
      /\ \A i \in DOMAIN register : connKey[register[i]] \in Keys
  BY <1>a DEF TypeOK, HubTypeOK, HubUnregister
<1>2. /\ c = unregister[1] /\ 1 \in DOMAIN unregister /\ c \in Conns
      /\ \A i \in DOMAIN unregister' :
            i + 1 \in DOMAIN unregister /\ unregister'[i] = unregister[i + 1]
  <2>1. unregister' = Tail(unregister)
    BY <1>a DEF HubUnregister
  <2> QED
    BY <1>1, <2>1
<1>3. k \in Keys /\ hpc[c] = "done"
  BY <1>1, <1>2, <1>a DEF HubInv, LeaversAreDone
<1>4. /\ hubUp /\ hubUp' /\ hpc' = hpc /\ connKey' = connKey /\ register' = register
  BY <1>a DEF HubUnregister
<1>5. MapHoldsOpen /\ QueuedAreNew /\ NoOrphan /\ UnstartedAreOpen /\ LeaversAreDone /\ ~panicked
  BY <1>a, <1>4 DEF HubInv, NoPanic
<1>6. LeaversAreDone'
  BY <1>2, <1>4, <1>5 DEF LeaversAreDone
<1>7. CASE ~IsRegistered(c)
  <2>1. UNCHANGED <<clients, closed>> /\ (panicked' = panicked)
    BY <1>a, <1>7 DEF HubUnregister
  <2>2. MapHoldsOpen' /\ QueuedAreNew' /\ UnstartedAreOpen' /\ ~panicked'
    BY <1>4, <1>5, <2>1 DEF MapHoldsOpen, QueuedAreNew, UnstartedAreOpen
  <2>3. NoOrphan'
    BY <1>4, <1>5, <2>1 DEF NoOrphan, Queued
  <2> QED
    BY <1>6, <2>2, <2>3 DEF HubInv, NoPanic
<1>8. CASE IsRegistered(c)
  <2>1. clients' = [clients EXCEPT ![k] = NoConn] /\ Close({c}) /\ clients[k] = c
    BY <1>a, <1>8 DEF HubUnregister, IsRegistered
  <2>2. /\ \A d \in Conns : closed'[d] <=> closed[d] \/ d = c
        /\ ~panicked'
    <3> HIDE DEF c, k
    <3>1. ~closed[c]
      BY <1>2, <1>3, <1>5, <2>1, HubAssumption DEF MapHoldsOpen
    <3> QED
      BY <1>2, <1>5, <2>1, <3>1 DEF Close
  <2> HIDE DEF c, k
  <2>3. clients'[k] = NoConn /\ \A kk \in Keys : kk # k => clients'[kk] = clients[kk]
    BY <1>1, <1>3, <2>1
  <2>4. MapHoldsOpen'
    <3>1. ASSUME NEW kk \in Keys, clients'[kk] # NoConn
          PROVE  /\ ~closed'[clients'[kk]]
                 /\ connKey'[clients'[kk]] = kk
                 /\ hpc'[clients'[kk]] \in {"wait", "done"}
      <4>1. kk # k /\ clients'[kk] = clients[kk] /\ clients[kk] \in Conns
        BY <1>1, <2>3, <3>1
      <4>2. /\ ~closed[clients[kk]] /\ connKey[clients[kk]] = kk
            /\ hpc[clients[kk]] \in {"wait", "done"}
        BY <1>5, <3>1, <4>1 DEF MapHoldsOpen
      <4>3. clients[kk] # c
        BY <4>1, <4>2 DEF k
      <4> QED
        BY <1>4, <2>2, <4>1, <4>2, <4>3
    <3> QED
      BY <3>1 DEF MapHoldsOpen
  <2>5. QueuedAreNew'
    <3>1. \A i \in DOMAIN register : register[i] \in Conns
      BY <1>1
    <3>2. ASSUME NEW i \in DOMAIN register
          PROVE  /\ ~closed'[register[i]]
                 /\ hpc[register[i]] \in {"wait", "done"}
                 /\ clients'[connKey[register[i]]] # register[i]
      <4>1. /\ ~closed[register[i]] /\ hpc[register[i]] \in {"wait", "done"}
            /\ clients[connKey[register[i]]] # register[i]
            /\ connKey[register[i]] \in Keys
        BY <1>1, <1>5 DEF QueuedAreNew
      <4>2. register[i] # c
        BY <2>1, <4>1 DEF k
      <4> QED
        BY <2>2, <2>3, <3>1, <4>1, <4>2, HubAssumption
    <3> QED
      BY <1>4, <1>5, <3>2 DEF QueuedAreNew
  <2>6. NoOrphan'
    <3>1. ASSUME NEW d \in Conns, hpc[d] = "wait", ~closed'[d]
          PROVE  clients'[connKey[d]] = d \/ Queued(d, register)
      <4>1. d # c /\ ~closed[d]
        BY <1>3, <2>2, <3>1
      <4>2. clients[connKey[d]] = d \/ Queued(d, register)
        BY <1>4, <1>5, <3>1, <4>1 DEF NoOrphan
      <4>3. connKey[d] \in Keys
        BY <1>a, <3>1 DEF TypeOK
      <4> QED
        BY <2>1, <2>3, <4>1, <4>2, <4>3
    <3> QED
      BY <1>4, <3>1 DEF NoOrphan, Queued
  <2>7. UnstartedAreOpen'
    BY <1>3, <1>4, <1>5, <2>2 DEF UnstartedAreOpen
  <2> QED
    BY <1>6, <2>2, <2>4, <2>5, <2>6, <2>7 DEF HubInv, NoPanic
<1> QED
  BY <1>7, <1>8

\* The hub closes what it holds and returns.
LEMMA StopKeepsInv == TypeOK /\ HubInv /\ HubStop /\ UNCHANGED hpc => HubInv'
<1>a. SUFFICES ASSUME TypeOK, HubInv, HubStop, UNCHANGED hpc PROVE HubInv'
  OBVIOUS
<1>1. /\ hubUp /\ ~hubUp' /\ hpc' = hpc /\ connKey' = connKey
      /\ unregister' = unregister /\ clients' = clients
      /\ Close(Connected)
  BY <1>a DEF HubStop, queueVars
<1>2. MapHoldsOpen /\ UnstartedAreOpen /\ LeaversAreDone /\ ~panicked
  BY <1>a, <1>1 DEF HubInv, NoPanic
<1>3. \A d \in Connected : d \in Conns /\ ~closed[d] /\ hpc[d] \in {"wait", "done"}
  BY <1>2, HubAssumption DEF Connected, MapHoldsOpen
<1>4. ~panicked'
  BY <1>1, <1>2, <1>3 DEF Close
<1>5. \A d \in Conns : closed'[d] => hpc'[d] \in {"wait", "done"}
  BY <1>1, <1>2, <1>3 DEF Close, UnstartedAreOpen
<1> QED
  BY <1>1, <1>2, <1>4, <1>5
  DEF HubInv, NoPanic, NoOrphan, UnstartedAreOpen, LeaversAreDone

\* What a channel holds after a send.
LEMMA Appended ==
    \A S, q, e : q \in Seq(S) =>
        /\ \A i \in DOMAIN q : i \in DOMAIN Append(q, e) /\ Append(q, e)[i] = q[i]
        /\ Len(q) + 1 \in DOMAIN Append(q, e) /\ Append(q, e)[Len(q) + 1] = e
        /\ \A i \in DOMAIN Append(q, e) : i = Len(q) + 1 \/ i \in DOMAIN q
<1> SUFFICES ASSUME NEW S, NEW q \in Seq(S), NEW e PROVE
        /\ \A i \in DOMAIN q : i \in DOMAIN Append(q, e) /\ Append(q, e)[i] = q[i]
        /\ Len(q) + 1 \in DOMAIN Append(q, e) /\ Append(q, e)[Len(q) + 1] = e
        /\ \A i \in DOMAIN Append(q, e) : i = Len(q) + 1 \/ i \in DOMAIN q
  OBVIOUS
<1>1. DOMAIN q = 1 .. Len(q) /\ Len(q) \in Nat
  OBVIOUS
<1>2. DOMAIN Append(q, e) = 1 .. Len(q) + 1
  OBVIOUS
<1>3. \A i \in 1 .. Len(q) : Append(q, e)[i] = q[i]
  OBVIOUS
<1>4. Append(q, e)[Len(q) + 1] = e
  OBVIOUS
<1> QED
  BY <1>1, <1>2, <1>3, <1>4

\* A handler registers its connection and starts the pumps.
LEMMA StartKeepsInv == \A c \in Conns : TypeOK /\ HubInv /\ StartPumps(c) => HubInv'
<1> SUFFICES ASSUME NEW c \in Conns PROVE TypeOK /\ HubInv /\ StartPumps(c) => HubInv'
  OBVIOUS
<1>a. SUFFICES ASSUME TypeOK, HubInv, StartPumps(c) PROVE HubInv'
  OBVIOUS
<1>1. /\ hpc[c] = "register" /\ hpc' = [hpc EXCEPT ![c] = "wait"]
      /\ register' = Append(register, c)
      /\ UNCHANGED <<unregister, clients, connKey, closed>>
      /\ hubUp' = hubUp /\ panicked' = panicked
  BY <1>a DEF StartPumps, Register, GoTo, QueuesOnly, clientVars
<1>2. /\ register \in Seq(Conns) /\ unregister \in Seq(Conns)
      /\ hpc \in [Conns -> {"none", "get rules", "auth ok", "register", "wait", "done"}]
      /\ clients \in [Keys -> Conns \cup {NoConn}]
      /\ connKey[c] \in Keys
  BY <1>a, <1>1 DEF TypeOK, HubTypeOK, ConnTypeOK
<1>3. /\ hpc'[c] = "wait" /\ \A d \in Conns : d # c => hpc'[d] = hpc[d]
  BY <1>1, <1>2
<1>4. /\ \A i \in DOMAIN register : i \in DOMAIN register' /\ register'[i] = register[i]
      /\ Len(register) + 1 \in DOMAIN register' /\ register'[Len(register) + 1] = c
      /\ \A i \in DOMAIN register' : i = Len(register) + 1 \/ i \in DOMAIN register
      /\ \A i \in DOMAIN register : register[i] \in Conns
      /\ \A i \in DOMAIN unregister : unregister[i] \in Conns
  <2>1. /\ \A i \in DOMAIN register : register[i] \in Conns
        /\ \A i \in DOMAIN unregister : unregister[i] \in Conns
    BY <1>2, ElementsOf
  <2>2. register \in Seq(Conns)
    BY <1>2
  <2>3. /\ \A i \in DOMAIN register : /\ i \in DOMAIN Append(register, c)
                                     /\ Append(register, c)[i] = register[i]
        /\ Len(register) + 1 \in DOMAIN Append(register, c)
        /\ Append(register, c)[Len(register) + 1] = c
        /\ \A i \in DOMAIN Append(register, c) : i = Len(register) + 1 \/ i \in DOMAIN register
    BY ONLY <2>2, Appended
  <2> QED
    BY <1>1, <2>1, <2>3
<1>5. ~closed[c]
  BY <1>a, <1>1 DEF HubInv, UnstartedAreOpen
<1>6. LeaversAreDone' /\ UnstartedAreOpen' /\ NoPanic'
  <2>1. LeaversAreDone'
    BY <1>a, <1>1, <1>3, <1>4 DEF HubInv, LeaversAreDone
  <2>2. UnstartedAreOpen'
    BY <1>a, <1>1, <1>3, <1>5 DEF HubInv, UnstartedAreOpen
  <2> QED
    BY <1>a, <1>1, <2>1, <2>2 DEF HubInv, NoPanic
<1>7. ASSUME hubUp PROVE MapHoldsOpen' /\ QueuedAreNew'
  <2>1. MapHoldsOpen /\ QueuedAreNew
    BY <1>a, <1>7 DEF HubInv
  <2>2. MapHoldsOpen'
    <3> SUFFICES ASSUME NEW k \in Keys, clients[k] # NoConn
                 PROVE  /\ ~closed[clients[k]] /\ connKey[clients[k]] = k
                        /\ hpc'[clients[k]] \in {"wait", "done"}
      BY <1>1 DEF MapHoldsOpen
    <3>1. clients[k] \in Conns
      BY <1>2
    <3> QED
      BY <1>3, <2>1, <3>1 DEF MapHoldsOpen
  <2>3. clients[connKey[c]] # c
    <3> SUFFICES ASSUME clients[connKey[c]] = c PROVE FALSE
      OBVIOUS
    <3> QED
      BY <1>1, <1>2, <2>1, HubAssumption DEF MapHoldsOpen
  <2>4. \A i \in DOMAIN register : register[i] # c
    BY <1>1, <2>1 DEF QueuedAreNew
  <2>5. ASSUME NEW i \in DOMAIN register'
        PROVE  /\ ~closed'[register'[i]]
               /\ hpc'[register'[i]] \in {"wait", "done"}
               /\ clients'[connKey'[register'[i]]] # register'[i]
    <3>1. CASE i = Len(register) + 1
      BY <1>1, <1>3, <1>4, <1>5, <2>3, <3>1
    <3>2. CASE i \in DOMAIN register
      BY <1>1, <1>3, <1>4, <2>1, <2>4, <3>2 DEF QueuedAreNew
    <3> QED
      BY <1>4, <3>1, <3>2
  <2>6. ASSUME NEW i \in DOMAIN register', NEW j \in DOMAIN register', register'[i] = register'[j]
        PROVE  i = j
    BY <1>4, <2>1, <2>4, <2>6 DEF QueuedAreNew
  <2> QED
    BY <2>2, <2>5, <2>6 DEF QueuedAreNew
<1>8. NoOrphan'
  <2>1. ASSUME NEW d \in Conns, hubUp, hpc'[d] = "wait", ~closed[d]
        PROVE  clients[connKey[d]] = d \/ \E i \in DOMAIN register' : register'[i] = d
    <3>1. CASE d = c
      BY <1>4, <3>1
    <3>2. CASE d # c
      BY <1>a, <1>3, <1>4, <2>1, <3>2 DEF HubInv, NoOrphan, Queued
    <3> QED
      BY <3>1, <3>2
  <2> QED
    BY <1>1, <2>1 DEF NoOrphan, Queued
<1> QED
  BY <1>1, <1>6, <1>7, <1>8 DEF HubInv

\* A handler whose pumps have ended asks to unregister.
LEMMA FinishKeepsInv == \A c \in Conns : TypeOK /\ HubInv /\ Finish(c) => HubInv'
<1> SUFFICES ASSUME NEW c \in Conns PROVE TypeOK /\ HubInv /\ Finish(c) => HubInv'
  OBVIOUS
<1>a. SUFFICES ASSUME TypeOK, HubInv, Finish(c) PROVE HubInv'
  OBVIOUS
<1>1. /\ hpc[c] = "wait" /\ hpc' = [hpc EXCEPT ![c] = "done"]
      /\ unregister' = Append(unregister, c)
      /\ UNCHANGED <<register, clients, connKey, closed>>
      /\ hubUp' = hubUp /\ panicked' = panicked
  BY <1>a DEF Finish, Unregister, GoTo, QueuesOnly, clientVars
<1>2. /\ register \in Seq(Conns) /\ unregister \in Seq(Conns)
      /\ hpc \in [Conns -> {"none", "get rules", "auth ok", "register", "wait", "done"}]
      /\ clients \in [Keys -> Conns \cup {NoConn}]
  BY <1>a DEF TypeOK, HubTypeOK, ConnTypeOK
<1>3. /\ hpc'[c] = "done" /\ \A d \in Conns : d # c => hpc'[d] = hpc[d]
      /\ \A d \in Conns : hpc[d] \in {"wait", "done"} => hpc'[d] \in {"wait", "done"}
  BY <1>1, <1>2
<1>4. /\ \A i \in DOMAIN register : register[i] \in Conns
      /\ \A i \in DOMAIN unregister' : \/ unregister'[i] = c
                                       \/ i \in DOMAIN unregister /\ unregister'[i] = unregister[i]
      /\ \A i \in DOMAIN unregister : unregister[i] \in Conns
  <2>1. /\ \A i \in DOMAIN register : register[i] \in Conns
        /\ \A i \in DOMAIN unregister : unregister[i] \in Conns
    BY <1>2, ElementsOf
  <2>2. unregister \in Seq(Conns)
    BY <1>2
  <2>3. /\ \A i \in DOMAIN unregister : Append(unregister, c)[i] = unregister[i]
        /\ Append(unregister, c)[Len(unregister) + 1] = c
        /\ \A i \in DOMAIN Append(unregister, c) :
              i = Len(unregister) + 1 \/ i \in DOMAIN unregister
    BY ONLY <2>2, Appended
  <2> QED
    BY <1>1, <2>1, <2>3
<1>5. LeaversAreDone'
  BY <1>a, <1>3, <1>4 DEF HubInv, LeaversAreDone
<1>6. UnstartedAreOpen' /\ NoPanic'
  BY <1>a, <1>1, <1>3 DEF HubInv, UnstartedAreOpen, NoPanic
<1>7. NoOrphan'
  BY <1>a, <1>1, <1>3 DEF HubInv, NoOrphan, Queued
<1>8. ASSUME hubUp PROVE MapHoldsOpen' /\ QueuedAreNew'
  <2>1. MapHoldsOpen /\ QueuedAreNew
    BY <1>a, <1>8 DEF HubInv
  <2>2. MapHoldsOpen'
    <3> SUFFICES ASSUME NEW k \in Keys, clients[k] # NoConn
                 PROVE  /\ ~closed[clients[k]] /\ connKey[clients[k]] = k
                        /\ hpc'[clients[k]] \in {"wait", "done"}
      BY <1>1 DEF MapHoldsOpen
    <3>1. clients[k] \in Conns
      BY <1>2
    <3> QED
      BY <1>3, <2>1, <3>1 DEF MapHoldsOpen
  <2>3. QueuedAreNew'
    BY <1>1, <1>3, <1>4, <2>1 DEF QueuedAreNew
  <2> QED
    BY <2>2, <2>3
<1> QED
  BY <1>1, <1>5, <1>6, <1>7, <1>8 DEF HubInv

\* A pass of the hub's select.
LEMMA HubStepKeepsInv == TypeOK /\ HubInv /\ HubStep => HubInv'
<1>a. SUFFICES ASSUME TypeOK, HubInv, HubStep PROVE HubInv'
  OBVIOUS
<1>1. UNCHANGED hpc
  BY <1>a DEF HubStep, HubOnly, connVars
<1>2. ASSUME HubBroadcast PROVE HubInv'
  <2> DEFINE msg == [type |-> "RelayPacket", id |-> Head(broadcast).id]
             C   == Audience(Head(broadcast))
  <2>1. /\ hubUp /\ Offer(C, msg)
        /\ UNCHANGED <<register, unregister, clients, connKey, closed, hubUp, hpc>>
    BY <1>1, <1>2 DEF HubBroadcast
  <2>2. \A c \in C : \E k \in Keys : clients[k] = c /\ c # NoConn
    BY HubAssumption DEF Audience
  <2> HIDE DEF msg, C
  <2> QED
    BY <1>a, <2>1, <2>2, OfferIsSafe
<1>3. ASSUME HubRuleUpdate PROVE HubInv'
  <2> DEFINE msg == [type |-> "RuleUpdate", rules |-> Head(ruleUpdate).rules]
             C   == {clients[Head(ruleUpdate).key]} \ {NoConn}
  <2>1. /\ hubUp /\ Offer(C, msg)
        /\ UNCHANGED <<register, unregister, clients, connKey, closed, hubUp, hpc>>
    BY <1>1, <1>3 DEF HubRuleUpdate
  <2>2. Head(ruleUpdate).key \in Keys
    <3>1. ruleUpdate \in Seq(RuleUpdateReq) /\ ruleUpdate # <<>>
      BY <1>a, <1>3 DEF TypeOK, HubTypeOK, HubRuleUpdate
    <3>2. Head(ruleUpdate) \in RuleUpdateReq
      BY <3>1
    <3> QED
      BY <3>2 DEF RuleUpdateReq
  <2>3. \A c \in C : \E k \in Keys : clients[k] = c /\ c # NoConn
    BY <2>2
  <2> HIDE DEF msg, C
  <2> QED
    BY <1>a, <2>1, <2>3, OfferIsSafe
<1>4. ASSUME HubDirectSend PROVE HubInv'
  <2> DEFINE msg == [type |-> "UpdateCommand"]
             C   == {clients[Head(directSend).key]} \ {NoConn}
  <2>1. /\ hubUp /\ Offer(C, msg)
        /\ UNCHANGED <<register, unregister, clients, connKey, closed, hubUp, hpc>>
    BY <1>1, <1>4 DEF HubDirectSend
  <2>2. Head(directSend).key \in Keys
    <3>1. directSend \in Seq(DirectSendReq) /\ directSend # <<>>
      BY <1>a, <1>4 DEF TypeOK, HubTypeOK, HubDirectSend
    <3>2. Head(directSend) \in DirectSendReq
      BY <3>1
    <3> QED
      BY <3>2 DEF DirectSendReq
  <2>3. \A c \in C : \E k \in Keys : clients[k] = c /\ c # NoConn
    BY <2>2
  <2> HIDE DEF msg, C
  <2> QED
    BY <1>a, <2>1, <2>3, OfferIsSafe
<1>5. ASSUME NEW a \in Admins, HubSnapshot(a) PROVE HubInv'
  <2>1. UNCHANGED <<hubCore, hpc>>
    BY <1>1, <1>5 DEF HubSnapshot, clientVars, hubCore
  <2> QED
    BY <1>a, <2>1, CoreSame
<1> QED
  BY <1>a, <1>1, <1>2, <1>3, <1>4, <1>5, RegisterKeepsInv, UnregisterKeepsInv, StopKeepsInv
  DEF HubStep, HubNext

\* A step of a connection's goroutines or of its peer.
LEMMA ConnStepKeepsInv ==
    ASSUME NEW c \in Conns
    PROVE  TypeOK /\ HubInv /\ ConnStep(c) => HubInv'
<1>a. SUFFICES ASSUME TypeOK, HubInv, ConnStep(c) PROVE HubInv'
  OBVIOUS
<1>0. connKey = [connKey EXCEPT ![c] = connKey[c]] /\ connKey[c] \in Keys \cup {NoKey}
  BY <1>a DEF TypeOK, HubTypeOK
<1>1. ASSUME NEW k \in Keys, Authenticated(c, k) PROVE HubInv'
  <2>1. /\ hpc[c] \notin {"wait", "done"} /\ GoTo(c, "get rules")
        /\ connKey' = [connKey EXCEPT ![c] = k]
        /\ UNCHANGED <<register, unregister, clients, closed, hubUp, panicked>>
    BY <1>1 DEF Authenticated, queueVars
  <2> QED
    BY <1>a, <2>1, UnstartedMoves
<1>2. ASSUME ReadRules(c) PROVE HubInv'
  <2>1. /\ hpc[c] \notin {"wait", "done"} /\ GoTo(c, "auth ok")
        /\ connKey' = [connKey EXCEPT ![c] = connKey[c]]
        /\ UNCHANGED <<register, unregister, clients, closed, hubUp, panicked>>
    BY <1>0, <1>2 DEF ReadRules, queueVars
  <2> QED
    BY <1>a, <1>0, <2>1, UnstartedMoves
<1>3. ASSUME SendAuthOK(c) PROVE HubInv'
  <2>1. /\ hpc[c] \notin {"wait", "done"} /\ GoTo(c, "register")
        /\ connKey' = [connKey EXCEPT ![c] = connKey[c]]
        /\ UNCHANGED <<register, unregister, clients, closed, hubUp, panicked>>
    BY <1>0, <1>3 DEF SendAuthOK, hubVars, queueVars, clientVars
  <2> QED
    BY <1>a, <1>0, <2>1, UnstartedMoves
<1>4. ASSUME AuthFail(c) \/ AuthOKFails(c) PROVE HubInv'
  <2>1. /\ hpc[c] \notin {"wait", "done"} /\ GoTo(c, "done")
        /\ connKey' = [connKey EXCEPT ![c] = connKey[c]]
        /\ UNCHANGED <<register, unregister, clients, closed, hubUp, panicked>>
    BY <1>0, <1>4 DEF AuthFail, AuthOKFails, hubVars, queueVars, clientVars
  <2> QED
    BY <1>a, <1>0, <2>1, UnstartedMoves
<1>5. ASSUME \/ \E r \in RuleIds : ReceiveRelayPacket(c, r)
             \/ ReadFails(c) \/ WritePumpEnds(c) \/ PeerGone(c)
      PROVE  HubInv'
  <2>1. UNCHANGED <<hubCore, hpc>>
    BY <1>5 DEF ReceiveRelayPacket, ReadFails, WritePumpEnds, PeerGone,
                hubVars, queueVars, clientVars, hubCore
  <2> QED
    BY <1>a, <2>1, CoreSame
<1>6. ASSUME WriteMessage(c) \/ WriteFails(c) PROVE HubInv'
  <2>1. UNCHANGED <<hubCore, hpc>>
    BY <1>6 DEF WriteMessage, WriteFails, queueVars, hubCore
  <2> QED
    BY <1>a, <2>1, CoreSame
<1>7. ASSUME PublishRelayPacket(c) PROVE HubInv'
  <2>1. UNCHANGED <<hubCore, hpc>>
    BY <1>7 DEF PublishRelayPacket, Publish, Broadcast, QueuesOnly, clientVars, hubCore
  <2> QED
    BY <1>a, <2>1, CoreSame
<1> QED
  BY <1>a, <1>1, <1>2, <1>3, <1>4, <1>5, <1>6, <1>7, StartKeepsInv, FinishKeepsInv
  DEF ConnStep, AuthKey, AuthCredentials

\* A web handler leaves alone everything the invariant is about.
LEMMA AdminStepKeepsInv ==
    ASSUME NEW a \in Admins
    PROVE  HubInv /\ AdminStep(a) => HubInv'
<1>a. SUFFICES ASSUME HubInv, AdminStep(a) PROVE HubInv'
  OBVIOUS
<1>1. ASSUME DatabaseOnly PROVE UNCHANGED <<hubCore, hpc>>
  BY <1>1 DEF DatabaseOnly, hubVars, queueVars, clientVars, connVars, hubCore
<1>2. ASSUME NEW k \in Keys, HandleSendClientUpdate(a, k) PROVE UNCHANGED <<hubCore, hpc>>
  BY <1>2 DEF HandleSendClientUpdate, SendToClient, QueuesOnly, clientVars, connVars, hubCore
<1>3. ASSUME PushRules(a) PROVE UNCHANGED <<hubCore, hpc>>
  BY <1>3 DEF PushRules, PushRuleUpdate, QueuesOnly, clientVars, connVars, hubCore
<1>4. ASSUME HandleGetClients(a) PROVE UNCHANGED <<hubCore, hpc>>
  BY <1>4 DEF HandleGetClients, GetConnectedClients, QueuesOnly, clientVars, connVars, hubCore
<1>5. ASSUME ReceiveReply(a) PROVE UNCHANGED <<hubCore, hpc>>
  BY <1>5 DEF ReceiveReply, queueVars, clientVars, connVars, hubCore
<1>6. UNCHANGED <<hubCore, hpc>>
  BY <1>a, <1>1, <1>2, <1>3, <1>4, <1>5
  DEF AdminStep, HandleAssignRule, HandleUnassignRule, ReadForPush, ReadForPushFails,
      HandleToggleRule, HandleUpdateRule, HandleDeleteRule, HandleCreateKey, HandleRevokeKey
<1> QED
  BY <1>a, <1>6, CoreSame

(* The inductive invariant of the hub: its map holds open connections      *)
(* under their own keys, no connection is registered twice, and only a     *)
(* handler that is done asks to unregister (RelayServer, HubInv).          *)
THEOREM HubCorrect == Spec => []HubInv
<1>1. TypeOK /\ HubInv /\ [Next]_vars => HubInv'
  <2>a. SUFFICES ASSUME TypeOK, HubInv, [Next]_vars PROVE HubInv'
    OBVIOUS
  <2>1. ASSUME NEW r \in RuleIds, CapturePacket(r) PROVE HubInv'
    <3>1. UNCHANGED <<hubCore, hpc>>
      BY <2>1 DEF CapturePacket, Publish, Broadcast, QueuesOnly, clientVars, connVars, hubCore
    <3> QED
      BY <2>a, <3>1, CoreSame
  <2>2. ASSUME Shutdown PROVE HubInv'
    <3>1. UNCHANGED <<hubCore, hpc>>
      BY <2>2 DEF Shutdown, queueVars, clientVars, connVars, hubCore
    <3> QED
      BY <2>a, <3>1, CoreSame
  <2>3. ASSUME UNCHANGED vars PROVE HubInv'
    <3>1. UNCHANGED <<hubCore, hpc>>
      BY <2>3 DEF vars, hubVars, queueVars, clientVars, connVars, hubCore
    <3> QED
      BY <2>a, <3>1, CoreSame
  <2> QED
    BY <2>a, <2>1, <2>2, <2>3, HubStepKeepsInv, ConnStepKeepsInv, AdminStepKeepsInv
    DEF Next, Idle
<1> QED
  BY InitHubInv, TypeCorrect, <1>1, PTL DEF Spec

(* The hub never closes a SendCh twice and never sends on a closed one.    *)
THEOREM NeverPanics == Spec => []NoPanic
<1>1. HubInv => NoPanic
  BY DEF HubInv
<1> QED
  BY HubCorrect, <1>1, PTL

(* The hub never loses a live connection: whatever older connections of    *)
(* its key do, it is in the map or on its way there.                       *)
THEOREM NeverOrphans == Spec => []NoOrphan
<1>1. HubInv => NoOrphan
  BY DEF HubInv
<1> QED
  BY HubCorrect, <1>1, PTL

(***************************************************************************)
(* A connection that has left stays with the hub only if its               *)
(* unregistration overtook its registration.                               *)
(***************************************************************************)
ghostVars == <<register, unregister, clients, hubUp, hpc, overtaken>>

\* Steps that write none of what LeftByOvertaking reads.
LEMMA GhostsSame == LeftByOvertaking /\ UNCHANGED ghostVars => LeftByOvertaking'
  BY DEF LeftByOvertaking, LeftBehind, ghostVars, Connected, Queued

\* A step after which nobody else is left behind keeps the invariant.
LEMMA NoNewGhost ==
    ASSUME LeftByOvertaking, hubUp, overtaken' = overtaken,
           \A d \in Conns : LeftBehind(d)' => LeftBehind(d)
    PROVE  LeftByOvertaking'
  BY DEF LeftByOvertaking

\* The hub takes a connection from the register channel.
LEMMA RegisterKeepsGhosts ==
    TypeOK /\ LeftByOvertaking /\ HubRegister /\ UNCHANGED hpc => LeftByOvertaking'
<1>a. SUFFICES ASSUME TypeOK, LeftByOvertaking, HubRegister, UNCHANGED hpc
               PROVE  LeftByOvertaking'
  OBVIOUS
<1> DEFINE c == Head(register)
           k == connKey[c]
<1>1. /\ register \in Seq(Conns) /\ register # <<>>
      /\ clients \in [Keys -> Conns \cup {NoConn}]
  BY <1>a DEF TypeOK, HubTypeOK, HubRegister
<1>2. /\ c = register[1] /\ 1 \in DOMAIN register
      /\ \A i \in DOMAIN register' : i + 1 \in DOMAIN register /\ register'[i] = register[i + 1]
  <2>1. register' = Tail(register)
    BY <1>a DEF HubRegister
  <2> QED
    BY <1>1, <2>1
<1>3. /\ hubUp /\ hpc' = hpc /\ unregister' = unregister /\ overtaken' = overtaken
      /\ clients' = [clients EXCEPT ![k] = c]
  BY <1>a DEF HubRegister, historyVars
<1> HIDE DEF c, k
<1>4. ASSUME NEW d \in Conns, LeftBehind(d)' PROVE LeftBehind(d)
  <2>1. hpc[d] = "done" /\ ~Queued(d, unregister)
    BY <1>3, <1>4 DEF LeftBehind, Queued
  <2>2. d \in Connected' \/ Queued(d, register)'
    BY <1>4 DEF LeftBehind
  <2>3. CASE d \in Connected'
    <3>1. PICK kk \in Keys : clients'[kk] = d
      BY <2>3 DEF Connected
    <3>2. clients[kk] = d \/ d = c
      BY <1>1, <1>3, <3>1
    <3> QED
      BY <1>2, <2>1, <3>2 DEF LeftBehind, Connected, Queued
  <2>4. CASE Queued(d, register)'
    BY <1>2, <2>1, <2>4 DEF LeftBehind, Queued
  <2> QED
    BY <2>2, <2>3, <2>4
<1> QED
  BY <1>a, <1>3, <1>4, NoNewGhost

\* The hub takes a connection from the unregister channel: afterwards the map does
\* not hold it, and if the register channel does, it is marked.
LEMMA UnregisterKeepsGhosts ==
    TypeOK /\ HubInv /\ LeftByOvertaking /\ HubUnregister /\ UNCHANGED hpc => LeftByOvertaking'
<1>a. SUFFICES ASSUME TypeOK, HubInv, LeftByOvertaking, HubUnregister, UNCHANGED hpc
               PROVE  LeftByOvertaking'
  OBVIOUS
<1> DEFINE c == Head(unregister)
           k == connKey[c]
<1>1. /\ unregister \in Seq(Conns) /\ unregister # <<>>
      /\ clients \in [Keys -> Conns \cup {NoConn}]
      /\ overtaken \in [Conns -> BOOLEAN]
      /\ \A i \in DOMAIN unregister : connKey[unregister[i]] \in Keys
  BY <1>a DEF TypeOK, HubTypeOK, HubUnregister
<1>2. /\ c = unregister[1] /\ 1 \in DOMAIN unregister /\ c \in Conns
      /\ \A i \in DOMAIN unregister : i = 1 \/ (i - 1 \in DOMAIN unregister' /\ unregister'[i - 1] = unregister[i])
  <2>1. unregister' = Tail(unregister)
    BY <1>a DEF HubUnregister
  <2> QED
    BY <1>1, <2>1
<1>3. k \in Keys
  BY <1>1, <1>2
<1>4. /\ hubUp /\ hpc' = hpc /\ register' = register
      /\ overtaken' = [overtaken EXCEPT ![c] = Queued(c, register)]
  BY <1>a DEF HubUnregister
<1>5. MapHoldsOpen
  BY <1>a, <1>4 DEF HubInv
<1>6. /\ clients'[k] # c
      /\ \A kk \in Keys : clients'[kk] = clients[kk] \/ clients'[kk] = NoConn
  <2>1. CASE IsRegistered(c)
    <3>1. clients' = [clients EXCEPT ![k] = NoConn]
      BY <1>a, <2>1, <1>1, <1>5 DEF HubUnregister, IsRegistered
    <3> QED
      BY <1>1, <1>2, <1>3, <3>1, HubAssumption
  <2>2. CASE ~IsRegistered(c)
    <3>1. clients' = clients
      BY <1>a, <2>2 DEF HubUnregister
    <3> QED
      BY <2>2, <3>1 DEF IsRegistered
  <2> QED
    BY <2>1, <2>2
<1> HIDE DEF c, k
<1>7. ASSUME NEW d \in Conns, LeftBehind(d)' PROVE overtaken'[d]
  <2>1. /\ hpc[d] = "done" /\ ~Queued(d, unregister)'
        /\ d \in Connected' \/ Queued(d, register)
    BY <1>4, <1>7 DEF LeftBehind, Queued
  <2>2. d \in Connected' => \E kk \in Keys : clients[kk] = d /\ clients'[kk] = d
    BY <1>1, <1>6, HubAssumption DEF Connected
  <2>3. CASE d = c
    <3>1. d \notin Connected'
      <4>1. ASSUME NEW kk \in Keys, clients[kk] = c, clients'[kk] = c PROVE FALSE
        <5>1. kk = k
          BY <1>2, <1>5, <4>1, HubAssumption DEF MapHoldsOpen, k
        <5> QED
          BY <1>6, <4>1, <5>1
      <4> QED
        BY <2>2, <2>3, <4>1
    <3> QED
      BY <1>1, <1>2, <1>4, <2>1, <2>3, <3>1
  <2>4. CASE d # c
    <3>1. ~Queued(d, unregister)
      BY <1>2, <2>1, <2>4 DEF Queued
    <3>2. LeftBehind(d)
      BY <2>1, <2>2, <3>1 DEF LeftBehind, Connected
    <3>3. overtaken[d]
      BY <1>a, <1>4, <3>2 DEF LeftByOvertaking
    <3> QED
      BY <1>1, <1>4, <2>4, <3>3
  <2> QED
    BY <2>3, <2>4
<1> QED
  BY <1>7 DEF LeftByOvertaking

\* The steps of a handler that the invariant is about: it is not yet known to the
\* hub, it registers, or it asks to unregister.
LEMMA HandlerKeepsGhosts ==
    ASSUME NEW c \in Conns, TypeOK, HubInv, LeftByOvertaking, overtaken' = overtaken,
           NEW label, GoTo(c, label), clients' = clients, hubUp' = hubUp,
           \/ hpc[c] \notin {"wait", "done"} /\ UNCHANGED <<register, unregister>>
           \/ label # "done" /\ register' = Append(register, c) /\ unregister' = unregister
           \/ unregister' = Append(unregister, c) /\ register' = register
    PROVE  LeftByOvertaking'
<1>1. SUFFICES ASSUME hubUp PROVE LeftByOvertaking'
  BY DEF LeftByOvertaking
<1>2. /\ register \in Seq(Conns) /\ unregister \in Seq(Conns)
      /\ hpc \in [Conns -> {"none", "get rules", "auth ok", "register", "wait", "done"}]
      /\ clients \in [Keys -> Conns \cup {NoConn}]
  BY DEF TypeOK, HubTypeOK, ConnTypeOK
<1>3. hpc'[c] = label /\ \A d \in Conns : d # c => hpc'[d] = hpc[d]
  BY <1>2 DEF GoTo
<1>8. ASSUME NEW q \in Seq(Conns), NEW d \in Conns
      PROVE  /\ Queued(d, q) => Queued(d, Append(q, c))
             /\ Queued(c, Append(q, c))
             /\ d # c /\ Queued(d, Append(q, c)) => Queued(d, q)
  <2>1. /\ \A i \in DOMAIN q : i \in DOMAIN Append(q, c) /\ Append(q, c)[i] = q[i]
        /\ Len(q) + 1 \in DOMAIN Append(q, c) /\ Append(q, c)[Len(q) + 1] = c
        /\ \A i \in DOMAIN Append(q, c) : i = Len(q) + 1 \/ i \in DOMAIN q
    BY ONLY q \in Seq(Conns), Appended
  <2> QED
    BY <2>1 DEF Queued
<1>9. /\ register' = register \/ register' = Append(register, c)
      /\ unregister' = unregister \/ unregister' = Append(unregister, c)
  OBVIOUS
<1>4. ASSUME NEW d \in Conns, Queued(d, unregister) PROVE Queued(d, unregister')
  <2>1. Queued(d, Append(unregister, c))
    BY <1>2, <1>4, <1>8
  <2> QED
    BY <1>4, <1>9, <2>1, Zenon
<1>5. ASSUME NEW d \in Conns, d # c, Queued(d, register') PROVE Queued(d, register)
  <2>1. Queued(d, Append(register, c)) => Queued(d, register)
    BY <1>2, <1>5, <1>8
  <2> QED
    BY <1>5, <1>9, <2>1, Zenon
<1>6. ~LeftBehind(c)'
  <2>1. CASE hpc[c] \notin {"wait", "done"} /\ UNCHANGED <<register, unregister>>
    <3>1. MapHoldsOpen /\ QueuedAreNew
      BY <1>1 DEF HubInv
    <3>2. c \notin Connected /\ ~Queued(c, register)
      BY <2>1, <3>1, HubAssumption DEF MapHoldsOpen, QueuedAreNew, Connected, Queued
    <3> QED
      BY <2>1, <3>2 DEF LeftBehind, Connected, Queued
  <2>2. CASE label # "done"
    BY <1>3, <2>2 DEF LeftBehind
  <2>3. CASE unregister' = Append(unregister, c)
    BY <1>2, <1>8, <2>3 DEF LeftBehind, Queued
  <2> QED
    BY <2>1, <2>2, <2>3
<1>7. \A d \in Conns : LeftBehind(d)' => LeftBehind(d)
  BY <1>3, <1>4, <1>5, <1>6 DEF LeftBehind, Connected
<1> QED
  BY <1>1, <1>7, NoNewGhost

\* A pass of the hub's select.
LEMMA HubStepKeepsGhosts ==
    TypeOK /\ HubInv /\ LeftByOvertaking /\ HubStep => LeftByOvertaking'
<1>a. SUFFICES ASSUME TypeOK, HubInv, LeftByOvertaking, HubStep PROVE LeftByOvertaking'
  OBVIOUS
<1>1. UNCHANGED hpc
  BY <1>a DEF HubStep, HubOnly, connVars
<1>2. ASSUME HubBroadcast \/ HubRuleUpdate \/ HubDirectSend \/ \E a \in Admins : HubSnapshot(a)
      PROVE  LeftByOvertaking'
  <2>1. UNCHANGED ghostVars
    BY <1>1, <1>2 DEF HubBroadcast, HubRuleUpdate, HubDirectSend, HubSnapshot, ghostVars,
                      clientVars, historyVars
  <2> QED
    BY <1>a, <2>1, GhostsSame
<1>3. ASSUME HubStop PROVE LeftByOvertaking'
  BY <1>3 DEF HubStop, LeftByOvertaking
<1> QED
  BY <1>a, <1>1, <1>2, <1>3, RegisterKeepsGhosts, UnregisterKeepsGhosts DEF HubStep, HubNext

\* A step of a connection's goroutines or of its peer.
LEMMA ConnStepKeepsGhosts ==
    ASSUME NEW c \in Conns
    PROVE  TypeOK /\ HubInv /\ LeftByOvertaking /\ ConnStep(c) => LeftByOvertaking'
<1>a. SUFFICES ASSUME TypeOK, HubInv, LeftByOvertaking, ConnStep(c) PROVE LeftByOvertaking'
  OBVIOUS
<1>1. ASSUME \/ \E k \in Keys : Authenticated(c, k)
             \/ ReadRules(c) \/ SendAuthOK(c) \/ AuthFail(c) \/ AuthOKFails(c)
      PROVE  LeftByOvertaking'
  <2>1. /\ hpc[c] \notin {"wait", "done"}
        /\ \E label \in {"get rules", "auth ok", "register", "done"} : GoTo(c, label)
        /\ UNCHANGED <<register, unregister, clients, hubUp, overtaken>>
    BY <1>1 DEF Authenticated, ReadRules, SendAuthOK, AuthFail, AuthOKFails, hubVars,
                queueVars, clientVars, historyVars
  <2> QED
    BY <1>a, <2>1, HandlerKeepsGhosts
<1>2. ASSUME StartPumps(c) PROVE LeftByOvertaking'
  <2>1. /\ GoTo(c, "wait") /\ register' = Append(register, c)
        /\ UNCHANGED <<unregister, clients, hubUp, overtaken>>
    BY <1>2 DEF StartPumps, Register, QueuesOnly, clientVars, historyVars
  <2> QED
    BY <1>a, <2>1, HandlerKeepsGhosts
<1>3. ASSUME Finish(c) PROVE LeftByOvertaking'
  <2>1. /\ GoTo(c, "done") /\ unregister' = Append(unregister, c)
        /\ UNCHANGED <<register, clients, hubUp, overtaken>>
    BY <1>3 DEF Finish, Unregister, QueuesOnly, clientVars, historyVars
  <2> QED
    BY <1>a, <2>1, HandlerKeepsGhosts
<1>4. ASSUME \/ \E r \in RuleIds : ReceiveRelayPacket(c, r)
             \/ PublishRelayPacket(c) \/ ReadFails(c) \/ WriteMessage(c) \/ WriteFails(c)
             \/ WritePumpEnds(c) \/ PeerGone(c)
      PROVE  LeftByOvertaking'
  <2>1. UNCHANGED ghostVars
    BY <1>4 DEF ReceiveRelayPacket, PublishRelayPacket, Publish, Broadcast, QueuesOnly,
                ReadFails, WriteMessage, WriteFails, WritePumpEnds, PeerGone, hubVars,
                queueVars, clientVars, historyVars, ghostVars
  <2> QED
    BY <1>a, <2>1, GhostsSame
<1> QED
  BY <1>a, <1>1, <1>2, <1>3, <1>4 DEF ConnStep, AuthKey, AuthCredentials

\* A web handler only puts requests into the hub's other channels.
LEMMA AdminStepKeepsGhosts ==
    ASSUME NEW a \in Admins
    PROVE  LeftByOvertaking /\ AdminStep(a) => LeftByOvertaking'
<1>a. SUFFICES ASSUME LeftByOvertaking, AdminStep(a) PROVE LeftByOvertaking'
  OBVIOUS
<1>1. ASSUME DatabaseOnly PROVE UNCHANGED ghostVars
  BY <1>1 DEF DatabaseOnly, hubVars, queueVars, clientVars, historyVars, connVars, ghostVars
<1>2. ASSUME \E k \in Keys : HandleSendClientUpdate(a, k) PROVE UNCHANGED ghostVars
  BY <1>2 DEF HandleSendClientUpdate, SendToClient, QueuesOnly, clientVars, historyVars,
              connVars, ghostVars
<1>3. ASSUME PushRules(a) PROVE UNCHANGED ghostVars
  BY <1>3 DEF PushRules, PushRuleUpdate, QueuesOnly, clientVars, historyVars, connVars,
              ghostVars
<1>4. ASSUME HandleGetClients(a) PROVE UNCHANGED ghostVars
  BY <1>4 DEF HandleGetClients, GetConnectedClients, QueuesOnly, clientVars, historyVars,
              connVars, ghostVars
<1>5. ASSUME ReceiveReply(a) PROVE UNCHANGED ghostVars
  BY <1>5 DEF ReceiveReply, queueVars, clientVars, historyVars, connVars, ghostVars
<1>6. UNCHANGED ghostVars
  BY <1>a, <1>1, <1>2, <1>3, <1>4, <1>5
  DEF AdminStep, HandleAssignRule, HandleUnassignRule, ReadForPush, ReadForPushFails,
      HandleToggleRule, HandleUpdateRule, HandleDeleteRule, HandleCreateKey, HandleRevokeKey
<1> QED
  BY <1>a, <1>6, GhostsSame

(* A connection that has ended and was unregistered is still in the hub's  *)
(* map only if the hub took its unregistration before its registration     *)
(* (RelayServer, GhostOnlyByOvertaking).                                   *)
THEOREM GhostsOvertook == Spec => []GhostOnlyByOvertaking
<1>1. Init => LeftByOvertaking
  BY DEF Init, LeftByOvertaking, LeftBehind
<1>2. TypeOK /\ HubInv /\ LeftByOvertaking /\ [Next]_vars => LeftByOvertaking'
  <2>a. SUFFICES ASSUME TypeOK, HubInv, LeftByOvertaking, [Next]_vars PROVE LeftByOvertaking'
    OBVIOUS
  <2>1. ASSUME (\E r \in RuleIds : CapturePacket(r)) \/ Shutdown \/ UNCHANGED vars
        PROVE  LeftByOvertaking'
    <3>1. UNCHANGED ghostVars
      BY <2>1 DEF CapturePacket, Publish, Broadcast, QueuesOnly, Shutdown, vars, hubVars,
                  queueVars, clientVars, historyVars, connVars, ghostVars
    <3> QED
      BY <2>a, <3>1, GhostsSame
  <2> QED
    BY <2>a, <2>1, HubStepKeepsGhosts, ConnStepKeepsGhosts, AdminStepKeepsGhosts
    DEF Next, Idle
<1>3. LeftByOvertaking => GhostOnlyByOvertaking
  BY DEF LeftByOvertaking, LeftBehind, GhostOnlyByOvertaking, Connected
<1> QED
  BY TypeCorrect, HubCorrect, <1>1, <1>2, <1>3, PTL DEF Spec


(***************************************************************************)
(* Web requests that wait for the hub.                                     *)
(***************************************************************************)
askVars == <<directSend, snapshot, reply, admin>>

\* The request is in a channel of the hub.
Asking(a) == a \in snapshot \/ \E i \in DOMAIN directSend : directSend[i].admin = a

(* A request that waits for the hub is in one of its channels, and once    *)
(* only, or answered, never both: none is lost, and the hub never blocks   *)
(* on a reply channel, which has room for one reply (hub.go:213, 226).     *)
EachIsAnsweredOnce ==
    /\ \A i, j \in DOMAIN directSend : directSend[i].admin = directSend[j].admin => i = j
    /\ \A i \in DOMAIN directSend : directSend[i].admin \notin snapshot
    /\ \A a \in Admins :
          /\ Asking(a) => admin[a].pc = "reply" /\ reply[a] = "none"
          /\ admin[a].pc = "reply" => Asking(a) \/ reply[a] # "none"
          /\ reply[a] # "none" => admin[a].pc = "reply"

\* Steps that concern no such request.
LEMMA AsksSame == EachIsAnsweredOnce /\ UNCHANGED askVars => EachIsAnsweredOnce'
  BY DEF EachIsAnsweredOnce, Asking, askVars

\* A request that has nothing to do with replies goes on.
LEMMA OtherRequests ==
    ASSUME TypeOK, EachIsAnsweredOnce, NEW a \in Admins, admin[a].pc # "reply",
           NEW st, st.pc # "reply", admin' = [admin EXCEPT ![a] = st],
           UNCHANGED <<directSend, snapshot, reply>>
    PROVE  EachIsAnsweredOnce'
<1>1. /\ admin'[a].pc # "reply" /\ \A b \in Admins \ {a} : admin'[b] = admin[b]
  BY DEF TypeOK
<1>2. \A b : Asking(b)' <=> Asking(b)
  BY DEF Asking
<1> QED
  BY <1>1, <1>2 DEF EachIsAnsweredOnce

\* The hub answers the request at the head of directSend.
LEMMA DirectSendAnswers ==
    ASSUME TypeOK, EachIsAnsweredOnce, HubDirectSend, UNCHANGED admin
    PROVE  EachIsAnsweredOnce'
<1>1. PICK q : q = directSend
  OBVIOUS
<1>2. q \in Seq(DirectSendReq) /\ q # <<>> /\ Len(q) <= HubCap /\ HubCap \in Nat
  BY <1>1, HubAssumption DEF HubDirectSend, TypeOK, HubTypeOK
<1>3. PICK a \in Admins : a = q[1].admin
  <2>1. q[1] \in DirectSendReq
    BY <1>2, Serve
  <2> QED
    BY <2>1 DEF DirectSendReq
<1>4. PICK t : t = Tail(q)
  OBVIOUS
<1>5. /\ 1 \in DOMAIN q
      /\ \A i \in DOMAIN t : i + 1 \in DOMAIN q /\ t[i] = q[i + 1] /\ i \in Nat /\ i >= 1
      /\ \A i \in DOMAIN q : i # 1 => \E j \in DOMAIN t : j + 1 = i /\ t[j] = q[i]
  <2>1. PICK l \in Nat : l = Len(q) /\ l >= 1 /\ DOMAIN q = 1 .. l
    BY <1>2
  <2>2. DOMAIN t = 1 .. l - 1 /\ \A i \in 1 .. l - 1 : t[i] = q[i + 1]
    BY <1>2, <1>4, <2>1
  <2>3. ASSUME NEW i \in DOMAIN q, i # 1 PROVE \E j \in DOMAIN t : j + 1 = i /\ t[j] = q[i]
    <3>1. i - 1 \in DOMAIN t /\ (i - 1) + 1 = i
      BY <2>1, <2>2, <2>3
    <3> QED
      BY <2>2, <3>1
  <2> QED
    BY <2>1, <2>2, <2>3
<1>6. /\ directSend' = t /\ snapshot' = snapshot
      /\ \E x \in {"sent", "not sent"} : reply' = [reply EXCEPT ![a] = x]
  <2>1. Head(directSend) = q[1]
    BY <1>1, <1>2
  <2> QED
    BY <1>1, <1>3, <1>4, <2>1 DEF HubDirectSend
<1>7. reply'[a] # "none" /\ \A b \in Admins \ {a} : reply'[b] = reply[b]
  BY <1>6 DEF TypeOK, HubTypeOK
<1>8. \A i \in DOMAIN t : t[i].admin # a
  <2> SUFFICES ASSUME NEW i \in DOMAIN t, t[i].admin = a PROVE FALSE
    OBVIOUS
  <2>1. i + 1 \in DOMAIN q /\ q[i + 1].admin = q[1].admin /\ i \in Nat /\ i >= 1
    BY <1>3, <1>5
  <2>2. i + 1 = 1
    BY <1>1, <1>5, <2>1 DEF EachIsAnsweredOnce
  <2> QED
    BY <2>1, <2>2
<1>9. a \notin snapshot /\ admin[a].pc = "reply"
  BY <1>1, <1>3, <1>5 DEF EachIsAnsweredOnce, Asking
<1>10. ~Asking(a)'
  BY <1>6, <1>8, <1>9 DEF Asking
<1>11. ASSUME NEW b \in Admins \ {a} PROVE Asking(b)' <=> Asking(b)
  <2>1. (\E i \in DOMAIN t : t[i].admin = b) <=> (\E i \in DOMAIN q : q[i].admin = b)
    BY <1>3, <1>5
  <2> QED
    BY <1>1, <1>6, <2>1 DEF Asking
<1>12. \A i, j \in DOMAIN t : t[i].admin = t[j].admin => i = j
  <2> SUFFICES ASSUME NEW i \in DOMAIN t, NEW j \in DOMAIN t, t[i].admin = t[j].admin
               PROVE  i = j
    OBVIOUS
  <2>1. i + 1 = j + 1
    BY <1>1, <1>5 DEF EachIsAnsweredOnce
  <2> QED
    BY <1>5, <2>1
<1>13. \A i \in DOMAIN t : t[i].admin \notin snapshot
  BY <1>1, <1>5 DEF EachIsAnsweredOnce
<1>14. ASSUME NEW b \in Admins
       PROVE  /\ Asking(b)' => admin'[b].pc = "reply" /\ reply'[b] = "none"
              /\ admin'[b].pc = "reply" => Asking(b)' \/ reply'[b] # "none"
              /\ reply'[b] # "none" => admin'[b].pc = "reply"
  <2>1. CASE b = a
    BY <1>7, <1>9, <1>10, <2>1
  <2>2. CASE b # a
    BY <1>7, <1>11, <2>2 DEF EachIsAnsweredOnce
  <2> QED
    BY <2>1, <2>2
<1> QED
  BY <1>6, <1>12, <1>13, <1>14 DEF EachIsAnsweredOnce

\* The hub answers a request for the list of clients.
LEMMA SnapshotAnswers ==
    ASSUME TypeOK, EachIsAnsweredOnce, NEW a \in Admins, HubSnapshot(a), UNCHANGED admin
    PROVE  EachIsAnsweredOnce'
<1>1. /\ a \in snapshot /\ snapshot' = snapshot \ {a} /\ directSend' = directSend
      /\ reply' = [reply EXCEPT ![a] = "clients"]
  BY DEF HubSnapshot
<1>2. reply'[a] # "none" /\ \A b \in Admins \ {a} : reply'[b] = reply[b]
  BY <1>1 DEF TypeOK, HubTypeOK
<1>3. ~Asking(a)' /\ admin[a].pc = "reply"
  BY <1>1 DEF EachIsAnsweredOnce, Asking
<1>4. \A b \in Admins \ {a} : Asking(b)' <=> Asking(b)
  BY <1>1 DEF Asking
<1> QED
  BY <1>1, <1>2, <1>3, <1>4 DEF EachIsAnsweredOnce

\* The hub's other branches answer nobody.
LEMMA HubStepAnswers == TypeOK /\ EachIsAnsweredOnce /\ HubStep => EachIsAnsweredOnce'
<1>a. SUFFICES ASSUME TypeOK, EachIsAnsweredOnce, HubStep PROVE EachIsAnsweredOnce'
  OBVIOUS
<1>b. UNCHANGED admin
  BY <1>a DEF HubStep, HubOnly, adminVars
<1>1. ASSUME HubRegister \/ HubUnregister \/ HubBroadcast \/ HubRuleUpdate \/ HubStop
      PROVE  UNCHANGED askVars
  BY <1>1, <1>b DEF HubRegister, HubUnregister, HubBroadcast, HubRuleUpdate, HubStop, queueVars,
                    askVars
<1> QED
  BY <1>a, <1>b, <1>1, AsksSame, DirectSendAnswers, SnapshotAnswers DEF HubStep, HubNext

\* A connection asks nothing.
LEMMA ConnStepAnswers ==
    ASSUME NEW c \in Conns, ConnStep(c)
    PROVE  UNCHANGED askVars
<1> USE DEF hubVars, queueVars, adminVars, QueuesOnly, askVars
<1>1. ASSUME NEW k \in Keys, AuthKey(c, k) \/ AuthCredentials(c, k) PROVE UNCHANGED askVars
  BY <1>1 DEF AuthKey, AuthCredentials, Authenticated
<1>2. ASSUME AuthFail(c) \/ ReadRules(c) \/ SendAuthOK(c) \/ AuthOKFails(c)
      PROVE  UNCHANGED askVars
  BY <1>2 DEF AuthFail, ReadRules, SendAuthOK, AuthOKFails
<1>3. ASSUME StartPumps(c) \/ Finish(c) \/ PublishRelayPacket(c) PROVE UNCHANGED askVars
  BY <1>3 DEF StartPumps, Finish, PublishRelayPacket, Register, Unregister, Publish, Broadcast
<1>4. ASSUME (\E r \in RuleIds : ReceiveRelayPacket(c, r)) \/ ReadFails(c)
             \/ WriteMessage(c) \/ WriteFails(c) \/ WritePumpEnds(c) \/ PeerGone(c)
      PROVE  UNCHANGED askVars
  BY <1>4 DEF ReceiveRelayPacket, ReadFails, WriteMessage, WriteFails, WritePumpEnds, PeerGone
<1> QED
  BY <1>1, <1>2, <1>3, <1>4 DEF ConnStep

\* A new request asks once, and a request that has its answer ends.
LEMMA AdminStepAnswers ==
    ASSUME TypeOK, EachIsAnsweredOnce, NEW a \in Admins, AdminStep(a)
    PROVE  EachIsAnsweredOnce'
<1> DEFINE Ordinary == /\ admin[a].pc # "reply" /\ UNCHANGED <<directSend, snapshot, reply>>
                       /\ \/ admin' = admin
                          \/ \E st : st.pc # "reply" /\ admin' = [admin EXCEPT ![a] = st]
<1>a. IdleAdmin.pc = "idle"
  BY DEF IdleAdmin
<1>b. admin \in [Admins -> AdminState] /\ reply \in [Admins -> {"none", "sent", "not sent", "clients"}]
  BY DEF TypeOK, HubTypeOK
<1>c. Ordinary => EachIsAnsweredOnce'
  BY AsksSame, OtherRequests DEF askVars
<1>1. CASE \E k \in Keys, r \in RuleIds : HandleAssignRule(a, k, r) \/ HandleUnassignRule(a, k, r)
  <2>1. PICK st : /\ st.pc = "get rules"
                  /\ admin' = [admin EXCEPT ![a] = st] /\ admin[a] = IdleAdmin
                  /\ UNCHANGED <<directSend, snapshot, reply>>
    BY <1>1 DEF HandleAssignRule, HandleUnassignRule, NewRequest, DatabaseOnly, hubVars, queueVars
  <2> QED
    BY <1>a, <1>c, <2>1
<1>2. CASE ReadForPush(a)
  <2>1. PICK st : /\ st = [pc |-> "push", key |-> admin[a].key,
                           rules |-> GetRulesForClient(admin[a].key)]
                  /\ admin' = [admin EXCEPT ![a] = st] /\ admin[a].pc = "get rules"
                  /\ UNCHANGED <<directSend, snapshot, reply>>
    BY <1>2 DEF ReadForPush, DatabaseOnly, hubVars, queueVars
  <2>2. st.pc # "reply"
    BY <2>1
  <2> QED
    BY <1>c, <2>1, <2>2
<1>3. CASE PushRules(a)
  <2>1. /\ admin' = [admin EXCEPT ![a] = IdleAdmin] /\ admin[a].pc = "push"
        /\ UNCHANGED <<directSend, snapshot, reply>>
    BY <1>3 DEF PushRules, PushRuleUpdate, QueuesOnly
  <2> QED
    BY <1>a, <1>c, <2>1
<1>8. CASE ReadForPushFails(a)
  <2>1. /\ admin' = [admin EXCEPT ![a] = IdleAdmin] /\ admin[a].pc = "get rules"
        /\ UNCHANGED <<directSend, snapshot, reply>>
    BY <1>8 DEF ReadForPushFails, DatabaseOnly, hubVars, queueVars
  <2> QED
    BY <1>a, <1>c, <2>1
<1>4. CASE \/ \E r \in RuleIds : HandleToggleRule(a, r) \/ HandleDeleteRule(a, r)
           \/ \E r \in RuleIds, d \in Directions : HandleUpdateRule(a, r, d)
           \/ \E k \in Keys : HandleCreateKey(a, k) \/ HandleRevokeKey(a, k)
  <2>1. UNCHANGED askVars
    BY <1>4 DEF HandleToggleRule, HandleDeleteRule, HandleUpdateRule, HandleCreateKey,
                HandleRevokeKey, DatabaseOnly, hubVars, queueVars, askVars
  <2> QED
    BY <2>1, AsksSame
<1>5. CASE \E k \in Keys : HandleSendClientUpdate(a, k)
  <2>1. PICK e : /\ e.admin = a /\ directSend' = Append(directSend, e)
                 /\ admin' = [admin EXCEPT ![a] = [pc |-> "reply"]]
                 /\ admin[a] = IdleAdmin /\ UNCHANGED <<snapshot, reply>>
    BY <1>5 DEF HandleSendClientUpdate, SendToClient, NewRequest, QueuesOnly
  <2>2. PICK n : n = Len(directSend) + 1
    OBVIOUS
  <2>3. /\ \A i \in DOMAIN directSend : i \in DOMAIN directSend' /\ directSend'[i] = directSend[i]
        /\ n \in DOMAIN directSend' /\ directSend'[n] = e
        /\ \A i \in DOMAIN directSend' : i = n \/ i \in DOMAIN directSend
    <3>1. directSend \in Seq(DirectSendReq)
      BY DEF TypeOK, HubTypeOK
    <3> QED
      BY <2>1, <2>2, <3>1, Appended
  <2>4. ~Asking(a) /\ reply[a] = "none"
    BY <1>a, <2>1 DEF EachIsAnsweredOnce
  <2>5. \A i \in DOMAIN directSend : directSend[i].admin # a
    BY <2>4 DEF Asking
  <2>6. admin'[a].pc = "reply" /\ \A b \in Admins \ {a} : admin'[b] = admin[b]
    BY <1>b, <2>1
  <2>7. Asking(a)' /\ \A b \in Admins \ {a} : Asking(b)' <=> Asking(b)
    BY <2>1, <2>3 DEF Asking
  <2>8. \A i, j \in DOMAIN directSend' : directSend'[i].admin = directSend'[j].admin => i = j
    BY <2>1, <2>3, <2>5 DEF EachIsAnsweredOnce
  <2>9. \A i \in DOMAIN directSend' : directSend'[i].admin \notin snapshot'
    BY <2>1, <2>3, <2>4 DEF EachIsAnsweredOnce, Asking
  <2> QED
    BY <2>1, <2>4, <2>6, <2>7, <2>8, <2>9 DEF EachIsAnsweredOnce
<1>6. CASE HandleGetClients(a)
  <2>1. /\ snapshot' = snapshot \cup {a} /\ admin' = [admin EXCEPT ![a] = [pc |-> "reply"]]
        /\ admin[a] = IdleAdmin /\ UNCHANGED <<directSend, reply>>
    BY <1>6 DEF HandleGetClients, GetConnectedClients, NewRequest, QueuesOnly
  <2>2. ~Asking(a) /\ reply[a] = "none"
    BY <1>a, <2>1 DEF EachIsAnsweredOnce
  <2>3. admin'[a].pc = "reply" /\ \A b \in Admins \ {a} : admin'[b] = admin[b]
    BY <1>b, <2>1
  <2>4. Asking(a)' /\ \A b \in Admins \ {a} : Asking(b)' <=> Asking(b)
    BY <2>1 DEF Asking
  <2>5. \A i \in DOMAIN directSend : directSend[i].admin \notin snapshot'
    BY <2>1, <2>2 DEF EachIsAnsweredOnce, Asking
  <2> QED
    BY <2>1, <2>2, <2>3, <2>4, <2>5 DEF EachIsAnsweredOnce
<1>7. CASE ReceiveReply(a)
  <2>1. /\ reply[a] # "none" /\ reply' = [reply EXCEPT ![a] = "none"]
        /\ admin' = [admin EXCEPT ![a] = IdleAdmin] /\ UNCHANGED <<directSend, snapshot>>
    BY <1>7 DEF ReceiveReply, queueVars
  <2>2. /\ reply'[a] = "none" /\ \A b \in Admins \ {a} : reply'[b] = reply[b]
        /\ admin'[a].pc = "idle" /\ \A b \in Admins \ {a} : admin'[b] = admin[b]
    BY <1>a, <1>b, <2>1
  <2>3. ~Asking(a)
    BY <2>1 DEF EachIsAnsweredOnce
  <2>4. \A b : Asking(b)' <=> Asking(b)
    BY <2>1 DEF Asking
  <2> QED
    BY <2>1, <2>2, <2>3, <2>4 DEF EachIsAnsweredOnce
<1> QED
  BY <1>1, <1>2, <1>3, <1>4, <1>5, <1>6, <1>7, <1>8 DEF AdminStep

(* The safety of RequestsReturn: a request that waits for the hub is in a  *)
(* channel the hub reads, once, or has its answer, and the hub runs as     *)
(* long as the server's context does.                                      *)
THEOREM RequestsAreAnswered == Spec => [](EachIsAnsweredOnce /\ (ctxUp => hubUp))
<1>1. Init => EachIsAnsweredOnce /\ (ctxUp => hubUp)
  BY DEF Init, HubInit, EachIsAnsweredOnce, Asking, IdleAdmin
<1>2. TypeOK /\ EachIsAnsweredOnce /\ [Next]_vars => EachIsAnsweredOnce'
  <2>a. SUFFICES ASSUME TypeOK, EachIsAnsweredOnce, [Next]_vars PROVE EachIsAnsweredOnce'
    OBVIOUS
  <2>1. ASSUME (\E r \in RuleIds : CapturePacket(r)) \/ Shutdown \/ UNCHANGED vars
        PROVE  UNCHANGED askVars
    BY <2>1 DEF CapturePacket, Publish, Broadcast, QueuesOnly, Shutdown, vars, hubVars,
                queueVars, adminVars, askVars
  <2> QED
    BY <2>a, <2>1, AsksSame, HubStepAnswers, ConnStepAnswers, AdminStepAnswers DEF Next, Idle
<1>3. (ctxUp => hubUp) /\ [Next]_vars => (ctxUp' => hubUp')
  <2>a. SUFFICES ASSUME ctxUp => hubUp, [Next]_vars PROVE ctxUp' => hubUp'
    OBVIOUS
  <2>1. CASE HubStep
    <3>1. ASSUME HubRegister \/ HubUnregister \/ HubBroadcast \/ HubRuleUpdate \/ HubDirectSend
                 \/ \E a \in Admins : HubSnapshot(a)
          PROVE  UNCHANGED <<ctxUp, hubUp>>
      BY <3>1 DEF HubRegister, HubUnregister, HubBroadcast, HubRuleUpdate, HubDirectSend,
                  HubSnapshot
    <3>2. HubStop => ~ctxUp /\ ctxUp' = ctxUp
      BY DEF HubStop
    <3> QED
      BY <2>a, <2>1, <3>1, <3>2 DEF HubStep, HubNext
  <2>2. ASSUME NEW c \in Conns, ConnStep(c) PROVE UNCHANGED <<ctxUp, hubUp>>
    <3> USE DEF hubVars, QueuesOnly
    <3>1. ASSUME NEW k \in Keys, AuthKey(c, k) \/ AuthCredentials(c, k)
          PROVE  UNCHANGED <<ctxUp, hubUp>>
      BY <3>1 DEF AuthKey, AuthCredentials, Authenticated
    <3>2. ASSUME AuthFail(c) \/ ReadRules(c) \/ SendAuthOK(c) \/ AuthOKFails(c)
                 \/ StartPumps(c) \/ Finish(c) \/ PublishRelayPacket(c)
          PROVE  UNCHANGED <<ctxUp, hubUp>>
      BY <3>2 DEF AuthFail, ReadRules, SendAuthOK, AuthOKFails, StartPumps, Finish,
                  PublishRelayPacket
    <3>3. ASSUME (\E r \in RuleIds : ReceiveRelayPacket(c, r)) \/ ReadFails(c)
                 \/ WriteMessage(c) \/ WriteFails(c) \/ WritePumpEnds(c) \/ PeerGone(c)
          PROVE  UNCHANGED <<ctxUp, hubUp>>
      BY <3>3 DEF ReceiveRelayPacket, ReadFails, WriteMessage, WriteFails, WritePumpEnds, PeerGone
    <3> QED
      BY <2>2, <3>1, <3>2, <3>3 DEF ConnStep
  <2>3. ASSUME NEW a \in Admins, AdminStep(a) PROVE UNCHANGED <<ctxUp, hubUp>>
    <3> USE DEF hubVars, QueuesOnly, DatabaseOnly
    <3>1. ASSUME \E k \in Keys, r \in RuleIds : HandleAssignRule(a, k, r) \/ HandleUnassignRule(a, k, r)
          PROVE  UNCHANGED <<ctxUp, hubUp>>
      BY <3>1 DEF HandleAssignRule, HandleUnassignRule
    <3>2. ASSUME \/ \E r \in RuleIds : HandleToggleRule(a, r) \/ HandleDeleteRule(a, r)
                 \/ \E r \in RuleIds, d \in Directions : HandleUpdateRule(a, r, d)
                 \/ \E k \in Keys : HandleCreateKey(a, k) \/ HandleRevokeKey(a, k)
          PROVE  UNCHANGED <<ctxUp, hubUp>>
      BY <3>2 DEF HandleToggleRule, HandleDeleteRule, HandleUpdateRule, HandleCreateKey,
                  HandleRevokeKey
    <3>3. ASSUME \/ \E k \in Keys : HandleSendClientUpdate(a, k)
                 \/ ReadForPush(a) \/ ReadForPushFails(a) \/ PushRules(a)
                 \/ HandleGetClients(a) \/ ReceiveReply(a)
          PROVE  UNCHANGED <<ctxUp, hubUp>>
      BY <3>3 DEF HandleSendClientUpdate, ReadForPush, ReadForPushFails, PushRules,
                  HandleGetClients, ReceiveReply
    <3> QED
      BY <2>3, <3>1, <3>2, <3>3 DEF AdminStep
  <2>4. CASE (\E r \in RuleIds : CapturePacket(r)) \/ Shutdown \/ UNCHANGED vars
    BY <2>a, <2>4 DEF CapturePacket, QueuesOnly, Shutdown, vars, hubVars
  <2> QED
    BY <2>a, <2>1, <2>2, <2>3, <2>4 DEF Next, Idle
<1> QED
  BY TypeCorrect, <1>1, <1>2, <1>3, PTL DEF Spec
=============================================================================
