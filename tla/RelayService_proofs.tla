------------------------- MODULE RelayService_proofs -------------------------
(***************************************************************************)
(* What the relay server promises, for every number of keys, connections,  *)
(* rules and requests and every channel capacity: it implements            *)
(* RelayService, a client is told the rules it is relayed by, and the hub  *)
(* ends up with the rules of the tables.                                   *)
(***************************************************************************)
EXTENDS RelayServer_proofs

(***************************************************************************)
(* What each of the actors leaves alone.                                   *)
(***************************************************************************)
\* The hub writes its queues and its view of the connections only.
LEMMA HubFrame ==
    HubStep => UNCHANGED <<hpc, rpc, wpc, pend, peer, got, view, assigned, enabled, direction,
                           granted, touched, unsure, admin, published, connKey>>
  BY DEF HubStep, HubNext, HubOnly, HubRegister, HubUnregister, HubBroadcast, HubRuleUpdate,
         HubDirectSend, HubSnapshot, HubStop, connVars, dbVars, adminVars, clientVars

\* The goroutines of a connection write no table and no other request.
LEMMA ConnFrame ==
    ASSUME NEW c \in Conns, ConnStep(c)
    PROVE  UNCHANGED <<assigned, enabled, direction, granted, touched, unsure, admin,
                       ruleUpdate, clients, closed, hubUp, dropped>>
<1> USE DEF hubVars, queueVars, clientVars, historyVars, dbVars, adminVars, QueuesOnly
<1>1. ASSUME NEW k \in Keys, AuthKey(c, k) \/ AuthCredentials(c, k)
      PROVE  UNCHANGED <<assigned, enabled, direction, granted, touched, unsure, admin,
                         ruleUpdate, clients, closed, hubUp, dropped>>
  BY <1>1 DEF AuthKey, AuthCredentials, Authenticated
<1>2. ASSUME AuthFail(c) \/ ReadRules(c) \/ SendAuthOK(c) \/ AuthOKFails(c) \/ StartPumps(c)
             \/ Finish(c)
      PROVE  UNCHANGED <<assigned, enabled, direction, granted, touched, unsure, admin,
                         ruleUpdate, clients, closed, hubUp, dropped>>
  BY <1>2 DEF AuthFail, ReadRules, SendAuthOK, AuthOKFails, StartPumps, Finish, Register,
              Unregister
<1>3. ASSUME (\E r \in RuleIds : ReceiveRelayPacket(c, r)) \/ PublishRelayPacket(c)
             \/ ReadFails(c) \/ WriteMessage(c) \/ WriteFails(c) \/ WritePumpEnds(c)
             \/ PeerGone(c)
      PROVE  UNCHANGED <<assigned, enabled, direction, granted, touched, unsure, admin,
                         ruleUpdate, clients, closed, hubUp, dropped>>
  BY <1>3 DEF ReceiveRelayPacket, PublishRelayPacket, Publish, Broadcast, ReadFails,
              WriteMessage, WriteFails, WritePumpEnds, PeerGone
<1> QED
  BY <1>1, <1>2, <1>3 DEF ConnStep

\* A web handler writes tables and puts requests into the hub's channels.
LEMMA AdminFrame ==
    ASSUME NEW a \in Admins, AdminStep(a)
    PROVE  /\ UNCHANGED <<hpc, rpc, wpc, pend, peer, got, view, published, register,
                          unregister, broadcast, clients, connKey, rules, sendCh, closed,
                          hubUp, missed, dropped>>
           /\ granted \subseteq granted'
<1> USE DEF hubVars, queueVars, clientVars, historyVars, connVars, dbVars, QueuesOnly,
            DatabaseOnly, Remember
<1>1. CASE \E k \in Keys, r \in RuleIds : HandleAssignRule(a, k, r) \/ HandleUnassignRule(a, k, r)
  BY <1>1 DEF HandleAssignRule, HandleUnassignRule
<1>2. CASE \/ ReadForPush(a) \/ ReadForPushFails(a) \/ PushRules(a) \/ HandleGetClients(a)
           \/ ReceiveReply(a)
  BY <1>2 DEF ReadForPush, ReadForPushFails, PushRules, PushRuleUpdate, HandleGetClients, GetConnectedClients,
              ReceiveReply
<1>3. CASE \E r \in RuleIds : HandleToggleRule(a, r) \/ HandleDeleteRule(a, r)
  BY <1>3 DEF HandleToggleRule, HandleDeleteRule
<1>4. CASE \E r \in RuleIds, d \in Directions : HandleUpdateRule(a, r, d)
  BY <1>4 DEF HandleUpdateRule
<1>5. CASE \E k \in Keys : HandleCreateKey(a, k) \/ HandleRevokeKey(a, k)
                           \/ HandleSendClientUpdate(a, k)
  BY <1>5 DEF HandleCreateKey, HandleRevokeKey, HandleSendClientUpdate, SendToClient
<1> QED
  BY <1>1, <1>2, <1>3, <1>4, <1>5 DEF AdminStep

(***************************************************************************)
(* What the hub, its queues and the requests may hold under the promise.   *)
(***************************************************************************)
\* A slice of rules a key may be given: each of them has been in force for it.
MayHold(k, slice) == \A r \in RuleIds : slice[r] # NoRule => <<k, r>> \in granted

\* Packets the hub has taken from the broadcast channel: it takes them in order.
FannedOut == Len(published) - Len(broadcast)

FreshHasNoKey == \A c \in Conns : hpc[c] = "none" => connKey[c] = NoKey

InForceIsGranted == \A k \in Keys, r \in RuleIds : InForce(k, r) => <<k, r>> \in granted

SlicesAreGranted ==
    /\ \A c \in Conns : MayHold(connKey[c], rules[c])
    /\ \A a \in Admins : admin[a].pc = "push" => MayHold(admin[a].key, admin[a].rules)
    /\ \A i \in DOMAIN ruleUpdate : MayHold(ruleUpdate[i].key, ruleUpdate[i].rules)

PendingIsGranted == \A c \in Conns : rpc[c] = "publish" => <<connKey[c], pend[c]>> \in granted

\* The channel holds the latest packets, in the order they were published.
BroadcastIsLatest ==
    /\ Len(broadcast) <= Len(published)
    /\ \A i \in DOMAIN broadcast :
          /\ broadcast[i].id = FannedOut + i
          /\ broadcast[i].rule = published[FannedOut + i].rule
          /\ broadcast[i].sender = published[FannedOut + i].sender

\* Packet n may be sent to the connection.
MayReceive(c, n) ==
    /\ n \in 1 .. FannedOut
    /\ published[n].sender # connKey[c]
    /\ <<connKey[c], published[n].rule>> \in granted

IsPacket(c, i) == sendCh[c][i].type = "RelayPacket"

\* A connection's packets are in order, from those its peer got to those in SendCh.
InOrder(c) ==
    /\ \A i \in DOMAIN sendCh[c] : IsPacket(c, i) => MayReceive(c, sendCh[c][i].id)
    /\ \A i, j \in DOMAIN sendCh[c] :
          i < j /\ IsPacket(c, i) /\ IsPacket(c, j) => sendCh[c][i].id < sendCh[c][j].id
    /\ \A n \in DOMAIN got[c] :
          /\ got[c][n] <= FannedOut
          /\ \A i \in DOMAIN sendCh[c] : IsPacket(c, i) => got[c][n] < sendCh[c][i].id

GrantInv == FreshHasNoKey /\ InForceIsGranted /\ SlicesAreGranted /\ PendingIsGranted
OrderInv == BroadcastIsLatest /\ \A c \in Conns : InOrder(c)

\* Nothing has been handed out at first but what the database starts with.
LEMMA InitGrantInv == Init => GrantInv
<1> SUFFICES ASSUME Init PROVE GrantInv
  OBVIOUS
<1>1. FreshHasNoKey /\ PendingIsGranted
  BY DEF Init, HubInit, FreshHasNoKey, PendingIsGranted
<1>2. InForceIsGranted
  BY DEF Init, InForceIsGranted
<1>3. \A c \in Conns : MayHold(connKey[c], rules[c])
  BY DEF Init, HubInit, MayHold
<1>4. SlicesAreGranted
  <2>1. \A a \in Admins : admin[a].pc # "push"
    BY DEF Init, IdleAdmin
  <2>2. DOMAIN ruleUpdate = {}
    BY DEF Init, HubInit
  <2> QED
    BY <1>3, <2>1, <2>2 DEF SlicesAreGranted
<1> QED
  BY <1>1, <1>2, <1>4 DEF GrantInv

\* Whoever has no key holds no rule.
LEMMA KeylessHoldsNone ==
    ASSUME TypeOK, GrantInv, NEW c \in Conns, connKey[c] = NoKey
    PROVE  /\ \A r \in RuleIds : rules[c][r] = NoRule
           /\ rpc[c] # "publish"
<1>1. \A r : <<NoKey, r>> \notin granted
  BY HubAssumption DEF TypeOK, TablesTypeOK
<1>2. \A r \in RuleIds : rules[c][r] = NoRule
  BY <1>1 DEF GrantInv, SlicesAreGranted, MayHold
<1> QED
  BY <1>1, <1>2 DEF GrantInv, PendingIsGranted

\* What the tables give a key it may hold.
LEMMA TablesMayHold ==
    ASSUME InForceIsGranted, NEW k \in Keys
    PROVE  MayHold(k, GetRulesForClient(k))
  BY DEF InForceIsGranted, MayHold, GetRulesForClient

\* The hub replaces a slice by one that was read for the same key.
LEMMA HubKeepsGrants == TypeOK /\ HubInv /\ GrantInv /\ HubStep => GrantInv'
<1>a. SUFFICES ASSUME TypeOK, HubInv, GrantInv, HubStep PROVE GrantInv'
  OBVIOUS
<1>1. UNCHANGED <<hpc, rpc, pend, assigned, enabled, direction, granted, admin, connKey>>
  BY <1>a, HubFrame
<1>2. FreshHasNoKey' /\ InForceIsGranted' /\ PendingIsGranted'
  BY <1>a, <1>1 DEF GrantInv, FreshHasNoKey, InForceIsGranted, PendingIsGranted, InForce
<1>3. /\ \A c \in Conns : MayHold(connKey[c], rules[c])
      /\ \A a \in Admins : admin[a].pc = "push" => MayHold(admin[a].key, admin[a].rules)
      /\ \A i \in DOMAIN ruleUpdate : MayHold(ruleUpdate[i].key, ruleUpdate[i].rules)
  BY <1>a DEF GrantInv, SlicesAreGranted
<1>4. CASE HubRuleUpdate
  <2> DEFINE req == Head(ruleUpdate)
             c   == clients[req.key]
  <2>1. /\ req \in RuleUpdateReq
        /\ req = ruleUpdate[1] /\ 1 \in DOMAIN ruleUpdate
        /\ \A i \in DOMAIN Tail(ruleUpdate) :
              i + 1 \in DOMAIN ruleUpdate /\ Tail(ruleUpdate)[i] = ruleUpdate[i + 1]
    <3>1. ruleUpdate \in Seq(RuleUpdateReq) /\ Len(ruleUpdate) <= HubCap /\ ruleUpdate # <<>>
          /\ HubCap \in Nat
      BY <1>a, <1>4, HubAssumption DEF TypeOK, HubTypeOK, HubRuleUpdate
    <3> QED
      BY <3>1, Serve
  <2>2. req.key \in Keys
    BY <2>1 DEF RuleUpdateReq
  <2>3. c # NoConn => connKey[c] = req.key
    BY <1>a, <1>4, <2>2 DEF HubInv, MapHoldsOpen, HubRuleUpdate
  <2>4. /\ rules' = [d \in Conns |-> IF d = c THEN req.rules ELSE rules[d]]
        /\ ruleUpdate' = Tail(ruleUpdate)
    BY <1>4 DEF HubRuleUpdate, ReplaceRules
  <2>5. MayHold(req.key, req.rules)
    BY <1>3, <2>1
  <2>6. ASSUME NEW d \in Conns PROVE MayHold(connKey[d], rules'[d])
    BY <1>3, <2>3, <2>4, <2>5, HubAssumption
  <2>7. ASSUME NEW i \in DOMAIN ruleUpdate'
        PROVE  MayHold(ruleUpdate'[i].key, ruleUpdate'[i].rules)
    BY <1>3, <2>1, <2>4
  <2> HIDE DEF req, c
  <2> QED
    BY <1>1, <1>2, <1>3, <2>6, <2>7 DEF GrantInv, SlicesAreGranted, MayHold
<1>5. CASE UNCHANGED <<rules, ruleUpdate>>
  BY <1>1, <1>2, <1>3, <1>5 DEF GrantInv, SlicesAreGranted, MayHold
<1>6. HubRuleUpdate \/ UNCHANGED <<rules, ruleUpdate>>
  BY <1>a DEF HubStep, HubNext, HubRegister, HubUnregister, HubBroadcast, HubDirectSend,
              HubSnapshot, HubStop, clientVars, queueVars
<1> QED
  BY <1>4, <1>5, <1>6

\* A connection is given a key, reads the rules of its key, and forwards under those.
LEMMA ConnKeepsGrants ==
    ASSUME NEW c \in Conns, TypeOK, GrantInv, ConnStep(c)
    PROVE  GrantInv'
<1> USE DEF GoTo
<1>1. UNCHANGED <<assigned, enabled, direction, granted, admin, ruleUpdate>>
  BY ConnFrame
<1>2. /\ hpc \in [Conns -> {"none", "get rules", "auth ok", "register", "wait", "done"}]
      /\ rpc \in [Conns -> {"off", "read", "publish", "end"}]
      /\ connKey \in [Conns -> Keys \cup {NoKey}]
      /\ rules \in [Conns -> RuleSlice]
      /\ pend \in [Conns -> RuleIds \cup {NoRule}]
  BY DEF TypeOK, ConnTypeOK, HubTypeOK
<1>3. InForceIsGranted'
  BY <1>1 DEF GrantInv, InForceIsGranted, InForce
<1>4. /\ \A d \in Conns : MayHold(connKey[d], rules[d])
      /\ \A a \in Admins : admin[a].pc = "push" => MayHold(admin[a].key, admin[a].rules)
      /\ \A i \in DOMAIN ruleUpdate : MayHold(ruleUpdate[i].key, ruleUpdate[i].rules)
  BY DEF GrantInv, SlicesAreGranted
<1>5. ASSUME \A d \in Conns : MayHold(connKey'[d], rules'[d]) PROVE SlicesAreGranted'
  BY <1>1, <1>4, <1>5 DEF SlicesAreGranted, MayHold
<1>6. CASE \E k \in Keys : Authenticated(c, k)
  <2>1. PICK k \in Keys : Authenticated(c, k)
    BY <1>6
  <2>2. /\ hpc[c] = "none" /\ hpc' = [hpc EXCEPT ![c] = "get rules"]
        /\ connKey' = [connKey EXCEPT ![c] = k]
        /\ UNCHANGED <<rules, rpc, pend>>
    BY <2>1 DEF Authenticated
  <2>3. connKey[c] = NoKey
    BY <2>2 DEF GrantInv, FreshHasNoKey
  <2>4. (\A r \in RuleIds : rules[c][r] = NoRule) /\ rpc[c] # "publish"
    BY <2>3, KeylessHoldsNone
  <2>5. \A d \in Conns : d # c => connKey'[d] = connKey[d] /\ hpc'[d] = hpc[d]
    BY <1>2, <2>2
  <2>6. \A d \in Conns : MayHold(connKey'[d], rules'[d])
    BY <1>4, <2>2, <2>4, <2>5 DEF MayHold
  <2>7. FreshHasNoKey' /\ PendingIsGranted'
    BY <1>1, <1>2, <2>2, <2>4, <2>5 DEF GrantInv, FreshHasNoKey, PendingIsGranted
  <2> QED
    BY <1>3, <1>5, <2>6, <2>7 DEF GrantInv
<1>7. CASE ReadRules(c)
  <2>1. /\ hpc[c] = "get rules" /\ hpc' = [hpc EXCEPT ![c] = "auth ok"]
        /\ rules' = [rules EXCEPT ![c] = GetRulesForClient(connKey[c])]
        /\ UNCHANGED <<connKey, rpc, pend>>
    BY <1>7 DEF ReadRules
  <2>2. connKey[c] \in Keys
    BY <2>1 DEF TypeOK
  <2>3. MayHold(connKey[c], GetRulesForClient(connKey[c]))
    BY <2>2, TablesMayHold DEF GrantInv
  <2>4. \A d \in Conns : MayHold(connKey'[d], rules'[d])
    BY <1>2, <1>4, <2>1, <2>3
  <2>5. FreshHasNoKey' /\ PendingIsGranted'
    BY <1>1, <1>2, <2>1 DEF GrantInv, FreshHasNoKey, PendingIsGranted
  <2> QED
    BY <1>3, <1>5, <2>4, <2>5 DEF GrantInv
<1>8. CASE \E r \in RuleIds : ReceiveRelayPacket(c, r)
  <2>1. PICK r \in RuleIds : ReceiveRelayPacket(c, r)
    BY <1>8
  <2>2. /\ rules[c][r] # NoRule
        /\ pend' = [pend EXCEPT ![c] = r] /\ rpc' = [rpc EXCEPT ![c] = "publish"]
        /\ UNCHANGED <<hpc, connKey, rules>>
    BY <2>1 DEF ReceiveRelayPacket, MayForward, hubVars, clientVars
  <2>3. <<connKey[c], r>> \in granted
    BY <1>4, <2>2 DEF MayHold
  <2>4. PendingIsGranted'
    BY <1>1, <1>2, <2>2, <2>3 DEF GrantInv, PendingIsGranted
  <2>5. FreshHasNoKey' /\ SlicesAreGranted'
    BY <1>4, <1>5, <2>2 DEF GrantInv, FreshHasNoKey, MayHold
  <2> QED
    BY <1>3, <2>4, <2>5 DEF GrantInv
<1>9. CASE /\ \A d \in Conns : hpc'[d] = "none" => hpc[d] = "none"
           /\ \A d \in Conns : rpc'[d] = "publish" => rpc[d] = "publish" /\ pend'[d] = pend[d]
           /\ UNCHANGED <<connKey, rules>>
  BY <1>1, <1>3, <1>4, <1>5, <1>9 DEF GrantInv, FreshHasNoKey, PendingIsGranted, MayHold
<1>10. ASSUME AuthFail(c) \/ SendAuthOK(c) \/ AuthOKFails(c) \/ StartPumps(c) \/ Finish(c)
              \/ PublishRelayPacket(c) \/ ReadFails(c) \/ WriteMessage(c) \/ WriteFails(c)
              \/ WritePumpEnds(c) \/ PeerGone(c)
       PROVE  /\ \A d \in Conns : hpc'[d] = "none" => hpc[d] = "none"
              /\ \A d \in Conns : rpc'[d] = "publish" => rpc[d] = "publish" /\ pend'[d] = pend[d]
              /\ UNCHANGED <<connKey, rules>>
  <2> USE DEF hubVars, clientVars, QueuesOnly
  <2>1. CASE AuthFail(c) \/ SendAuthOK(c) \/ AuthOKFails(c) \/ StartPumps(c) \/ Finish(c)
    BY <1>2, <2>1 DEF AuthFail, SendAuthOK, AuthOKFails, StartPumps, Finish
  <2>2. CASE PublishRelayPacket(c) \/ ReadFails(c)
    BY <1>2, <2>2 DEF PublishRelayPacket, ReadFails
  <2>3. CASE WriteMessage(c) \/ WriteFails(c) \/ WritePumpEnds(c) \/ PeerGone(c)
    BY <1>2, <2>3 DEF WriteMessage, WriteFails, WritePumpEnds, PeerGone
  <2> QED
    BY <1>10, <2>1, <2>2, <2>3
<1> QED
  BY <1>6, <1>7, <1>8, <1>9, <1>10 DEF ConnStep, AuthKey, AuthCredentials

\* A web handler makes the pairs it puts in force known, and pushes what it has read.
LEMMA AdminKeepsGrants ==
    ASSUME NEW a \in Admins, TypeOK, GrantInv, AdminStep(a)
    PROVE  GrantInv'
<1>1. /\ UNCHANGED <<hpc, rpc, pend, connKey, rules>> /\ granted \subseteq granted'
  BY AdminFrame
<1>2. FreshHasNoKey' /\ PendingIsGranted'
  BY <1>1 DEF GrantInv, FreshHasNoKey, PendingIsGranted
<1>3. InForceIsGranted'
  <2> USE DEF GrantInv, InForceIsGranted, InForce, DatabaseOnly, dbVars, Remember
  <2>1. CASE \E k \in Keys, r \in RuleIds : HandleAssignRule(a, k, r)
    BY <2>1 DEF HandleAssignRule
  <2>2. CASE \E k \in Keys, r \in RuleIds : HandleUnassignRule(a, k, r)
    BY <2>2 DEF HandleUnassignRule
  <2>3. CASE \/ ReadForPush(a) \/ ReadForPushFails(a) \/ PushRules(a) \/ HandleGetClients(a)
             \/ ReceiveReply(a)
    BY <2>3 DEF ReadForPush, ReadForPushFails, PushRules, HandleGetClients, ReceiveReply
  <2>4. CASE \E r \in RuleIds : HandleToggleRule(a, r)
    BY <2>4 DEF HandleToggleRule
  <2>5. CASE \E r \in RuleIds : HandleDeleteRule(a, r)
    BY <2>5 DEF HandleDeleteRule, TypeOK, TablesTypeOK
  <2>6. CASE \E r \in RuleIds, d \in Directions : HandleUpdateRule(a, r, d)
    BY <2>6 DEF HandleUpdateRule, TypeOK, TablesTypeOK
  <2>7. CASE \E k \in Keys : HandleCreateKey(a, k) \/ HandleRevokeKey(a, k)
                             \/ HandleSendClientUpdate(a, k)
    BY <2>7 DEF HandleCreateKey, HandleRevokeKey, HandleSendClientUpdate
  <2> QED
    BY <2>1, <2>2, <2>3, <2>4, <2>5, <2>6, <2>7 DEF AdminStep
<1>4. /\ \A d \in Conns : MayHold(connKey[d], rules[d])
      /\ \A b \in Admins : admin[b].pc = "push" => MayHold(admin[b].key, admin[b].rules)
      /\ \A i \in DOMAIN ruleUpdate : MayHold(ruleUpdate[i].key, ruleUpdate[i].rules)
  BY DEF GrantInv, SlicesAreGranted
<1>5. ASSUME NEW k, NEW slice, MayHold(k, slice) PROVE MayHold(k, slice)'
  BY <1>1, <1>5 DEF MayHold
<1>6. ASSUME \A b \in Admins : \/ admin'[b].pc # "push" \/ admin'[b] = admin[b]
                               \/ MayHold(admin'[b].key, admin'[b].rules),
             \A i \in DOMAIN ruleUpdate' : MayHold(ruleUpdate'[i].key, ruleUpdate'[i].rules)
      PROVE  GrantInv'
  <2>1. SlicesAreGranted'
    BY <1>1, <1>4, <1>6 DEF SlicesAreGranted, MayHold
  <2> QED
    BY <1>2, <1>3, <2>1 DEF GrantInv
<1>7. admin \in [Admins -> AdminState]
  BY DEF TypeOK
<1>8. CASE ReadForPush(a)
  <2>1. /\ admin[a].pc = "get rules" /\ ruleUpdate' = ruleUpdate
        /\ admin' = [admin EXCEPT ![a] = [pc |-> "push", key |-> @.key,
                                          rules |-> GetRulesForClient(@.key)]]
    BY <1>8 DEF ReadForPush, DatabaseOnly, hubVars, queueVars
  <2>2. admin[a].key \in Keys
    BY <1>7, <2>1, AdminStates
  <2>3. MayHold(admin[a].key, GetRulesForClient(admin[a].key))
    BY <2>2, TablesMayHold DEF GrantInv
  <2>4. MayHold(admin'[a].key, admin'[a].rules) /\ \A b \in Admins : b # a => admin'[b] = admin[b]
    BY <1>7, <2>1, <2>3
  <2> QED
    BY <1>4, <1>6, <2>1, <2>4
<1>9. CASE PushRules(a)
  <2>1. /\ admin[a].pc = "push" /\ admin' = [admin EXCEPT ![a] = IdleAdmin]
        /\ ruleUpdate' = Append(ruleUpdate, [key |-> admin[a].key, rules |-> admin[a].rules])
    BY <1>9 DEF PushRules, PushRuleUpdate
  <2>2. MayHold(admin[a].key, admin[a].rules)
    BY <1>4, <2>1
  <2>3. ASSUME NEW i \in DOMAIN ruleUpdate' PROVE MayHold(ruleUpdate'[i].key, ruleUpdate'[i].rules)
    <3>1. ruleUpdate \in Seq(RuleUpdateReq)
      BY DEF TypeOK, HubTypeOK
    <3>2. CASE i \in DOMAIN ruleUpdate
      <4>1. ruleUpdate'[i] = ruleUpdate[i]
        BY <2>1, <3>1, <3>2
      <4> QED
        BY <1>4, <3>2, <4>1
    <3>3. CASE i = Len(ruleUpdate) + 1
      <4>1. ruleUpdate'[i] = [key |-> admin[a].key, rules |-> admin[a].rules]
        BY <2>1, <3>1, <3>3
      <4> QED
        BY <2>2, <4>1
    <3> QED
      BY <2>1, <3>1, <3>2, <3>3
  <2>4. \A b \in Admins : admin'[b].pc # "push" \/ admin'[b] = admin[b]
    BY <1>7, <2>1 DEF IdleAdmin
  <2> QED
    BY <1>6, <2>3, <2>4
<1>10. ASSUME \/ \E k \in Keys, r \in RuleIds : HandleAssignRule(a, k, r) \/ HandleUnassignRule(a, k, r)
              \/ \E r \in RuleIds : HandleToggleRule(a, r) \/ HandleDeleteRule(a, r)
              \/ \E r \in RuleIds, d \in Directions : HandleUpdateRule(a, r, d)
              \/ \E k \in Keys : HandleCreateKey(a, k) \/ HandleRevokeKey(a, k) \/ HandleSendClientUpdate(a, k)
              \/ HandleGetClients(a) \/ ReceiveReply(a) \/ ReadForPushFails(a)
       PROVE  GrantInv'
  <2> USE DEF DatabaseOnly, hubVars, queueVars, SendToClient, GetConnectedClients
  <2>1. ruleUpdate' = ruleUpdate /\ \A b \in Admins : admin'[b].pc # "push" \/ admin'[b] = admin[b]
    <3>1. CASE \E k \in Keys, r \in RuleIds : HandleAssignRule(a, k, r) \/ HandleUnassignRule(a, k, r)
      <4>1. PICK k \in Keys : /\ admin' = [admin EXCEPT ![a] = [pc |-> "get rules", key |-> k]]
                             /\ ruleUpdate' = ruleUpdate
        BY <3>1 DEF HandleAssignRule, HandleUnassignRule
      <4> QED
        BY <1>7, <4>1
    <3>2. CASE \E r \in RuleIds : HandleToggleRule(a, r) \/ HandleDeleteRule(a, r)
      BY <3>2 DEF HandleToggleRule, HandleDeleteRule
    <3>3. CASE \E r \in RuleIds, d \in Directions : HandleUpdateRule(a, r, d)
      BY <3>3 DEF HandleUpdateRule
    <3>4. CASE \E k \in Keys : HandleCreateKey(a, k) \/ HandleRevokeKey(a, k) \/ HandleSendClientUpdate(a, k)
      BY <1>7, <3>4 DEF HandleCreateKey, HandleRevokeKey, HandleSendClientUpdate
    <3>5. CASE HandleGetClients(a) \/ ReceiveReply(a)
      BY <1>7, <3>5 DEF HandleGetClients, ReceiveReply, IdleAdmin
    <3>6. CASE ReadForPushFails(a)
      <4>1. admin' = [admin EXCEPT ![a] = IdleAdmin] /\ ruleUpdate' = ruleUpdate
        BY <3>6 DEF ReadForPushFails
      <4> QED
        BY <1>7, <4>1 DEF IdleAdmin
    <3> QED
      BY <1>10, <3>1, <3>2, <3>3, <3>4, <3>5, <3>6
  <2> QED
    BY <1>4, <1>6, <2>1
<1> QED
  BY <1>8, <1>9, <1>10 DEF AdminStep

\* What a packet moves under has been in force, at every step.
LEMMA GrantsCorrect == Spec => []GrantInv
<1>1. TypeOK /\ HubInv /\ GrantInv /\ [Next]_vars => GrantInv'
  <2>a. SUFFICES ASSUME TypeOK, HubInv, GrantInv, [Next]_vars PROVE GrantInv'
    OBVIOUS
  <2>1. CASE (\E r \in RuleIds : CapturePacket(r)) \/ Shutdown \/ UNCHANGED vars
    <3>1. UNCHANGED <<hpc, connKey, rules, admin, ruleUpdate, rpc, pend, granted, assigned,
                      enabled, direction>>
      BY <2>1 DEF CapturePacket, Publish, Broadcast, QueuesOnly, Shutdown, vars, hubVars,
                  queueVars, clientVars, connVars, dbVars, adminVars
    <3> QED
      BY <2>a, <3>1 DEF GrantInv, FreshHasNoKey, InForceIsGranted, InForce, SlicesAreGranted,
                        PendingIsGranted, MayHold
  <2> QED
    BY <2>a, <2>1, HubKeepsGrants, ConnKeepsGrants, AdminKeepsGrants DEF Next, Idle
<1> QED
  BY InitGrantInv, TypeCorrect, HubCorrect, <1>1, PTL DEF Spec

(***************************************************************************)
(* The order of the packets.                                               *)
(***************************************************************************)
LEMMA InitOrderInv == Init => OrderInv
  BY DEF Init, HubInit, OrderInv, BroadcastIsLatest, InOrder

\* The values the order is about.
LEMMA OrderTypes ==
    ASSUME TypeOK
    PROVE  /\ broadcast \in Seq(RelayMessage)
           /\ published \in Seq([rule : RuleIds, sender : Keys \cup {NoKey}])
           /\ Len(broadcast) \in Nat /\ Len(published) \in Nat /\ FannedOut \in Int
           /\ \A c \in Conns : sendCh[c] \in Seq(SendMsg) /\ got[c] \in Seq(Nat)
<1>1. /\ broadcast \in Seq(RelayMessage)
      /\ published \in Seq([rule : RuleIds, sender : Keys \cup {NoKey}])
      /\ \A c \in Conns : sendCh[c] \in Seq(SendMsg) /\ got[c] \in Seq(Nat)
  BY DEF TypeOK, HubTypeOK, ConnTypeOK
<1>2. Len(broadcast) \in Nat /\ Len(published) \in Nat
  BY <1>1
<1> QED
  BY <1>1, <1>2 DEF FannedOut

\* What a connection may receive it still may when packets and grants are added.
OnlyMore ==
    /\ FannedOut <= FannedOut'
    /\ \A c \in Conns, n \in Nat : MayReceive(c, n) => MayReceive(c, n)'

\* A connection whose SendCh and peer saw nothing new stays in order.
LEMMA SameInOrder ==
    ASSUME TypeOK, NEW c \in Conns, InOrder(c), OnlyMore,
           FannedOut' \in Int, sendCh'[c] = sendCh[c], got'[c] = got[c]
    PROVE  InOrder(c)'
<1>1. /\ sendCh[c] \in Seq(SendMsg) /\ got[c] \in Seq(Nat) /\ FannedOut \in Int
      /\ FannedOut <= FannedOut'
  BY OrderTypes DEF OnlyMore
<1>2. \A i \in DOMAIN sendCh[c] : IsPacket(c, i) => MayReceive(c, sendCh[c][i].id)'
  <2>1. ASSUME NEW i \in DOMAIN sendCh[c], IsPacket(c, i) PROVE sendCh[c][i].id \in Nat
    BY <1>1, <2>1, ElementsOf DEF IsPacket, SendMsg, PacketMsg, RulesMsg, CommandMsg
  <2> QED
    BY <2>1 DEF InOrder, OnlyMore
<1>3. \A n \in DOMAIN got[c] : got[c][n] <= FannedOut'
  <2>1. \A n \in DOMAIN got[c] : got[c][n] \in Nat
    BY <1>1, ElementsOf
  <2> QED
    BY <1>1, <2>1 DEF InOrder
<1> QED
  BY <1>2, <1>3 DEF InOrder, IsPacket, MayReceive

\* A message is put into SendCh: if it is a packet, it is the one the hub just took.
LEMMA OfferedInOrder ==
    ASSUME TypeOK, NEW c \in Conns, InOrder(c), OnlyMore, FannedOut' \in Int,
           NEW msg \in SendMsg,
           msg.type = "RelayPacket" =>
               msg.id = FannedOut + 1 /\ msg.id <= FannedOut' /\ MayReceive(c, msg.id)',
           sendCh'[c] = Append(sendCh[c], msg), got'[c] = got[c]
    PROVE  InOrder(c)'
<1> DEFINE q == sendCh[c]
           m == Len(q) + 1
<1>1. /\ q \in Seq(SendMsg) /\ got[c] \in Seq(Nat) /\ FannedOut \in Int
      /\ FannedOut <= FannedOut'
  BY OrderTypes DEF OnlyMore
<1>2. /\ \A i \in DOMAIN q : i \in DOMAIN q' /\ q'[i] = q[i] /\ i < m
      /\ q'[m] = msg /\ m \in Nat
      /\ \A i \in DOMAIN q' : i = m \/ i \in DOMAIN q
  <2>1. q' = Append(q, msg)
    OBVIOUS
  <2>2. \A i \in DOMAIN q : i < m
    BY <1>1
  <2> QED
    BY <1>1, <2>1, <2>2, Appended
<1>3. \A i \in DOMAIN q : /\ i \in Nat
                          /\ IsPacket(c, i) => /\ q[i].id \in Nat /\ q[i].id <= FannedOut
                                               /\ MayReceive(c, q[i].id)'
  <2>1. ASSUME NEW i \in DOMAIN q, IsPacket(c, i) PROVE q[i].id \in Nat
    BY <1>1, <2>1, ElementsOf DEF IsPacket, SendMsg, PacketMsg, RulesMsg, CommandMsg
  <2>2. ASSUME NEW i \in DOMAIN q, IsPacket(c, i)
        PROVE  q[i].id <= FannedOut /\ MayReceive(c, q[i].id)
    BY <1>1, <2>2 DEF InOrder, MayReceive
  <2> QED
    BY <1>1, <2>1, <2>2 DEF OnlyMore
<1>4. \A n \in DOMAIN got[c] : got[c][n] \in Nat /\ got[c][n] <= FannedOut
  BY <1>1, ElementsOf DEF InOrder
<1> HIDE DEF q, m
<1>5. (\A i \in DOMAIN q : IsPacket(c, i) => MayReceive(c, q[i].id))'
  <2>1. SUFFICES ASSUME NEW i \in DOMAIN q', IsPacket(c, i)' PROVE MayReceive(c, q[i].id)'
    OBVIOUS
  <2>2. q'[i].type = "RelayPacket"
    BY <2>1 DEF IsPacket, q
  <2>3. CASE i = m
    BY <1>2, <2>2, <2>3 DEF MayReceive
  <2>4. CASE i \in DOMAIN q
    BY <1>2, <1>3, <2>2, <2>4 DEF IsPacket, q
  <2> QED
    BY <1>2, <2>3, <2>4
<1>6. ASSUME NEW i \in DOMAIN q', NEW j \in DOMAIN q', i < j, IsPacket(c, i)', IsPacket(c, j)'
      PROVE  q'[i].id < q'[j].id
  <2>1. q'[i].type = "RelayPacket" /\ q'[j].type = "RelayPacket"
    BY <1>6 DEF IsPacket, q
  <2>2. i \in DOMAIN q /\ q'[i] = q[i] /\ q[i].type = "RelayPacket"
    BY <1>2, <1>3, <1>6, <2>1
  <2>3. IsPacket(c, i)
    BY <2>2 DEF IsPacket, q
  <2>4. CASE j = m
    BY <1>1, <1>2, <1>3, <2>1, <2>2, <2>3, <2>4
  <2>5. CASE j \in DOMAIN q
    <3>1. q'[j] = q[j]
      BY <1>2, <2>5
    <3>2. IsPacket(c, j)
      BY <2>1, <3>1 DEF IsPacket, q
    <3> QED
      BY <1>6, <2>2, <2>3, <2>5, <3>1, <3>2 DEF InOrder, q
  <2> QED
    BY <1>2, <2>4, <2>5
<1>7. ASSUME NEW n \in DOMAIN got[c], NEW i \in DOMAIN q', IsPacket(c, i)'
      PROVE  got[c][n] < q'[i].id
  <2>1. q'[i].type = "RelayPacket"
    BY <1>7 DEF IsPacket, q
  <2>2. CASE i = m
    BY <1>1, <1>2, <1>4, <2>1, <2>2
  <2>3. CASE i \in DOMAIN q
    <3>1. q'[i] = q[i]
      BY <1>2, <2>3
    <3>2. IsPacket(c, i)
      BY <2>1, <3>1 DEF IsPacket, q
    <3> QED
      BY <2>3, <3>1, <3>2 DEF InOrder, q
  <2> QED
    BY <1>2, <2>2, <2>3
<1>8. \A n \in DOMAIN got[c] : got[c][n] <= FannedOut'
  BY <1>1, <1>4
<1> QED
  BY <1>5, <1>6, <1>7, <1>8 DEF InOrder, q

\* The head of SendCh is written to the peer, or lost.
LEMMA WrittenInOrder ==
    ASSUME TypeOK, NEW c \in Conns, InOrder(c), sendCh[c] # <<>>,
           sendCh'[c] = Tail(sendCh[c]), UNCHANGED <<published, broadcast, connKey, granted>>,
           \/ got'[c] = got[c]
           \/ got'[c] = Append(got[c], Head(sendCh[c]).id) /\ Head(sendCh[c]).type = "RelayPacket"
    PROVE  InOrder(c)'
<1> DEFINE q == sendCh[c]
<1>1. q \in Seq(SendMsg) /\ got[c] \in Seq(Nat) /\ FannedOut \in Int /\ FannedOut' = FannedOut
  BY OrderTypes DEF FannedOut
<1>2. /\ Head(q) = q[1] /\ 1 \in DOMAIN q
      /\ \A i \in DOMAIN q' : i \in Nat /\ i + 1 \in DOMAIN q /\ 1 < i + 1 /\ q'[i] = q[i + 1]
  BY <1>1
<1>3. \A n : MayReceive(c, n)' <=> MayReceive(c, n)
  BY DEF MayReceive, FannedOut
<1> HIDE DEF q
<1>4. (\A i \in DOMAIN q : IsPacket(c, i) => MayReceive(c, q[i].id))'
  <2>1. SUFFICES ASSUME NEW i \in DOMAIN q', IsPacket(c, i)' PROVE MayReceive(c, q[i].id)'
    OBVIOUS
  <2>2. IsPacket(c, i + 1)
    BY <1>2, <2>1 DEF IsPacket, q
  <2>3. MayReceive(c, q[i + 1].id)
    BY <1>2, <2>1, <2>2 DEF InOrder, q
  <2> QED
    BY <1>2, <2>1, <2>3 DEF MayReceive, FannedOut
<1>5. \A i, j \in DOMAIN q' : i < j /\ IsPacket(c, i)' /\ IsPacket(c, j)' => q'[i].id < q'[j].id
  <2>1. SUFFICES ASSUME NEW i \in DOMAIN q', NEW j \in DOMAIN q', i < j,
                        IsPacket(c, i)', IsPacket(c, j)'
                 PROVE  q'[i].id < q'[j].id
    OBVIOUS
  <2>2. IsPacket(c, i + 1) /\ IsPacket(c, j + 1) /\ i + 1 < j + 1
    BY <1>2, <2>1 DEF IsPacket, q
  <2> QED
    BY <1>2, <2>1, <2>2 DEF InOrder, q
<1>6. ASSUME NEW n \in DOMAIN got'[c]
      PROVE  /\ got'[c][n] <= FannedOut
             /\ \A i \in DOMAIN q' : IsPacket(c, i)' => got'[c][n] < q'[i].id
  <2>1. \A i \in DOMAIN q' : IsPacket(c, i)' => IsPacket(c, i + 1)
    BY <1>2 DEF IsPacket, q
  <2>2. CASE n \in DOMAIN got[c] /\ got'[c][n] = got[c][n]
    BY <1>2, <2>1, <2>2 DEF InOrder, q
  <2>3. CASE got'[c][n] = Head(q).id /\ Head(q).type = "RelayPacket"
    <3>1. IsPacket(c, 1)
      BY <1>2, <2>3 DEF IsPacket, q
    <3>2. Head(q).id <= FannedOut
      <4>1. MayReceive(c, q[1].id)
        BY <1>2, <3>1 DEF InOrder, q
      <4>2. q[1].id \in 1 .. FannedOut
        BY <4>1 DEF MayReceive
      <4> QED
        BY <1>1, <1>2, <4>2
    <3>3. \A i \in DOMAIN q' : IsPacket(c, i)' => q[1].id < q[i + 1].id
      BY <1>2, <2>1, <3>1 DEF InOrder, q
    <3> QED
      BY <1>2, <2>3, <3>2, <3>3
  <2>4. CASE got'[c] = got[c]
    BY <1>6, <2>2, <2>4
  <2>5. CASE got'[c] = Append(got[c], Head(q).id) /\ Head(q).type = "RelayPacket"
    <3>1. \/ n \in DOMAIN got[c] /\ got'[c][n] = got[c][n]
          \/ got'[c][n] = Head(q).id
      BY <1>1, <1>6, <2>5, Appended
    <3> QED
      BY <2>2, <2>3, <2>5, <3>1
  <2> QED
    BY <2>4, <2>5 DEF q
<1> QED
  BY <1>1, <1>4, <1>5, <1>6 DEF InOrder, q

\* A packet is published: the ones before it keep their places.
LEMMA PublishKeepsOrder ==
    ASSUME TypeOK, OrderInv, NEW r \in RuleIds, NEW k \in Keys \cup {NoKey}, Publish(r, k),
           UNCHANGED <<connKey, granted, sendCh, got>>
    PROVE  OrderInv'
<1> DEFINE p == [rule |-> r, sender |-> k]
           m == [id |-> Len(published) + 1, rule |-> r, sender |-> k]
<1>1. /\ broadcast \in Seq(RelayMessage)
      /\ published \in Seq([rule : RuleIds, sender : Keys \cup {NoKey}])
      /\ Len(broadcast) \in Nat /\ Len(published) \in Nat /\ FannedOut \in Int
      /\ Len(broadcast) <= Len(published)
  BY OrderTypes DEF OrderInv, BroadcastIsLatest
<1>2. broadcast' = Append(broadcast, m) /\ published' = Append(published, p)
  BY DEF Publish, Broadcast
<1>3. /\ Len(broadcast') = Len(broadcast) + 1 /\ Len(published') = Len(published) + 1
      /\ \A n \in 1 .. Len(published) : published'[n] = published[n]
      /\ published'[Len(published) + 1] = p
      /\ \A i \in 1 .. Len(broadcast) : broadcast'[i] = broadcast[i]
      /\ broadcast'[Len(broadcast) + 1] = m
      /\ DOMAIN broadcast = 1 .. Len(broadcast)
      /\ DOMAIN broadcast' = 1 .. Len(broadcast) + 1
  BY <1>1, <1>2
<1>4. FannedOut' = FannedOut /\ FannedOut + Len(broadcast) = Len(published)
  BY <1>1, <1>3 DEF FannedOut
<1>5. \A c \in Conns, n \in Nat : MayReceive(c, n) => MayReceive(c, n)'
  <2>1. SUFFICES ASSUME NEW c \in Conns, NEW n \in Nat, MayReceive(c, n) PROVE MayReceive(c, n)'
    OBVIOUS
  <2>2. n \in 1 .. FannedOut
    BY <2>1 DEF MayReceive
  <2>3. published'[n] = published[n]
    BY <1>1, <1>3, <1>4, <2>2
  <2> QED
    BY <1>4, <2>1, <2>2, <2>3 DEF MayReceive
<1>6. OnlyMore
  BY <1>1, <1>4, <1>5 DEF OnlyMore
<1>7. \A c \in Conns : InOrder(c)'
  BY <1>1, <1>4, <1>6, SameInOrder DEF OrderInv
<1>8. BroadcastIsLatest'
  <2>1. ASSUME NEW i \in DOMAIN broadcast'
        PROVE  /\ broadcast'[i].id = FannedOut' + i
               /\ broadcast'[i].rule = published'[FannedOut' + i].rule
               /\ broadcast'[i].sender = published'[FannedOut' + i].sender
    <3>1. CASE i \in 1 .. Len(broadcast)
      <4>1. /\ broadcast[i].id = FannedOut + i
            /\ broadcast[i].rule = published[FannedOut + i].rule
            /\ broadcast[i].sender = published[FannedOut + i].sender
        BY <1>3, <3>1 DEF OrderInv, BroadcastIsLatest
      <4>2. FannedOut + i \in 1 .. Len(published)
        BY <1>1, <1>4, <3>1
      <4> QED
        BY <1>3, <1>4, <3>1, <4>1, <4>2
    <3>2. CASE i = Len(broadcast) + 1
      <4>1. FannedOut + i = Len(published) + 1
        BY <1>1, <1>4, <3>2
      <4> QED
        BY <1>3, <1>4, <3>2, <4>1
    <3> QED
      BY <1>1, <1>3, <2>1, <3>1, <3>2
  <2> QED
    BY <1>1, <1>3, <2>1 DEF BroadcastIsLatest
<1> QED
  BY <1>7, <1>8 DEF OrderInv

\* The hub takes a packet from the channel and offers it to its audience.
LEMMA FanOutKeepsOrder ==
    TypeOK /\ HubInv /\ GrantInv /\ OrderInv /\ HubStep /\ HubBroadcast => OrderInv'
<1>a. SUFFICES ASSUME TypeOK, HubInv, GrantInv, OrderInv, HubStep, HubBroadcast PROVE OrderInv'
  OBVIOUS
<1>1. /\ broadcast \in Seq(RelayMessage) /\ broadcast # <<>>
      /\ Len(broadcast) \in Nat /\ Len(published) \in Nat /\ FannedOut \in Int
      /\ Len(broadcast) <= Len(published)
  BY <1>a, OrderTypes DEF OrderInv, BroadcastIsLatest, HubBroadcast
<1>b. PICK msg \in RelayMessage : msg = Head(broadcast)
  BY <1>1
<1>c. PICK out : out = [type |-> "RelayPacket", id |-> msg.id]
  OBVIOUS
<1>2. /\ hubUp /\ broadcast' = Tail(broadcast)
      /\ Offer(Audience(msg), out)
      /\ UNCHANGED <<published, connKey, granted, got>>
  BY <1>a, <1>b, <1>c, HubFrame DEF HubBroadcast
<1>3. /\ msg = broadcast[1] /\ 1 \in DOMAIN broadcast /\ msg \in RelayMessage
      /\ \A i \in DOMAIN Tail(broadcast) :
            i \in Nat /\ i + 1 \in DOMAIN broadcast /\ Tail(broadcast)[i] = broadcast[i + 1]
      /\ Len(Tail(broadcast)) = Len(broadcast) - 1 /\ Len(broadcast) >= 1
  BY <1>1, <1>b
<1>4. FannedOut' = FannedOut + 1 /\ FannedOut' \in Int /\ FannedOut <= FannedOut' /\ FannedOut >= 0
  BY <1>1, <1>2, <1>3 DEF FannedOut
<1>5. /\ \A i \in DOMAIN broadcast :
            /\ broadcast[i].id = FannedOut + i
            /\ broadcast[i].rule = published[FannedOut + i].rule
            /\ broadcast[i].sender = published[FannedOut + i].sender
      /\ \A c \in Conns : InOrder(c)
  BY <1>a DEF OrderInv, BroadcastIsLatest
<1>6. /\ msg.id = FannedOut + 1 /\ msg.id \in Nat
      /\ msg.rule = published[msg.id].rule /\ msg.sender = published[msg.id].sender
      /\ msg.rule \in RuleIds
  BY <1>3, <1>4, <1>5 DEF RelayMessage
<1>7. OnlyMore
  <2>1. ASSUME NEW c \in Conns, NEW n \in Nat, MayReceive(c, n) PROVE MayReceive(c, n)'
    <3>1. n \in 1 .. FannedOut'
      BY <1>1, <1>4, <2>1 DEF MayReceive
    <3> QED
      BY <1>2, <2>1, <3>1 DEF MayReceive
  <2> QED
    BY <1>4, <2>1 DEF OnlyMore
<1>8. out \in SendMsg /\ out.type = "RelayPacket" /\ out.id = msg.id
  BY <1>6, <1>c DEF SendMsg, PacketMsg
<1>9. ASSUME NEW c \in Audience(msg) PROVE MayReceive(c, out.id)'
  <2>1. PICK k \in Keys \ {msg.sender} : clients[k] = c
    BY DEF Audience
  <2>2. c \in Conns /\ rules[c][msg.rule] # NoRule
    BY DEF Audience, clientHasRule
  <2>3. connKey[c] = k
    BY <1>a, <1>2, <2>1, <2>2, HubAssumption DEF HubInv, MapHoldsOpen
  <2>4. <<connKey[c], msg.rule>> \in granted
    BY <1>a, <1>6, <2>2 DEF GrantInv, SlicesAreGranted, MayHold
  <2>5. msg.id \in 1 .. FannedOut'
    BY <1>1, <1>4, <1>6
  <2> QED
    BY <1>2, <1>6, <1>8, <2>1, <2>3, <2>4, <2>5 DEF MayReceive
<1>10. ASSUME NEW c \in Conns PROVE InOrder(c)'
  <2>1. \/ sendCh'[c] = sendCh[c]
        \/ c \in Audience(msg) /\ sendCh'[c] = Append(sendCh[c], out)
    BY <1>2 DEF Offer
  <2>2. CASE sendCh'[c] = sendCh[c]
    BY <1>a, <1>2, <1>4, <1>5, <1>7, <2>2, SameInOrder
  <2>3. CASE c \in Audience(msg) /\ sendCh'[c] = Append(sendCh[c], out)
    <3>1. out.id = FannedOut + 1 /\ out.id <= FannedOut' /\ MayReceive(c, out.id)'
      BY <1>1, <1>4, <1>6, <1>8, <1>9, <2>3
    <3> QED
      BY <1>a, <1>2, <1>4, <1>5, <1>7, <1>8, <2>3, <3>1, OfferedInOrder
  <2> QED
    BY <2>1, <2>2, <2>3
<1>11. BroadcastIsLatest'
  <2>1. ASSUME NEW i \in DOMAIN broadcast'
        PROVE  /\ broadcast'[i].id = FannedOut' + i
               /\ broadcast'[i].rule = published'[FannedOut' + i].rule
               /\ broadcast'[i].sender = published'[FannedOut' + i].sender
    <3>1. i \in Nat /\ i + 1 \in DOMAIN broadcast /\ broadcast'[i] = broadcast[i + 1]
      BY <1>2, <1>3
    <3>2. FannedOut' + i = FannedOut + (i + 1)
      BY <1>1, <1>4, <3>1
    <3> QED
      BY <1>2, <1>5, <3>1, <3>2
  <2>2. Len(broadcast') <= Len(published')
    BY <1>1, <1>2, <1>3
  <2> QED
    BY <2>1, <2>2 DEF BroadcastIsLatest
<1> QED
  BY <1>10, <1>11 DEF OrderInv

\* A step that leaves the packets alone, offers something else, or adds to the grants.
LEMMA PacketsKept ==
    ASSUME TypeOK, OrderInv, UNCHANGED <<published, broadcast, got>>,
           \A c \in Conns, n \in Nat : MayReceive(c, n) => MayReceive(c, n)',
           \A c \in Conns : \/ sendCh'[c] = sendCh[c]
                            \/ \E msg \in SendMsg : /\ msg.type # "RelayPacket"
                                                    /\ sendCh'[c] = Append(sendCh[c], msg)
    PROVE  OrderInv'
<1>1. FannedOut' = FannedOut /\ FannedOut \in Int
  BY OrderTypes DEF FannedOut
<1>2. OnlyMore
  BY <1>1 DEF OnlyMore
<1>3. BroadcastIsLatest'
  BY <1>1 DEF OrderInv, BroadcastIsLatest
<1>4. ASSUME NEW c \in Conns PROVE InOrder(c)'
  <2>1. InOrder(c)
    BY DEF OrderInv
  <2>2. CASE sendCh'[c] = sendCh[c]
    BY <1>1, <1>2, <2>1, <2>2, SameInOrder
  <2>3. CASE \E msg \in SendMsg : /\ msg.type # "RelayPacket"
                                  /\ sendCh'[c] = Append(sendCh[c], msg)
    BY <1>1, <1>2, <2>1, <2>3, OfferedInOrder
  <2> QED
    BY <2>2, <2>3
<1> QED
  BY <1>3, <1>4 DEF OrderInv

\* The same when nothing at all is said of the packets.
LEMMA OrderSame ==
    ASSUME TypeOK, OrderInv, UNCHANGED <<published, broadcast, got, sendCh, connKey>>,
           granted \subseteq granted'
    PROVE  OrderInv'
<1>1. \A c \in Conns, n \in Nat : MayReceive(c, n) => MayReceive(c, n)'
  BY DEF MayReceive, FannedOut
<1> QED
  BY <1>1, PacketsKept

\* The hub's other branches.
LEMMA HubKeepsOrder == TypeOK /\ HubInv /\ GrantInv /\ OrderInv /\ HubStep => OrderInv'
<1>a. SUFFICES ASSUME TypeOK, HubInv, GrantInv, OrderInv, HubStep PROVE OrderInv'
  OBVIOUS
<1>1. UNCHANGED <<published, got, granted, connKey>>
  BY <1>a, HubFrame
<1>2. CASE HubRuleUpdate
  <2> DEFINE msg == [type |-> "RuleUpdate", rules |-> Head(ruleUpdate).rules]
  <2>1. Head(ruleUpdate) \in RuleUpdateReq
    <3>1. ruleUpdate \in Seq(RuleUpdateReq) /\ ruleUpdate # <<>>
      BY <1>a, <1>2 DEF TypeOK, HubTypeOK, HubRuleUpdate
    <3> QED
      BY <3>1
  <2>2. msg \in SendMsg /\ msg.type # "RelayPacket"
    BY <2>1 DEF RuleUpdateReq, SendMsg, RulesMsg
  <2>3. /\ \A c \in Conns : sendCh'[c] = sendCh[c] \/ sendCh'[c] = Append(sendCh[c], msg)
        /\ broadcast' = broadcast
    BY <1>2 DEF HubRuleUpdate, Offer
  <2> HIDE DEF msg
  <2> QED
    BY <1>a, <1>1, <2>2, <2>3, PacketsKept DEF MayReceive, FannedOut
<1>3. CASE HubDirectSend
  <2> DEFINE msg == [type |-> "UpdateCommand"]
  <2>1. msg \in SendMsg /\ msg.type # "RelayPacket"
    BY DEF SendMsg, CommandMsg
  <2>2. /\ \A c \in Conns : sendCh'[c] = sendCh[c] \/ sendCh'[c] = Append(sendCh[c], msg)
        /\ broadcast' = broadcast
    BY <1>3 DEF HubDirectSend, Offer
  <2> HIDE DEF msg
  <2> QED
    BY <1>a, <1>1, <2>1, <2>2, PacketsKept DEF MayReceive, FannedOut
<1>4. CASE HubRegister \/ HubUnregister \/ HubStop \/ \E a \in Admins : HubSnapshot(a)
  <2>1. UNCHANGED <<broadcast, sendCh>>
    BY <1>4 DEF HubRegister, HubUnregister, HubStop, HubSnapshot, queueVars, clientVars
  <2> QED
    BY <1>a, <1>1, <2>1, OrderSame
<1> QED
  BY <1>a, <1>2, <1>3, <1>4, FanOutKeepsOrder DEF HubStep, HubNext

\* A connection's goroutines publish packets and write them.
LEMMA ConnKeepsOrder ==
    ASSUME NEW c \in Conns, TypeOK, GrantInv, OrderInv, ConnStep(c)
    PROVE  OrderInv'
<1>0. UNCHANGED granted
  BY ConnFrame
<1>1. CASE \E k \in Keys : Authenticated(c, k)
  <2>1. PICK k \in Keys : Authenticated(c, k)
    BY <1>1
  <2>2. /\ connKey' = [connKey EXCEPT ![c] = k] /\ hpc[c] = "none"
        /\ UNCHANGED <<published, broadcast, got, sendCh>>
    BY <2>1 DEF Authenticated, queueVars
  <2>3. connKey \in [Conns -> Keys \cup {NoKey}] /\ granted \subseteq Keys \X RuleIds
    BY DEF TypeOK, HubTypeOK, TablesTypeOK
  <2>4. \A n : ~MayReceive(c, n)
    BY <2>2, <2>3, HubAssumption DEF GrantInv, FreshHasNoKey, MayReceive
  <2>5. \A d \in Conns, n \in Nat : MayReceive(d, n) => MayReceive(d, n)'
    <3>1. SUFFICES ASSUME NEW d \in Conns, NEW n \in Nat, MayReceive(d, n) PROVE MayReceive(d, n)'
      OBVIOUS
    <3>2. connKey'[d] = connKey[d]
      BY <2>2, <2>3, <2>4, <3>1
    <3> QED
      BY <1>0, <2>2, <3>1, <3>2 DEF MayReceive, FannedOut
  <2> QED
    BY <2>2, <2>5, PacketsKept
<1>2. CASE PublishRelayPacket(c)
  <2>1. /\ Publish(pend[c], connKey[c]) /\ rpc[c] = "publish"
        /\ UNCHANGED <<connKey, sendCh, got>>
    BY <1>2 DEF PublishRelayPacket, QueuesOnly, clientVars
  <2>2. pend[c] \in RuleIds /\ connKey[c] \in Keys \cup {NoKey}
    BY <2>1 DEF TypeOK, ConnTypeOK, HubTypeOK
  <2> QED
    BY <1>0, <2>1, <2>2, PublishKeepsOrder
<1>3. CASE WriteMessage(c) \/ (WriteFails(c) /\ sendCh' # sendCh)
  <2>0. /\ sendCh \in [Conns -> Seq(SendMsg)] /\ got \in [Conns -> Seq(Nat)]
    BY DEF TypeOK, HubTypeOK, ConnTypeOK
  <2>1. /\ sendCh[c] # <<>> /\ sendCh' = [sendCh EXCEPT ![c] = Tail(@)]
        /\ UNCHANGED <<published, broadcast, connKey>>
        /\ \/ got' = got
           \/ /\ got' = [got EXCEPT ![c] = Append(@, Head(sendCh[c]).id)]
              /\ Head(sendCh[c]).type = "RelayPacket"
    <3>1. CASE WriteMessage(c)
      <4>1. got' = [got EXCEPT ![c] = IF peer[c] = "up" /\ Head(sendCh[c]).type = "RelayPacket"
                                        THEN Append(@, Head(sendCh[c]).id) ELSE @]
        BY <3>1 DEF WriteMessage
      <4>2. got' = got \/ /\ got' = [got EXCEPT ![c] = Append(@, Head(sendCh[c]).id)]
                          /\ Head(sendCh[c]).type = "RelayPacket"
        BY <2>0, <4>1
      <4> QED
        BY <3>1, <4>2 DEF WriteMessage, Dequeue, queueVars
    <3>2. CASE WriteFails(c) /\ sendCh' # sendCh
      BY <3>2 DEF WriteFails, Dequeue, queueVars
    <3> QED
      BY <1>3, <3>1, <3>2
  <2>2. \A d \in Conns : d # c => sendCh'[d] = sendCh[d] /\ got'[d] = got[d]
    BY <2>0, <2>1
  <2>3. /\ sendCh'[c] = Tail(sendCh[c])
        /\ \/ got'[c] = got[c]
           \/ got'[c] = Append(got[c], Head(sendCh[c]).id) /\ Head(sendCh[c]).type = "RelayPacket"
    BY <2>0, <2>1
  <2>4. InOrder(c)'
    BY <1>0, <2>1, <2>3, WrittenInOrder DEF OrderInv
  <2>5. FannedOut' = FannedOut /\ FannedOut \in Int /\ OnlyMore
    BY <1>0, <2>1, OrderTypes DEF FannedOut, OnlyMore, MayReceive
  <2>6. \A d \in Conns : d # c => InOrder(d)'
    BY <2>2, <2>5, SameInOrder DEF OrderInv
  <2>7. BroadcastIsLatest'
    BY <2>1, <2>5 DEF OrderInv, BroadcastIsLatest
  <2> QED
    BY <2>4, <2>6, <2>7 DEF OrderInv
<1>4. CASE \/ AuthFail(c) \/ ReadRules(c) \/ SendAuthOK(c) \/ AuthOKFails(c) \/ StartPumps(c)
           \/ Finish(c) \/ (\E r \in RuleIds : ReceiveRelayPacket(c, r)) \/ ReadFails(c)
           \/ (WriteFails(c) /\ sendCh' = sendCh) \/ WritePumpEnds(c) \/ PeerGone(c)
  <2>1. UNCHANGED <<published, broadcast, got, sendCh, connKey>>
    <3> USE DEF hubVars, queueVars, clientVars, QueuesOnly
    <3>1. CASE AuthFail(c) \/ ReadRules(c) \/ SendAuthOK(c) \/ AuthOKFails(c) \/ StartPumps(c)
      BY <3>1 DEF AuthFail, ReadRules, SendAuthOK, AuthOKFails, StartPumps, Register
    <3>2. CASE \/ Finish(c) \/ (\E r \in RuleIds : ReceiveRelayPacket(c, r)) \/ ReadFails(c)
               \/ (WriteFails(c) /\ sendCh' = sendCh) \/ WritePumpEnds(c) \/ PeerGone(c)
      BY <3>2 DEF Finish, Unregister, ReceiveRelayPacket, ReadFails, WriteFails,
                  WritePumpEnds, PeerGone
    <3> QED
      BY <1>4, <3>1, <3>2
  <2> QED
    BY <1>0, <2>1, OrderSame
<1> QED
  BY <1>1, <1>2, <1>3, <1>4 DEF ConnStep, AuthKey, AuthCredentials

\* A packet captured by the server enters the channel.
LEMMA CaptureKeepsOrder ==
    ASSUME TypeOK, OrderInv, NEW r \in RuleIds, CapturePacket(r)
    PROVE  OrderInv'
<1>1. Publish(r, NoKey) /\ UNCHANGED <<connKey, granted, sendCh, got>>
  BY DEF CapturePacket, QueuesOnly, clientVars, connVars, dbVars
<1> QED
  BY <1>1, PublishKeepsOrder

\* Packets are taken, queued and written in the order in which they were published.
LEMMA OrderCorrect == Spec => []OrderInv
<1>1. TypeOK /\ HubInv /\ GrantInv /\ OrderInv /\ [Next]_vars => OrderInv'
  <2>a. SUFFICES ASSUME TypeOK, HubInv, GrantInv, OrderInv, [Next]_vars PROVE OrderInv'
    OBVIOUS
  <2>1. ASSUME NEW a \in Admins, AdminStep(a) PROVE OrderInv'
    BY <2>a, <2>1, AdminFrame, OrderSame
  <2>2. CASE Shutdown \/ UNCHANGED vars
    <3>1. UNCHANGED <<published, broadcast, got, sendCh, connKey, granted>>
      BY <2>2 DEF Shutdown, vars, hubVars, queueVars, clientVars, connVars, dbVars
    <3> QED
      BY <2>a, <3>1, OrderSame
  <2> QED
    BY <2>a, <2>1, <2>2, HubKeepsOrder, ConnKeepsOrder, CaptureKeepsOrder DEF Next, Idle
<1> QED
  BY InitOrderInv, TypeCorrect, HubCorrect, GrantsCorrect, <1>1, PTL DEF Spec

(***************************************************************************)
(* The refinement.                                                         *)
(***************************************************************************)
\* The tuple of the abstract variables.
LEMMA ServiceStutters ==
    UNCHANGED <<published, connKey, got, granted>> => UNCHANGED Service!svcVars
  BY DEF Service!svcVars

\* The hub moves nothing that the service shows.
LEMMA HubRefines == HubStep => UNCHANGED Service!svcVars
<1>1. HubStep => granted' = granted /\ got' = got /\ published' = published /\ connKey' = connKey
  BY HubFrame
<1> QED
  BY <1>1, ServiceStutters

\* A connection connects, publishes, is delivered to, or does nothing that shows.
LEMMA ConnRefines ==
    ASSUME NEW c \in Conns, TypeOK, GrantInv, OrderInv, ConnStep(c)
    PROVE  Service!Next \/ UNCHANGED Service!svcVars
<1>0. UNCHANGED granted
  BY ConnFrame
<1>1. CASE \E k \in Keys : Authenticated(c, k)
  <2>1. PICK k \in Keys : Authenticated(c, k)
    BY <1>1
  <2>2. /\ connKey' = [connKey EXCEPT ![c] = k] /\ hpc[c] = "none"
        /\ UNCHANGED <<published, got>>
    BY <2>1 DEF Authenticated
  <2>3. connKey[c] = NoKey
    BY <2>2 DEF GrantInv, FreshHasNoKey
  <2>4. Service!Connect(c, k)
    BY <1>0, <2>2, <2>3 DEF Service!Connect
  <2> QED
    BY <2>4 DEF Service!Next
<1>2. CASE PublishRelayPacket(c)
  <2>1. PICK r, k : r = pend[c] /\ k = connKey[c]
    OBVIOUS
  <2>2. /\ Publish(r, k) /\ rpc[c] = "publish"
        /\ UNCHANGED <<connKey, got>>
    BY <1>2, <2>1 DEF PublishRelayPacket, QueuesOnly, clientVars
  <2>3. r \in RuleIds /\ k \in Keys \cup {NoKey} /\ <<k, r>> \in granted
    BY <2>1, <2>2 DEF TypeOK, ConnTypeOK, HubTypeOK, GrantInv, PendingIsGranted
  <2>4. Service!Publish(r, k)
    BY <1>0, <2>2, <2>3 DEF Service!Publish, Publish
  <2> QED
    BY <2>3, <2>4 DEF Service!Next
<1>3. CASE WriteMessage(c)
  <2>1. PICK msg : msg = Head(sendCh[c])
    OBVIOUS
  <2>2. /\ sendCh[c] # <<>> /\ UNCHANGED <<published, connKey>>
        /\ got' = [got EXCEPT ![c] = IF peer[c] = "up" /\ msg.type = "RelayPacket"
                                       THEN Append(@, msg.id) ELSE @]
    BY <1>3, <2>1 DEF WriteMessage
  <2>3. /\ got \in [Conns -> Seq(Nat)] /\ sendCh[c] \in Seq(SendMsg)
    BY DEF TypeOK, HubTypeOK, ConnTypeOK
  <2>4. CASE got' = got
    BY <1>0, <2>2, <2>4, ServiceStutters
  <2>5. CASE got' = [got EXCEPT ![c] = Append(@, msg.id)] /\ msg.type = "RelayPacket"
    <3>1. 1 \in DOMAIN sendCh[c] /\ sendCh[c][1] = msg
      BY <2>1, <2>2, <2>3
    <3>2. IsPacket(c, 1) /\ InOrder(c)
      BY <2>5, <3>1 DEF IsPacket, OrderInv
    <3>3. MayReceive(c, msg.id) /\ \A n \in DOMAIN got[c] : got[c][n] < msg.id
      BY <3>1, <3>2 DEF InOrder
    <3>4. msg.id \in DOMAIN published
      <4>1. msg.id \in 1 .. FannedOut
        BY <3>3 DEF MayReceive
      <4>2. /\ published \in Seq([rule : RuleIds, sender : Keys \cup {NoKey}])
            /\ Len(broadcast) \in Nat /\ Len(published) \in Nat
        BY OrderTypes
      <4> QED
        BY <4>1, <4>2 DEF FannedOut
    <3>5. Service!Deliver(c, msg.id)
      BY <1>0, <2>2, <2>5, <3>3 DEF Service!Deliver, MayReceive
    <3> QED
      BY <3>4, <3>5 DEF Service!Next
  <2> QED
    BY <2>2, <2>3, <2>4, <2>5
<1>4. CASE \/ AuthFail(c) \/ ReadRules(c) \/ SendAuthOK(c) \/ AuthOKFails(c) \/ StartPumps(c)
           \/ Finish(c) \/ (\E r \in RuleIds : ReceiveRelayPacket(c, r)) \/ ReadFails(c)
           \/ WriteFails(c) \/ WritePumpEnds(c) \/ PeerGone(c)
  <2>1. UNCHANGED <<published, got, connKey>>
    <3> USE DEF hubVars, clientVars, QueuesOnly
    <3>1. CASE AuthFail(c) \/ ReadRules(c) \/ SendAuthOK(c) \/ AuthOKFails(c) \/ StartPumps(c)
      BY <3>1 DEF AuthFail, ReadRules, SendAuthOK, AuthOKFails, StartPumps
    <3>2. CASE \/ Finish(c) \/ (\E r \in RuleIds : ReceiveRelayPacket(c, r)) \/ ReadFails(c)
               \/ WriteFails(c) \/ WritePumpEnds(c) \/ PeerGone(c)
      BY <3>2 DEF Finish, ReceiveRelayPacket, ReadFails, WriteFails, WritePumpEnds, PeerGone
    <3> QED
      BY <1>4, <3>1, <3>2
  <2> QED
    BY <1>0, <2>1, ServiceStutters
<1> QED
  BY <1>1, <1>2, <1>3, <1>4 DEF ConnStep, AuthKey, AuthCredentials

\* A web handler can only add to what is in force.
LEMMA AdminRefines ==
    ASSUME NEW a \in Admins, TypeOK, TypeOK', AdminStep(a)
    PROVE  Service!Next
<1>1. UNCHANGED <<published, connKey, got>> /\ granted \subseteq granted'
  BY AdminFrame
<1>2. PICK S : S = granted'
  OBVIOUS
<1>3. S \in SUBSET (Keys \X RuleIds)
  BY <1>2 DEF TypeOK, TablesTypeOK
<1>4. Service!Grant(S)
  BY <1>1, <1>2 DEF Service!Grant
<1> QED
  BY <1>3, <1>4 DEF Service!Next

(* The server implements the abstract service: packets enter one order, and *)
(* what is written to a peer is in that order, never of the peer's own key *)
(* and only under rules that were in force for it, whatever is queued,     *)
(* dropped, replaced or pushed meanwhile (RelayServer, ServiceSpec).       *)
THEOREM ImplementsService == Spec => ServiceSpec
<1>1. Init => Service!Init
  BY DEF Init, HubInit, Service!Init
<1>2. ASSUME TypeOK, TypeOK', GrantInv, OrderInv, [Next]_vars
      PROVE  [Service!Next]_(Service!svcVars)
  <2>1. CASE HubStep
    BY <2>1, HubRefines
  <2>2. ASSUME NEW c \in Conns, ConnStep(c) PROVE Service!Next \/ UNCHANGED Service!svcVars
    BY <1>2, <2>2, ConnRefines
  <2>3. ASSUME NEW a \in Admins, AdminStep(a) PROVE Service!Next
    BY <1>2, <2>3, AdminRefines
  <2>4. ASSUME NEW r \in RuleIds, CapturePacket(r) PROVE Service!Next
    <3>1. Publish(r, NoKey) /\ UNCHANGED <<connKey, granted, got>>
      BY <2>4 DEF CapturePacket, QueuesOnly, clientVars, connVars, dbVars
    <3>2. Service!Publish(r, NoKey)
      BY <3>1 DEF Service!Publish, Publish
    <3> QED
      BY <3>2 DEF Service!Next
  <2>5. CASE Shutdown \/ UNCHANGED vars
    <3>1. UNCHANGED <<published, got, connKey, granted>>
      BY <2>5 DEF Shutdown, vars, hubVars, clientVars, connVars, dbVars
    <3> QED
      BY <3>1, ServiceStutters
  <2> QED
    BY <1>2, <2>1, <2>2, <2>3, <2>4, <2>5 DEF Next, Idle
<1> QED
  BY TypeCorrect, GrantsCorrect, OrderCorrect, <1>1, <1>2, PTL
  DEF Spec, ServiceSpec, Service!Spec

(***************************************************************************)
(* What the abstract service promises a user of it.                        *)
(***************************************************************************)
ServiceTypes ==
    /\ published \in Seq([rule : RuleIds, sender : Keys \cup {NoKey}])
    /\ got \in [Conns -> Seq(Nat)]
    /\ connKey \in [Conns -> Keys \cup {NoKey}]
    /\ granted \subseteq Keys \X RuleIds

\* Packet n is one for the key: another's, under a rule that was in force for it.
MeantFor(k, n) ==
    /\ n \in DOMAIN published
    /\ published[n].sender # k
    /\ <<k, published[n].rule>> \in granted

(* Each connection is sent some of the packets published, none twice, in   *)
(* the order they were published in, none of its own key's and only under  *)
(* rules that were at some time in force for the key; and what clients     *)
(* publish is under such rules too (hub.go fanOut, relay.go                *)
(* handleClientRelayPacket).                                               *)
PromisesKept ==
    /\ \A c \in Conns :
          /\ \A i \in DOMAIN got[c] : MeantFor(connKey[c], got[c][i])
          /\ \A i, j \in DOMAIN got[c] : i < j => got[c][i] < got[c][j]
    /\ \A n \in DOMAIN published :
          \/ published[n].sender = NoKey
          \/ <<published[n].sender, published[n].rule>> \in granted

\* A packet is published after the others.
LEMMA PublishPromised ==
    ASSUME ServiceTypes, PromisesKept, NEW r \in RuleIds, NEW k \in Keys \cup {NoKey},
           Service!Publish(r, k)
    PROVE  ServiceTypes' /\ PromisesKept'
<1>1. PICK e : e = [rule |-> r, sender |-> k]
  OBVIOUS
<1>2. /\ published' = Append(published, e) /\ UNCHANGED <<connKey, got, granted>>
      /\ k = NoKey \/ <<k, r>> \in granted
      /\ e \in [rule : RuleIds, sender : Keys \cup {NoKey}] /\ e.rule = r /\ e.sender = k
  BY <1>1 DEF Service!Publish
<1>3. published \in Seq([rule : RuleIds, sender : Keys \cup {NoKey}])
  BY DEF ServiceTypes
<1>4. /\ \A i \in DOMAIN published : i \in DOMAIN published' /\ published'[i] = published[i]
      /\ \A i \in DOMAIN published' :
            i \in DOMAIN published \/ published'[i] = e
  BY <1>2, <1>3, Appended
<1>5. ServiceTypes'
  <2>1. published' \in Seq([rule : RuleIds, sender : Keys \cup {NoKey}])
    BY <1>2, <1>3
  <2> QED
    BY <1>2, <2>1 DEF ServiceTypes
<1>6. \A h, n : MeantFor(h, n) => MeantFor(h, n)'
  BY <1>2, <1>4 DEF MeantFor
<1>7. \A n \in DOMAIN published' : \/ published'[n].sender = NoKey
                                   \/ <<published'[n].sender, published'[n].rule>> \in granted'
  BY <1>2, <1>4 DEF PromisesKept
<1>8. ASSUME NEW c \in Conns
      PROVE  /\ \A i \in DOMAIN got'[c] : MeantFor(connKey[c], got[c][i])'
             /\ \A i, j \in DOMAIN got'[c] : i < j => got'[c][i] < got'[c][j]
  BY <1>2, <1>6 DEF PromisesKept
<1> QED
  BY <1>5, <1>7, <1>8 DEF PromisesKept

\* A packet is delivered after those a connection has received.
LEMMA DeliverPromised ==
    ASSUME ServiceTypes, PromisesKept, NEW c \in Conns, NEW n \in DOMAIN published,
           Service!Deliver(c, n)
    PROVE  ServiceTypes' /\ PromisesKept'
<1>1. /\ \A i \in DOMAIN got[c] : got[c][i] < n
      /\ MeantFor(connKey[c], n)
      /\ got' = [got EXCEPT ![c] = Append(got[c], n)]
      /\ UNCHANGED <<published, connKey, granted>>
  BY DEF Service!Deliver, MeantFor
<1>2. got \in [Conns -> Seq(Nat)] /\ got[c] \in Seq(Nat)
  BY DEF ServiceTypes
<1>3. n \in Nat
  BY DEF ServiceTypes
<1>4. PICK q, s, l : q = got[c] /\ s = Append(q, n) /\ l = Len(q)
  OBVIOUS
<1>5. q \in Seq(Nat) /\ s \in Seq(Nat) /\ l \in Nat /\ DOMAIN q = 1 .. l
  BY <1>2, <1>3, <1>4
<1>6. /\ \A i \in DOMAIN q : s[i] = q[i]
      /\ s[l + 1] = n
      /\ \A i \in DOMAIN s : i = l + 1 \/ i \in DOMAIN q
  BY <1>4, <1>5, Appended
<1>7. \A h, m : MeantFor(h, m)' <=> MeantFor(h, m)
  BY <1>1 DEF MeantFor
<1>8. \A i \in DOMAIN s : MeantFor(connKey[c], s[i])
  BY <1>1, <1>4, <1>6 DEF PromisesKept
<1>9. ASSUME NEW i \in DOMAIN s, NEW j \in DOMAIN s, i < j PROVE s[i] < s[j]
  <2>1. i \in DOMAIN q
    <3>1. DOMAIN s = 1 .. l + 1
      BY <1>4, <1>5
    <3> QED
      BY <1>5, <1>9, <3>1
  <2>2. CASE j = l + 1
    BY <1>1, <1>4, <1>6, <2>1, <2>2
  <2>3. CASE j \in DOMAIN q
    BY <1>4, <1>6, <1>9, <2>1, <2>3 DEF PromisesKept
  <2> QED
    BY <1>6, <2>2, <2>3
<1>10. got'[c] = s /\ \A d \in Conns \ {c} : got'[d] = got[d]
  BY <1>1, <1>2, <1>4
<1>11. ServiceTypes'
  BY <1>1, <1>2, <1>4, <1>5 DEF ServiceTypes
<1>12. ASSUME NEW d \in Conns
       PROVE  /\ \A i \in DOMAIN got'[d] : MeantFor(connKey[d], got[d][i])'
              /\ \A i, j \in DOMAIN got'[d] : i < j => got'[d][i] < got'[d][j]
  <2>1. CASE d = c
    BY <1>1, <1>7, <1>8, <1>9, <1>10, <2>1
  <2>2. CASE d # c
    BY <1>1, <1>7, <1>10, <2>2 DEF PromisesKept
  <2> QED
    BY <2>1, <2>2
<1>13. \A m \in DOMAIN published' : \/ published'[m].sender = NoKey
                                    \/ <<published'[m].sender, published'[m].rule>> \in granted'
  BY <1>1 DEF PromisesKept
<1> QED
  BY <1>11, <1>12, <1>13 DEF PromisesKept

\* Every step of the abstract service keeps its promises.
LEMMA ServicePromises == Service!Spec => [](ServiceTypes /\ PromisesKept)
<1>1. Service!Init => ServiceTypes /\ PromisesKept
  BY DEF Service!Init, ServiceTypes, PromisesKept
<1>2. ASSUME ServiceTypes, PromisesKept, [Service!Next]_(Service!svcVars)
      PROVE  ServiceTypes' /\ PromisesKept'
  <2>1. ASSUME NEW c \in Conns, NEW k \in Keys, Service!Connect(c, k)
        PROVE  ServiceTypes' /\ PromisesKept'
    <3>1. /\ connKey[c] = NoKey /\ connKey' = [connKey EXCEPT ![c] = k]
          /\ UNCHANGED <<published, got, granted>>
      BY <2>1 DEF Service!Connect
    <3>2. got[c] \in Seq(Nat) /\ DOMAIN got[c] = {}
      <4>1. \A i \in DOMAIN got[c] : <<NoKey, published[got[c][i]].rule>> \in granted
        BY <1>2, <3>1 DEF PromisesKept, MeantFor
      <4>2. granted \subseteq Keys \X RuleIds /\ got[c] \in Seq(Nat)
        BY <1>2 DEF ServiceTypes
      <4> QED
        BY <4>1, <4>2, HubAssumption
    <3>3. ServiceTypes'
      BY <1>2, <3>1 DEF ServiceTypes
    <3>4. \A d \in Conns \ {c} : connKey'[d] = connKey[d]
      BY <1>2, <3>1 DEF ServiceTypes
    <3>5. \A h, m : MeantFor(h, m)' <=> MeantFor(h, m)
      BY <3>1 DEF MeantFor
    <3>6. ASSUME NEW d \in Conns
          PROVE  /\ \A i \in DOMAIN got'[d] : MeantFor(connKey[d], got[d][i])'
                 /\ \A i, j \in DOMAIN got'[d] : i < j => got'[d][i] < got'[d][j]
      <4>1. CASE d = c
        BY <3>1, <3>2, <4>1
      <4>2. CASE d # c
        BY <1>2, <3>1, <3>4, <3>5, <4>2 DEF PromisesKept
      <4> QED
        BY <4>1, <4>2
    <3>7. \A m \in DOMAIN published' : \/ published'[m].sender = NoKey
                                       \/ <<published'[m].sender, published'[m].rule>> \in granted'
      BY <1>2, <3>1 DEF PromisesKept
    <3> QED
      BY <3>3, <3>6, <3>7 DEF PromisesKept
  <2>2. ASSUME NEW S \in SUBSET (Keys \X RuleIds), Service!Grant(S)
        PROVE  ServiceTypes' /\ PromisesKept'
    <3>1. /\ granted' = granted \cup S /\ UNCHANGED <<published, connKey, got>>
      BY <2>2 DEF Service!Grant
    <3>2. \A h, m : MeantFor(h, m) => MeantFor(h, m)'
      BY <3>1 DEF MeantFor
    <3>3. ServiceTypes'
      BY <1>2, <3>1 DEF ServiceTypes
    <3> QED
      BY <1>2, <3>1, <3>2, <3>3 DEF PromisesKept
  <2>3. CASE UNCHANGED Service!svcVars
    <3>1. UNCHANGED <<published, connKey, got, granted>>
      BY <2>3 DEF Service!svcVars
    <3> QED
      BY <1>2, <3>1 DEF ServiceTypes, PromisesKept, MeantFor
  <2> QED
    BY <1>2, <2>1, <2>2, <2>3, PublishPromised, DeliverPromised DEF Service!Next
<1> QED
  BY <1>1, <1>2, PTL DEF Service!Spec

(* What the server implements, it promises: at most once, in order, never  *)
(* back to the sender's key, only under rules that were in force, through  *)
(* replaced connections, full channels and rules that change meanwhile.    *)
THEOREM PromisesHold == Spec => []PromisesKept
  BY ImplementsService, ServicePromises, PTL DEF ServiceSpec

(***************************************************************************)
(* What a client was told.                                                 *)
(***************************************************************************)
IsPush(c, i) == sendCh[c][i].type = "RuleUpdate"

\* The last rules the client was or will be sent are those the hub relays by.
Told(c) ==
    \/ /\ \A i \in DOMAIN sendCh[c] : ~IsPush(c, i)
       /\ view[c] = rules[c]
    \/ \E i \in DOMAIN sendCh[c] :
          /\ IsPush(c, i) /\ sendCh[c][i].rules = rules[c]
          /\ \A j \in DOMAIN sendCh[c] : IsPush(c, j) => j <= i

BeforePumps == {"none", "get rules", "auth ok", "register"}

ToldInv ==
    \A c \in Conns :
        /\ hpc[c] \in BeforePumps => sendCh[c] = <<>>
        /\ hpc[c] = "register" /\ peer[c] = "up" => view[c] = rules[c]
        /\ hpc[c] = "wait" /\ peer[c] = "up" /\ wpc[c] = "run" /\ ~dropped[c] => Told(c)

\* No client has been told anything at first.
LEMMA InitToldInv == Init => ToldInv
  BY DEF Init, HubInit, ToldInv

\* Told is about what LastToldRules picks.
LEMMA ToldIsLast ==
    ASSUME TypeOK, NEW c \in Conns, Told(c)
    PROVE  LastToldRules(c) = rules[c]
<1> DEFINE pushes == {i \in DOMAIN sendCh[c] : sendCh[c][i].type = "RuleUpdate"}
<1>1. CASE \A i \in DOMAIN sendCh[c] : ~IsPush(c, i)
  <2>1. pushes = {} /\ view[c] = rules[c]
    BY <1>1 DEF Told, IsPush
  <2> QED
    BY <2>1 DEF LastToldRules
<1>2. ASSUME NEW i \in DOMAIN sendCh[c], IsPush(c, i), sendCh[c][i].rules = rules[c],
             \A j \in DOMAIN sendCh[c] : IsPush(c, j) => j <= i
      PROVE  LastToldRules(c) = rules[c]
  <2>1. sendCh[c] \in Seq(SendMsg)
    BY OrderTypes
  <2>2. i \in pushes /\ \A j \in pushes : j <= i
    BY <1>2 DEF IsPush
  <2>3. \A j \in pushes : j \in Nat
    BY <2>1
  <2>4. \A x \in pushes : (\A j \in pushes : j <= x) => x = i
    BY <2>2, <2>3
  <2> HIDE DEF pushes
  <2>5. (CHOOSE x \in pushes : \A j \in pushes : j <= x) = i
    BY <2>2, <2>4
  <2>6. pushes # {}
    BY <2>2
  <2> QED
    BY <1>2, <2>5, <2>6 DEF LastToldRules, pushes
<1> QED
  BY <1>1, <1>2 DEF Told

\* Nothing of the connection changes that the invariant speaks of.
LEMMA ToldSame ==
    ASSUME ToldInv, NEW c \in Conns,
           UNCHANGED <<hpc[c], peer[c], wpc[c], view[c], rules[c], sendCh[c], dropped[c]>>
    PROVE  /\ hpc'[c] \in BeforePumps => sendCh'[c] = <<>>
           /\ hpc'[c] = "register" /\ peer'[c] = "up" => view'[c] = rules'[c]
           /\ hpc'[c] = "wait" /\ peer'[c] = "up" /\ wpc'[c] = "run" /\ ~dropped'[c] => Told(c)'
  BY DEF ToldInv, Told, IsPush

\* A message that is not a push is put behind the others.
LEMMA ToldOffered ==
    ASSUME TypeOK, NEW c \in Conns, Told(c), NEW msg \in SendMsg, msg.type # "RuleUpdate",
           sendCh'[c] = Append(sendCh[c], msg), view'[c] = view[c], rules'[c] = rules[c]
    PROVE  Told(c)'
<1>1. sendCh[c] \in Seq(SendMsg)
  BY OrderTypes
<1>2. /\ \A i \in DOMAIN sendCh[c] : i \in DOMAIN sendCh'[c] /\ sendCh'[c][i] = sendCh[c][i]
      /\ \A i \in DOMAIN sendCh'[c] :
            i \in DOMAIN sendCh[c] \/ (i = Len(sendCh[c]) + 1 /\ sendCh'[c][i] = msg)
  <2>1. PICK q : q = sendCh[c]
    OBVIOUS
  <2>2. /\ \A i \in DOMAIN q : i \in DOMAIN Append(q, msg) /\ Append(q, msg)[i] = q[i]
        /\ Append(q, msg)[Len(q) + 1] = msg
        /\ \A i \in DOMAIN Append(q, msg) : i = Len(q) + 1 \/ i \in DOMAIN q
    BY <1>1, <2>1, Appended
  <2>3. sendCh'[c] = Append(q, msg)
    BY <2>1
  <2> QED
    BY <2>1, <2>2, <2>3, Zenon
<1>3. \A i \in DOMAIN sendCh'[c] : IsPush(c, i)' => i \in DOMAIN sendCh[c] /\ IsPush(c, i)
  BY <1>2 DEF IsPush
<1>4. \A i \in DOMAIN sendCh[c] : IsPush(c, i) => IsPush(c, i)'
  BY <1>2 DEF IsPush
<1>5. CASE \A i \in DOMAIN sendCh[c] : ~IsPush(c, i)
  BY <1>3, <1>5 DEF Told
<1>6. CASE \E i \in DOMAIN sendCh[c] :
              /\ IsPush(c, i) /\ sendCh[c][i].rules = rules[c]
              /\ \A j \in DOMAIN sendCh[c] : IsPush(c, j) => j <= i
  <2>1. PICK i \in DOMAIN sendCh[c] :
              /\ IsPush(c, i) /\ sendCh[c][i].rules = rules[c]
              /\ \A j \in DOMAIN sendCh[c] : IsPush(c, j) => j <= i
    BY <1>6
  <2>2. i \in DOMAIN sendCh'[c] /\ IsPush(c, i)' /\ sendCh'[c][i].rules = rules'[c]
    BY <1>2, <1>4, <2>1
  <2>3. \A j \in DOMAIN sendCh'[c] : IsPush(c, j)' => j <= i
    BY <1>3, <2>1
  <2> QED
    BY <2>2, <2>3 DEF Told
<1> QED
  BY <1>5, <1>6 DEF Told

\* A push that finds room is the last.
LEMMA ToldPushed ==
    ASSUME TypeOK, NEW c \in Conns, NEW rs \in RuleSlice, rules'[c] = rs,
           sendCh'[c] = Append(sendCh[c], [type |-> "RuleUpdate", rules |-> rs])
    PROVE  Told(c)'
<1> DEFINE i == Len(sendCh[c]) + 1
<1>1. sendCh[c] \in Seq(SendMsg)
  BY OrderTypes
<1>2. /\ i \in DOMAIN sendCh'[c]
      /\ sendCh'[c][i] = [type |-> "RuleUpdate", rules |-> rs]
      /\ \A j \in DOMAIN sendCh'[c] : j <= i
  BY <1>1
<1>3. PICK n : n = i
  OBVIOUS
<1> HIDE DEF i
<1>4. /\ n \in DOMAIN sendCh'[c] /\ IsPush(c, n)' /\ sendCh'[c][n].rules = rules'[c]
      /\ \A j \in DOMAIN sendCh'[c] : j <= n
  BY <1>2, <1>3 DEF IsPush
<1> QED
  BY <1>4 DEF Told

\* The head is written: if it was the last push, it is what the client has.
LEMMA ToldWritten ==
    ASSUME TypeOK, NEW c \in Conns, Told(c), sendCh[c] # <<>>, sendCh'[c] = Tail(sendCh[c]),
           rules'[c] = rules[c],
           view'[c] = IF IsPush(c, 1) THEN sendCh[c][1].rules ELSE view[c]
    PROVE  Told(c)'
<1>1. sendCh[c] \in Seq(SendMsg)
  BY OrderTypes
<1>2. /\ \A i \in DOMAIN sendCh'[c] : i \in Nat /\ i # 0 /\ i + 1 \in DOMAIN sendCh[c]
                                      /\ sendCh'[c][i] = sendCh[c][i + 1]
      /\ \A i \in DOMAIN sendCh[c] : i \in Nat
      /\ 1 \in DOMAIN sendCh[c]
      /\ \A i \in DOMAIN sendCh[c] : i = 1 \/ \E n \in DOMAIN sendCh'[c] : i = n + 1
  <2>1. \A i \in DOMAIN sendCh[c] : i = 1 \/ (i - 1 \in DOMAIN sendCh'[c] /\ i = (i - 1) + 1)
    BY <1>1
  <2> QED
    BY <1>1, <2>1
<1>3. \A i \in DOMAIN sendCh'[c] : IsPush(c, i)' <=> IsPush(c, i + 1)
  BY <1>2 DEF IsPush
<1>4. CASE \A i \in DOMAIN sendCh[c] : ~IsPush(c, i)
  BY <1>2, <1>3, <1>4 DEF Told
<1>5. ASSUME NEW i \in DOMAIN sendCh[c], IsPush(c, i), sendCh[c][i].rules = rules[c],
             \A j \in DOMAIN sendCh[c] : IsPush(c, j) => j <= i
      PROVE  Told(c)'
  <2>1. CASE i = 1
    <3>1. \A n \in DOMAIN sendCh'[c] : ~(n + 1 <= 1)
      BY <1>2
    <3>2. \A n \in DOMAIN sendCh'[c] : ~IsPush(c, n)'
      BY <1>2, <1>3, <1>5, <2>1, <3>1
    <3>3. view'[c] = rules'[c]
      BY <1>5, <2>1
    <3> QED
      BY <3>2, <3>3 DEF Told
  <2>2. CASE i # 1
    <3>1. PICK n \in DOMAIN sendCh'[c] : i = n + 1
      BY <1>2, <2>2
    <3>2. IsPush(c, n)' /\ sendCh'[c][n].rules = rules'[c]
      BY <1>2, <1>3, <1>5, <3>1
    <3>3. \A j \in DOMAIN sendCh'[c] : IsPush(c, j)' => j <= n
      <4>1. SUFFICES ASSUME NEW j \in DOMAIN sendCh'[c], IsPush(c, j)' PROVE j <= n
        OBVIOUS
      <4>2. j + 1 <= n + 1
        BY <1>2, <1>3, <1>5, <3>1, <4>1
      <4> QED
        BY <1>2, <4>2
    <3> QED
      BY <3>2, <3>3 DEF Told
  <2> QED
    BY <2>1, <2>2
<1> QED
  BY <1>4, <1>5 DEF Told

\* The hub relays a packet or a command, or changes the rules and says so.
LEMMA HubKeepsTold == TypeOK /\ HubInv /\ ToldInv /\ HubStep => ToldInv'
<1>a. SUFFICES ASSUME TypeOK, HubInv, ToldInv, HubStep PROVE ToldInv'
  OBVIOUS
<1>1. UNCHANGED <<hpc, peer, wpc, view>>
  BY <1>a, HubFrame
<1>2. ASSUME hubUp, NEW k \in Keys, clients[k] # NoConn
      PROVE  hpc[clients[k]] \notin BeforePumps
  BY <1>a, <1>2 DEF HubInv, MapHoldsOpen, BeforePumps
<1>3. ASSUME NEW C, NEW msg \in SendMsg, msg.type # "RuleUpdate", Offer(C, msg),
             \A c \in C : \E k \in Keys : clients[k] = c /\ c # NoConn,
             hubUp, UNCHANGED <<rules, dropped>>
      PROVE  ToldInv'
  <2>1. ASSUME NEW c \in Conns
        PROVE  /\ hpc'[c] \in BeforePumps => sendCh'[c] = <<>>
               /\ hpc'[c] = "register" /\ peer'[c] = "up" => view'[c] = rules'[c]
               /\ hpc'[c] = "wait" /\ peer'[c] = "up" /\ wpc'[c] = "run" /\ ~dropped'[c] => Told(c)'
    <3>1. CASE sendCh'[c] = sendCh[c]
      BY <1>a, <1>1, <1>3, <3>1, ToldSame
    <3>2. CASE c \in C /\ sendCh'[c] = Append(sendCh[c], msg)
      <4>1. hpc[c] \notin BeforePumps
        BY <1>2, <1>3, <3>2
      <4>2. Told(c) => Told(c)'
        BY <1>a, <1>1, <1>3, <3>2, ToldOffered
      <4> QED
        BY <1>a, <1>1, <1>3, <4>1, <4>2 DEF ToldInv, BeforePumps
    <3> QED
      BY <1>3, <3>1, <3>2 DEF Offer
  <2> QED
    BY <2>1 DEF ToldInv
<1>4. CASE HubBroadcast
  <2>1. PICK msg : msg = Head(broadcast)
    OBVIOUS
  <2>2. msg \in RelayMessage
    <3>1. broadcast \in Seq(RelayMessage) /\ broadcast # <<>>
      BY <1>a, <1>4, OrderTypes DEF HubBroadcast
    <3> QED
      BY <2>1, <3>1
  <2>3. PICK out : out = [type |-> "RelayPacket", id |-> msg.id]
    OBVIOUS
  <2>4. out \in SendMsg /\ out.type # "RuleUpdate"
    BY <2>2, <2>3 DEF SendMsg, PacketMsg, RelayMessage
  <2>5. Offer(Audience(msg), out) /\ hubUp /\ UNCHANGED <<rules, dropped>>
    BY <1>4, <2>1, <2>3 DEF HubBroadcast, historyVars
  <2>6. PICK C : C = Audience(msg)
    OBVIOUS
  <2>7. \A c \in C : \E k \in Keys : clients[k] = c /\ c # NoConn
    BY <2>6, HubAssumption DEF Audience
  <2>8. Offer(C, out)
    BY <2>5, <2>6
  <2> QED
    BY <1>3, <2>4, <2>5, <2>7, <2>8
<1>5. CASE HubDirectSend
  <2>1. Head(directSend) \in DirectSendReq
    <3>1. directSend \in Seq(DirectSendReq) /\ directSend # <<>>
      BY <1>a, <1>5 DEF TypeOK, HubTypeOK, HubDirectSend
    <3> QED
      BY <3>1
  <2>2. PICK C : C = {clients[Head(directSend).key]} \ {NoConn}
    OBVIOUS
  <2>3. PICK out : out = [type |-> "UpdateCommand"]
    OBVIOUS
  <2>4. out \in SendMsg /\ out.type # "RuleUpdate"
    BY <2>3 DEF SendMsg, CommandMsg
  <2>5. Offer(C, out) /\ hubUp /\ UNCHANGED <<rules, dropped>>
    BY <1>5, <2>2, <2>3 DEF HubDirectSend, historyVars
  <2>6. \A c \in C : \E k \in Keys : clients[k] = c /\ c # NoConn
    BY <2>1, <2>2 DEF DirectSendReq
  <2> QED
    BY <1>3, <2>4, <2>5, <2>6
<1>6. CASE HubRuleUpdate
  <2>1. PICK req : req = Head(ruleUpdate)
    OBVIOUS
  <2>2. req \in RuleUpdateReq
    <3>1. ruleUpdate \in Seq(RuleUpdateReq) /\ ruleUpdate # <<>>
      BY <1>a, <1>6 DEF TypeOK, HubTypeOK, HubRuleUpdate
    <3> QED
      BY <2>1, <3>1
  <2>3. req.key \in Keys /\ req.rules \in RuleSlice
    BY <2>2 DEF RuleUpdateReq
  <2>4. PICK c : c = clients[req.key]
    OBVIOUS
  <2>5. PICK msg : msg = [type |-> "RuleUpdate", rules |-> req.rules]
    OBVIOUS
  <2>6. /\ hubUp
        /\ rules' = [d \in Conns |-> IF d = c THEN req.rules ELSE rules[d]]
        /\ Offer({c} \ {NoConn}, msg)
        /\ dropped' = [d \in Conns |-> IF d = c THEN ~HasRoom(d) ELSE dropped[d]]
    BY <1>6, <2>1, <2>4, <2>5 DEF HubRuleUpdate, ReplaceRules
  <2>7. ASSUME NEW d \in Conns
        PROVE  /\ hpc'[d] \in BeforePumps => sendCh'[d] = <<>>
               /\ hpc'[d] = "register" /\ peer'[d] = "up" => view'[d] = rules'[d]
               /\ hpc'[d] = "wait" /\ peer'[d] = "up" /\ wpc'[d] = "run" /\ ~dropped'[d] => Told(d)'
    <3>1. CASE d # c
      <4>1. sendCh'[d] = sendCh[d] /\ rules'[d] = rules[d] /\ dropped'[d] = dropped[d]
        BY <2>6, <3>1 DEF Offer
      <4> QED
        BY <1>a, <1>1, <4>1, ToldSame
    <3>2. CASE d = c
      <4>1. c # NoConn
        BY <3>2, HubAssumption
      <4>2. hpc[d] \notin BeforePumps
        BY <1>2, <2>3, <2>4, <2>6, <3>2, <4>1
      <4>3. rules'[d] = req.rules /\ (~dropped'[d] => HasRoom(d))
        BY <2>6, <3>2
      <4>4. HasRoom(d) => sendCh'[d] = Append(sendCh[d], msg)
        BY <2>6, <3>2, <4>1 DEF Offer
      <4>5. ~dropped'[d] => Told(d)'
        BY <1>a, <2>3, <2>5, <4>3, <4>4, ToldPushed
      <4> QED
        BY <1>1, <4>2, <4>5 DEF BeforePumps
    <3> QED
      BY <3>1, <3>2
  <2> QED
    BY <2>7 DEF ToldInv
<1>7. CASE HubRegister \/ HubUnregister \/ HubStop \/ \E a \in Admins : HubSnapshot(a)
  <2>1. UNCHANGED <<rules, sendCh, dropped>>
    BY <1>7 DEF HubRegister, HubUnregister, HubStop, HubSnapshot, clientVars, historyVars
  <2> QED
    BY <1>a, <1>1, <2>1, ToldSame DEF ToldInv
<1> QED
  BY <1>a, <1>4, <1>5, <1>6, <1>7 DEF HubStep, HubNext

\* A handler tells its client the rules it has read; the write pump tells the others.
LEMMA ConnKeepsTold ==
    ASSUME NEW c \in Conns, TypeOK, ToldInv, ConnStep(c)
    PROVE  ToldInv'
<1> USE DEF GoTo
<1>0. UNCHANGED dropped
  BY ConnFrame
<1>1. /\ hpc \in [Conns -> {"none", "get rules", "auth ok", "register", "wait", "done"}]
      /\ wpc \in [Conns -> {"off", "run", "end"}]
      /\ peer \in [Conns -> {"up", "gone"}]
      /\ view \in [Conns -> RuleSlice] /\ rules \in [Conns -> RuleSlice]
      /\ sendCh \in [Conns -> Seq(SendMsg)]
  BY DEF TypeOK, ConnTypeOK, HubTypeOK
<1>2. ASSUME \A d \in Conns : d # c => UNCHANGED <<hpc[d], peer[d], wpc[d], view[d], rules[d], sendCh[d]>>,
             hpc'[c] \in BeforePumps => sendCh'[c] = <<>>,
             hpc'[c] = "register" /\ peer'[c] = "up" => view'[c] = rules'[c],
             hpc'[c] = "wait" /\ peer'[c] = "up" /\ wpc'[c] = "run" /\ ~dropped[c] => Told(c)'
      PROVE  ToldInv'
  BY <1>0, <1>2, ToldSame DEF ToldInv
<1>3. CASE (\E k \in Keys : Authenticated(c, k)) \/ AuthFail(c) \/ ReadRules(c) \/ AuthOKFails(c) \/ Finish(c)
  <2>1. /\ UNCHANGED <<peer, wpc, view, sendCh>>
        /\ \A d \in Conns : d # c => UNCHANGED <<hpc[d], rules[d]>>
        /\ hpc'[c] \in BeforePumps => hpc[c] \in BeforePumps
        /\ hpc'[c] # "register" /\ hpc'[c] # "wait"
    <3> USE DEF hubVars, clientVars, QueuesOnly, BeforePumps
    <3>1. CASE \E k \in Keys : Authenticated(c, k)
      BY <1>1, <3>1 DEF Authenticated
    <3>2. CASE ReadRules(c)
      BY <1>1, <3>2 DEF ReadRules
    <3>3. CASE AuthFail(c) \/ AuthOKFails(c) \/ Finish(c)
      BY <1>1, <3>3 DEF AuthFail, AuthOKFails, Finish
    <3> QED
      BY <1>3, <3>1, <3>2, <3>3
  <2> QED
    BY <1>2, <2>1 DEF ToldInv
<1>4. CASE SendAuthOK(c)
  <2>1. /\ hpc[c] = "auth ok" /\ hpc' = [hpc EXCEPT ![c] = "register"]
        /\ view' = [view EXCEPT ![c] = IF peer[c] = "up" THEN rules[c] ELSE @]
        /\ UNCHANGED <<peer, wpc, rules, sendCh>>
    BY <1>4 DEF SendAuthOK, hubVars, clientVars
  <2> QED
    BY <1>1, <1>2, <2>1 DEF ToldInv, BeforePumps
<1>5. CASE StartPumps(c)
  <2>1. /\ hpc[c] = "register" /\ hpc' = [hpc EXCEPT ![c] = "wait"]
        /\ wpc' = [wpc EXCEPT ![c] = "run"]
        /\ UNCHANGED <<peer, view, rules, sendCh>>
    BY <1>5 DEF StartPumps, QueuesOnly, clientVars
  <2>2. sendCh[c] = <<>> /\ (peer[c] = "up" => view[c] = rules[c])
    BY <2>1 DEF ToldInv, BeforePumps
  <2>3. peer[c] = "up" => Told(c)'
    BY <2>1, <2>2 DEF Told
  <2> QED
    BY <1>1, <1>2, <2>1, <2>3 DEF BeforePumps
<1>6. CASE WriteMessage(c)
  <2>1. /\ sendCh[c] # <<>> /\ sendCh' = [sendCh EXCEPT ![c] = Tail(@)]
        /\ view' = [view EXCEPT ![c] = IF peer[c] = "up" /\ Head(sendCh[c]).type = "RuleUpdate"
                                         THEN Head(sendCh[c]).rules ELSE @]
        /\ UNCHANGED <<hpc, peer, wpc, rules>>
    BY <1>6 DEF WriteMessage, Dequeue
  <2>2. Head(sendCh[c]) = sendCh[c][1]
    <3>1. sendCh[c] \in Seq(SendMsg) /\ sendCh[c] # <<>>
      BY <1>1, <2>1
    <3> QED
      BY <3>1
  <2>7. IsPush(c, 1) <=> Head(sendCh[c]).type = "RuleUpdate"
    BY <2>2 DEF IsPush
  <2>3. /\ sendCh'[c] = Tail(sendCh[c])
        /\ peer[c] = "up" => view'[c] = IF IsPush(c, 1) THEN sendCh[c][1].rules ELSE view[c]
    <3>1. sendCh'[c] = Tail(sendCh[c])
      BY <1>1, <2>1
    <3>2. view'[c] = IF peer[c] = "up" /\ Head(sendCh[c]).type = "RuleUpdate"
                       THEN Head(sendCh[c]).rules ELSE view[c]
      BY <1>1, <2>1
    <3> QED
      BY <2>2, <2>7, <3>1, <3>2
  <2>4. peer[c] = "up" /\ Told(c) => Told(c)'
    BY <2>1, <2>3, ToldWritten
  <2>5. hpc[c] \notin BeforePumps
    BY <2>1 DEF ToldInv
  <2>6. \A d \in Conns : d # c => sendCh'[d] = sendCh[d] /\ view'[d] = view[d]
    BY <1>1, <2>1
  <2> QED
    BY <1>2, <2>1, <2>4, <2>5, <2>6 DEF ToldInv, BeforePumps
<1>7. CASE WriteFails(c) \/ WritePumpEnds(c)
  <2>1. /\ wpc' = [wpc EXCEPT ![c] = "end"]
        /\ sendCh' = sendCh \/ (sendCh[c] # <<>> /\ sendCh' = [sendCh EXCEPT ![c] = Tail(@)])
        /\ UNCHANGED <<hpc, peer, view, rules>>
    BY <1>7 DEF WriteFails, WritePumpEnds, Dequeue, hubVars, clientVars
  <2> QED
    BY <1>1, <1>2, <2>1 DEF ToldInv
<1>8. CASE PeerGone(c)
  <2>1. /\ peer' = [peer EXCEPT ![c] = "gone"]
        /\ UNCHANGED <<hpc, wpc, view, rules, sendCh>>
    BY <1>8 DEF PeerGone, hubVars, clientVars
  <2> QED
    BY <1>1, <1>2, <2>1 DEF ToldInv
<1>9. CASE (\E r \in RuleIds : ReceiveRelayPacket(c, r)) \/ PublishRelayPacket(c) \/ ReadFails(c)
  <2>1. UNCHANGED <<hpc, peer, wpc, view, rules, sendCh, dropped>>
    BY <1>0, <1>9 DEF ReceiveRelayPacket, PublishRelayPacket, ReadFails, hubVars, clientVars,
                      QueuesOnly
  <2> QED
    BY <2>1, ToldSame DEF ToldInv
<1> QED
  BY <1>3, <1>4, <1>5, <1>6, <1>7, <1>8, <1>9 DEF ConnStep, AuthKey, AuthCredentials

(* Once the queued messages are written, a client has been told the rules  *)
(* the hub relays to it by, unless the last push found no room             *)
(* (RelayServer, ClientToldItsRules).                                      *)
THEOREM ClientsAreTold == Spec => []ClientToldItsRules
<1>1. TypeOK /\ HubInv /\ ToldInv /\ [Next]_vars => ToldInv'
  <2>a. SUFFICES ASSUME TypeOK, HubInv, ToldInv, [Next]_vars PROVE ToldInv'
    OBVIOUS
  <2>1. ASSUME UNCHANGED <<hpc, peer, wpc, view, rules, sendCh, dropped>> PROVE ToldInv'
    BY <2>a, <2>1, ToldSame DEF ToldInv
  <2>2. ASSUME NEW a \in Admins, AdminStep(a) PROVE ToldInv'
    BY <2>1, <2>2, AdminFrame
  <2>3. CASE (\E r \in RuleIds : CapturePacket(r)) \/ Shutdown \/ UNCHANGED vars
    BY <2>1, <2>3 DEF CapturePacket, QueuesOnly, Shutdown, vars, hubVars, clientVars,
                      historyVars, connVars
  <2> QED
    BY <2>a, <2>2, <2>3, HubKeepsTold, ConnKeepsTold DEF Next, Idle
<1>2. TypeOK /\ ToldInv => ClientToldItsRules
  BY ToldIsLast DEF ToldInv, ClientToldItsRules
<1> QED
  BY InitToldInv, TypeCorrect, HubCorrect, <1>1, <1>2, PTL DEF Spec

(***************************************************************************)
(* The rules the hub ends up with.                                         *)
(***************************************************************************)
\* A slice holds what the tables give the key, but for rules whose row was changed, and
\* no rule that is not assigned to it.
Agrees(k, slice) ==
    /\ \A r \in RuleIds \ touched : slice[r] = GetRulesForClient(k)[r]
    /\ \A r \in RuleIds : slice[r] # NoRule => <<k, r>> \in assigned

Quiet(k)     == \A a \in Admins : ~UnderWay(a, k)
Awaited(k)   == \E i \in DOMAIN ruleUpdate : ruleUpdate[i].key = k
Latest(k, i) == /\ ruleUpdate[i].key = k
                /\ \A j \in DOMAIN ruleUpdate : ruleUpdate[j].key = k => j <= i

\* A connection that has read its rules and is registered or on its way there.
Known(c) == hpc[c] \in {"auth ok", "register"} \/ Queued(c, register) \/ c \in Connected

\* Where the last word on a key's rules is: with a request that is under way, else in
\* the last push that is queued, else with the key's connections.
PushedAgrees ==
    \A a \in Admins :
        admin[a].pc = "push" /\ admin[a].key \notin unsure
            => Agrees(admin[a].key, admin[a].rules)

LatestAgrees ==
    \A k \in Keys \ unsure : Quiet(k) =>
        \A i \in DOMAIN ruleUpdate : Latest(k, i) => Agrees(k, ruleUpdate[i].rules)

KnownAgrees ==
    \A c \in Conns :
        /\ connKey[c] \in Keys \ unsure /\ Quiet(connKey[c]) /\ ~Awaited(connKey[c])
        /\ Known(c) /\ ~missed[c]
        => Agrees(connKey[c], rules[c])

SettledInv ==
    /\ PushedAgrees /\ LatestAgrees
    /\ hubUp => KnownAgrees

\* What the tables give a key agrees with them.
LEMMA TablesAgree == \A k : Agrees(k, GetRulesForClient(k))
<1> SUFFICES ASSUME NEW k PROVE Agrees(k, GetRulesForClient(k))
  OBVIOUS
<1>1. \A r \in RuleIds : GetRulesForClient(k)[r] # NoRule => <<k, r>> \in assigned
  BY DEF GetRulesForClient, InForce
<1> QED
  BY <1>1 DEF Agrees

\* At first there is no request, no push and no connection.
LEMMA InitSettledInv == Init => SettledInv
<1> SUFFICES ASSUME Init PROVE SettledInv
  OBVIOUS
<1>1. \A a \in Admins : admin[a].pc = "idle"
  BY DEF Init, IdleAdmin
<1>2. PushedAgrees
  BY <1>1 DEF PushedAgrees
<1>3. LatestAgrees
  BY DEF LatestAgrees, Init, HubInit
<1>4. KnownAgrees
  <2>1. \A c \in Conns : ~Known(c)
    <3>1. DOMAIN register = {} /\ \A k \in Keys : clients[k] = NoConn
      BY DEF Init, HubInit
    <3>2. \A c \in Conns : hpc[c] = "none"
      BY DEF Init
    <3> QED
      BY <3>1, <3>2, HubAssumption DEF Known, Queued, Connected
  <2> QED
    BY <2>1 DEF KnownAgrees
<1> QED
  BY <1>2, <1>3, <1>4 DEF SettledInv

\* A step that leaves the tables, the requests and the pushes alone says nothing new
\* of the requests.
LEMMA RequestsSame ==
    ASSUME PushedAgrees, LatestAgrees,
           UNCHANGED <<admin, unsure, touched, assigned, enabled, direction, ruleUpdate>>
    PROVE  PushedAgrees' /\ LatestAgrees'
<1>1. /\ \A k : Quiet(k)' <=> Quiet(k)
      /\ \A k, slice : Agrees(k, slice)' <=> Agrees(k, slice)
      /\ \A k, i : Latest(k, i)' <=> Latest(k, i)
  BY DEF Quiet, UnderWay, Agrees, GetRulesForClient, InForce, Latest
<1>2. PushedAgrees'
  BY <1>1 DEF PushedAgrees
<1>3. LatestAgrees'
  BY <1>1 DEF LatestAgrees
<1> QED
  BY <1>2, <1>3

\* ... and nothing of the connections, if those it knows were known before.
LEMMA KnownSame ==
    ASSUME hubUp => KnownAgrees, hubUp' => hubUp,
           UNCHANGED <<admin, unsure, touched, assigned, enabled, direction, ruleUpdate>>,
           hubUp => \A c \in Conns : Known(c)' /\ ~missed'[c] =>
               \/ Known(c) /\ ~missed[c] /\ UNCHANGED <<connKey[c], rules[c]>>
               \/ Agrees(connKey[c], rules[c])'
    PROVE  hubUp' => KnownAgrees'
<1> SUFFICES ASSUME hubUp, NEW c \in Conns,
                    connKey'[c] \in Keys \ unsure', Quiet(connKey[c])', ~Awaited(connKey[c])',
                    Known(c)', ~missed'[c], Known(c), ~missed[c],
                    UNCHANGED <<connKey[c], rules[c]>>
             PROVE  Agrees(connKey[c], rules[c])'
  BY DEF KnownAgrees
<1>1. Quiet(connKey[c]) /\ ~Awaited(connKey[c])
  BY DEF Quiet, Awaited, UnderWay
<1>2. Agrees(connKey[c], rules[c])
  BY <1>1 DEF KnownAgrees
<1> QED
  BY <1>2 DEF Agrees, GetRulesForClient, InForce

\* A connection that the hub knows is open.
LEMMA KnownIsOpen ==
    ASSUME TypeOK, HubInv, hubUp, NEW c \in Conns, Known(c)
    PROVE  ~closed[c]
<1>1. CASE hpc[c] \in {"auth ok", "register"}
  BY <1>1 DEF HubInv, UnstartedAreOpen
<1>2. CASE Queued(c, register)
  BY <1>2 DEF HubInv, QueuedAreNew, Queued
<1>3. CASE c \in Connected
  BY <1>3, HubAssumption DEF HubInv, MapHoldsOpen, Connected
<1> QED
  BY <1>1, <1>2, <1>3 DEF Known

\* The hub handles a push: the connection it finds has the rules, the others of the
\* key have missed it.
LEMMA PushKeepsSettled ==
    TypeOK /\ HubInv /\ SettledInv /\ HubStep /\ HubRuleUpdate => SettledInv'
<1>a. SUFFICES ASSUME TypeOK, HubInv, SettledInv, HubStep, HubRuleUpdate PROVE SettledInv'
  OBVIOUS
<1>1. UNCHANGED <<hpc, admin, unsure, touched, assigned, enabled, direction, connKey>>
  BY <1>a, HubFrame
<1>2. ruleUpdate \in Seq(RuleUpdateReq) /\ ruleUpdate # <<>> /\ hubUp
  BY <1>a DEF TypeOK, HubTypeOK, HubRuleUpdate
<1>3. PICK req \in RuleUpdateReq : req = Head(ruleUpdate)
  BY <1>2
<1>4. PICK c : c = clients[req.key]
  OBVIOUS
<1>5. /\ rules' = [d \in Conns |-> IF d = c THEN req.rules ELSE rules[d]]
      /\ missed' = [d \in Conns |-> \/ missed[d]
                                    \/ connKey[d] = req.key /\ d # c /\ ~closed[d]]
      /\ ruleUpdate' = Tail(ruleUpdate)
      /\ UNCHANGED <<register, clients, closed>> /\ (hubUp' <=> hubUp)
  BY <1>a, <1>3, <1>4 DEF HubRuleUpdate, ReplaceRules
<1>6. /\ 1 \in DOMAIN ruleUpdate /\ ruleUpdate[1] = req
      /\ \A i \in DOMAIN ruleUpdate' :
            i \in Nat /\ i + 1 \in DOMAIN ruleUpdate /\ ruleUpdate'[i] = ruleUpdate[i + 1]
      /\ \A i \in DOMAIN ruleUpdate : i \in Nat /\ (i = 1 \/ \E n \in DOMAIN ruleUpdate' : i = n + 1)
  <2>1. \A i \in DOMAIN ruleUpdate : i = 1 \/ (i - 1 \in DOMAIN ruleUpdate' /\ i = (i - 1) + 1)
    BY <1>2, <1>5
  <2> QED
    BY <1>2, <1>3, <1>5, <2>1
<1>7. /\ \A k : Quiet(k)' <=> Quiet(k)
      /\ \A k, slice : Agrees(k, slice)' <=> Agrees(k, slice)
  BY <1>1 DEF Quiet, UnderWay, Agrees, GetRulesForClient, InForce
<1>8. PushedAgrees'
  BY <1>a, <1>1, <1>7 DEF SettledInv, PushedAgrees
<1>9. LatestAgrees'
  <2>1. SUFFICES ASSUME NEW k \in Keys \ unsure, Quiet(k), NEW i \in DOMAIN ruleUpdate', Latest(k, i)'
                 PROVE  Agrees(k, ruleUpdate[i].rules)'
    BY <1>1, <1>7 DEF LatestAgrees
  <2>2. Latest(k, i + 1)
    <3>1. ruleUpdate[i + 1].key = k
      BY <1>6, <2>1 DEF Latest
    <3>2. ASSUME NEW j \in DOMAIN ruleUpdate, ruleUpdate[j].key = k PROVE j <= i + 1
      <4>1. CASE j = 1
        BY <1>6, <2>1, <4>1
      <4>2. ASSUME NEW n \in DOMAIN ruleUpdate', j = n + 1 PROVE j <= i + 1
        <5>1. ruleUpdate'[n].key = k
          BY <1>6, <3>2, <4>2
        <5>2. n <= i
          BY <2>1, <5>1 DEF Latest
        <5> QED
          BY <1>6, <2>1, <4>2, <5>2
      <4> QED
        BY <1>6, <4>1, <4>2
    <3> QED
      BY <3>1, <3>2 DEF Latest
  <2>3. Agrees(k, ruleUpdate[i + 1].rules)
    BY <1>a, <1>6, <2>1, <2>2 DEF SettledInv, LatestAgrees
  <2> QED
    BY <1>1, <1>6, <2>3 DEF Agrees, GetRulesForClient, InForce
<1>10. KnownAgrees'
  <2>1. SUFFICES ASSUME NEW d \in Conns,
                        connKey[d] \in Keys \ unsure, Quiet(connKey[d]), ~Awaited(connKey[d])',
                        Known(d), ~missed'[d]
                 PROVE  Agrees(connKey[d], rules[d])'
    <3>1. \A d \in Conns : Known(d)' => Known(d)
      BY <1>1, <1>5 DEF Known, Queued, Connected
    <3> QED
      BY <1>1, <1>7, <3>1 DEF KnownAgrees
  <2>2. PICK k : k = connKey[d]
    OBVIOUS
  <2>3. ~missed[d] /\ KnownAgrees
    BY <1>a, <1>2, <1>5, <2>1 DEF SettledInv, TypeOK, HubTypeOK
  <2>4. c # NoConn => connKey[c] = req.key
    <3>1. req.key \in Keys
      BY DEF RuleUpdateReq
    <3> QED
      BY <1>a, <1>2, <1>4, <3>1 DEF HubInv, MapHoldsOpen
  <2>5. CASE k # req.key
    <3>1. ~Awaited(k)
      <4>1. ASSUME NEW i \in DOMAIN ruleUpdate, ruleUpdate[i].key = k PROVE Awaited(k)'
        <5>1. i # 1
          BY <1>6, <2>5, <4>1
        <5>2. PICK n \in DOMAIN ruleUpdate' : i = n + 1
          BY <1>6, <5>1
        <5>3. ruleUpdate'[n].key = k
          BY <1>6, <4>1, <5>2
        <5> QED
          BY <5>3 DEF Awaited
      <4> QED
        BY <1>1, <2>1, <2>2, <4>1 DEF Awaited
    <3>2. rules'[d] = rules[d]
      BY <1>5, <2>2, <2>4, <2>5, HubAssumption
    <3>3. Agrees(k, rules[d])
      BY <2>1, <2>2, <2>3, <3>1 DEF KnownAgrees
    <3> QED
      BY <1>1, <2>2, <3>2, <3>3 DEF Agrees, GetRulesForClient, InForce
  <2>6. CASE k = req.key
    <3>1. Latest(k, 1)
      <4>1. ASSUME NEW j \in DOMAIN ruleUpdate, ruleUpdate[j].key = k PROVE j <= 1
        <5>1. ASSUME NEW n \in DOMAIN ruleUpdate', j = n + 1 PROVE FALSE
          <6>1. ruleUpdate'[n].key = k
            BY <1>6, <4>1, <5>1
          <6> QED
            BY <1>1, <2>1, <2>2, <6>1 DEF Awaited
        <5> QED
          BY <1>6, <5>1
      <4> QED
        BY <1>6, <2>6, <4>1 DEF Latest
    <3>2. Agrees(k, req.rules)
      BY <1>a, <1>6, <2>1, <2>2, <3>1 DEF SettledInv, LatestAgrees
    <3>3. ~closed[d]
      BY <1>a, <1>2, <2>1, KnownIsOpen
    <3>4. rules'[d] = req.rules
      BY <1>5, <2>1, <2>2, <2>6, <3>3
    <3> QED
      BY <1>1, <2>2, <3>2, <3>4 DEF Agrees, GetRulesForClient, InForce
  <2> QED
    BY <2>5, <2>6
<1> QED
  BY <1>8, <1>9, <1>10 DEF SettledInv

\* The hub's other branches know fewer connections, or the same.
LEMMA HubKeepsSettled == TypeOK /\ HubInv /\ SettledInv /\ HubStep => SettledInv'
<1>a. SUFFICES ASSUME TypeOK, HubInv, SettledInv, HubStep, ~HubRuleUpdate PROVE SettledInv'
  BY PushKeepsSettled
<1>1. UNCHANGED <<hpc, admin, unsure, touched, assigned, enabled, direction, connKey>>
  BY <1>a, HubFrame
<1>2. UNCHANGED <<rules, missed, ruleUpdate>> /\ (hubUp' => hubUp)
  BY <1>a DEF HubStep, HubNext, HubRegister, HubUnregister, HubBroadcast, HubDirectSend,
              HubSnapshot, HubStop, clientVars, historyVars, queueVars
<1>3. ASSUME NEW d \in Conns, Known(d)' PROVE Known(d)
  <2>1. /\ register \in Seq(Conns) /\ unregister \in Seq(Conns)
        /\ clients \in [Keys -> Conns \cup {NoConn}]
    BY <1>a DEF TypeOK, HubTypeOK
  <2>2. CASE HubRegister
    <3>1. /\ register # <<>> /\ register' = Tail(register)
          /\ clients' = [clients EXCEPT ![connKey[Head(register)]] = Head(register)]
      BY <2>2 DEF HubRegister
    <3>2. /\ 1 \in DOMAIN register /\ Head(register) = register[1]
          /\ \A i \in DOMAIN register' : i + 1 \in DOMAIN register /\ register'[i] = register[i + 1]
      BY <2>1, <3>1
    <3>3. Queued(d, register)' => Queued(d, register)
      BY <3>2 DEF Queued
    <3>4. d \in Connected' => d \in Connected \/ d = Head(register)
      BY <2>1, <3>1 DEF Connected
    <3>5. Queued(Head(register), register)
      BY <3>2 DEF Queued
    <3> QED
      BY <1>1, <1>3, <3>3, <3>4, <3>5 DEF Known
  <2>3. CASE HubUnregister
    <3>1. register' = register /\ \A k \in Keys : clients'[k] = clients[k] \/ clients'[k] = NoConn
      BY <2>1, <2>3 DEF HubUnregister
    <3> QED
      BY <1>1, <1>3, <3>1, HubAssumption DEF Known, Queued, Connected
  <2>4. CASE HubBroadcast \/ HubDirectSend \/ HubStop \/ \E a \in Admins : HubSnapshot(a)
    <3>1. UNCHANGED <<register, clients>>
      BY <2>4 DEF HubBroadcast, HubDirectSend, HubSnapshot, HubStop, clientVars, queueVars
    <3> QED
      BY <1>1, <1>3, <3>1 DEF Known, Queued, Connected
  <2> QED
    BY <1>a, <2>2, <2>3, <2>4 DEF HubStep, HubNext
<1> QED
  BY <1>a, <1>1, <1>2, <1>3, RequestsSame, KnownSame DEF SettledInv

\* A handler reads the rules, registers its connection, or leaves.
LEMMA ConnKeepsSettled ==
    ASSUME NEW c \in Conns, TypeOK, HubInv, SettledInv, ConnStep(c)
    PROVE  SettledInv'
<1> USE DEF GoTo
<1>0. UNCHANGED <<assigned, enabled, direction, touched, unsure, admin, ruleUpdate, clients, hubUp>>
  BY ConnFrame
<1>1. /\ hpc \in [Conns -> {"none", "get rules", "auth ok", "register", "wait", "done"}]
      /\ connKey \in [Conns -> Keys \cup {NoKey}] /\ rules \in [Conns -> RuleSlice]
      /\ missed \in [Conns -> BOOLEAN] /\ register \in Seq(Conns)
  BY DEF TypeOK, ConnTypeOK, HubTypeOK
<1>2. ASSUME hubUp => \A d \in Conns : Known(d)' /\ ~missed'[d] =>
                   \/ Known(d) /\ ~missed[d] /\ UNCHANGED <<connKey[d], rules[d]>>
                   \/ Agrees(connKey[d], rules[d])'
      PROVE  SettledInv'
  BY <1>0, <1>2, RequestsSame, KnownSame DEF SettledInv
<1>3. CASE \E k \in Keys : Authenticated(c, k)
  <2>1. PICK k \in Keys : Authenticated(c, k)
    BY <1>3
  <2>2. /\ connKey' = [connKey EXCEPT ![c] = k] /\ hpc[c] = "none"
        /\ hpc' = [hpc EXCEPT ![c] = "get rules"]
        /\ UNCHANGED <<register, rules, missed>>
    BY <2>1 DEF Authenticated, queueVars, historyVars
  <2>3. hubUp => ~Known(c)'
    <3>1. hubUp => ~Queued(c, register) /\ c \notin Connected
      <4>1. hubUp => ~Queued(c, register)
        BY <2>2 DEF HubInv, QueuedAreNew, Queued
      <4>2. hubUp => c \notin Connected
        BY <2>2, HubAssumption DEF HubInv, MapHoldsOpen, Connected
      <4> QED
        BY <4>1, <4>2
    <3> QED
      BY <1>0, <1>1, <2>2, <3>1 DEF Known, Queued, Connected
  <2>4. \A d \in Conns : d # c => (Known(d)' => Known(d)) /\ UNCHANGED <<connKey[d], rules[d], missed[d]>>
    BY <1>0, <1>1, <2>2 DEF Known, Queued, Connected
  <2> QED
    BY <1>2, <2>3, <2>4
<1>4. CASE ReadRules(c)
  <2>1. /\ rules' = [rules EXCEPT ![c] = GetRulesForClient(connKey[c])]
        /\ missed' = [missed EXCEPT ![c] = FALSE]
        /\ hpc' = [hpc EXCEPT ![c] = "auth ok"]
        /\ UNCHANGED <<register, connKey>>
    BY <1>4 DEF ReadRules, queueVars
  <2>2. PICK k : k = connKey[c]
    OBVIOUS
  <2>3. Agrees(connKey[c], rules[c])'
    <3>1. rules'[c] = GetRulesForClient(k) /\ connKey'[c] = k
      BY <1>1, <2>1, <2>2
    <3>2. PICK slice : slice = GetRulesForClient(k)
      OBVIOUS
    <3>3. Agrees(k, slice)
      BY <3>2, TablesAgree
    <3>4. Agrees(k, slice)'
      BY <1>0, <3>3 DEF Agrees, GetRulesForClient, InForce
    <3> QED
      BY <3>1, <3>2, <3>4
  <2>4. \A d \in Conns : d # c => (Known(d)' => Known(d)) /\ UNCHANGED <<connKey[d], rules[d], missed[d]>>
    BY <1>0, <1>1, <2>1 DEF Known, Queued, Connected
  <2> QED
    BY <1>2, <2>3, <2>4
<1>5. CASE StartPumps(c)
  <2>1. /\ hpc[c] = "register" /\ hpc' = [hpc EXCEPT ![c] = "wait"]
        /\ register' = Append(register, c)
        /\ UNCHANGED <<connKey, rules, missed>>
    BY <1>5 DEF StartPumps, Register, QueuesOnly, clientVars, historyVars
  <2>2. ASSUME NEW d \in Conns, d # c, Queued(d, register)' PROVE Queued(d, register)
    <3>1. PICK i \in DOMAIN register' : register'[i] = d
      BY <2>2 DEF Queued
    <3>2. /\ \A j \in DOMAIN register : register'[j] = register[j]
          /\ register'[Len(register) + 1] = c
          /\ i = Len(register) + 1 \/ i \in DOMAIN register
      <4>1. \A q \in Seq(Conns) :
                /\ \A j \in DOMAIN q : Append(q, c)[j] = q[j]
                /\ Append(q, c)[Len(q) + 1] = c
                /\ \A j \in DOMAIN Append(q, c) : j = Len(q) + 1 \/ j \in DOMAIN q
        BY Appended
      <4> QED
        BY <1>1, <2>1, <3>1, <4>1
    <3>3. i \in DOMAIN register /\ register[i] = d
      BY <2>2, <3>1, <3>2
    <3> QED
      BY <3>3 DEF Queued
  <2>3. \A d \in Conns : Known(d)' => Known(d)
    BY <1>0, <1>1, <2>1, <2>2 DEF Known, Connected
  <2> QED
    BY <1>2, <2>1, <2>3
<1>6. CASE \/ AuthFail(c) \/ SendAuthOK(c) \/ AuthOKFails(c) \/ Finish(c)
           \/ (\E r \in RuleIds : ReceiveRelayPacket(c, r)) \/ PublishRelayPacket(c)
           \/ ReadFails(c) \/ WriteMessage(c) \/ WriteFails(c) \/ WritePumpEnds(c) \/ PeerGone(c)
  <2>1. /\ UNCHANGED <<register, connKey, rules, missed>>
        /\ \A d \in Conns : hpc'[d] \in {"auth ok", "register"} => hpc[d] \in {"auth ok", "register"}
    <3> USE DEF hubVars, queueVars, clientVars, historyVars, QueuesOnly
    <3>1. CASE AuthFail(c) \/ SendAuthOK(c) \/ AuthOKFails(c) \/ Finish(c)
      BY <1>1, <3>1 DEF AuthFail, SendAuthOK, AuthOKFails, Finish, Unregister
    <3>2. CASE \/ (\E r \in RuleIds : ReceiveRelayPacket(c, r)) \/ PublishRelayPacket(c)
               \/ ReadFails(c) \/ WriteMessage(c) \/ WriteFails(c) \/ WritePumpEnds(c) \/ PeerGone(c)
      BY <3>2 DEF ReceiveRelayPacket, PublishRelayPacket, Publish, Broadcast, ReadFails,
                  WriteMessage, WriteFails, WritePumpEnds, PeerGone
    <3> QED
      BY <1>6, <3>1, <3>2
  <2>2. \A d \in Conns : Known(d)' => Known(d)
    BY <1>0, <2>1 DEF Known, Queued, Connected
  <2> QED
    BY <1>2, <2>1, <2>2
<1> QED
  BY <1>3, <1>4, <1>5, <1>6 DEF ConnStep, AuthKey, AuthCredentials

\* A request changes the rules of no key, or only those of a rule whose row it changes.
LEMMA RowsKeepSettled ==
    ASSUME SettledInv,
           UNCHANGED <<unsure, ruleUpdate, hubUp, hpc, register, clients, connKey, rules, missed>>,
           \A b \in Admins : \A k : UnderWay(b, k)' <=> UnderWay(b, k),
           \A b \in Admins : admin'[b].pc = "push" =>
               admin'[b] = admin[b] \/ Agrees(admin[b].key, admin[b].rules)',
           \A k, slice : Agrees(k, slice) => Agrees(k, slice)'
    PROVE  SettledInv'
<1>1. /\ \A k : Quiet(k)' <=> Quiet(k)
      /\ \A k, i : Latest(k, i)' <=> Latest(k, i)
      /\ \A k : Awaited(k)' <=> Awaited(k)
      /\ \A c : Known(c)' <=> Known(c)
  BY DEF Quiet, Latest, Awaited, Known, Queued, Connected
<1>2. PushedAgrees'
  BY DEF SettledInv, PushedAgrees
<1>3. LatestAgrees'
  BY <1>1 DEF SettledInv, LatestAgrees
<1>4. hubUp' => KnownAgrees'
  BY <1>1 DEF SettledInv, KnownAgrees
<1> QED
  BY <1>2, <1>3, <1>4 DEF SettledInv

\* A request changes the rules of one key: the others' are as they were, and of this
\* one the request now has the last word, if it met no other.
LEMMA ChangeKeepsSettled ==
    ASSUME NEW a \in Admins, NEW k \in Keys, TypeOK, SettledInv, Contend(k),
           admin[a] = IdleAdmin, admin' = [admin EXCEPT ![a] = [pc |-> "get rules", key |-> k]],
           UNCHANGED <<enabled, direction, touched, ruleUpdate, hubUp, hpc, register, clients,
                       connKey, rules, missed>>,
           \A k2, r : k2 # k => (<<k2, r>> \in assigned' <=> <<k2, r>> \in assigned)
    PROVE  SettledInv'
<1>1. /\ \A b \in Admins : b # a => admin'[b] = admin[b]
      /\ admin'[a].pc = "get rules" /\ admin'[a].key = k /\ admin[a].pc = "idle"
  <2>1. admin \in [Admins -> AdminState]
    BY DEF TypeOK
  <2>2. IdleAdmin.pc = "idle"
    BY DEF IdleAdmin
  <2> QED
    BY <2>1, <2>2
<1>2. ~Quiet(k)'
  BY <1>1 DEF Quiet, UnderWay
<1>3. \A k2 : k2 # k => /\ Quiet(k2)' => Quiet(k2)
                        /\ k2 \in unsure' <=> k2 \in unsure
  BY <1>1 DEF Quiet, UnderWay, Contend
<1>4. \A k2, slice : k2 # k => (Agrees(k2, slice)' <=> Agrees(k2, slice))
  BY DEF Agrees, GetRulesForClient, InForce
<1>5. PushedAgrees'
  <2>1. SUFFICES ASSUME NEW b \in Admins, admin'[b].pc = "push", admin'[b].key \notin unsure'
                 PROVE  Agrees(admin[b].key, admin[b].rules)'
    BY DEF PushedAgrees
  <2>2. b # a /\ admin'[b] = admin[b]
    BY <1>1, <2>1
  <2>3. admin[b].key # k
    <3>1. SUFFICES ASSUME admin[b].key = k PROVE FALSE
      OBVIOUS
    <3>2. UnderWay(b, k)
      BY <2>1, <2>2, <3>1 DEF UnderWay
    <3>3. k \in unsure'
      BY <3>2 DEF Contend
    <3>4. admin'[b].key = k
      BY <2>2, <3>1
    <3> QED
      BY <2>1, <3>3, <3>4
  <2>4. PICK k2, slice : k2 = admin[b].key /\ slice = admin[b].rules
    OBVIOUS
  <2>5. Agrees(k2, slice)
    BY <1>3, <2>1, <2>2, <2>3, <2>4 DEF SettledInv, PushedAgrees
  <2>6. Agrees(k2, slice)'
    BY <1>4, <2>3, <2>4, <2>5
  <2> QED
    BY <2>2, <2>4, <2>6
<1>6. LatestAgrees'
  <2>1. SUFFICES ASSUME NEW k2 \in Keys \ unsure', Quiet(k2)', NEW i \in DOMAIN ruleUpdate, Latest(k2, i)'
                 PROVE  Agrees(k2, ruleUpdate[i].rules)'
    BY DEF LatestAgrees
  <2>2. k2 # k /\ Latest(k2, i)
    BY <1>2, <2>1 DEF Latest
  <2>3. Agrees(k2, ruleUpdate[i].rules)
    BY <1>3, <2>1, <2>2 DEF SettledInv, LatestAgrees
  <2>4. PICK slice : slice = ruleUpdate[i].rules
    OBVIOUS
  <2> QED
    BY <1>4, <2>2, <2>3, <2>4
<1>7. hubUp' => KnownAgrees'
  <2>1. SUFFICES ASSUME hubUp, NEW c \in Conns, connKey[c] \in Keys \ unsure', Quiet(connKey[c])',
                        ~Awaited(connKey[c])', Known(c)', ~missed[c]
                 PROVE  Agrees(connKey[c], rules[c])'
    BY DEF KnownAgrees
  <2>2. PICK k2, slice : k2 = connKey[c] /\ slice = rules[c]
    OBVIOUS
  <2>3. k2 # k
    BY <1>2, <2>1, <2>2
  <2>4. Known(c) /\ ~Awaited(k2)
    BY <2>1, <2>2 DEF Known, Queued, Connected, Awaited
  <2>5. Quiet(k2) /\ k2 \in Keys \ unsure
    BY <1>3, <2>1, <2>2, <2>3
  <2>6. Agrees(k2, slice)
    BY <2>1, <2>2, <2>4, <2>5 DEF SettledInv, KnownAgrees
  <2> QED
    BY <1>4, <2>2, <2>3, <2>6
<1> QED
  BY <1>5, <1>6, <1>7 DEF SettledInv

\* A request hands its reading to the hub: it is now the latest push for its key.
LEMMA HandOverKeepsSettled ==
    ASSUME NEW a \in Admins, TypeOK, SettledInv, PushRules(a)
    PROVE  SettledInv'
<1>1. PICK k, rs : k = admin[a].key /\ rs = admin[a].rules
  OBVIOUS
<1>2. /\ admin[a].pc = "push" /\ admin' = [admin EXCEPT ![a] = IdleAdmin]
      /\ ruleUpdate' = Append(ruleUpdate, [key |-> k, rules |-> rs])
      /\ UNCHANGED <<assigned, enabled, direction, touched, unsure, hubUp, hpc, register,
                     clients, connKey, rules, missed>>
  BY <1>1 DEF PushRules, PushRuleUpdate, QueuesOnly, clientVars, historyVars, connVars, dbVars
<1>3. ruleUpdate \in Seq(RuleUpdateReq) /\ admin \in [Admins -> AdminState]
  BY DEF TypeOK, HubTypeOK
<1>4. /\ \A b \in Admins : b # a => admin'[b] = admin[b]
      /\ admin'[a].pc = "idle"
  BY <1>2, <1>3 DEF IdleAdmin
<1>5. /\ \A i \in DOMAIN ruleUpdate : i \in DOMAIN ruleUpdate' /\ ruleUpdate'[i] = ruleUpdate[i]
      /\ Len(ruleUpdate) + 1 \in DOMAIN ruleUpdate'
      /\ ruleUpdate'[Len(ruleUpdate) + 1].key = k
      /\ ruleUpdate'[Len(ruleUpdate) + 1].rules = rs
      /\ \A i \in DOMAIN ruleUpdate' : i = Len(ruleUpdate) + 1 \/ i \in DOMAIN ruleUpdate
      /\ \A i \in DOMAIN ruleUpdate : i \in Nat /\ i <= Len(ruleUpdate)
      /\ Len(ruleUpdate) \in Nat
  BY <1>2, <1>3, Appended
<1>6. /\ \A k2, slice : Agrees(k2, slice)' <=> Agrees(k2, slice)
      /\ \A k2 : k2 # k => (Quiet(k2)' => Quiet(k2))
      /\ Awaited(k)'
  <2>1. \A k2, slice : Agrees(k2, slice)' <=> Agrees(k2, slice)
    BY <1>2 DEF Agrees, GetRulesForClient, InForce
  <2>2. \A k2 : k2 # k => (Quiet(k2)' => Quiet(k2))
    BY <1>1, <1>4 DEF Quiet, UnderWay
  <2>3. Awaited(k)'
    BY <1>5 DEF Awaited
  <2> QED
    BY <2>1, <2>2, <2>3
<1>7. PushedAgrees'
  <2>1. SUFFICES ASSUME NEW b \in Admins, admin'[b].pc = "push", admin'[b].key \notin unsure
                 PROVE  Agrees(admin[b].key, admin[b].rules)'
    BY <1>2 DEF PushedAgrees
  <2>2. admin'[b] = admin[b]
    BY <1>4, <2>1
  <2>3. Agrees(admin[b].key, admin[b].rules)
    BY <2>1, <2>2 DEF SettledInv, PushedAgrees
  <2> QED
    BY <1>6, <2>2, <2>3
<1>8. LatestAgrees'
  <2>1. SUFFICES ASSUME NEW k2 \in Keys \ unsure, Quiet(k2)', NEW i \in DOMAIN ruleUpdate', Latest(k2, i)'
                 PROVE  Agrees(k2, ruleUpdate[i].rules)'
    BY <1>2 DEF LatestAgrees
  <2>2. CASE k2 = k
    <3>1. i = Len(ruleUpdate) + 1
      BY <1>5, <2>1, <2>2 DEF Latest
    <3>2. Agrees(k, rs)
      BY <1>1, <1>2, <2>1, <2>2 DEF SettledInv, PushedAgrees
    <3> QED
      BY <1>5, <1>6, <2>2, <3>1, <3>2
  <2>3. CASE k2 # k
    <3>1. i \in DOMAIN ruleUpdate
      BY <1>5, <2>1, <2>3 DEF Latest
    <3>2. Latest(k2, i)
      BY <1>5, <2>1, <3>1 DEF Latest
    <3>3. Agrees(k2, ruleUpdate[i].rules)
      BY <1>6, <2>1, <2>3, <3>1, <3>2 DEF SettledInv, LatestAgrees
    <3> QED
      BY <1>5, <1>6, <3>1, <3>3
  <2> QED
    BY <2>2, <2>3
<1>9. hubUp' => KnownAgrees'
  <2>1. SUFFICES ASSUME hubUp, NEW c \in Conns, connKey[c] \in Keys \ unsure, Quiet(connKey[c])',
                        ~Awaited(connKey[c])', Known(c)', ~missed[c]
                 PROVE  Agrees(connKey[c], rules[c])'
    BY <1>2 DEF KnownAgrees
  <2>2. PICK k2, slice : k2 = connKey[c] /\ slice = rules[c]
    OBVIOUS
  <2>3. k2 # k /\ Quiet(k2)
    BY <1>2, <1>6, <2>1, <2>2
  <2>4. Known(c)
    BY <1>2, <2>1 DEF Known, Queued, Connected
  <2>5. ~Awaited(k2)
    <3>1. \A i \in DOMAIN ruleUpdate : ruleUpdate[i].key # k2
      BY <1>2, <1>5, <2>1, <2>2 DEF Awaited
    <3> QED
      BY <3>1 DEF Awaited
  <2>6. Agrees(k2, slice)
    BY <2>1, <2>2, <2>3, <2>4, <2>5 DEF SettledInv, KnownAgrees
  <2> QED
    BY <1>2, <1>6, <2>2, <2>6
<1> QED
  BY <1>7, <1>8, <1>9 DEF SettledInv

\* A request could not read the key's rules back: nothing more is said of the key.
LEMMA UnreadKeepsSettled ==
    ASSUME NEW a \in Admins, TypeOK, SettledInv, ReadForPushFails(a)
    PROVE  SettledInv'
<1>1. PICK k : k = admin[a].key
  OBVIOUS
<1>2. /\ admin' = [admin EXCEPT ![a] = IdleAdmin] /\ unsure' = unsure \cup {k}
      /\ UNCHANGED <<assigned, enabled, direction, touched, ruleUpdate, hubUp, hpc, register,
                     clients, connKey, rules, missed>>
  BY <1>1 DEF ReadForPushFails, DatabaseOnly, hubVars, queueVars, clientVars, historyVars,
              connVars, dbVars
<1>3. /\ \A b \in Admins : b # a => admin'[b] = admin[b]
      /\ admin'[a].pc = "idle"
  BY <1>2 DEF IdleAdmin, TypeOK
<1>4. \A k2 : k2 # k => (Quiet(k2)' => Quiet(k2))
  BY <1>1, <1>3 DEF Quiet, UnderWay
<1>5. \A k2, slice : Agrees(k2, slice)' <=> Agrees(k2, slice)
  BY <1>2 DEF Agrees, GetRulesForClient, InForce
<1>6. PushedAgrees'
  <2>1. SUFFICES ASSUME NEW b \in Admins, admin'[b].pc = "push", admin'[b].key \notin unsure'
                 PROVE  Agrees(admin[b].key, admin[b].rules)'
    BY DEF PushedAgrees
  <2>2. admin'[b] = admin[b] /\ admin[b].key \notin unsure
    BY <1>2, <1>3, <2>1
  <2>3. Agrees(admin[b].key, admin[b].rules)
    BY <2>1, <2>2 DEF SettledInv, PushedAgrees
  <2> QED
    BY <1>5, <2>2, <2>3
<1>7. LatestAgrees'
  <2>1. SUFFICES ASSUME NEW k2 \in Keys \ unsure', Quiet(k2)', NEW i \in DOMAIN ruleUpdate, Latest(k2, i)'
                 PROVE  Agrees(k2, ruleUpdate[i].rules)'
    BY <1>2 DEF LatestAgrees
  <2>2. k2 \in Keys \ unsure /\ Quiet(k2) /\ Latest(k2, i)
    BY <1>2, <1>4, <2>1 DEF Latest
  <2>3. Agrees(k2, ruleUpdate[i].rules)
    BY <2>1, <2>2 DEF SettledInv, LatestAgrees
  <2> QED
    BY <1>2, <1>5, <2>3
<1>8. hubUp' => KnownAgrees'
  <2>1. SUFFICES ASSUME hubUp, NEW c \in Conns, connKey[c] \in Keys \ unsure', Quiet(connKey[c])',
                        ~Awaited(connKey[c])', Known(c)', ~missed[c]
                 PROVE  Agrees(connKey[c], rules[c])'
    BY <1>2 DEF KnownAgrees
  <2>2. PICK k2, slice : k2 = connKey[c] /\ slice = rules[c]
    OBVIOUS
  <2>3. k2 \in Keys \ unsure /\ Quiet(k2)
    BY <1>2, <1>4, <2>1, <2>2
  <2>4. Known(c) /\ ~Awaited(k2)
    BY <1>2, <2>1, <2>2 DEF Known, Queued, Connected, Awaited
  <2>5. Agrees(k2, slice)
    BY <2>1, <2>2, <2>3, <2>4 DEF SettledInv, KnownAgrees
  <2> QED
    BY <1>2, <1>5, <2>2, <2>5
<1> QED
  BY <1>6, <1>7, <1>8 DEF SettledInv

\* The requests that change a rule's row, which no push follows.
LEMMA AdminKeepsSettled ==
    ASSUME NEW a \in Admins, TypeOK, SettledInv, AdminStep(a)
    PROVE  SettledInv'
<1>0. UNCHANGED <<hubUp, hpc, register, clients, connKey, rules, missed>>
  BY AdminFrame
<1>b. admin \in [Admins -> AdminState] /\ enabled \subseteq RuleIds
      /\ direction \in [RuleIds -> Directions \cup {NoRule}]
  BY DEF TypeOK, TablesTypeOK
<1>1. CASE \E k \in Keys, r \in RuleIds : HandleAssignRule(a, k, r) \/ HandleUnassignRule(a, k, r)
  <2>1. PICK k \in Keys, r \in RuleIds : HandleAssignRule(a, k, r) \/ HandleUnassignRule(a, k, r)
    BY <1>1
  <2>2. /\ admin[a] = IdleAdmin /\ Contend(k)
        /\ admin' = [admin EXCEPT ![a] = [pc |-> "get rules", key |-> k]]
        /\ assigned' = assigned \cup {<<k, r>>} \/ assigned' = assigned \ {<<k, r>>}
        /\ UNCHANGED <<enabled, direction, touched, ruleUpdate>>
    <3> USE DEF NewRequest, DatabaseOnly, hubVars, queueVars
    <3>1. CASE HandleAssignRule(a, k, r)
      BY <3>1 DEF HandleAssignRule
    <3>2. CASE HandleUnassignRule(a, k, r)
      BY <3>2 DEF HandleUnassignRule
    <3> QED
      BY <2>1, <3>1, <3>2
  <2>3. \A k2, r2 : k2 # k => (<<k2, r2>> \in assigned' <=> <<k2, r2>> \in assigned)
    <3>1. ASSUME NEW k2, NEW r2, k2 # k PROVE <<k2, r2>> \in assigned' <=> <<k2, r2>> \in assigned
      <4>1. <<k2, r2>> # <<k, r>>
        BY <3>1
      <4> QED
        BY <2>2, <4>1
    <3> QED
      BY <3>1
  <2> QED
    BY <1>0, <2>2, <2>3, ChangeKeepsSettled
<1>2. CASE ReadForPush(a)
  <2>1. PICK k : k = admin[a].key
    OBVIOUS
  <2>2. /\ admin[a].pc = "get rules"
        /\ admin' = [admin EXCEPT ![a] = [pc |-> "push", key |-> k, rules |-> GetRulesForClient(k)]]
        /\ UNCHANGED <<assigned, enabled, direction, touched, unsure, ruleUpdate>>
    BY <1>2, <2>1 DEF ReadForPush, DatabaseOnly, hubVars, queueVars, dbVars
  <2>3. /\ \A b \in Admins : b # a => admin'[b] = admin[b]
        /\ admin'[a].pc = "push" /\ admin'[a].key = k /\ admin'[a].rules = GetRulesForClient(k)
    BY <1>b, <2>2
  <2>4. \A b \in Admins : \A k2 : UnderWay(b, k2)' <=> UnderWay(b, k2)
    BY <2>1, <2>2, <2>3 DEF UnderWay
  <2>5. \A k2, slice : Agrees(k2, slice)' <=> Agrees(k2, slice)
    BY <2>2 DEF Agrees, GetRulesForClient, InForce
  <2>6. Agrees(admin[a].key, admin[a].rules)'
    <3>1. Agrees(k, GetRulesForClient(k))
      BY TablesAgree
    <3>2. PICK slice : slice = GetRulesForClient(k)
      OBVIOUS
    <3> QED
      BY <2>3, <2>5, <3>1, <3>2
  <2>7. \A b \in Admins : admin'[b].pc = "push" =>
            admin'[b] = admin[b] \/ Agrees(admin[b].key, admin[b].rules)'
    BY <2>3, <2>6
  <2> QED
    BY <1>0, <2>2, <2>4, <2>5, <2>7, RowsKeepSettled
<1>3. CASE PushRules(a)
  BY <1>3, HandOverKeepsSettled
<1>4. ASSUME NEW r \in RuleIds, touched' = touched \cup {r},
             UNCHANGED <<assigned, admin, unsure, ruleUpdate>>,
             \A q \in RuleIds \ {r} : /\ direction'[q] = direction[q]
                                      /\ q \in enabled' <=> q \in enabled
      PROVE  SettledInv'
  <2>1. \A k, slice : Agrees(k, slice) => Agrees(k, slice)'
    <3>1. SUFFICES ASSUME NEW k, NEW slice, Agrees(k, slice), NEW q \in RuleIds \ touched'
                   PROVE  slice[q] = GetRulesForClient(k)'[q]
      BY <1>4 DEF Agrees
    <3>2. q \in RuleIds \ touched /\ q # r
      BY <1>4, <3>1
    <3>3. InForce(k, q)' <=> InForce(k, q)
      BY <1>4, <3>2 DEF InForce
    <3>4. GetRulesForClient(k)'[q] = GetRulesForClient(k)[q]
      BY <1>4, <3>2, <3>3 DEF GetRulesForClient
    <3> QED
      BY <3>1, <3>2, <3>4 DEF Agrees
  <2>2. \A b \in Admins : \A k : UnderWay(b, k)' <=> UnderWay(b, k)
    BY <1>4 DEF UnderWay
  <2> QED
    BY <1>0, <1>4, <2>1, <2>2, RowsKeepSettled
<1>5. CASE \E r \in RuleIds : HandleToggleRule(a, r) \/ HandleDeleteRule(a, r)
  <2>1. PICK r \in RuleIds : HandleToggleRule(a, r) \/ HandleDeleteRule(a, r)
    BY <1>5
  <2>2. /\ touched' = touched \cup {r} /\ UNCHANGED <<assigned, admin, unsure, ruleUpdate>>
        /\ \A q \in RuleIds \ {r} : direction'[q] = direction[q] /\ (q \in enabled' <=> q \in enabled)
    BY <1>b, <2>1 DEF HandleToggleRule, HandleDeleteRule, DatabaseOnly, hubVars, queueVars
  <2> QED
    BY <1>4, <2>2
<1>6. CASE \E r \in RuleIds, d \in Directions : HandleUpdateRule(a, r, d)
  <2>1. PICK r \in RuleIds, d \in Directions : HandleUpdateRule(a, r, d)
    BY <1>6
  <2>2. /\ touched' = touched \cup {r} /\ UNCHANGED <<assigned, admin, unsure, ruleUpdate>>
        /\ \A q \in RuleIds \ {r} : direction'[q] = direction[q] /\ (q \in enabled' <=> q \in enabled)
    BY <1>b, <2>1 DEF HandleUpdateRule, DatabaseOnly, hubVars, queueVars
  <2> QED
    BY <1>4, <2>2
<1>7. CASE \/ \E k \in Keys : HandleCreateKey(a, k) \/ HandleRevokeKey(a, k) \/ HandleSendClientUpdate(a, k)
           \/ HandleGetClients(a) \/ ReceiveReply(a)
  <2>1. /\ UNCHANGED <<assigned, enabled, direction, touched, unsure, ruleUpdate>>
        /\ \/ admin' = admin
           \/ admin[a].pc \in {"idle", "reply"} /\ \E st \in {IdleAdmin, [pc |-> "reply"]} :
                  admin' = [admin EXCEPT ![a] = st]
    <3> USE DEF DatabaseOnly, QueuesOnly, hubVars, queueVars, dbVars
    <3>1. CASE \E k \in Keys : HandleCreateKey(a, k) \/ HandleRevokeKey(a, k)
      BY <3>1 DEF HandleCreateKey, HandleRevokeKey
    <3>2. CASE (\E k \in Keys : HandleSendClientUpdate(a, k)) \/ HandleGetClients(a)
      <4>1. admin[a] = IdleAdmin /\ admin' = [admin EXCEPT ![a] = [pc |-> "reply"]]
        BY <3>2 DEF HandleSendClientUpdate, HandleGetClients, NewRequest
      <4>2. IdleAdmin.pc = "idle"
        BY DEF IdleAdmin
      <4>3. UNCHANGED <<assigned, enabled, direction, touched, unsure, ruleUpdate>>
        BY <3>2 DEF HandleSendClientUpdate, HandleGetClients, SendToClient, GetConnectedClients
      <4> QED
        BY <4>1, <4>2, <4>3
    <3>3. CASE ReceiveReply(a)
      BY <3>3 DEF ReceiveReply
    <3> QED
      BY <1>7, <3>1, <3>2, <3>3
  <2>2. \A b \in Admins : \/ admin'[b] = admin[b]
                          \/ /\ admin[b].pc \notin {"get rules", "push"}
                             /\ admin'[b].pc \notin {"get rules", "push"}
    <3>1. CASE admin' = admin
      BY <3>1
    <3>2. ASSUME admin[a].pc \in {"idle", "reply"}, NEW st \in {IdleAdmin, [pc |-> "reply"]},
                 admin' = [admin EXCEPT ![a] = st]
          PROVE  \A b \in Admins : \/ admin'[b] = admin[b]
                                   \/ /\ admin[b].pc \notin {"get rules", "push"}
                                      /\ admin'[b].pc \notin {"get rules", "push"}
      <4>1. st.pc \in {"idle", "reply"}
        BY <3>2 DEF IdleAdmin
      <4>2. admin'[a] = st /\ \A b \in Admins : b # a => admin'[b] = admin[b]
        BY <1>b, <3>2
      <4> QED
        BY <3>2, <4>1, <4>2
    <3> QED
      BY <2>1, <3>1, <3>2
  <2>3. \A b \in Admins : \A k : UnderWay(b, k)' <=> UnderWay(b, k)
    BY <2>2 DEF UnderWay
  <2>4. \A b \in Admins : admin'[b].pc = "push" => admin'[b] = admin[b]
    BY <2>2
  <2>5. \A k, slice : Agrees(k, slice)' <=> Agrees(k, slice)
    BY <2>1 DEF Agrees, GetRulesForClient, InForce
  <2> QED
    BY <1>0, <2>1, <2>3, <2>4, <2>5, RowsKeepSettled
<1>8. CASE ReadForPushFails(a)
  BY <1>8, UnreadKeepsSettled
<1> QED
  BY <1>1, <1>2, <1>3, <1>5, <1>6, <1>7, <1>8 DEF AdminStep

\* A key's last word is where SettledInv says it is, in every state.
LEMMA RulesTracked == Spec => []SettledInv
<1>1. Init => SettledInv
  BY InitSettledInv
<1>2. TypeOK /\ HubInv /\ SettledInv /\ [Next]_vars => SettledInv'
  <2> SUFFICES ASSUME TypeOK, HubInv, SettledInv, [Next]_vars PROVE SettledInv'
    OBVIOUS
  <2>1. CASE HubStep
    BY <2>1, HubKeepsSettled
  <2>2. CASE \E c \in Conns : ConnStep(c)
    BY <2>2, ConnKeepsSettled
  <2>3. CASE \E a \in Admins : AdminStep(a)
    BY <2>3, AdminKeepsSettled
  <2>4. CASE (\E r \in RuleIds : CapturePacket(r)) \/ Shutdown \/ UNCHANGED vars
    <3>1. UNCHANGED <<admin, unsure, touched, assigned, enabled, direction, ruleUpdate,
                      hubUp, hpc, register, clients, connKey, rules, missed>>
      BY <2>4 DEF CapturePacket, Publish, Broadcast, Shutdown, QueuesOnly, vars, hubVars,
                  queueVars, clientVars, historyVars, connVars, dbVars, adminVars
    <3>2. \A b \in Admins : \A k : UnderWay(b, k)' <=> UnderWay(b, k)
      BY <3>1 DEF UnderWay
    <3>3. \A k, slice : Agrees(k, slice)' <=> Agrees(k, slice)
      BY <3>1 DEF Agrees, GetRulesForClient, InForce
    <3> QED
      BY <3>1, <3>2, <3>3, RowsKeepSettled
  <2> QED
    BY <2>1, <2>2, <2>3, <2>4 DEF Next, Idle
<1> QED
  BY <1>1, <1>2, TypeCorrect, HubCorrect, PTL DEF Spec

(* Once the pushes for a key are handled, the hub relays to the key's      *)
(* connection by the rules the database has in force for it, but for a     *)
(* push that was handled before the registration and for changes that met  *)
(* (webui.go handleAssignRule, handleUnassignRule; hub.go PushRuleUpdate).  *)
THEOREM RulesSettle == Spec => []RulesSettled
<1>1. TypeOK /\ HubInv /\ SettledInv => RulesSettled
  <2> SUFFICES ASSUME TypeOK, HubInv, SettledInv, NEW k \in Keys \ unsure,
                      hubUp, clients[k] # NoConn, Settled(k), ~missed[clients[k]],
                      NEW r \in RuleIds \ touched
               PROVE  rules[clients[k]][r] = GetRulesForClient(k)[r]
    BY DEF RulesSettled
  <2>1. clients[k] \in Conns /\ clients[k] \in Connected /\ connKey[clients[k]] = k
    <3>1. clients \in [Keys -> Conns \cup {NoConn}]
      BY DEF TypeOK, HubTypeOK
    <3>2. connKey[clients[k]] = k
      BY DEF HubInv, MapHoldsOpen
    <3> QED
      BY <3>1, <3>2 DEF Connected
  <2>2. Quiet(k) /\ ~Awaited(k)
    BY DEF Settled, Quiet, Awaited
  <2>3. Agrees(k, rules[clients[k]])
    BY <2>1, <2>2 DEF SettledInv, KnownAgrees, Known
  <2> QED
    BY <2>3 DEF Agrees
<1> QED
  BY <1>1, TypeCorrect, HubCorrect, RulesTracked, PTL

(***************************************************************************)
(* What is left of ForwardsOnlyAssigned.                                   *)
(***************************************************************************)
\* A read pump that reads or publishes is that of a handler that waits for it.
PumpsServed ==
    \A c \in Conns : /\ hpc[c] \in BeforePumps => rpc[c] = "off"
                     /\ rpc[c] \in {"read", "publish"} => hpc[c] = "wait"

\* Handlers start the read pump and outlive it.
LEMMA PumpsAreServed == Spec => []PumpsServed
<1>1. Init => PumpsServed
  BY DEF Init, PumpsServed, BeforePumps
<1>2. TypeOK /\ PumpsServed /\ [Next]_vars => PumpsServed'
  <2>a. SUFFICES ASSUME TypeOK, PumpsServed, [Next]_vars PROVE PumpsServed'
    OBVIOUS
  <2>b. hpc \in [Conns -> {"none", "get rules", "auth ok", "register", "wait", "done"}]
        /\ rpc \in [Conns -> {"off", "read", "publish", "end"}]
    BY <2>a DEF TypeOK, ConnTypeOK
  <2>1. ASSUME UNCHANGED <<hpc, rpc>> PROVE PumpsServed'
    BY <2>1, <2>a DEF PumpsServed
  <2>2. ASSUME NEW c \in Conns, ConnStep(c) PROVE PumpsServed'
    <3>1. CASE UNCHANGED <<hpc, rpc>>
      BY <2>1, <3>1
    <3>2. ASSUME NEW h \in {"get rules", "auth ok", "register", "done"},
                 hpc[c] \in BeforePumps \/ rpc[c] = "end",
                 hpc[c] \in BeforePumps \/ h = "done",
                 hpc' = [hpc EXCEPT ![c] = h], rpc' = rpc
          PROVE  PumpsServed'
      BY <2>a, <2>b, <3>2 DEF PumpsServed, BeforePumps
    <3>3. ASSUME hpc' = [hpc EXCEPT ![c] = "wait"], rpc' = [rpc EXCEPT ![c] = "read"]
          PROVE  PumpsServed'
      BY <2>a, <2>b, <3>3 DEF PumpsServed, BeforePumps
    <3>4. ASSUME NEW p \in {"read", "publish", "end"}, rpc[c] \in {"read", "publish"},
                 rpc' = [rpc EXCEPT ![c] = p], hpc' = hpc
          PROVE  PumpsServed'
      BY <2>a, <2>b, <3>4 DEF PumpsServed, BeforePumps
    <3>5. CASE (\E k \in Keys : Authenticated(c, k)) \/ AuthFail(c)
      BY <3>2, <3>5 DEF Authenticated, AuthFail, GoTo, BeforePumps
    <3>6. CASE ReadRules(c) \/ SendAuthOK(c) \/ AuthOKFails(c)
      BY <3>2, <3>6 DEF ReadRules, SendAuthOK, AuthOKFails, GoTo, BeforePumps
    <3>7. CASE StartPumps(c)
      BY <3>3, <3>7 DEF StartPumps, GoTo
    <3>8. CASE Finish(c)
      BY <3>2, <3>8 DEF Finish, PumpsEnded, GoTo
    <3>9. CASE (\E r \in RuleIds : ReceiveRelayPacket(c, r)) \/ PublishRelayPacket(c) \/ ReadFails(c)
      BY <3>4, <3>9 DEF ReceiveRelayPacket, PublishRelayPacket, ReadFails
    <3>10. CASE WriteMessage(c) \/ WriteFails(c) \/ WritePumpEnds(c) \/ PeerGone(c)
      BY <3>1, <3>10 DEF WriteMessage, WriteFails, WritePumpEnds, PeerGone
    <3> QED
      BY <2>2, <3>5, <3>6, <3>7, <3>8, <3>9, <3>10 DEF ConnStep, AuthKey, AuthCredentials
  <2>3. ASSUME NEW a \in Admins, AdminStep(a) PROVE UNCHANGED <<hpc, rpc>>
    BY <2>3, AdminFrame
  <2>4. CASE (\E r \in RuleIds : CapturePacket(r)) \/ Shutdown \/ UNCHANGED vars
    BY <2>1, <2>4 DEF CapturePacket, Shutdown, vars, connVars
  <2>5. CASE HubStep
    BY <2>1, <2>5, HubFrame
  <2> QED
    BY <2>a, <2>1, <2>2, <2>3, <2>4, <2>5 DEF Next, Idle
<1> QED
  BY TypeCorrect, <1>1, <1>2, PTL DEF Spec

(* With no request under way for its key, a connection that was not        *)
(* replaced forwards only under rules its key is assigned, whatever was    *)
(* toggled, updated or deleted, if it missed no push and the key's latest  *)
(* change met no other: only a replaced connection, whose read pump goes   *)
(* on, keeps rules that were taken away.                                   *)
OpenForwardsAssigned ==
    \A c \in Conns, r \in RuleIds :
        /\ hubUp /\ rpc[c] = "read" /\ ~closed[c] /\ MayForward(c, r)
        /\ ~missed[c] /\ connKey[c] \notin unsure /\ Settled(connKey[c])
        => <<connKey[c], r>> \in assigned

(* README.md:268 holds of the connections the hub still relays to.         *)
THEOREM OpenForwardsByTable == Spec => []OpenForwardsAssigned
<1>1. TypeOK /\ HubInv /\ SettledInv /\ PumpsServed => OpenForwardsAssigned
  <2> SUFFICES ASSUME TypeOK, HubInv, SettledInv, PumpsServed,
                      NEW c \in Conns, NEW r \in RuleIds,
                      hubUp, rpc[c] = "read", ~closed[c], MayForward(c, r),
                      ~missed[c], connKey[c] \notin unsure, Settled(connKey[c])
               PROVE  <<connKey[c], r>> \in assigned
    BY DEF OpenForwardsAssigned
  <2>1. hpc[c] = "wait"
    BY DEF PumpsServed
  <2>2. connKey[c] \in Keys
    BY <2>1 DEF TypeOK
  <2>3. Known(c)
    <3>1. clients[connKey[c]] = c \/ Queued(c, register)
      BY <2>1 DEF HubInv, NoOrphan
    <3> QED
      BY <2>2, <3>1 DEF Known, Connected
  <2>4. Quiet(connKey[c]) /\ ~Awaited(connKey[c])
    BY DEF Settled, Quiet, Awaited
  <2>5. Agrees(connKey[c], rules[c])
    BY <2>2, <2>3, <2>4 DEF SettledInv, KnownAgrees
  <2> QED
    BY <2>5 DEF Agrees, MayForward
<1> QED
  BY <1>1, TypeCorrect, HubCorrect, RulesTracked, PumpsAreServed, PTL

(***************************************************************************)
(* The lookup of a packet's rule, which RelayServer has in one step        *)
(* (MayForward), word by word.                                             *)
(***************************************************************************)
CONSTANTS Lists, MaxPushes
VARIABLES list, pointer, length, incoming, pushes, scan, seen

Scan == INSTANCE RuleScan

\* The rule a scan of one list comes to first, and what it decides by it.
FirstWith(l, id, i) ==
    i \in DOMAIN l /\ l[i].id = id /\ \A j \in DOMAIN l : j < i => l[j].id # id

FirstVerdict(l, id) ==
    IF \E i \in DOMAIN l : FirstWith(l, id, i) /\ l[i].forwards THEN "relayed" ELSE "refused"

Scanning == {"check", "compare", "recheck", "copy"}
Found    == {"recheck", "copy"}

\* The lists the database may return are sequences of rules.
ListsOfRules == Lists \subseteq Seq([id : Scan!Ids, forwards : BOOLEAN])

ScanTypes ==
    /\ list \in Lists /\ incoming \subseteq Lists
    /\ \/ scan = Scan!Idle
       \/ scan \in [pc : Scanning, id : Scan!Ids, i : Nat \ {0}, n : Nat]
       \/ scan \in [pc : Scan!Verdicts, id : Scan!Ids]

\* The words of the slice are of lists the scan has seen; two pushes' words are not mixed.
WordsSeen ==
    /\ incoming \subseteq {list} => pointer = list /\ length = Len(list)
    /\ \E l \in {list} \cup incoming : length = Len(l)
    /\ scan # Scan!Idle => {list} \cup incoming \subseteq seen
    /\ scan.pc \in Scanning => \E l \in seen : scan.n = Len(l)

\* While no push overlaps the scan: what is before the index was looked at and is not it.
LooksAtOne ==
    scan # Scan!Idle /\ seen = {list} =>
        /\ scan.pc \in Scanning => \A j \in DOMAIN list : j < scan.i => list[j].id # scan.id
        /\ scan.pc \in Found => FirstWith(list, scan.id, scan.i)
        /\ scan.pc = "compare" => scan.i \in DOMAIN list
        /\ scan.pc \in Scan!Verdicts => scan.pc = FirstVerdict(list, scan.id)

(* A lookup that no push of rules overlaps decides as the list says, so    *)
(* that taking it for one step is right, and does not panic                *)
(* (handleClientRelayPacket, relay.go:295).                                *)
LookupIsOneStep ==
    scan.pc \in Scan!Verdicts /\ seen = {list} => scan.pc = FirstVerdict(list, scan.id)

(* The bounds check of client.Rules[i] (relay.go:296) fails only when      *)
(* lists of different lengths were assigned during the lookup.             *)
PanicsOnShorter ==
    scan.pc = "panicked" => \E l, m \in seen : Len(l) < Len(m)

ScanInv == ScanTypes /\ WordsSeen /\ LooksAtOne /\ PanicsOnShorter

\* Nothing a push stores but its own words: the scan goes on as it was.
LEMMA FirstWordKept ==
    ASSUME ListsOfRules, ScanInv, NEW l \in Lists, Scan!StoreFirst(l)
    PROVE  ScanInv'
<1> USE DEF Scan!StoreFirst, Scan!Idle
<1>1. ScanTypes'
  BY DEF ScanInv, ScanTypes
<1>2. WordsSeen'
  <2>1. pointer = list /\ length = Len(list)
    BY DEF ScanInv, WordsSeen
  <2>2. (incoming \subseteq {list} => pointer = list /\ length = Len(list))'
    BY <2>1
  <2>3. (\E m \in {list} \cup incoming : length = Len(m))'
    BY <2>1
  <2>4. (scan # Scan!Idle => {list} \cup incoming \subseteq seen)'
    BY DEF ScanInv, WordsSeen
  <2>5. (scan.pc \in Scanning => \E m \in seen : scan.n = Len(m))'
    BY DEF ScanInv, WordsSeen
  <2> QED
    BY <2>2, <2>3, <2>4, <2>5 DEF WordsSeen
<1>3. LooksAtOne'
  <2>1. scan # Scan!Idle /\ seen' = {list} => seen = {list}
    BY DEF ScanInv, WordsSeen
  <2> QED
    BY <2>1 DEF ScanInv, LooksAtOne
<1>4. PanicsOnShorter'
  <2>1. seen \subseteq seen'
    OBVIOUS
  <2> QED
    BY <2>1 DEF ScanInv, PanicsOnShorter
<1> QED
  BY <1>1, <1>2, <1>3, <1>4 DEF ScanInv

\* The other word: what was seen stays what is assigned.
LEMMA SecondWordKept ==
    ASSUME ListsOfRules, ScanInv, Scan!StoreSecond
    PROVE  ScanInv'
<1> USE DEF Scan!StoreSecond, Scan!Idle
<1>1. PICK l \in incoming : list' = l /\ pointer' = l /\ length' = Len(l)
  OBVIOUS
<1>2. ScanTypes'
  BY <1>1 DEF ScanInv, ScanTypes
<1>3. WordsSeen'
  BY <1>1 DEF ScanInv, WordsSeen
<1>4. LooksAtOne'
  <2>1. scan # Scan!Idle /\ seen' = {list'} => seen = {list} /\ list' = list
    BY <1>1 DEF ScanInv, WordsSeen
  <2> QED
    BY <2>1 DEF ScanInv, LooksAtOne
<1>5. PanicsOnShorter'
  BY DEF ScanInv, PanicsOnShorter
<1> QED
  BY <1>2, <1>3, <1>4, <1>5 DEF ScanInv

\* A scan starts with the lists that are assigned or being assigned.
LEMMA ScanStarted ==
    ASSUME ListsOfRules, ScanInv, NEW id \in Scan!Ids, Scan!StartScan(id)
    PROVE  ScanInv'
<1> USE DEF Scan!StartScan, Scan!hubVars, Scan!Idle
<1>1. length \in Nat /\ list \in Lists /\ DOMAIN list = 1 .. Len(list)
  BY DEF ScanInv, ScanTypes, WordsSeen, ListsOfRules
<1>2. scan'.pc = "check" /\ scan'.i = 1 /\ scan'.n = length
  OBVIOUS
<1>3. ScanTypes'
  BY <1>1 DEF ScanInv, ScanTypes, Scanning
<1>4. WordsSeen'
  BY <1>2 DEF ScanInv, WordsSeen
<1>5. LooksAtOne'
  BY <1>1, <1>2 DEF LooksAtOne, Found, Scan!Verdicts
<1>6. PanicsOnShorter'
  BY <1>2 DEF PanicsOnShorter
<1> QED
  BY <1>3, <1>4, <1>5, <1>6 DEF ScanInv

\* While no push overlaps the scan, range and the indices read the length of the one list.
LEMMA OneLength ==
    ASSUME ListsOfRules, ScanInv, scan.pc \in Scanning
    PROVE  /\ scan \in [pc : Scanning, id : Scan!Ids, i : Nat \ {0}, n : Nat]
           /\ length \in Nat /\ scan.i \in Nat \ {0} /\ scan.n \in Nat
           /\ seen = {list} => /\ pointer = list
                               /\ length = Len(list) /\ scan.n = Len(list)
                               /\ DOMAIN list = 1 .. Len(list)
<1>1. scan # Scan!Idle /\ ~(scan \in [pc : Scan!Verdicts, id : Scan!Ids])
  BY DEF Scanning, Scan!Verdicts, Scan!Idle
<1>2. scan \in [pc : Scanning, id : Scan!Ids, i : Nat \ {0}, n : Nat]
  BY <1>1 DEF ScanInv, ScanTypes
<1>3. length \in Nat
  BY DEF ScanInv, ScanTypes, WordsSeen, ListsOfRules
<1>4. ASSUME seen = {list}
      PROVE  pointer = list /\ length = Len(list) /\ scan.n = Len(list)
  BY <1>1, <1>4 DEF ScanInv, WordsSeen
<1>5. DOMAIN list = 1 .. Len(list)
  <2>1. list \in Seq([id : Scan!Ids, forwards : BOOLEAN])
    BY DEF ScanInv, ScanTypes, ListsOfRules
  <2> QED
    BY <2>1
<1> QED
  BY <1>2, <1>3, <1>4, <1>5, Zenon

\* A step of the scan reads the slice and writes nothing of it.
LEMMA ScanStepKept ==
    ASSUME ListsOfRules, ScanInv, scan.pc \in Scanning, UNCHANGED <<Scan!hubVars, seen>>,
           \/ scan' \in [pc : Scanning, id : Scan!Ids, i : Nat \ {0}, n : Nat] /\ scan'.n = scan.n
           \/ scan' \in [pc : Scan!Verdicts, id : Scan!Ids],
           LooksAtOne', PanicsOnShorter'
    PROVE  ScanInv'
<1> USE DEF Scan!hubVars
<1>1. scan # Scan!Idle
  BY DEF Scanning, Scan!Idle
<1>2. ScanTypes'
  BY DEF ScanInv, ScanTypes
<1>3. scan'.pc \in Scanning => scan'.n = scan.n
  BY DEF Scanning, Scan!Verdicts
<1>4. WordsSeen'
  BY <1>1, <1>3 DEF ScanInv, WordsSeen
<1> QED
  BY <1>2, <1>4 DEF ScanInv

\* The end of the list, a panic, or an index that is in the list.
LEMMA IndexChecked ==
    ASSUME ListsOfRules, ScanInv, NEW pc \in Scanning, NEW next \in Scanning,
           <<pc, next>> \in {<<"check", "compare">>, <<"recheck", "copy">>},
           Scan!CheckIndex(pc, next)
    PROVE  ScanInv'
<1> USE DEF Scan!CheckIndex, Scan!hubVars
<1>1. scan.pc \in Scanning
  OBVIOUS
<1>2. /\ scan \in [pc : Scanning, id : Scan!Ids, i : Nat \ {0}, n : Nat]
      /\ length \in Nat /\ scan.i \in Nat \ {0} /\ scan.n \in Nat
  BY <1>1, OneLength
<1>3. scan # Scan!Idle
  BY <1>1 DEF Scanning, Scan!Idle
<1>4. seen = {list} => /\ pointer = list /\ length = Len(list) /\ scan.n = Len(list)
                       /\ DOMAIN list = 1 .. Len(list)
  BY <1>1, OneLength
<1>5. seen = {list} =>
        /\ \A j \in DOMAIN list : j < scan.i => list[j].id # scan.id
        /\ pc = "recheck" => FirstWith(list, scan.id, scan.i)
  BY <1>1, <1>3 DEF ScanInv, LooksAtOne, Found
<1>6. CASE scan.i > scan.n /\ Scan!Decides("refused")
  <2>1. scan' = [pc |-> "refused", id |-> scan.id]
    BY <1>6 DEF Scan!Decides
  <2>2. seen = {list} => \A j \in DOMAIN list : list[j].id # scan.id
    BY <1>2, <1>4, <1>5, <1>6
  <2>3. seen = {list} => FirstVerdict(list, scan.id) = "refused"
    BY <2>2 DEF FirstVerdict, FirstWith
  <2>4. LooksAtOne' /\ PanicsOnShorter'
    BY <2>1, <2>3 DEF LooksAtOne, PanicsOnShorter, Scanning, Found
  <2>5. scan' \in [pc : Scan!Verdicts, id : Scan!Ids]
    BY <1>2, <2>1 DEF Scan!Verdicts
  <2> QED
    BY <1>1, <2>4, <2>5, ScanStepKept
<1>7. CASE scan.i \in (length + 1) .. scan.n /\ Scan!Decides("panicked")
  <2>1. scan' = [pc |-> "panicked", id |-> scan.id]
    BY <1>7 DEF Scan!Decides
  <2>2. length < scan.n
    BY <1>2, <1>7
  <2>3. seen # {list}
    BY <1>2, <1>4, <2>2
  <2>4. \E l, m \in seen : Len(l) < Len(m)
    <3>1. PICK l \in {list} \cup incoming : length = Len(l)
      BY DEF ScanInv, WordsSeen
    <3>2. l \in seen
      BY <1>3, <3>1 DEF ScanInv, WordsSeen
    <3>3. PICK m \in seen : scan.n = Len(m)
      BY <1>1 DEF ScanInv, WordsSeen
    <3> QED
      BY <2>2, <3>1, <3>2, <3>3
  <2>5. LooksAtOne' /\ PanicsOnShorter'
    BY <2>3, <2>4 DEF LooksAtOne, PanicsOnShorter
  <2>6. scan' \in [pc : Scan!Verdicts, id : Scan!Ids]
    BY <1>2, <2>1 DEF Scan!Verdicts
  <2> QED
    BY <1>1, <2>5, <2>6, ScanStepKept
<1>8. CASE scan.i <= scan.n /\ scan.i <= length /\ Scan!Continues(next, scan.i)
  <2>1. /\ scan' \in [pc : Scanning, id : Scan!Ids, i : Nat \ {0}, n : Nat]
        /\ scan'.pc = next /\ scan'.id = scan.id /\ scan'.i = scan.i /\ scan'.n = scan.n
    BY <1>2, <1>8 DEF Scan!Continues
  <2>2. seen = {list} => scan.i \in DOMAIN list
    BY <1>2, <1>4, <1>8
  <2>3. LooksAtOne' /\ PanicsOnShorter'
    BY <1>5, <2>1, <2>2 DEF LooksAtOne, PanicsOnShorter, Scanning, Found, Scan!Verdicts
  <2> QED
    BY <1>1, <2>1, <2>3, ScanStepKept
<1> QED
  BY <1>6, <1>7, <1>8

\* One more rule was looked at.
LEMMA RuleCompared ==
    ASSUME ListsOfRules, ScanInv, Scan!Compare
    PROVE  ScanInv'
<1> USE DEF Scan!Compare, Scan!hubVars
<1>1. scan.pc \in Scanning
  BY DEF Scanning
<1>2. /\ scan \in [pc : Scanning, id : Scan!Ids, i : Nat \ {0}, n : Nat]
      /\ scan.i \in Nat \ {0}
  BY <1>1, OneLength
<1>3. scan # Scan!Idle
  BY <1>1 DEF Scanning, Scan!Idle
<1>4. seen = {list} => pointer = list /\ DOMAIN list = 1 .. Len(list)
  BY <1>1, OneLength
<1>5. seen = {list} => /\ \A j \in DOMAIN list : j < scan.i => list[j].id # scan.id
                       /\ scan.i \in DOMAIN list
  BY <1>1, <1>3 DEF ScanInv, LooksAtOne
<1>6. PICK r \in Scan!Elements(scan.i) :
        IF r.id = scan.id THEN Scan!Continues("recheck", scan.i)
                          ELSE Scan!Continues("check", scan.i + 1)
  OBVIOUS
<1>7. seen = {list} => r = list[scan.i]
  BY <1>2, <1>4, <1>5, <1>6 DEF Scan!Elements
<1>8. CASE r.id = scan.id
  <2>1. /\ scan' \in [pc : Scanning, id : Scan!Ids, i : Nat \ {0}, n : Nat]
        /\ scan'.pc = "recheck" /\ scan'.id = scan.id /\ scan'.i = scan.i /\ scan'.n = scan.n
    BY <1>2, <1>6, <1>8 DEF Scan!Continues, Scanning
  <2>2. seen = {list} => FirstWith(list, scan.id, scan.i)
    BY <1>5, <1>7, <1>8 DEF FirstWith
  <2>3. LooksAtOne' /\ PanicsOnShorter'
    BY <1>5, <2>1, <2>2 DEF LooksAtOne, PanicsOnShorter, Scan!Verdicts
  <2> QED
    BY <1>1, <2>1, <2>3, ScanStepKept
<1>9. CASE r.id # scan.id
  <2>1. /\ scan' \in [pc : Scanning, id : Scan!Ids, i : Nat \ {0}, n : Nat]
        /\ scan'.pc = "check" /\ scan'.id = scan.id /\ scan'.i = scan.i + 1 /\ scan'.n = scan.n
    <3>1. scan' = [scan EXCEPT !.pc = "check", !.i = scan.i + 1]
      BY <1>6, <1>9 DEF Scan!Continues
    <3>2. scan.i + 1 \in Nat \ {0} /\ "check" \in Scanning
      BY <1>2 DEF Scanning
    <3> HIDE DEF Scanning
    <3> QED
      BY <1>2, <3>1, <3>2
  <2>2. seen = {list} => \A j \in DOMAIN list : j < scan.i + 1 => list[j].id # scan.id
    BY <1>2, <1>4, <1>5, <1>7, <1>9
  <2>3. LooksAtOne' /\ PanicsOnShorter'
    BY <2>1, <2>2 DEF LooksAtOne, PanicsOnShorter, Found, Scan!Verdicts
  <2> QED
    BY <1>1, <2>1, <2>3, ScanStepKept
<1> QED
  BY <1>8, <1>9

\* The rule that was found first decides.
LEMMA RuleCopied ==
    ASSUME ListsOfRules, ScanInv, Scan!Copy
    PROVE  ScanInv'
<1> USE DEF Scan!Copy, Scan!hubVars
<1>1. scan.pc \in Scanning /\ scan.pc \in Found
  BY DEF Scanning, Found
<1>2. /\ scan \in [pc : Scanning, id : Scan!Ids, i : Nat \ {0}, n : Nat]
      /\ scan.i \in Nat \ {0}
  BY <1>1, OneLength
<1>3. scan # Scan!Idle
  BY <1>1 DEF Scanning, Scan!Idle
<1>4. seen = {list} => pointer = list /\ DOMAIN list = 1 .. Len(list)
  BY <1>1, OneLength
<1>5. seen = {list} => FirstWith(list, scan.id, scan.i)
  BY <1>1, <1>3 DEF ScanInv, LooksAtOne
<1>6. PICK r \in Scan!Elements(scan.i) :
        Scan!Decides(IF r.forwards THEN "relayed" ELSE "refused")
  OBVIOUS
<1>7. /\ scan'.pc = (IF r.forwards THEN "relayed" ELSE "refused") /\ scan'.id = scan.id
      /\ scan' \in [pc : Scan!Verdicts, id : Scan!Ids]
  BY <1>2, <1>6 DEF Scan!Decides, Scan!Verdicts
<1>8. seen = {list} => r = list[scan.i]
  BY <1>2, <1>4, <1>5, <1>6 DEF Scan!Elements, FirstWith
<1>9. seen = {list} =>
        \A i \in DOMAIN list : FirstWith(list, scan.id, i) => i = scan.i
  BY <1>2, <1>4, <1>5 DEF FirstWith
<1>10. seen = {list} => scan'.pc = FirstVerdict(list, scan.id)
  <2> SUFFICES ASSUME seen = {list} PROVE scan'.pc = FirstVerdict(list, scan.id)
    OBVIOUS
  <2>1. scan.i \in DOMAIN list
    BY <1>5 DEF FirstWith
  <2>2. (\E i \in DOMAIN list : FirstWith(list, scan.id, i) /\ list[i].forwards)
        <=> list[scan.i].forwards
    BY <1>5, <1>9, <2>1
  <2> QED
    BY <1>7, <1>8, <2>2 DEF FirstVerdict
<1>11. LooksAtOne' /\ PanicsOnShorter'
  BY <1>7, <1>10 DEF LooksAtOne, PanicsOnShorter, Scanning, Found, Scan!Verdicts
<1> QED
  BY <1>1, <1>7, <1>11, ScanStepKept

\* The pump waits for a packet.
LEMMA NextPacketKept ==
    ASSUME ListsOfRules, ScanInv, Scan!NextPacket
    PROVE  ScanInv'
<1> USE DEF Scan!NextPacket, Scan!hubVars, Scan!Idle
<1>1. ScanTypes'
  BY DEF ScanInv, ScanTypes
<1>2. WordsSeen'
  BY DEF ScanInv, WordsSeen, Scanning
<1>3. LooksAtOne' /\ PanicsOnShorter'
  BY DEF LooksAtOne, PanicsOnShorter
<1> QED
  BY <1>1, <1>2, <1>3 DEF ScanInv

\* The invariant of the lookup.
LEMMA ScanCorrect ==
    ASSUME ListsOfRules
    PROVE  Scan!Spec => []ScanInv
<1>1. Scan!Init => ScanInv
  BY DEF Scan!Init, Scan!Idle, ScanInv, ScanTypes, WordsSeen, LooksAtOne, PanicsOnShorter,
         Scanning
<1>2. ScanInv /\ [Scan!Next]_Scan!vars => ScanInv'
  <2> SUFFICES ASSUME ScanInv, [Scan!Next]_Scan!vars PROVE ScanInv'
    OBVIOUS
  <2>1. ASSUME NEW l \in Lists, Scan!StoreFirst(l) PROVE ScanInv'
    BY <2>1, FirstWordKept
  <2>2. ASSUME Scan!StoreSecond PROVE ScanInv'
    BY <2>2, SecondWordKept
  <2>3. ASSUME NEW id \in Scan!Ids, Scan!StartScan(id) PROVE ScanInv'
    BY <2>3, ScanStarted
  <2>4. ASSUME Scan!CheckIndex("check", "compare") PROVE ScanInv'
    BY <2>4, IndexChecked DEF Scanning
  <2>5. ASSUME Scan!CheckIndex("recheck", "copy") PROVE ScanInv'
    BY <2>5, IndexChecked DEF Scanning
  <2>6. ASSUME Scan!Compare PROVE ScanInv'
    BY <2>6, RuleCompared
  <2>7. ASSUME Scan!Copy PROVE ScanInv'
    BY <2>7, RuleCopied
  <2>8. ASSUME Scan!NextPacket PROVE ScanInv'
    BY <2>8, NextPacketKept
  <2>9. ASSUME UNCHANGED Scan!vars PROVE ScanInv'
    BY <2>9 DEF Scan!vars, Scan!hubVars, ScanInv, ScanTypes, WordsSeen, LooksAtOne,
                PanicsOnShorter
  <2> QED
    BY <2>1, <2>2, <2>3, <2>4, <2>5, <2>6, <2>7, <2>8, <2>9 DEF Scan!Next
<1> QED
  BY <1>1, <1>2, PTL DEF Scan!Spec

(* The lookup of relay.go:295-311 is atomic for every packet during which  *)
(* no rules are pushed.                                                    *)
THEOREM LookupsAreAtomic == ASSUME ListsOfRules PROVE Scan!Spec => []LookupIsOneStep
<1>1. ScanInv => LookupIsOneStep
  <2>1. scan.pc \in Scan!Verdicts => scan # Scan!Idle
    BY DEF Scan!Verdicts, Scan!Idle
  <2> QED
    BY <2>1 DEF ScanInv, LooksAtOne, LookupIsOneStep
<1> QED
  BY <1>1, ScanCorrect, PTL

(* What the missing lock of relay.go:295 can do beyond a wrong decision,   *)
(* a panic, needs lists of different lengths during the lookup.            *)
THEOREM OnlyAShorterListPanics == ASSUME ListsOfRules PROVE Scan!Spec => []PanicsOnShorter
<1>1. ScanInv => PanicsOnShorter
  BY DEF ScanInv
<1> QED
  BY <1>1, ScanCorrect, PTL
=============================================================================
