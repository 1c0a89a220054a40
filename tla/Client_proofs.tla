---------------------------- MODULE Client_proofs -----------------------------
(***************************************************************************)
(* Proofs about Client: type correctness, and what becomes of the password *)
(* and of the key that is made for it.                                     *)
(***************************************************************************)
EXTENDS Client, TLAPS

Replies == [type : {"none", "AuthOK", "AuthFail"}, key : Keys \cup {NoKey}]

\* TypeOK with the reply as a record.
Types == TypeOK /\ reply \in Replies

\* The backoff stays within its bounds.
LEMMA NextBackoffType == \A b \in 1 .. MaxBackoff : NextBackoff(b) \in 1 .. MaxBackoff
  BY ClientAssumption DEF NextBackoff, Minimum

\* A client that gives up leaves a reply, late or none.
LEMMA AbandonType == Types /\ Abandon => reply' \in Replies /\ late' \in 0 .. MaxLate
<1> SUFFICES ASSUME Types, Abandon
             PROVE  reply' \in Replies /\ late' \in 0 .. MaxLate
  OBVIOUS
<1>1. reply' \in Replies
  BY DEF Abandon, NoReply, Replies
<1>2. late' \in late .. Minimum(late + 1, MaxLate) \/ late' = late
  BY DEF Abandon
<1>3. late \in 0 .. MaxLate /\ MaxLate \in Nat
  BY ClientAssumption DEF Types, TypeOK
<1> QED
  BY <1>1, <1>2, <1>3 DEF Minimum

\* Types at first.
LEMMA InitTypes == Init => Types
<1> SUFFICES ASSUME Init PROVE Types
  OBVIOUS
<1>1. 1 \in 1 .. MaxBackoff /\ 0 \in 0 .. MaxUpdates /\ 0 \in 0 .. MaxLate
  BY ClientAssumption
<1>2. reply \in Replies
  BY DEF Init, NoReply, Replies
<1>3. made \subseteq Keys
  BY DEF Init
<1> QED
  BY <1>1, <1>2, <1>3 DEF Init, Types, TypeOK, NoReply

\* Leaving a connection, and leaving the process, keep the types.
LEMMA LeaveTypes ==
    ASSUME Types
    PROVE  /\ Disconnect => Types'
           /\ ProcessEnds => Types'
<1>1. ASSUME Disconnect PROVE Types'
  <2>1. reply' \in Replies /\ late' \in 0 .. MaxLate
    BY <1>1, AbandonType DEF Disconnect
  <2>2. misses' \in Nat
    BY <1>1 DEF Types, TypeOK, Disconnect, Missed
  <2> QED
    BY <1>1, <2>1, <2>2 DEF Types, TypeOK, Disconnect, Abandon, memVars, Replies
<1>2. ASSUME ProcessEnds PROVE Types'
  <2>1. reply' \in Replies /\ late' \in 0 .. MaxLate
    BY <1>2, AbandonType DEF ProcessEnds
  <2>2. 1 \in 1 .. MaxBackoff /\ 0 \in 0 .. MaxUpdates
    BY ClientAssumption
  <2>3. /\ pc' = "off" /\ rpc' = "off" /\ wpc' = "off" /\ peer' = "up"
        /\ UNCHANGED <<disk, valid, made>>
    BY <1>2 DEF ProcessEnds, Abandon
  <2>4. /\ key' = NoKey /\ password' = "none" /\ backoff' = 1 /\ updates' = 0
        /\ logins' = 0 /\ misses' = 0 /\ unsaved' = FALSE
    BY <1>2 DEF ProcessEnds
  <2> QED
    BY <2>1, <2>2, <2>3, <2>4 DEF Types, TypeOK, Replies
<1> QED
  BY <1>1, <1>2

\* Every step keeps them.
LEMMA NextTypes == Types /\ [Next]_vars => Types'
<1> SUFFICES ASSUME Types, [Next]_vars PROVE Types'
  OBVIOUS
<1> USE ClientAssumption DEF Types, TypeOK, Replies, memVars, connVars, serverVars, history
<1>1. CASE Reply
  <2>1. UNCHANGED <<disk, pc, memVars, peer, rpc, wpc, late, unsaved>>
    BY <1>1 DEF Reply
  <2>2. /\ \E k \in Keys \cup {NoKey} : reply' = AuthOK(k) \/ reply' = AuthFail
        /\ valid' \subseteq made' /\ made' \subseteq Keys
    BY <1>1 DEF Reply, MakeKey
  <2>3. reply' \in Replies
    BY <2>2 DEF AuthOK, AuthFail
  <2>4. logins' \in Nat /\ misses' \in Nat
    BY <1>1 DEF Reply
  <2> QED
    BY <2>1, <2>2, <2>3, <2>4
<1>2. CASE LateReply
  BY <1>2 DEF LateReply, MakeKey
<1>3. CASE HandleRevokeKey
  BY <1>3 DEF HandleRevokeKey
<1>4. CASE PeerGone
  BY <1>4 DEF PeerGone
<1>5. CASE Run
  BY <1>5 DEF Run
<1>6. CASE Stop
  BY <1>6, LeaveTypes DEF Stop
<1>7. CASE HandleUpdateCommand
  BY <1>7, LeaveTypes DEF HandleUpdateCommand
<1>8. CASE Setup
  BY <1>8 DEF Setup
<1>9. CASE Dial \/ SendAuth \/ ReadAuthFails \/ ReadAuthFail \/ PumpsEnded
  BY <1>9, LeaveTypes DEF Dial, SendAuth, ReadAuthFails, ReadAuthFail, PumpsEnded
<1>10. CASE ReadAuthOK
  BY <1>10 DEF ReadAuthOK, Taken, NoReply
<1>11. CASE CreateConfig
  BY <1>11 DEF CreateConfig
<1>12. CASE WriteConfig
  BY <1>12 DEF WriteConfig
<1>13. CASE StartPumps \/ ReadPumpEnds \/ Cancelled \/ WriteFails
  BY <1>13 DEF StartPumps, ReadPumpEnds, Cancelled, WriteFails
<1>14. CASE Reconnect
  BY <1>14, NextBackoffType DEF Reconnect
<1>15. CASE ReceiveUpdateCommand
  BY <1>15 DEF ReceiveUpdateCommand
<1>16. CASE UNCHANGED vars
  BY <1>16 DEF vars
<1> QED
  BY <1>1, <1>2, <1>3, <1>4, <1>5, <1>6, <1>7, <1>8, <1>9, <1>10, <1>11, <1>12, <1>13,
     <1>14, <1>15, <1>16 DEF Next, ConnectAndRun

(* Type correctness, for any keys and bounds. *)
THEOREM TypeCorrect == Spec => []TypeOK
<1>1. Init => Types
  BY InitTypes
<1>2. Types /\ [Next]_vars => Types'
  BY NextTypes
<1>3. Types => TypeOK
  BY DEF Types
<1> QED
  BY <1>1, <1>2, <1>3, PTL DEF Spec

-----------------------------------------------------------------------------
\* An answer belongs to a connection that waits for it, and a key comes to a client
\* that has none.
RepliesAwaited ==
    /\ reply.type # "none" => pc = "wait"
    /\ reply.key # NoKey => reply.type = "AuthOK" /\ key = NoKey
    /\ reply.type = "AuthOK" /\ reply.key = NoKey => key # NoKey

\* While the client has no key, every key made for its password is lost or on its way.
LoginsCounted ==
    /\ key = NoKey /\ reply.key = NoKey => logins = misses
    /\ key = NoKey /\ reply.key # NoKey => logins = misses + 1
    /\ key # NoKey => logins <= misses + 1

\* A client without a key has not got past its authentication: it has run no pumps and
\* received no update command.
KeylessIsFresh ==
    /\ pc = "off" => key = NoKey
    /\ key = NoKey => updates = 0 /\ pc \notin {"create", "write", "start", "run"}
    /\ pc \in {"create", "write"} => updates = 0

IInv == Types /\ RepliesAwaited /\ LoginsCounted /\ KeylessIsFresh /\ KeyIsSaved

\* The inductive invariant holds at first.
LEMMA InitInv == Init => IInv
  BY InitTypes, ClientAssumption
     DEF Init, IInv, RepliesAwaited, LoginsCounted, KeylessIsFresh, KeyIsSaved, NoReply

\* A connection or a process that ends keeps it.
LEMMA LeaveInv ==
    ASSUME IInv
    PROVE  /\ Disconnect /\ pc # "off" /\ pc \notin {"create", "write"} => IInv'
           /\ ProcessEnds => IInv'
<1>1. ASSUME Disconnect, pc # "off", pc \notin {"create", "write"}
      PROVE  IInv'
  <2>1. Types'
    BY LeaveTypes, <1>1 DEF IInv
  <2>2. /\ pc' = "sleep" /\ reply' = NoReply
        /\ UNCHANGED <<disk, key, updates, logins, unsaved>>
    BY <1>1 DEF Disconnect, Abandon, memVars
  <2>3. misses' = IF reply.key # NoKey THEN misses + 1 ELSE misses
    BY <1>1 DEF Disconnect, Missed
  <2>4. logins \in Nat /\ misses \in Nat
    BY DEF IInv, Types, TypeOK
  <2>5. RepliesAwaited' /\ KeylessIsFresh' /\ KeyIsSaved'
    BY <1>1, <2>2 DEF IInv, RepliesAwaited, KeylessIsFresh, KeyIsSaved, NoReply
  <2>6. LoginsCounted'
    BY <2>2, <2>3, <2>4 DEF IInv, RepliesAwaited, LoginsCounted, NoReply
  <2> QED
    BY <2>1, <2>5, <2>6 DEF IInv
<1>2. ASSUME ProcessEnds PROVE IInv'
  <2>1. Types'
    BY LeaveTypes, <1>2 DEF IInv
  <2> QED
    BY <1>2, <2>1
       DEF IInv, ProcessEnds, Abandon, RepliesAwaited, LoginsCounted, KeylessIsFresh,
           KeyIsSaved, NoReply
<1> QED
  BY <1>1, <1>2

\* Every step keeps it.
LEMMA NextInv == IInv /\ [Next]_vars => IInv'
<1> SUFFICES ASSUME IInv, [Next]_vars PROVE IInv'
  OBVIOUS
<1>0. Types /\ Types'
  BY NextTypes DEF IInv
<1>a. logins \in Nat /\ misses \in Nat /\ updates \in Nat
  BY <1>0, ClientAssumption DEF Types, TypeOK
<1> USE DEF IInv, RepliesAwaited, LoginsCounted, KeylessIsFresh, KeyIsSaved,
            memVars, connVars, serverVars, history
<1>1. CASE Reply
  <2>1. pc = "wait" /\ reply = NoReply
        /\ UNCHANGED <<disk, pc, key, updates, unsaved>>
    BY <1>1 DEF Reply
  <2>2. CASE key \in valid /\ reply' = AuthOK(NoKey) /\ UNCHANGED <<logins, misses>>
    <3>1. key # NoKey
      BY <1>0, <2>2, ClientAssumption DEF Types, TypeOK
    <3> QED
      BY <1>0, <1>a, <2>1, <2>2, <3>1 DEF AuthOK, NoReply
  <2>3. CASE /\ key = NoKey /\ (\E k \in Keys : reply' = AuthOK(k))
             /\ logins' = logins + 1 /\ misses' = misses
    BY <1>0, <1>a, <2>1, <2>3, ClientAssumption DEF AuthOK, NoReply
  <2>4. CASE key = NoKey /\ reply' = AuthFail /\ logins' = logins + 1 /\ misses' = misses + 1
    BY <1>0, <1>a, <2>1, <2>4 DEF AuthFail, NoReply
  <2>5. CASE reply' = AuthFail /\ UNCHANGED <<logins, misses>>
    BY <1>0, <1>a, <2>1, <2>5 DEF AuthFail, NoReply
  <2> QED
    BY <1>1, <2>2, <2>3, <2>4, <2>5 DEF Reply
<1>2. CASE LateReply
  BY <1>0, <1>2, <1>a DEF LateReply, MakeKey
<1>3. CASE HandleRevokeKey \/ PeerGone \/ Setup \/ WriteFails \/ ReadPumpEnds \/ Cancelled
  BY <1>0, <1>3 DEF HandleRevokeKey, PeerGone, Setup, WriteFails, ReadPumpEnds, Cancelled
<1>4. CASE Run
  BY <1>0, <1>4, <1>a DEF Run
<1>5. CASE Stop
  BY <1>5, LeaveInv DEF Stop
<1>6. CASE HandleUpdateCommand
  <2>1. CASE ProcessEnds
    BY <2>1, LeaveInv
  <2>2. CASE updates' = updates - 1 /\ UNCHANGED <<disk, pc, key, connVars, history>>
    BY <1>0, <1>6, <1>a, <2>2 DEF HandleUpdateCommand
  <2> QED
    BY <1>6, <2>1, <2>2 DEF HandleUpdateCommand
<1>7. CASE Dial \/ SendAuth \/ ReadAuthFails \/ ReadAuthFail \/ PumpsEnded
  <2>1. CASE Disconnect
    BY <1>7, <2>1, LeaveInv
       DEF Dial, SendAuth, ReadAuthFails, ReadAuthFail, PumpsEnded
  <2>2. CASE pc \in {"dial", "auth"} /\ pc' \in {"auth", "wait"}
             /\ UNCHANGED <<disk, key, updates, reply, logins, misses, unsaved>>
    BY <1>0, <2>2
  <2> QED
    BY <1>7, <2>1, <2>2 DEF Dial, SendAuth, ReadAuthFails, ReadAuthFail, PumpsEnded
<1>8. CASE ReadAuthOK
  BY <1>0, <1>8, <1>a DEF ReadAuthOK, Taken, NoReply
<1>9. CASE CreateConfig
  BY <1>0, <1>9 DEF CreateConfig
<1>10. CASE WriteConfig
  BY <1>0, <1>10 DEF WriteConfig
<1>11. CASE StartPumps \/ Reconnect
  BY <1>0, <1>11 DEF StartPumps, Reconnect
<1>12. CASE ReceiveUpdateCommand
  BY <1>0, <1>12, <1>a DEF ReceiveUpdateCommand, Types, TypeOK
<1>13. CASE UNCHANGED vars
  BY <1>0, <1>13 DEF vars
<1> QED
  BY <1>1, <1>2, <1>3, <1>4, <1>5, <1>6, <1>7, <1>8, <1>9, <1>10, <1>11, <1>12, <1>13
     DEF Next, ConnectAndRun

\* It holds in every state.
LEMMA Invariance == Spec => []IInv
<1>1. Init => IInv
  BY InitInv
<1>2. IInv /\ [Next]_vars => IInv'
  BY NextInv
<1> QED
  BY <1>1, <1>2, PTL DEF Spec

(* However often a client has to start over, whatever answers are lost or late and     *)
(* wherever the server fails: of the keys made for its password, all but one are keys  *)
(* it was never given.                                                                 *)
THEOREM PasswordUsedOnce == Spec => []OneKeyPerLogin
<1>1. IInv => OneKeyPerLogin
  <2> SUFFICES ASSUME IInv PROVE OneKeyPerLogin
    OBVIOUS
  <2>1. logins \in Nat /\ misses \in Nat
    BY DEF IInv, Types, TypeOK
  <2> QED
    BY <2>1 DEF IInv, LoginsCounted, OneKeyPerLogin
<1> QED
  BY <1>1, Invariance, PTL

(* No update command can replace the process while the configuration file is truncated. *)
THEOREM SavesUndisturbed == Spec => []SaveUndisturbed
<1>1. IInv => SaveUndisturbed
  BY DEF IInv, KeylessIsFresh, SaveUndisturbed
<1> QED
  BY <1>1, Invariance, PTL

(* The next process finds the key this one uses, once it was saved. *)
THEOREM KeysAreSaved == Spec => []KeyIsSaved
<1>1. IInv => KeyIsSaved
  BY DEF IInv
<1> QED
  BY <1>1, Invariance, PTL
=============================================================================
