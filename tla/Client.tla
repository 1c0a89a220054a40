------------------------------- MODULE Client --------------------------------
(***************************************************************************)
(* The relay client: its process and configuration file (client.go,        *)
(* config.go, setup.go), and the connection loop with its authentication,  *)
(* pumps and backoff (connection.go).  A client without an API key asks    *)
(* for a password and logs in with it once; the server makes a key         *)
(* (relay.go), which the client keeps in memory and saves.                 *)
(*                                                                         *)
(* The server is what its handler does with the first frame of a           *)
(* connection, which it may do after the client has given up on it.  What  *)
(* the process holds in memory is lost when it ends, and Save truncates    *)
(* the file before it writes it.                                           *)
(***************************************************************************)
EXTENDS Naturals, FiniteSets

CONSTANTS
    Keys,          \* bound: API keys the server may make
    NoKey,
    Torn,          \* a file that does not parse, or has no server address
    MaxBackoff,    \* maxBackoff, in seconds
    MaxUpdates,    \* bound: update commands under way at the same time
    MaxLate        \* bound: logins the server still has to handle

ASSUME ClientAssumption ==
    /\ NoKey \notin Keys /\ Torn \notin Keys \cup {NoKey}
    /\ MaxBackoff \in Nat \ {0}
    /\ MaxUpdates \in Nat
    /\ MaxLate \in Nat

VARIABLES
    disk,      \* config.toml
    pc,        \* ConnectLoop, connectAndRun and Save; "off": no process
    key,       \* c.cfg.Client.APIKey
    password,  \* c.password: "none", "right" or "wrong"
    reply,     \* the server's answer to the authentication frame
    peer,      \* the other end of the connection
    rpc, wpc,  \* the pumps
    backoff,
    updates,   \* goroutines in handleUpdateCommand
    \* The server.
    valid,     \* keys of its table that are not revoked
    made,      \* keys it has made, and those of the first configuration
    late,      \* right passwords it has read on connections the client has left
    \* History, of the running process.
    logins,    \* keys made for a password while it ran
    misses,    \* those it was never given
    unsaved    \* a Save has failed

memVars    == <<key, password, backoff, updates>>
connVars   == <<reply, peer, rpc, wpc>>
serverVars == <<valid, made, late>>
history    == <<logins, misses, unsaved>>
vars       == <<disk, pc, memVars, connVars, serverVars, history>>

NoReply   == [type |-> "none", key |-> NoKey]
AuthOK(k) == [type |-> "AuthOK", key |-> k]
AuthFail  == [type |-> "AuthFail", key |-> NoKey]

Minimum(a, b) == IF a < b THEN a ELSE b

\* Mutant: no limit.
Doubled(b) == 2 * b

NextBackoff(b) == Minimum(2 * b, MaxBackoff)

Init ==
    /\ disk \in {NoKey} \cup Keys
    /\ pc = "off" /\ key = NoKey /\ password = "none" /\ backoff = 1 /\ updates = 0
    /\ reply = NoReply /\ peer = "up" /\ rpc = "off" /\ wpc = "off"
    /\ made = {disk} \ {NoKey} /\ valid = made /\ late = 0
    /\ logins = 0 /\ misses = 0 /\ unsaved = FALSE

-----------------------------------------------------------------------------
(***************************************************************************)
(* The server.  A right password makes a key, whoever still listens.       *)
(***************************************************************************)
MakeKey(k) ==
    /\ k \notin made
    /\ made' = made \cup {k}
    /\ valid' = valid \cup {k}

\* Mutant: a key is returned for a key as well.
ReplyWithKey ==
    /\ pc = "wait" /\ peer = "up" /\ reply = NoReply
    /\ \/ /\ key \in valid /\ reply' = AuthOK(key)
          /\ UNCHANGED <<valid, made, logins>>
       \/ /\ key = NoKey /\ password = "right"
          /\ \E k \in Keys : MakeKey(k) /\ reply' = AuthOK(k)
          /\ logins' = logins + 1
    /\ UNCHANGED <<disk, pc, memVars, peer, rpc, wpc, late, misses, unsaved>>

\* A key that is valid, a password that is right, or AuthFail: for a wrong one, or for
\* an internal error, which may come after the key was made (GetRulesForClient).
Reply ==
    /\ pc = "wait" /\ peer = "up" /\ reply = NoReply
    /\ \/ /\ key \in valid /\ reply' = AuthOK(NoKey)
          /\ UNCHANGED <<valid, made, logins, misses>>
       \/ /\ key = NoKey /\ password = "right"
          /\ logins' = logins + 1
          /\ \E k \in Keys :
                /\ MakeKey(k)
                /\ \/ reply' = AuthOK(k) /\ UNCHANGED misses
                   \/ reply' = AuthFail /\ misses' = misses + 1
       \/ /\ reply' = AuthFail
          /\ UNCHANGED <<valid, made, logins, misses>>
    /\ UNCHANGED <<disk, pc, memVars, peer, rpc, wpc, late, unsaved>>

LateReply ==
    /\ late > 0
    /\ late' = late - 1
    /\ \/ \E k \in Keys : MakeKey(k) /\ logins' = logins + 1 /\ misses' = misses + 1
       \/ UNCHANGED <<valid, made, logins, misses>>
    /\ UNCHANGED <<disk, pc, memVars, connVars, unsaved>>

HandleRevokeKey ==
    /\ \E k \in valid : valid' = valid \ {k}
    /\ UNCHANGED <<disk, pc, memVars, connVars, made, late, history>>

\* The server's end is closed, or nothing is heard from it for as long as a read waits.
PeerGone ==
    /\ pc \in {"auth", "wait", "create", "write", "start", "run"} /\ peer = "up"
    /\ peer' = "gone"
    /\ UNCHANGED <<disk, pc, memVars, reply, rpc, wpc, serverVars, history>>

-----------------------------------------------------------------------------
(***************************************************************************)
(* Leaving a connection: conn.Close.  The server may have a password in    *)
(* hand, or have answered it.                                              *)
(***************************************************************************)
Abandon ==
    /\ reply' = NoReply /\ peer' = "up" /\ rpc' = "off" /\ wpc' = "off"
    /\ late' \in IF pc = "wait" /\ reply = NoReply /\ key = NoKey /\ password = "right"
                 THEN late .. Minimum(late + 1, MaxLate) ELSE {late}
    /\ UNCHANGED <<valid, made>>

Missed == IF reply.key # NoKey THEN misses + 1 ELSE misses

Disconnect ==
    /\ pc' = "sleep"
    /\ Abandon
    /\ misses' = Missed
    /\ UNCHANGED <<disk, memVars, logins, unsaved>>

-----------------------------------------------------------------------------
(***************************************************************************)
(* The process.                                                            *)
(***************************************************************************)
\* Without a key the user is asked.
Run ==
    /\ pc = "off" /\ disk # Torn
    /\ key' = disk
    /\ password' \in IF disk = NoKey THEN {"right", "wrong"} ELSE {"none"}
    /\ pc' = "dial"
    /\ UNCHANGED <<disk, backoff, updates, connVars, serverVars, history>>

ProcessEnds ==
    /\ pc' = "off"
    /\ key' = NoKey /\ password' = "none" /\ backoff' = 1 /\ updates' = 0
    /\ Abandon
    /\ logins' = 0 /\ misses' = 0 /\ unsaved' = FALSE
    /\ UNCHANGED disk

\* A signal, a crash.
Stop ==
    /\ pc # "off"
    /\ ProcessEnds

\* handleUpdateCommand: ends without an update, or replaces the process.
HandleUpdateCommand ==
    /\ updates > 0
    /\ \/ /\ updates' = updates - 1
          /\ UNCHANGED <<disk, pc, key, password, backoff, connVars, serverVars, history>>
       \/ ProcessEnds

\* The operator sets the client up again.
Setup ==
    /\ pc = "off"
    /\ disk' \in {NoKey} \cup valid
    /\ UNCHANGED <<pc, memVars, connVars, serverVars, history>>

-----------------------------------------------------------------------------
(***************************************************************************)
(* connectAndRun.                                                          *)
(***************************************************************************)
Dial ==
    /\ pc = "dial"
    /\ \/ /\ pc' = "auth"
          /\ UNCHANGED <<disk, memVars, connVars, serverVars, history>>
       \/ Disconnect

\* The key, or the password: Run leaves no client without either.
SendAuth ==
    /\ pc = "auth"
    /\ \/ /\ pc' = "wait"
          /\ UNCHANGED <<disk, memVars, connVars, serverVars, history>>
       \/ Disconnect

\* No answer within 30 seconds, or an answer that was lost with the connection.
ReadAuthFails ==
    /\ pc = "wait" /\ (peer = "gone" \/ reply = NoReply)
    /\ Disconnect

ReadAuthFail ==
    /\ pc = "wait" /\ reply = AuthFail
    /\ Disconnect

Taken == reply' = NoReply /\ UNCHANGED <<peer, rpc, wpc>>

\* Mutant: the key goes to the file only.
ReadAuthOKSaveOnly ==
    /\ pc = "wait" /\ reply.type = "AuthOK"
    /\ pc' = IF reply.key # NoKey THEN "create" ELSE "start"
    /\ Taken
    /\ UNCHANGED <<disk, memVars, serverVars, history>>

ReadAuthOK ==
    /\ pc = "wait" /\ reply.type = "AuthOK"
    /\ \/ reply.key # NoKey /\ pc' = "create" /\ key' = reply.key /\ password' = "none"
       \/ reply.key = NoKey /\ pc' = "start" /\ UNCHANGED <<key, password>>
    /\ Taken
    /\ UNCHANGED <<disk, backoff, updates, serverVars, history>>

\* Save: os.Create truncates.
CreateConfig ==
    /\ pc = "create"
    /\ \/ disk' = Torn /\ pc' = "write" /\ UNCHANGED unsaved
       \/ pc' = "start" /\ unsaved' = TRUE /\ UNCHANGED disk
    /\ UNCHANGED <<memVars, connVars, serverVars, logins, misses>>

\* Mutant: the configuration is written as it was loaded.
WriteOldConfig ==
    /\ pc = "write"
    /\ disk' = NoKey
    /\ pc' = "start"
    /\ UNCHANGED <<memVars, connVars, serverVars, history>>

\* A write that fails has written nothing, or the lines up to the key.
WriteConfig ==
    /\ pc = "write"
    /\ pc' = "start"
    /\ \/ disk' = key /\ UNCHANGED unsaved
       \/ disk' \in {Torn, NoKey} /\ unsaved' = TRUE
    /\ UNCHANGED <<memVars, connVars, serverVars, logins, misses>>

\* MsgClientInfo, whose failure is ignored, and the pumps.
StartPumps ==
    /\ pc = "start"
    /\ pc' = "run" /\ rpc' = "run" /\ wpc' = "run"
    /\ UNCHANGED <<disk, memVars, reply, peer, serverVars, history>>

ReceiveUpdateCommand ==
    /\ rpc = "run" /\ updates < MaxUpdates
    /\ updates' = updates + 1
    /\ UNCHANGED <<disk, pc, key, password, backoff, connVars, serverVars, history>>

\* Mutant: the pump tries to read again.
ReadAgain ==
    /\ rpc = "run" /\ peer = "gone"
    /\ UNCHANGED vars

ReadPumpEnds ==
    /\ rpc = "run" /\ peer = "gone"
    /\ rpc' = "ended"
    /\ UNCHANGED <<disk, pc, memVars, reply, peer, wpc, serverVars, history>>

\* A write fails.
WriteFails ==
    /\ wpc = "run"
    /\ wpc' = "ended"
    /\ UNCHANGED <<disk, pc, memVars, reply, peer, rpc, serverVars, history>>

\* The context of the pumps is cancelled.
Cancelled ==
    /\ wpc = "run" /\ rpc = "ended"
    /\ wpc' = "ended"
    /\ UNCHANGED <<disk, pc, memVars, reply, peer, rpc, serverVars, history>>

PumpsEnded ==
    /\ pc = "run" /\ rpc = "ended" /\ wpc = "ended"
    /\ Disconnect

\* ConnectLoop: the wait is over.
Reconnect ==
    /\ pc = "sleep"
    /\ pc' = "dial"
    /\ backoff' = NextBackoff(backoff)
    /\ UNCHANGED <<disk, key, password, updates, connVars, serverVars, history>>

-----------------------------------------------------------------------------
ConnectAndRun ==
    \/ Dial \/ SendAuth \/ ReadAuthFails \/ ReadAuthFail \/ ReadAuthOK
    \/ CreateConfig \/ WriteConfig \/ StartPumps
    \/ ReadPumpEnds \/ Cancelled \/ PumpsEnded \/ Reconnect

Next ==
    \/ Reply \/ LateReply \/ HandleRevokeKey \/ PeerGone
    \/ Run \/ Stop \/ HandleUpdateCommand \/ Setup
    \/ ConnectAndRun
    \/ WriteFails \/ ReceiveUpdateCommand

Spec == Init /\ [][Next]_vars

(* Goroutines are scheduled, reads have deadlines and waits end.  Nothing  *)
(* is assumed of the server, the network, the user or the updates.         *)
FairSpec == Spec /\ WF_vars(ConnectAndRun)

-----------------------------------------------------------------------------
(* The configuration, the process, the connection and the server hold      *)
(* values of their types; a wait is never longer than maxBackoff, and no   *)
(* pump runs outside a connection.                                         *)
TypeOK ==
    /\ disk \in Keys \cup {NoKey, Torn}
    /\ pc \in {"off", "dial", "auth", "wait", "create", "write", "start", "run", "sleep"}
    /\ key \in Keys \cup {NoKey}
    /\ password \in {"none", "right", "wrong"}
    /\ backoff \in 1 .. MaxBackoff
    /\ updates \in 0 .. MaxUpdates
    /\ reply.type \in {"none", "AuthOK", "AuthFail"} /\ reply.key \in Keys \cup {NoKey}
    /\ peer \in {"up", "gone"}
    /\ rpc \in {"off", "run", "ended"} /\ wpc \in {"off", "run", "ended"}
    /\ pc = "run" <=> rpc # "off"
    /\ pc = "run" <=> wpc # "off"
    /\ valid \subseteq made /\ made \subseteq Keys
    /\ late \in 0 .. MaxLate
    /\ logins \in Nat /\ misses \in Nat /\ unsaved \in BOOLEAN

(* A password is used once: of the keys made while the process runs, all   *)
(* but one are keys it was never given, since the answer was lost, came    *)
(* too late, or said AuthFail as the server failed after making the key.   *)
(* A client that was given one never makes another.                        *)
OneKeyPerLogin == logins <= misses + 1

(* The file is never being written while a goroutine may replace the       *)
(* process with an updated one, whatever connections came before.          *)
SaveUndisturbed == updates > 0 => pc \notin {"create", "write"}

(* The key the process uses is the key the next process will find, once    *)
(* Save has returned without an error.                                     *)
KeyIsSaved ==
    key # NoKey /\ pc \notin {"create", "write"} /\ ~unsaved => disk = key

(* A connection whose other end is gone is given up and followed by        *)
(* another attempt, unless the process ends.                               *)
Reconnects == peer = "gone" ~> pc \in {"dial", "off"}
=============================================================================
