------------------------------- MODULE Sessions -------------------------------
(***************************************************************************)
(* The sessions of the web interface: the table (internal/database/        *)
(* sessions.go), the cache in front of it (internal/server/session.go),    *)
(* and the requests that read and change both (internal/auth/auth.go,      *)
(* requireAuth, handleLogin, handleLogout and handleChangePassword of      *)
(* webui.go).                                                              *)
(*                                                                         *)
(* The cache has a mutex and the table a single connection, so a step is   *)
(* one access to either; nothing holds across two of them.  Users are left *)
(* out: the program never deletes or deactivates one.                      *)
(***************************************************************************)
EXTENDS Integers

CONSTANTS
    Tokens,       \* session tokens; a new one is never one that was made before
    Requests,     \* concurrent requests of browsers
    Day,          \* 24 hours: what a session is made for
    Zone,         \* the server's offset from UTC
    MaxNow,       \* bound: the clock
    MaxRestarts   \* bound: restarts

ASSUME SessionsAssumption ==
    /\ Day \in Nat \ {0} /\ Zone \in Int
    /\ MaxNow \in Nat /\ MaxRestarts \in Nat

VARIABLES
    row,        \* tokens in the sessions table
    expires,    \* their expires_at
    cache,      \* tokens in SessionStore.cache
    req,        \* a request: where it is and the token it is about
    now, restarts,
    \* History.
    made,       \* tokens made
    known,      \* tokens some browser was given
    left,       \* tokens whose logout has returned
    kept,       \* those of them whose row was left there by a failing DELETE
    raced,      \* tokens deleted while a lookup of them was under way
    lapsed      \* tokens that had expired when this process started

storeVars == <<row, expires, cache, made>>
vars      == <<storeVars, req, now, restarts, known, left, kept, raced, lapsed>>

Idle      == [pc |-> "idle"]
Request   == [pc : {"set", "query", "purge", "fill", "delete"}, token : Tokens,
              then : {"page", "password"}]

Goes(q, pc, t, then) == req' = [req EXCEPT ![q] = [pc |-> pc, token |-> t, then |-> then]]
Ends(q)              == req' = [req EXCEPT ![q] = Idle]
At(q, pc)            == req[q].pc = pc

\* A request other than q that is at one of pcs with t.
Another(q, pcs, t) == \E p \in Requests \ {q} : req[p].pc \in pcs /\ req[p].token = t

Init ==
    /\ row = {} /\ cache = {} /\ made = {}
    /\ expires = [t \in Tokens |-> 0]
    /\ req = [q \in Requests |-> Idle]
    /\ now = 0 /\ restarts = 0
    /\ known = {} /\ left = {} /\ kept = {} /\ raced = {} /\ lapsed = {}

-----------------------------------------------------------------------------
\* CreateSession: the local time is formatted without its zone and parsed as UTC.
CreateSession(t) ==
    /\ t \notin made
    /\ made' = made \cup {t}
    /\ row' = row \cup {t}
    /\ expires' = [expires EXCEPT ![t] = now + Day + Zone]

\* Mutant: a token is handed out though no session was made.
AuthenticateAnyway(q, t) ==
    /\ At(q, "idle")
    /\ Goes(q, "set", t, "page")
    /\ UNCHANGED <<storeVars, now, restarts, known, left, kept, raced, lapsed>>

\* handleLogin with the right password; a wrong one changes nothing.
AuthenticatePassword(q, t) ==
    /\ At(q, "idle")
    /\ CreateSession(t)
    /\ Goes(q, "set", t, "page")
    /\ UNCHANGED <<cache, now, restarts, known, left, kept, raced, lapsed>>

\* sess.Set, and the reply with the cookie.
SetSession(q) ==
    /\ At(q, "set")
    /\ cache' = cache \cup {req[q].token}
    /\ known' = known \cup {req[q].token}
    /\ Ends(q)
    /\ UNCHANGED <<row, expires, made, now, restarts, left, kept, raced, lapsed>>

\* What follows once requireAuth has let a request through: a change of password
\* authenticates once more, which makes a session nobody is given.
Served(then) ==
    \/ UNCHANGED <<row, expires, made>>
    \/ then = "password" /\ \E t \in Tokens : CreateSession(t)

\* SessionStore.Get, with a cookie of a browser that may have logged out since.
LookUp(q, t, then) ==
    /\ At(q, "idle") /\ t \in known
    /\ \/ /\ t \in cache /\ Served(then)
          /\ UNCHANGED <<req, raced>>
       \/ /\ t \notin cache /\ Goes(q, "query", t, then)
          /\ raced' = IF Another(q, {"delete"}, t) THEN raced \cup {t} ELSE raced
          /\ UNCHANGED <<row, expires, made>>
    /\ UNCHANGED <<cache, now, restarts, known, left, kept, lapsed>>

\* Mutants: the expiry is not looked at, or it is too early by a second.
ExpiredNever(t) == FALSE
ExpiredAtOnce(t) == expires[t] <= now

Expired(t) == expires[t] < now

\* A query that fails is answered like a session that is not there.
GetSessionByToken(q) ==
    /\ At(q, "query")
    /\ LET t == req[q].token
       IN  \/ Ends(q)
           \/ t \in row /\ Expired(t) /\ Goes(q, "purge", t, req[q].then)
           \/ t \in row /\ ~Expired(t) /\ Goes(q, "fill", t, req[q].then)
    /\ UNCHANGED <<storeVars, now, restarts, known, left, kept, raced, lapsed>>

Race(q, t) == raced' = IF Another(q, {"query", "purge", "fill"}, t) THEN raced \cup {t} ELSE raced

\* DeleteSession, of a row that was found expired; nobody looks at its error.
PurgeSession(q) ==
    /\ At(q, "purge")
    /\ \/ UNCHANGED <<row, raced>>
       \/ /\ row' = row \ {req[q].token}
          /\ \/ req[q].token \in cache /\ raced' = raced \cup {req[q].token}
             \/ req[q].token \notin cache /\ Race(q, req[q].token)
    /\ Ends(q)
    /\ UNCHANGED <<expires, cache, made, now, restarts, known, left, kept, lapsed>>

FillCache(q) ==
    /\ At(q, "fill")
    /\ cache' = cache \cup {req[q].token}
    /\ Served(req[q].then) /\ Ends(q)
    /\ UNCHANGED <<now, restarts, known, left, kept, raced, lapsed>>

\* Mutant: the cached entry stays.
LogoutOfTable(q, t) ==
    /\ At(q, "idle") /\ t \in known
    /\ Race(q, t)
    /\ Goes(q, "delete", t, "page")
    /\ UNCHANGED <<storeVars, now, restarts, known, left, kept, lapsed>>

\* handleLogout: SessionStore.Delete, the cache and then the table.
Logout(q, t) ==
    /\ At(q, "idle") /\ t \in known
    /\ cache' = cache \ {t}
    /\ Race(q, t)
    /\ Goes(q, "delete", t, "page")
    /\ UNCHANGED <<row, expires, made, now, restarts, known, left, kept, lapsed>>

\* Mutant: the row is not deleted.
ForgetRow(q) ==
    /\ At(q, "delete")
    /\ left' = left \cup {req[q].token}
    /\ Race(q, req[q].token)
    /\ Ends(q)
    /\ UNCHANGED <<storeVars, now, restarts, known, kept, lapsed>>

\* Delete discards the error of DeleteSessionByToken: the logout succeeds either way.
DeleteSessionByToken(q) ==
    /\ At(q, "delete")
    /\ LET t == req[q].token
       IN  /\ left' = left \cup {t}
           /\ Race(q, t)
           /\ \/ row' = row \ {t} /\ kept' = kept \ {t}
              \/ kept' = kept \cup ({t} \cap row) /\ UNCHANGED row
    /\ Ends(q)
    /\ UNCHANGED <<expires, cache, made, now, restarts, known, lapsed>>

\* The process ends, with its requests and its cache, and another is started.
Restart ==
    /\ restarts < MaxRestarts
    /\ restarts' = restarts + 1
    /\ cache' = {}
    /\ req' = [q \in Requests |-> Idle]
    /\ lapsed' = {t \in made : expires[t] < now}
    /\ UNCHANGED <<row, expires, made, now, known, left, kept, raced>>

Tick ==
    /\ now < MaxNow
    /\ now' = now + 1
    /\ UNCHANGED <<storeVars, req, restarts, known, left, kept, raced, lapsed>>

RequestStep(q) ==
    \/ \E t \in Tokens : AuthenticatePassword(q, t) \/ Logout(q, t)
    \/ \E t \in Tokens, then \in {"page", "password"} : LookUp(q, t, then)
    \/ SetSession(q) \/ GetSessionByToken(q) \/ PurgeSession(q) \/ FillCache(q)
    \/ DeleteSessionByToken(q)

Next == (\E q \in Requests : RequestStep(q)) \/ Restart \/ Tick

Spec == Init /\ [][Next]_vars

-----------------------------------------------------------------------------
(* Table, cache and requests hold values of their types: rows and cached   *)
(* tokens are ones CreateSession made.                                     *)
TypeOK ==
    /\ made \subseteq Tokens /\ row \subseteq made /\ cache \subseteq made
    /\ expires \in [Tokens -> Int]
    /\ req \in [Requests -> Request \cup {Idle}]
    /\ now \in 0 .. MaxNow /\ restarts \in 0 .. MaxRestarts
    /\ known \subseteq made /\ left \subseteq known /\ kept \subseteq left /\ raced \subseteq Tokens
    /\ lapsed \subseteq made

\* A lookup that has found the row and goes on to cache it.
Filling(t) == \E q \in Requests : At(q, "fill") /\ req[q].token = t

(* A logout that has returned is final, in the cache, in the table and     *)
(* after a restart, unless its DELETE failed, which it does not say         *)
(* (session.go:56).  Only a lookup of the same token that overlaps it can  *)
(* put the token back, and then in the cache alone: Get fills the cache    *)
(* with what it read before Delete removed it (session.go:30-41, 52-57).   *)
LogoutIsFinal ==
    \A t \in left \ kept :
        /\ t \notin row
        /\ t \notin raced => t \notin cache /\ ~Filling(t)

(* A session a browser was given stays until it expires or is logged out:  *)
(* no purge, no restart and no other request takes its row, so a request   *)
(* with it is refused by a failing query only.                             *)
LiveIsKept ==
    \A t \in known \ left : now <= expires[t] => t \in row

(* What has expired when the server starts is not accepted by that         *)
(* process.  (One it cached in time it accepts as long as it runs: entries *)
(* of the cache have no expiry.)                                           *)
LapsedIsRefused ==
    \A t \in lapsed : t \notin cache /\ ~Filling(t)

(* The cache holds nothing the table does not, but for tokens deleted      *)
(* while a lookup of them was under way.                                   *)
CacheIsBacked == cache \subseteq row \cup raced
=============================================================================
