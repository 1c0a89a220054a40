---------------------------- MODULE Sessions_proofs ----------------------------
(***************************************************************************)
(* Proofs about Sessions: for any numbers of tokens, requests and          *)
(* restarts, any zone and any length of a session.                         *)
(***************************************************************************)
EXTENDS Sessions, TLAPS

-----------------------------------------------------------------------------
(***************************************************************************)
(* The inductive invariant: the properties and what they rest on.          *)
(***************************************************************************)
Of(q, pcs, t) == req[q].pc \in pcs /\ req[q].token = t

\* A token is looked up or logged out only once a browser has it.
LookedUpIsKnown ==
    \A q \in Requests, t \in Tokens :
        Of(q, {"query", "purge", "fill", "delete"}, t) => t \in known

\* A login that has made its session alone knows the token, and its row is there.
SetIsFresh ==
    /\ \A q \in Requests, t \in Tokens :
          Of(q, {"set"}, t) => t \in row /\ t \notin known /\ t \notin lapsed
    /\ \A p, q \in Requests, t \in Tokens : Of(p, {"set"}, t) /\ Of(q, {"set"}, t) => p = q

PurgedHasExpired ==
    \A q \in Requests, t \in Tokens : Of(q, {"purge"}, t) => Expired(t)

LapsedHasExpired == \A t \in lapsed : Expired(t)

\* What is about to be cached is in the table, unless it was deleted meanwhile.
FilledIsBacked ==
    \A q \in Requests, t \in Tokens : Of(q, {"fill"}, t) => t \in row \cup raced

\* Between the two halves of a logout the token is out of the cache and nobody is
\* about to put it back, unless a lookup overlapped it.
LeavingIsGone ==
    \A q \in Requests, t \in Tokens :
        Of(q, {"delete"}, t) /\ t \notin raced =>
            t \notin cache /\ \A p \in Requests : ~Of(p, {"query", "purge", "fill"}, t)

Inv ==
    /\ TypeOK
    /\ LookedUpIsKnown /\ SetIsFresh
    /\ PurgedHasExpired /\ LapsedHasExpired /\ FilledIsBacked /\ LeavingIsGone
    /\ LogoutIsFinal /\ LiveIsKept /\ LapsedIsRefused /\ CacheIsBacked

-----------------------------------------------------------------------------
(* Initially nothing is stored and nobody asks for anything.               *)
LEMMA InitInv == ASSUME Init PROVE Inv
  BY SessionsAssumption DEF Init, Inv, TypeOK, Idle, Of, LookedUpIsKnown, SetIsFresh,
     PurgedHasExpired, LapsedHasExpired, FilledIsBacked, LeavingIsGone, LogoutIsFinal,
     LiveIsKept, LapsedIsRefused, CacheIsBacked, Filling, At

(* What the session made by a change of password alters: a row is added    *)
(* for a token nobody has seen, and the others stay as they are.           *)
LEMMA ServedMakesNew ==
  ASSUME TypeOK, NEW then, Served(then)
  PROVE  /\ row \subseteq row' /\ row' \subseteq row \cup (Tokens \ made) /\ row' \subseteq made'
         /\ made \subseteq made' /\ made' \subseteq Tokens
         /\ expires' \in [Tokens -> Int]
         /\ \A t \in made : expires'[t] = expires[t]
  BY SessionsAssumption DEF TypeOK, Served, CreateSession

(* A login makes a token nobody has seen.                                  *)
LEMMA AuthenticatePasswordKeeps ==
  ASSUME Inv, NEW q \in Requests, NEW t \in Tokens, AuthenticatePassword(q, t)
  PROVE  Inv'
<1> USE DEF AuthenticatePassword, CreateSession, Goes, Inv, Of, At, Idle, Expired, storeVars
<1>1. TypeOK'
  BY SessionsAssumption DEF TypeOK, Request
<1>2. LookedUpIsKnown'
  BY DEF LookedUpIsKnown
<1>3. SetIsFresh'
  BY DEF SetIsFresh, TypeOK
<1>4. PurgedHasExpired'
  BY DEF PurgedHasExpired, TypeOK, LookedUpIsKnown
<1>5. LapsedHasExpired'
  BY DEF LapsedHasExpired, TypeOK
<1>6. FilledIsBacked'
  BY DEF FilledIsBacked
<1>7. LeavingIsGone'
  BY DEF LeavingIsGone
<1>8. LogoutIsFinal'
  BY DEF LogoutIsFinal, TypeOK, Filling
<1>9. LiveIsKept'
  BY DEF LiveIsKept
<1>10. LapsedIsRefused'
  BY DEF LapsedIsRefused, Filling
<1>11. CacheIsBacked'
  BY DEF CacheIsBacked
<1> QED
  BY <1>1, <1>2, <1>3, <1>4, <1>5, <1>6, <1>7, <1>8, <1>9, <1>10, <1>11

(* The login's own token enters the cache, with its row.                   *)
LEMMA SetSessionKeeps ==
  ASSUME Inv, NEW q \in Requests, SetSession(q)
  PROVE  Inv'
<1> USE DEF SetSession, Ends, Inv, Of, At, Idle, Expired, storeVars
<1>1. TypeOK'
  BY DEF TypeOK, Request, SetIsFresh
<1>2. LookedUpIsKnown'
  BY DEF LookedUpIsKnown
<1>3. SetIsFresh'
  BY DEF SetIsFresh, TypeOK
<1>4. PurgedHasExpired'
  BY DEF PurgedHasExpired
<1>5. LapsedHasExpired'
  BY DEF LapsedHasExpired
<1>6. FilledIsBacked'
  BY DEF FilledIsBacked
<1>7. LeavingIsGone'
  BY DEF LeavingIsGone, LookedUpIsKnown, SetIsFresh
<1>8. LogoutIsFinal'
  BY DEF LogoutIsFinal, TypeOK, Filling, SetIsFresh
<1>9. LiveIsKept'
  BY DEF LiveIsKept, TypeOK, Request, SetIsFresh
<1>10. LapsedIsRefused'
  BY DEF LapsedIsRefused, TypeOK, Filling, SetIsFresh
<1>11. CacheIsBacked'
  BY DEF CacheIsBacked, TypeOK, Request, SetIsFresh
<1> QED
  BY <1>1, <1>2, <1>3, <1>4, <1>5, <1>6, <1>7, <1>8, <1>9, <1>10, <1>11

(* A lookup that misses the cache knows of a logout under way.             *)
LEMMA LookUpKeeps ==
  ASSUME Inv, NEW q \in Requests, NEW t \in Tokens, NEW then \in {"page", "password"},
         LookUp(q, t, then)
  PROVE  Inv'
<1> USE DEF LookUp, Goes, Another, Inv, Of, At, Idle, Expired, storeVars
<1>1. TypeOK'
  BY ServedMakesNew DEF TypeOK, Request
<1>2. LookedUpIsKnown'
  BY DEF LookedUpIsKnown, TypeOK
<1>3. SetIsFresh'
  BY ServedMakesNew DEF SetIsFresh, TypeOK
<1>4. PurgedHasExpired'
  BY ServedMakesNew DEF PurgedHasExpired, TypeOK, LookedUpIsKnown
<1>5. LapsedHasExpired'
  BY ServedMakesNew DEF LapsedHasExpired, TypeOK
<1>6. FilledIsBacked'
  BY ServedMakesNew DEF FilledIsBacked, TypeOK
<1>7. LeavingIsGone'
  BY DEF LeavingIsGone, TypeOK
<1>8. LogoutIsFinal'
  BY ServedMakesNew DEF LogoutIsFinal, TypeOK, Filling
<1>9. LiveIsKept'
  BY ServedMakesNew DEF LiveIsKept, TypeOK
<1>10. LapsedIsRefused'
  BY DEF LapsedIsRefused, TypeOK, Filling
<1>11. CacheIsBacked'
  BY ServedMakesNew DEF CacheIsBacked
<1> QED
  BY <1>1, <1>2, <1>3, <1>4, <1>5, <1>6, <1>7, <1>8, <1>9, <1>10, <1>11

(* What is found expired goes to the purge, and nothing else does.         *)
LEMMA GetSessionByTokenKeeps ==
  ASSUME Inv, NEW q \in Requests, GetSessionByToken(q)
  PROVE  Inv'
<1> USE DEF GetSessionByToken, Goes, Ends, Inv, Of, At, Idle, Expired, storeVars
<1>1. TypeOK'
  BY DEF TypeOK, Request
<1>2. LookedUpIsKnown'
  BY DEF LookedUpIsKnown, TypeOK
<1>3. SetIsFresh'
  BY DEF SetIsFresh, TypeOK
<1>4. PurgedHasExpired'
  BY DEF PurgedHasExpired, TypeOK
<1>5. LapsedHasExpired'
  BY DEF LapsedHasExpired
<1>6. FilledIsBacked'
  BY DEF FilledIsBacked, TypeOK
<1>7. LeavingIsGone'
  BY DEF LeavingIsGone, TypeOK
<1>8. LogoutIsFinal'
  BY DEF LogoutIsFinal, TypeOK, Filling
<1>9. LiveIsKept'
  BY DEF LiveIsKept
<1>10. LapsedIsRefused'
  BY DEF LapsedIsRefused, TypeOK, Filling, LapsedHasExpired
<1>11. CacheIsBacked'
  BY DEF CacheIsBacked
<1> QED
  BY <1>1, <1>2, <1>3, <1>4, <1>5, <1>6, <1>7, <1>8, <1>9, <1>10, <1>11

(* Only an expired row is purged.                                          *)
LEMMA PurgeSessionKeeps ==
  ASSUME Inv, NEW q \in Requests, PurgeSession(q)
  PROVE  Inv'
<1> USE DEF PurgeSession, Ends, Race, Another, Inv, Of, At, Idle, Expired, storeVars
<1>1. TypeOK'
  BY DEF TypeOK, Request
<1>2. LookedUpIsKnown'
  BY DEF LookedUpIsKnown
<1>3. SetIsFresh'
  BY DEF SetIsFresh, LookedUpIsKnown
<1>4. PurgedHasExpired'
  BY DEF PurgedHasExpired
<1>5. LapsedHasExpired'
  BY DEF LapsedHasExpired
<1>6. FilledIsBacked'
  BY DEF FilledIsBacked
<1>7. LeavingIsGone'
  BY DEF LeavingIsGone
<1>8. LogoutIsFinal'
  BY DEF LogoutIsFinal, Filling
<1>9. LiveIsKept'
  BY DEF LiveIsKept, TypeOK, PurgedHasExpired
<1>10. LapsedIsRefused'
  BY DEF LapsedIsRefused, Filling
<1>11. CacheIsBacked'
  BY DEF CacheIsBacked
<1> QED
  BY <1>1, <1>2, <1>3, <1>4, <1>5, <1>6, <1>7, <1>8, <1>9, <1>10, <1>11

(* What is cached is in the table or was deleted since.                    *)
LEMMA FillCacheKeeps ==
  ASSUME Inv, NEW q \in Requests, FillCache(q)
  PROVE  Inv'
<1> USE DEF FillCache, Ends, Inv, Of, At, Idle, Expired, storeVars
<1>1. TypeOK'
  BY ServedMakesNew DEF TypeOK, Request, LookedUpIsKnown
<1>2. LookedUpIsKnown'
  BY DEF LookedUpIsKnown
<1>3. SetIsFresh'
  BY ServedMakesNew DEF SetIsFresh
<1>4. PurgedHasExpired'
  BY ServedMakesNew DEF PurgedHasExpired, TypeOK, LookedUpIsKnown
<1>5. LapsedHasExpired'
  BY ServedMakesNew DEF LapsedHasExpired, TypeOK
<1>6. FilledIsBacked'
  BY ServedMakesNew DEF FilledIsBacked
<1>7. LeavingIsGone'
  BY DEF LeavingIsGone
<1>8. LogoutIsFinal'
  BY ServedMakesNew DEF LogoutIsFinal, TypeOK, Filling
<1>9. LiveIsKept'
  BY ServedMakesNew DEF LiveIsKept, TypeOK
<1>10. LapsedIsRefused'
  BY DEF LapsedIsRefused, Filling
<1>11. CacheIsBacked'
  BY ServedMakesNew DEF CacheIsBacked, TypeOK, Request, FilledIsBacked
<1> QED
  BY <1>1, <1>2, <1>3, <1>4, <1>5, <1>6, <1>7, <1>8, <1>9, <1>10, <1>11

(* The cache is cleared first.                                             *)
LEMMA LogoutKeeps ==
  ASSUME Inv, NEW q \in Requests, NEW t \in Tokens, Logout(q, t)
  PROVE  Inv'
<1> USE DEF Logout, Goes, Race, Another, Inv, Of, At, Idle, Expired, storeVars
<1>1. TypeOK'
  BY DEF TypeOK, Request
<1>2. LookedUpIsKnown'
  BY DEF LookedUpIsKnown
<1>3. SetIsFresh'
  BY DEF SetIsFresh
<1>4. PurgedHasExpired'
  BY DEF PurgedHasExpired
<1>5. LapsedHasExpired'
  BY DEF LapsedHasExpired
<1>6. FilledIsBacked'
  BY DEF FilledIsBacked
<1>7. LeavingIsGone'
  BY DEF LeavingIsGone
<1>8. LogoutIsFinal'
  BY DEF LogoutIsFinal, Filling
<1>9. LiveIsKept'
  BY DEF LiveIsKept
<1>10. LapsedIsRefused'
  BY DEF LapsedIsRefused, Filling
<1>11. CacheIsBacked'
  BY DEF CacheIsBacked
<1> QED
  BY <1>1, <1>2, <1>3, <1>4, <1>5, <1>6, <1>7, <1>8, <1>9, <1>10, <1>11

(* The row goes second, and the logout is done.                            *)
LEMMA DeleteSessionByTokenKeeps ==
  ASSUME Inv, NEW q \in Requests, DeleteSessionByToken(q)
  PROVE  Inv'
<1> USE DEF DeleteSessionByToken, Ends, Race, Another, Inv, Of, At, Idle, Expired, storeVars
<1>1. TypeOK'
  BY DEF TypeOK, Request, LookedUpIsKnown
<1>2. LookedUpIsKnown'
  BY DEF LookedUpIsKnown
<1>3. SetIsFresh'
  BY DEF SetIsFresh, LookedUpIsKnown
<1>4. PurgedHasExpired'
  BY DEF PurgedHasExpired
<1>5. LapsedHasExpired'
  BY DEF LapsedHasExpired
<1>6. FilledIsBacked'
  BY DEF FilledIsBacked
<1>7. LeavingIsGone'
  BY DEF LeavingIsGone
<1>8. LogoutIsFinal'
  BY DEF LogoutIsFinal, TypeOK, Filling, LeavingIsGone
<1>9. LiveIsKept'
  BY DEF LiveIsKept
<1>10. LapsedIsRefused'
  BY DEF LapsedIsRefused, Filling
<1>11. CacheIsBacked'
  BY DEF CacheIsBacked, TypeOK, LeavingIsGone
<1> QED
  BY <1>1, <1>2, <1>3, <1>4, <1>5, <1>6, <1>7, <1>8, <1>9, <1>10, <1>11

(* Cache and requests are gone, the table is not.                          *)
LEMMA RestartKeeps ==
  ASSUME Inv, Restart
  PROVE  Inv'
<1> USE DEF Restart, Inv, Of, At, Idle, Expired, storeVars
<1>1. TypeOK'
  BY SessionsAssumption DEF TypeOK
<1>2. LookedUpIsKnown'
  BY DEF LookedUpIsKnown
<1>3. SetIsFresh'
  BY DEF SetIsFresh
<1>4. PurgedHasExpired'
  BY DEF PurgedHasExpired
<1>5. LapsedHasExpired'
  BY DEF LapsedHasExpired
<1>6. FilledIsBacked'
  BY DEF FilledIsBacked
<1>7. LeavingIsGone'
  BY DEF LeavingIsGone
<1>8. LogoutIsFinal'
  BY DEF LogoutIsFinal, Filling
<1>9. LiveIsKept'
  BY DEF LiveIsKept
<1>10. LapsedIsRefused'
  BY DEF LapsedIsRefused, Filling
<1>11. CacheIsBacked'
  BY DEF CacheIsBacked
<1> QED
  BY <1>1, <1>2, <1>3, <1>4, <1>5, <1>6, <1>7, <1>8, <1>9, <1>10, <1>11

(* What has expired stays so.                                              *)
LEMMA TickKeeps ==
  ASSUME Inv, Tick
  PROVE  Inv'
<1> USE DEF Tick, Inv, Of, At, Idle, Expired, storeVars
<1>1. TypeOK'
  BY SessionsAssumption DEF TypeOK
<1>2. LookedUpIsKnown'
  BY DEF LookedUpIsKnown
<1>3. SetIsFresh'
  BY DEF SetIsFresh
<1>4. PurgedHasExpired'
  BY DEF PurgedHasExpired, TypeOK
<1>5. LapsedHasExpired'
  BY DEF LapsedHasExpired, TypeOK
<1>6. FilledIsBacked'
  BY DEF FilledIsBacked
<1>7. LeavingIsGone'
  BY DEF LeavingIsGone
<1>8. LogoutIsFinal'
  BY DEF LogoutIsFinal, Filling
<1>9. LiveIsKept'
  BY DEF LiveIsKept, TypeOK
<1>10. LapsedIsRefused'
  BY DEF LapsedIsRefused, Filling
<1>11. CacheIsBacked'
  BY DEF CacheIsBacked
<1> QED
  BY <1>1, <1>2, <1>3, <1>4, <1>5, <1>6, <1>7, <1>8, <1>9, <1>10, <1>11

-----------------------------------------------------------------------------
(* Every step keeps the invariant.                                         *)
LEMMA NextKeeps == ASSUME Inv, [Next]_vars PROVE Inv'
<1>1. CASE \E q \in Requests : RequestStep(q)
  BY <1>1, AuthenticatePasswordKeeps, SetSessionKeeps, LookUpKeeps, GetSessionByTokenKeeps,
     PurgeSessionKeeps, FillCacheKeeps, LogoutKeeps, DeleteSessionByTokenKeeps
     DEF RequestStep
<1>2. CASE Restart
  BY <1>2, RestartKeeps
<1>3. CASE Tick
  BY <1>3, TickKeeps
<1>4. CASE UNCHANGED vars
  BY <1>4 DEF vars, storeVars, Inv, TypeOK, Of, Expired, LookedUpIsKnown, SetIsFresh,
     PurgedHasExpired, LapsedHasExpired, FilledIsBacked, LeavingIsGone, LogoutIsFinal,
     LiveIsKept, LapsedIsRefused, CacheIsBacked, Filling, At
<1> QED
  BY <1>1, <1>2, <1>3, <1>4 DEF Next

(* For any numbers of tokens, requests and restarts and any zone, the      *)
(* invariant holds in every state of the session store.                    *)
THEOREM SessionsCorrect == Spec => []Inv
<1>1. Init => Inv
  BY InitInv
<1>2. Inv /\ [Next]_vars => Inv'
  BY NextKeeps
<1> QED
  BY <1>1, <1>2, PTL DEF Spec

(* Rows, cache and requests hold values of their types.                    *)
THEOREM TypeCorrect == Spec => []TypeOK
<1>1. Inv => TypeOK
  BY DEF Inv
<1> QED
  BY <1>1, SessionsCorrect, PTL

(* A logout that has returned is final, unless its DELETE failed or a       *)
(* lookup of the same token overlapped it, however many browsers there are. *)
THEOREM LogoutsFinal == Spec => []LogoutIsFinal
<1>1. Inv => LogoutIsFinal
  BY DEF Inv
<1> QED
  BY <1>1, SessionsCorrect, PTL

(* A session that a browser was given stays in the table until it expires  *)
(* or is logged out.                                                       *)
THEOREM LiveKept == Spec => []LiveIsKept
<1>1. Inv => LiveIsKept
  BY DEF Inv
<1> QED
  BY <1>1, SessionsCorrect, PTL

(* What had expired when the server started is not accepted by it.         *)
THEOREM LapsedRefused == Spec => []LapsedIsRefused
<1>1. Inv => LapsedIsRefused
  BY DEF Inv
<1> QED
  BY <1>1, SessionsCorrect, PTL

(* Nothing is cached that the table has not, but for tokens deleted during *)
(* a lookup of them.                                                       *)
THEOREM CacheBacked == Spec => []CacheIsBacked
<1>1. Inv => CacheIsBacked
  BY DEF Inv
<1> QED
  BY <1>1, SessionsCorrect, PTL
================================================================================
