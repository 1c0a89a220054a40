----------------------------- MODULE Setup_proofs ------------------------------
(***************************************************************************)
(* Proofs about Setup: for any numbers of attempts and runs.               *)
(***************************************************************************)
EXTENDS Setup, TLAPS

-----------------------------------------------------------------------------
(***************************************************************************)
(* The inductive invariant: what holds of an attempt at each of its steps, *)
(* and which attempts may be at work at the same time.                     *)
(***************************************************************************)
Finished == Done \cup {"user", "rules", "service", "reply"}   \* what follows the file
Settled  == Done \cup {"rules", "service", "reply"}           \* what follows a user

\* Attempts are numbered as they begin, over the runs.
Numbered ==
    /\ \A q \in Attempts : att[q].pc # "new" <=> q <= latest
    /\ \A q \in Attempts : q <= latest => att[q].run <= run.n
    /\ \A p, q \in Attempts : p <= q /\ q <= latest => att[p].run <= att[q].run

\* Where an attempt is agrees with what it asks for.
StepsAsAsked ==
    \A q \in Attempts : att[q].pc # "new" =>
        /\ att[q].pc = "iface" => att[q].mode = "server" /\ att[q].given
        /\ att[q].pc \in {"addr", "key"} => att[q].mode = "client"
        /\ att[q].half => att[q].pc \in Settings /\ (att[q].pc = "key" => att[q].given)
        /\ att[q].pc \in {"user", "rules"} => att[q].mode = "server"
        /\ att[q].pc = "service" => att[q].service
        /\ att[q].mode = "client" /\ ~att[q].given /\ Ours(q) => run.kind = "interactive"

\* A command makes one attempt, and the wizard alone makes rules and waits.
CommandsAreAlone ==
    ~Wizard => \A q \in Attempts : Ours(q) =>
        /\ q \notin crossed /\ att[q].pc \notin {"rules", "sleep", "closing"}
        /\ \A p \in Attempts : Ours(p) => p = q

\* Two attempts of which the earlier is at work when the later has begun.
OverlapsAreCrossed ==
    \A p, q \in Attempts : p < q /\ Ours(q) /\ p \in Busy => p \in crossed /\ q \in crossed

\* Nothing is left of an attempt before it has begun, no user of it before it made
\* one, and no rules before it made them.
UsersMade ==
    /\ \A u \in Names, q \in Attempts : admin[u] = q => att[q].pc \in Settled \cup {"failed"}
    /\ \A q \in Attempts :
          att[q].pc \in Settled /\ att[q].mode = "server" => admin[att[q].name] = q

RulesMade ==
    \A q \in rules : att[q].pc \in {"service", "reply"} \cup Done /\ (Ours(q) => Wizard)

CrossedBegan == \A q \in crossed : att[q].pc # "new"

\* Nobody but its attempts assigns to the configuration of a run.
NobodyElseAssigns ==
    /\ (\A p \in Attempts : ~Ours(p)) => cfg = Defaults
    /\ \A q \in Attempts :
          Ours(q) /\ ~Repeated(q) => \A s \in Settings \ Own(q) : cfg[s] = Unset

\* What an attempt that no other overlaps or follows has assigned and written.
Undisturbed(q) == q = latest /\ q \notin crossed

Assigned ==
    \A q \in Attempts : Ours(q) /\ Undisturbed(q) =>
        /\ att[q].pc = "key" => cfg["addr"] = q
        /\ att[q].pc \in {"create", "write"} => \A s \in Own(q) : cfg[s] = q
        /\ att[q].pc = "write" => file.state = "empty"

Written == \A q \in Attempts : Undisturbed(q) /\ att[q].pc \in Finished => FileIs(q)

\* Who closed done is no longer waiting to close it, and only then the wizard ends.
DoneIsClosedOnce ==
    /\ done => \E q \in Attempts : Ours(q) /\ att[q].pc = "quit"
    /\ Wizard /\ proc \in {"returned", "leaving", "ended"} => done \/ broken
    /\ proc = "panicked" => \E p, q \in Attempts : p # q /\ Ours(p) /\ Ours(q) /\ Ok(p) /\ Ok(q)

\* Only the wizard has a monitor, and one that outlives the deferred stop came after it.
MonitorIsStopped ==
    /\ ~Wizard => ~monitor
    /\ proc \in {"leaving", "ended"} /\ monitor => late

Inv ==
    /\ TypeOK
    /\ Numbered /\ StepsAsAsked /\ CommandsAreAlone /\ OverlapsAreCrossed /\ CrossedBegan
    /\ UsersMade /\ RulesMade
    /\ NobodyElseAssigns /\ Assigned /\ Written
    /\ DoneIsClosedOnce /\ MonitorIsStopped
    /\ FailedIsRepeatable

-----------------------------------------------------------------------------
(* Initially nothing is asked for and nothing is made.                     *)
LEMMA InitInv == ASSUME Init PROVE Inv
<1> USE DEF Init, Ours, Wizard, Alive, Busy, New, Done, Steps, Settings, Settled, Nothing
<1>1. TypeOK
  <2>1. run \in [n : 1 .. MaxRuns, kind : Kinds] /\ proc \in Procs
    BY SetupAssumption DEF Procs
  <2>2. Defaults \in Texts
    BY DEF Defaults, Texts
  <2>3. file \in [state : {"none", "empty", "torn", "whole"}, text : Texts]
    BY <2>2
  <2>4. admin \in [Names -> Attempts \cup {Unset}]
    OBVIOUS
  <2>5. att \in [Attempts -> Ask \cup {New}]
    OBVIOUS
  <2>6. latest \in 0 .. MaxAttempts
    BY SetupAssumption
  <2> QED
    BY <2>1, <2>2, <2>3, <2>4, <2>5, <2>6 DEF TypeOK
<1>2. Numbered
  BY DEF Numbered, Attempts
<1>3. StepsAsAsked
  BY DEF StepsAsAsked
<1>4. CommandsAreAlone
  BY DEF CommandsAreAlone
<1>5. OverlapsAreCrossed
  BY DEF OverlapsAreCrossed
<1>6. CrossedBegan
  BY DEF CrossedBegan
<1>7. UsersMade
  BY DEF UsersMade, Attempts, Unset
<1>8. RulesMade
  BY DEF RulesMade
<1>9. NobodyElseAssigns
  BY DEF NobodyElseAssigns
<1>10. Assigned
  BY DEF Assigned
<1>11. Written
  BY DEF Written, Finished
<1>12. DoneIsClosedOnce
  BY DEF DoneIsClosedOnce
<1>13. MonitorIsStopped
  BY DEF MonitorIsStopped
<1>14. FailedIsRepeatable
  BY DEF FailedIsRepeatable
<1> QED
  BY <1>1, <1>2, <1>3, <1>4, <1>5, <1>6, <1>7, <1>8, <1>9, <1>10, <1>11, <1>12, <1>13, <1>14
     DEF Inv

Moved(q, pc, half) ==
    /\ att' \in [Attempts -> Ask \cup {New}]
    /\ \A p \in Attempts \ {q} : att'[p] = att[p]
    /\ att'[q].pc = pc /\ att'[q].half = half
    /\ att'[q].run = att[q].run /\ att'[q].mode = att[q].mode /\ att'[q].name = att[q].name
    /\ att'[q].given = att[q].given /\ att'[q].service = att[q].service

(* An attempt that has begun is a record.                                  *)
LEMMA AskedIsAsk ==
  ASSUME TypeOK, NEW q \in Attempts, att[q].pc # "new" PROVE att[q] \in Ask
  BY DEF TypeOK, New

(* The three ways in which a step alters one attempt come to the same:     *)
(* where it is and whether it is between two words, and nothing else of    *)
(* it.                                                                     *)
LEMMA Updates ==
  ASSUME TypeOK, NEW q \in Attempts, att[q].pc # "new", NEW pc \in Steps \cup Done \cup {"failed"},
         NEW half \in BOOLEAN, att' = [att EXCEPT ![q].half = half, ![q].pc = pc]
  PROVE  Moved(q, pc, half)
<1>1. att[q] \in Ask
  BY AskedIsAsk
<1>2. [att[q] EXCEPT !.half = half, !.pc = pc] \in Ask
  BY <1>1 DEF Ask
<1>3. att'[q] = [att[q] EXCEPT !.half = half, !.pc = pc]
  BY DEF TypeOK
<1>4. \A p \in Attempts \ {q} : att'[p] = att[p]
  BY DEF TypeOK
<1>5. att' \in [Attempts -> Ask \cup {New}]
  BY <1>2 DEF TypeOK
<1> QED
  BY <1>1, <1>3, <1>4, <1>5 DEF Moved, Ask

(* It goes on to another step.                                             *)
LEMMA GoesMoves ==
  ASSUME TypeOK, NEW q \in Attempts, att[q].pc # "new", NEW pc \in Steps \cup Done \cup {"failed"},
         Goes(q, pc)
  PROVE  Moved(q, pc, att[q].half)
<1>1. att[q] \in Ask
  BY AskedIsAsk
<1>2. [att[q] EXCEPT !.pc = pc] \in Ask
  BY <1>1 DEF Ask
<1>3. att'[q] = [att[q] EXCEPT !.pc = pc]
  BY DEF TypeOK, Goes
<1>4. \A p \in Attempts \ {q} : att'[p] = att[p]
  BY DEF Goes
<1>5. att' \in [Attempts -> Ask \cup {New}]
  BY <1>2 DEF TypeOK, Goes
<1> QED
  BY <1>1, <1>3, <1>4, <1>5 DEF Moved, Ask

(* It has stored the first of two words.                                   *)
LEMMA FirstMoves ==
  ASSUME TypeOK, NEW q \in Attempts, att[q].pc # "new", att' = [att EXCEPT ![q].half = TRUE]
  PROVE  Moved(q, att[q].pc, TRUE)
<1>1. att[q] \in Ask
  BY AskedIsAsk
<1>2. [att[q] EXCEPT !.half = TRUE] \in Ask
  BY <1>1 DEF Ask
<1>3. att'[q] = [att[q] EXCEPT !.half = TRUE]
  BY DEF TypeOK
<1>4. \A p \in Attempts \ {q} : att'[p] = att[p]
  OBVIOUS
<1>5. att' \in [Attempts -> Ask \cup {New}]
  BY <1>2 DEF TypeOK
<1> QED
  BY <1>1, <1>3, <1>4, <1>5 DEF Moved, Ask

(* A move keeps who has begun, and in which order.                         *)
LEMMA MovedKeepsNumbered ==
  ASSUME TypeOK, Numbered, NEW q \in Attempts, att[q].pc # "new",
         NEW pc \in Steps \cup Done \cup {"failed"}, NEW half, Moved(q, pc, half),
         UNCHANGED <<run, latest>>
  PROVE Numbered'
<1>1. pc # "new"
  BY DEF Steps, Done, Settings
<1>2. \A p \in Attempts : att'[p].pc = "new" <=> att[p].pc = "new"
  BY <1>1 DEF Moved
<1>3. \A p \in Attempts : att'[p].run = att[p].run
  BY DEF Moved
<1> QED
  BY <1>2, <1>3 DEF Numbered

(* A move keeps whose run an attempt is of and what it asks for.           *)
LEMMA MovedIdentifies ==
  ASSUME TypeOK, NEW q \in Attempts, att[q].pc # "new",
         NEW pc \in Steps \cup Done \cup {"failed"}, NEW half, Moved(q, pc, half),
         UNCHANGED run
  PROVE /\ \A p \in Attempts : Ours(p)' <=> Ours(p)
        /\ \A p \in Attempts : Repeated(p)' <=> Repeated(p)
        /\ \A p \in Attempts : Own(p)' = Own(p)
<1>1. pc # "new"
  BY DEF Steps, Done, Settings
<1>2. \A p \in Attempts : att'[p].pc = "new" <=> att[p].pc = "new"
  BY <1>1 DEF Moved
<1>3. \A p \in Attempts : att'[p].run = att[p].run /\ att'[p].mode = att[p].mode /\ att'[p].given = att[p].given
  BY DEF Moved
<1>4. \A p \in Attempts : Ours(p)' <=> Ours(p)
  BY <1>2, <1>3 DEF Ours
<1>5. \A p \in Attempts : Repeated(p)' <=> Repeated(p)
  BY <1>2, <1>3 DEF Repeated
<1>6. \A p \in Attempts : Own(p)' = Own(p)
  BY <1>3 DEF Own
<1> QED BY <1>4, <1>5, <1>6

(* A move alone assigns to no setting.                                     *)
LEMMA MovedKeepsNobodyElseAssigns ==
  ASSUME TypeOK, NobodyElseAssigns, NEW q \in Attempts, att[q].pc # "new",
         NEW pc \in Steps \cup Done \cup {"failed"}, NEW half, Moved(q, pc, half),
         UNCHANGED <<run, cfg>>
  PROVE NobodyElseAssigns'
<1>1. /\ \A p \in Attempts : Ours(p)' <=> Ours(p)
      /\ \A p \in Attempts : Repeated(p)' <=> Repeated(p)
      /\ \A p \in Attempts : Own(p)' = Own(p)
  BY MovedIdentifies
<1>2. (\A p \in Attempts : ~Ours(p)') => cfg' = Defaults
  BY <1>1 DEF NobodyElseAssigns
<1>3. ASSUME NEW p \in Attempts, Ours(p)', ~Repeated(p)', NEW s \in Settings \ Own(p)'
      PROVE  cfg'[s] = Unset
  BY <1>1, <1>3 DEF NobodyElseAssigns
<1> QED
  BY <1>2, <1>3 DEF NobodyElseAssigns, Defaults

(* A move alone neither writes the file nor passes the writing of it.      *)
LEMMA MovedKeepsWritten ==
  ASSUME TypeOK, Written, NEW q \in Attempts, att[q].pc # "new",
         NEW pc \in Steps \cup Done \cup {"failed"}, NEW half, Moved(q, pc, half),
         pc \in Finished => att[q].pc \in Finished,
         UNCHANGED <<run, latest, crossed, file>>
  PROVE Written'
<1>1. /\ \A p \in Attempts : Ours(p)' <=> Ours(p)
      /\ \A p \in Attempts : Repeated(p)' <=> Repeated(p)
      /\ \A p \in Attempts : Own(p)' = Own(p)
  BY MovedIdentifies
<1>2. ASSUME NEW p \in Attempts, Undisturbed(p)', att'[p].pc \in Finished
      PROVE  FileIs(p)'
  <2>1. FileIs(p)
    BY <1>2 DEF Written, Undisturbed, Moved
  <2> QED
    BY <2>1, <1>1 DEF FileIs
<1> QED
  BY <1>2 DEF Written, Finished, Done

(* Attempts can be compared, and none is the default of a setting.         *)
LEMMA AttemptsAreNumbers == \A q \in Attempts : q \in Nat /\ q # Unset
  BY DEF Attempts, Unset

(* In a run that has attempts the latest is one of them.                   *)
LEMMA LatestIsOurs ==
  ASSUME TypeOK, Numbered, NEW q \in Attempts, Ours(q)
  PROVE  latest \in Attempts /\ q <= latest /\ Ours(latest)
<1>1. q <= latest
  BY DEF Numbered, Ours
<1>2. latest \in Attempts
  BY <1>1 DEF TypeOK, Attempts
<1>3. att[latest].pc # "new" /\ att[q].run = run.n /\ att[q].run <= att[latest].run /\ att[latest].run <= run.n
  BY <1>2, AttemptsAreNumbers DEF Numbered, Ours
<1>4. att[latest].run \in Nat /\ run.n \in Nat
  BY <1>2, <1>3, AskedIsAsk DEF TypeOK, Ask
<1> QED
  BY <1>1, <1>2, <1>3, <1>4 DEF Ours

(* While the latest attempt is undisturbed no other is at work.            *)
LEMMA LatestIsAlone ==
  ASSUME TypeOK, Numbered, OverlapsAreCrossed, NEW p \in Attempts, Undisturbed(p), NEW q \in Busy
  PROVE  p = q
<1>1. q \in Attempts /\ Ours(q)
  BY DEF Busy
<1>2. p = latest /\ p \notin crossed
  BY DEF Undisturbed
<1>3. q <= p /\ Ours(p)
  BY <1>1, <1>2, LatestIsOurs
<1> QED
  BY <1>1, <1>2, <1>3, AttemptsAreNumbers DEF OverlapsAreCrossed

(* An attempt that fails leaves what it has made, and no user unless only  *)
(* the service failed.                                                     *)
LEMMA FailsKeeps ==
  ASSUME Inv, NEW q \in Attempts, At(q, att[q].pc), Fails(q),
         \/ att[q].pc \in {"create", "write", "user"}
         \/ att[q].pc = "key" /\ Wizard /\ ~att[q].half
         \/ att[q].pc = "service" /\ ~Wizard,
         UNCHANGED <<run, broken, done, monitor, late, diskVars, cfg, history>>
  PROVE  Inv'
<1> USE DEF Fails, Moved, At, Alive, Ours, Wizard, Busy, Steps, Done, Settings, procVars,
       diskVars, history
<1>a. TypeOK /\ Numbered /\ StepsAsAsked /\ CommandsAreAlone /\ OverlapsAreCrossed /\ CrossedBegan
        /\ UsersMade /\ RulesMade /\ NobodyElseAssigns /\ Assigned /\ Written /\ DoneIsClosedOnce
        /\ MonitorIsStopped /\ FailedIsRepeatable
  BY DEF Inv
<1>m. Moved(q, "failed", att[q].half)
  BY <1>a, GoesMoves
<1>i. /\ \A p \in Attempts : Ours(p)' <=> Ours(p)
      /\ \A p \in Attempts : Repeated(p)' <=> Repeated(p)
      /\ \A p \in Attempts : Own(p)' = Own(p)
  BY <1>a, <1>m, MovedIdentifies
<1>1. TypeOK'
  BY <1>a, <1>m DEF TypeOK, Procs
<1>2. Numbered'
  BY <1>a, <1>m, MovedKeepsNumbered
<1>3. StepsAsAsked'
  BY <1>a, <1>m DEF StepsAsAsked
<1>4. CommandsAreAlone'
  BY <1>a, <1>m DEF CommandsAreAlone
<1>5. OverlapsAreCrossed'
  BY <1>a, <1>m DEF OverlapsAreCrossed
<1>6. CrossedBegan'
  BY <1>a, <1>m DEF CrossedBegan, TypeOK
<1>7. UsersMade'
  BY <1>a, <1>m DEF UsersMade, Settled
<1>8. RulesMade'
  BY <1>a, <1>m DEF RulesMade, TypeOK
<1>9. NobodyElseAssigns'
  BY <1>a, <1>m, MovedKeepsNobodyElseAssigns
<1>10. Assigned'
  BY <1>a, <1>m, <1>i DEF Assigned, Undisturbed
<1>11. Written'
  BY <1>a, <1>m, MovedKeepsWritten DEF Finished
<1>12. DoneIsClosedOnce'
  BY <1>a, <1>m DEF DoneIsClosedOnce
<1>13. MonitorIsStopped'
  BY <1>a DEF MonitorIsStopped
<1>14. FailedIsRepeatable'
  BY <1>a, <1>m DEF FailedIsRepeatable, UsersMade, RulesMade, CommandsAreAlone, StepsAsAsked,
     Settled
<1> QED
  BY <1>1, <1>2, <1>3, <1>4, <1>5, <1>6, <1>7, <1>8, <1>9, <1>10, <1>11, <1>12, <1>13, <1>14
     DEF Inv

(* The file is truncated: the latest attempt, if undisturbed, is the one   *)
(* that did so.                                                            *)
LEMMA CreateFileGoesOn ==
  ASSUME Inv, NEW q \in Attempts, At(q, "create"), file' = Empty, Goes(q, "write"), UNCHANGED proc,
         UNCHANGED <<run, broken, done, monitor, late, admin, rules, started, cfg, history>>
  PROVE  Inv'
<1> USE DEF Empty, Moved, At, Alive, Ours, Wizard, Busy, Steps, Done, Settings, procVars,
       diskVars, history
<1>a. TypeOK /\ Numbered /\ StepsAsAsked /\ CommandsAreAlone /\ OverlapsAreCrossed /\ CrossedBegan
        /\ UsersMade /\ RulesMade /\ NobodyElseAssigns /\ Assigned /\ Written /\ DoneIsClosedOnce
        /\ MonitorIsStopped /\ FailedIsRepeatable
  BY DEF Inv
<1>m. Moved(q, "write", att[q].half)
  BY <1>a, GoesMoves
<1>i. /\ \A p \in Attempts : Ours(p)' <=> Ours(p)
      /\ \A p \in Attempts : Repeated(p)' <=> Repeated(p)
      /\ \A p \in Attempts : Own(p)' = Own(p)
  BY <1>a, <1>m, MovedIdentifies
<1>1. TypeOK'
  BY <1>a, <1>m DEF TypeOK, Texts, Defaults
<1>2. Numbered'
  BY <1>a, <1>m, MovedKeepsNumbered
<1>3. StepsAsAsked'
  BY <1>a, <1>m DEF StepsAsAsked
<1>4. CommandsAreAlone'
  BY <1>a, <1>m DEF CommandsAreAlone
<1>5. OverlapsAreCrossed'
  BY <1>a, <1>m DEF OverlapsAreCrossed
<1>6. CrossedBegan'
  BY <1>a, <1>m DEF CrossedBegan, TypeOK
<1>7. UsersMade'
  BY <1>a, <1>m DEF UsersMade, Settled
<1>8. RulesMade'
  BY <1>a, <1>m DEF RulesMade, TypeOK
<1>9. NobodyElseAssigns'
  BY <1>a, <1>m, MovedKeepsNobodyElseAssigns
<1>10. Assigned'
  BY <1>a, <1>m, <1>i DEF Assigned, Undisturbed
<1>11. Written'
  <2> SUFFICES ASSUME NEW p \in Attempts, Undisturbed(p)', att'[p].pc \in Finished PROVE FALSE
    BY DEF Written
  <2>1. Undisturbed(p) /\ q \in Busy
    BY DEF Undisturbed
  <2>2. p = q
    BY <1>a, <2>1, LatestIsAlone
  <2> QED
    BY <1>m, <2>2 DEF Finished
<1>12. DoneIsClosedOnce'
  BY <1>a, <1>m DEF DoneIsClosedOnce
<1>13. MonitorIsStopped'
  BY <1>a DEF MonitorIsStopped
<1>14. FailedIsRepeatable'
  BY <1>a, <1>m DEF FailedIsRepeatable
<1> QED
  BY <1>1, <1>2, <1>3, <1>4, <1>5, <1>6, <1>7, <1>8, <1>9, <1>10, <1>11, <1>12, <1>13, <1>14
     DEF Inv

(* The file is written: by an attempt alone it holds its settings.         *)
LEMMA WriteFileGoesOn ==
  ASSUME Inv, NEW q \in Attempts, At(q, "write"), Goes(q, AfterSave(q)), UNCHANGED proc,
         file' \in {Whole(cfg)} \cup (IF file.state = "empty" THEN {} ELSE {Torn}),
         UNCHANGED <<run, broken, done, monitor, late, admin, rules, started, cfg, history>>
  PROVE  Inv'
<1> USE DEF Whole, Torn, AfterSave, Moved, At, Alive, Ours, Wizard, Busy, Steps, Done, Settings,
       procVars, diskVars, history
<1>a. TypeOK /\ Numbered /\ StepsAsAsked /\ CommandsAreAlone /\ OverlapsAreCrossed /\ CrossedBegan
        /\ UsersMade /\ RulesMade /\ NobodyElseAssigns /\ Assigned /\ Written /\ DoneIsClosedOnce
        /\ MonitorIsStopped /\ FailedIsRepeatable
  BY DEF Inv
<1>m. Moved(q, AfterSave(q), att[q].half)
  BY <1>a, GoesMoves
<1>i. /\ \A p \in Attempts : Ours(p)' <=> Ours(p)
      /\ \A p \in Attempts : Repeated(p)' <=> Repeated(p)
      /\ \A p \in Attempts : Own(p)' = Own(p)
  BY <1>a, <1>m, MovedIdentifies
<1>1. TypeOK'
  BY <1>a, <1>m DEF TypeOK, Texts, Defaults
<1>2. Numbered'
  BY <1>a, <1>m, MovedKeepsNumbered
<1>3. StepsAsAsked'
  BY <1>a, <1>m DEF StepsAsAsked
<1>4. CommandsAreAlone'
  BY <1>a, <1>m DEF CommandsAreAlone
<1>5. OverlapsAreCrossed'
  BY <1>a, <1>m DEF OverlapsAreCrossed
<1>6. CrossedBegan'
  BY <1>a, <1>m DEF CrossedBegan, TypeOK
<1>7. UsersMade'
  <2>1. att[q].mode = "server" => att'[q].pc = "user" /\ att'[q].mode = "server"
    BY <1>m
  <2>2. ASSUME NEW u \in Names, NEW p \in Attempts, admin'[u] = p
        PROVE  att'[p].pc \in Settled \cup {"failed"}
    BY <1>a, <1>m, <2>2 DEF UsersMade, Settled
  <2>3. ASSUME NEW p \in Attempts, att'[p].pc \in Settled, att'[p].mode = "server"
        PROVE  admin'[att'[p].name] = p
    <3>1. p # q
      <4> SUFFICES ASSUME p = q PROVE FALSE
        OBVIOUS
      <4>1. att[q].mode = "server"
        BY <1>m, <2>3
      <4>2. att'[q].pc = "user"
        BY <2>1, <4>1
      <4> QED
        BY <2>3, <4>2 DEF Settled
    <3> QED
      BY <1>a, <1>m, <2>3, <3>1 DEF UsersMade
  <2> QED
    BY <2>2, <2>3 DEF UsersMade
<1>8. RulesMade'
  BY <1>a, <1>m DEF RulesMade, TypeOK
<1>9. NobodyElseAssigns'
  BY <1>a, <1>m, MovedKeepsNobodyElseAssigns
<1>10. Assigned'
  BY <1>a, <1>m, AttemptsAreNumbers DEF Assigned, Undisturbed, OverlapsAreCrossed
<1>11. Written'
  <2> SUFFICES ASSUME NEW p \in Attempts, Undisturbed(p)', att'[p].pc \in Finished PROVE FileIs(p)'
    BY DEF Written
  <2>1. Undisturbed(p) /\ q \in Busy
    BY DEF Undisturbed
  <2>2. p = q
    BY <1>a, <2>1, LatestIsAlone
  <2>3. file' = Whole(cfg) /\ \A s \in Own(p) : cfg[s] = p
    BY <1>a, <2>1, <2>2 DEF Assigned
  <2>4. Repeated(p) \/ \A s \in Settings \ Own(p) : cfg[s] = Unset
    BY <1>a, <2>2 DEF NobodyElseAssigns
  <2> QED
    BY <1>i, <2>3, <2>4 DEF FileIs
<1>12. DoneIsClosedOnce'
  BY <1>a, <1>m DEF DoneIsClosedOnce
<1>13. MonitorIsStopped'
  BY <1>a DEF MonitorIsStopped
<1>14. FailedIsRepeatable'
  BY <1>a, <1>m DEF FailedIsRepeatable
<1> QED
  BY <1>1, <1>2, <1>3, <1>4, <1>5, <1>6, <1>7, <1>8, <1>9, <1>10, <1>11, <1>12, <1>13, <1>14
     DEF Inv

(* The user is made under a name that is free.                             *)
LEMMA CreateUserGoesOn ==
  ASSUME Inv, NEW q \in Attempts, At(q, "user"), Goes(q, AfterUser(q)), UNCHANGED proc,
         admin[att[q].name] = Unset, admin' = [admin EXCEPT ![att[q].name] = q],
         UNCHANGED <<run, broken, done, monitor, late, file, rules, started, cfg, history>>
  PROVE  Inv'
<1> USE DEF AfterUser, Moved, At, Alive, Ours, Wizard, Busy, Steps, Done, Settings, procVars,
       diskVars, history
<1>a. TypeOK /\ Numbered /\ StepsAsAsked /\ CommandsAreAlone /\ OverlapsAreCrossed /\ CrossedBegan
        /\ UsersMade /\ RulesMade /\ NobodyElseAssigns /\ Assigned /\ Written /\ DoneIsClosedOnce
        /\ MonitorIsStopped /\ FailedIsRepeatable
  BY DEF Inv
<1>m. Moved(q, AfterUser(q), att[q].half)
  BY <1>a, GoesMoves
<1>i. /\ \A p \in Attempts : Ours(p)' <=> Ours(p)
      /\ \A p \in Attempts : Repeated(p)' <=> Repeated(p)
      /\ \A p \in Attempts : Own(p)' = Own(p)
  BY <1>a, <1>m, MovedIdentifies
<1>1. TypeOK'
  BY <1>a, <1>m DEF TypeOK
<1>2. Numbered'
  BY <1>a, <1>m, MovedKeepsNumbered
<1>3. StepsAsAsked'
  BY <1>a, <1>m DEF StepsAsAsked
<1>4. CommandsAreAlone'
  BY <1>a, <1>m DEF CommandsAreAlone
<1>5. OverlapsAreCrossed'
  BY <1>a, <1>m DEF OverlapsAreCrossed
<1>6. CrossedBegan'
  BY <1>a, <1>m DEF CrossedBegan, TypeOK
<1>7. UsersMade'
  <2>1. q # Unset /\ att[q].mode = "server" /\ att[q].name \in Names
    BY <1>a, AskedIsAsk, AttemptsAreNumbers DEF StepsAsAsked, Ask
  <2>2. ASSUME NEW u \in Names, NEW p \in Attempts, admin'[u] = p
        PROVE  att'[p].pc \in Settled \cup {"failed"}
    BY <1>a, <1>m, <2>2 DEF UsersMade, Settled
  <2>3. ASSUME NEW p \in Attempts, att'[p].pc \in Settled, att'[p].mode = "server"
        PROVE  admin'[att'[p].name] = p
    BY <1>a, <1>m, <2>1, <2>3, AttemptsAreNumbers DEF UsersMade, TypeOK
  <2> QED
    BY <2>2, <2>3 DEF UsersMade
<1>8. RulesMade'
  BY <1>a, <1>m DEF RulesMade, TypeOK
<1>9. NobodyElseAssigns'
  BY <1>a, <1>m, MovedKeepsNobodyElseAssigns
<1>10. Assigned'
  BY <1>a, <1>m, <1>i DEF Assigned, Undisturbed
<1>11. Written'
  BY <1>a, <1>m, MovedKeepsWritten DEF Finished
<1>12. DoneIsClosedOnce'
  BY <1>a, <1>m DEF DoneIsClosedOnce
<1>13. MonitorIsStopped'
  BY <1>a DEF MonitorIsStopped
<1>14. FailedIsRepeatable'
  BY <1>a, <1>m DEF FailedIsRepeatable
<1> QED
  BY <1>1, <1>2, <1>3, <1>4, <1>5, <1>6, <1>7, <1>8, <1>9, <1>10, <1>11, <1>12, <1>13, <1>14
     DEF Inv

(* The service is started or a note says that it is not.                   *)
LEMMA InstallSystemdGoesOn ==
  ASSUME Inv, NEW q \in Attempts, At(q, "service"), Goes(q, "reply"), started' \in {started, started \cup {q}}, UNCHANGED proc,
         UNCHANGED <<run, broken, done, monitor, late, file, admin, rules, cfg, history>>
  PROVE  Inv'
<1> USE DEF Moved, At, Alive, Ours, Wizard, Busy, Steps, Done, Settings, procVars, diskVars,
       history
<1>a. TypeOK /\ Numbered /\ StepsAsAsked /\ CommandsAreAlone /\ OverlapsAreCrossed /\ CrossedBegan
        /\ UsersMade /\ RulesMade /\ NobodyElseAssigns /\ Assigned /\ Written /\ DoneIsClosedOnce
        /\ MonitorIsStopped /\ FailedIsRepeatable
  BY DEF Inv
<1>m. Moved(q, "reply", att[q].half)
  BY <1>a, GoesMoves
<1>i. /\ \A p \in Attempts : Ours(p)' <=> Ours(p)
      /\ \A p \in Attempts : Repeated(p)' <=> Repeated(p)
      /\ \A p \in Attempts : Own(p)' = Own(p)
  BY <1>a, <1>m, MovedIdentifies
<1>1. TypeOK'
  BY <1>a, <1>m DEF TypeOK
<1>2. Numbered'
  BY <1>a, <1>m, MovedKeepsNumbered
<1>3. StepsAsAsked'
  BY <1>a, <1>m DEF StepsAsAsked
<1>4. CommandsAreAlone'
  BY <1>a, <1>m DEF CommandsAreAlone
<1>5. OverlapsAreCrossed'
  BY <1>a, <1>m DEF OverlapsAreCrossed
<1>6. CrossedBegan'
  BY <1>a, <1>m DEF CrossedBegan, TypeOK
<1>7. UsersMade'
  BY <1>a, <1>m DEF UsersMade, Settled
<1>8. RulesMade'
  BY <1>a, <1>m DEF RulesMade, TypeOK
<1>9. NobodyElseAssigns'
  BY <1>a, <1>m, MovedKeepsNobodyElseAssigns
<1>10. Assigned'
  BY <1>a, <1>m, <1>i DEF Assigned, Undisturbed
<1>11. Written'
  BY <1>a, <1>m, MovedKeepsWritten DEF Finished
<1>12. DoneIsClosedOnce'
  BY <1>a, <1>m DEF DoneIsClosedOnce
<1>13. MonitorIsStopped'
  BY <1>a DEF MonitorIsStopped
<1>14. FailedIsRepeatable'
  BY <1>a, <1>m DEF FailedIsRepeatable
<1> QED
  BY <1>1, <1>2, <1>3, <1>4, <1>5, <1>6, <1>7, <1>8, <1>9, <1>10, <1>11, <1>12, <1>13, <1>14
     DEF Inv

(* The wizard answers, and its goroutine waits.                            *)
LEMMA ReplyOfWizard ==
  ASSUME Inv, NEW q \in Attempts, At(q, "reply"), Wizard, Goes(q, "sleep"), UNCHANGED proc,
         UNCHANGED <<run, broken, done, monitor, late, diskVars, cfg, history>>
  PROVE  Inv'
<1> USE DEF Moved, At, Alive, Ours, Wizard, Busy, Steps, Done, Settings, procVars, diskVars,
       history
<1>a. TypeOK /\ Numbered /\ StepsAsAsked /\ CommandsAreAlone /\ OverlapsAreCrossed /\ CrossedBegan
        /\ UsersMade /\ RulesMade /\ NobodyElseAssigns /\ Assigned /\ Written /\ DoneIsClosedOnce
        /\ MonitorIsStopped /\ FailedIsRepeatable
  BY DEF Inv
<1>m. Moved(q, "sleep", att[q].half)
  BY <1>a, GoesMoves
<1>i. /\ \A p \in Attempts : Ours(p)' <=> Ours(p)
      /\ \A p \in Attempts : Repeated(p)' <=> Repeated(p)
      /\ \A p \in Attempts : Own(p)' = Own(p)
  BY <1>a, <1>m, MovedIdentifies
<1>1. TypeOK'
  BY <1>a, <1>m DEF TypeOK
<1>2. Numbered'
  BY <1>a, <1>m, MovedKeepsNumbered
<1>3. StepsAsAsked'
  BY <1>a, <1>m DEF StepsAsAsked
<1>4. CommandsAreAlone'
  BY DEF CommandsAreAlone
<1>5. OverlapsAreCrossed'
  BY <1>a, <1>m DEF OverlapsAreCrossed
<1>6. CrossedBegan'
  BY <1>a, <1>m DEF CrossedBegan, TypeOK
<1>7. UsersMade'
  BY <1>a, <1>m DEF UsersMade, Settled
<1>8. RulesMade'
  BY <1>a, <1>m DEF RulesMade, TypeOK
<1>9. NobodyElseAssigns'
  BY <1>a, <1>m, MovedKeepsNobodyElseAssigns
<1>10. Assigned'
  BY <1>a, <1>m, <1>i DEF Assigned, Undisturbed
<1>11. Written'
  BY <1>a, <1>m, MovedKeepsWritten DEF Finished
<1>12. DoneIsClosedOnce'
  BY <1>a, <1>m DEF DoneIsClosedOnce
<1>13. MonitorIsStopped'
  BY <1>a DEF MonitorIsStopped
<1>14. FailedIsRepeatable'
  BY <1>a, <1>m DEF FailedIsRepeatable
<1> QED
  BY <1>1, <1>2, <1>3, <1>4, <1>5, <1>6, <1>7, <1>8, <1>9, <1>10, <1>11, <1>12, <1>13, <1>14
     DEF Inv

(* A command ends with its one attempt.                                    *)
LEMMA ReplyOfCommand ==
  ASSUME Inv, NEW q \in Attempts, At(q, "reply"), ~Wizard, Goes(q, "quit"), proc' = "ended",
         UNCHANGED <<run, broken, done, monitor, late, diskVars, cfg, history>>
  PROVE  Inv'
<1> USE DEF Moved, At, Alive, Ours, Wizard, Busy, Steps, Done, Settings, procVars, diskVars,
       history
<1>a. TypeOK /\ Numbered /\ StepsAsAsked /\ CommandsAreAlone /\ OverlapsAreCrossed /\ CrossedBegan
        /\ UsersMade /\ RulesMade /\ NobodyElseAssigns /\ Assigned /\ Written /\ DoneIsClosedOnce
        /\ MonitorIsStopped /\ FailedIsRepeatable
  BY DEF Inv
<1>m. Moved(q, "quit", att[q].half)
  BY <1>a, GoesMoves
<1>i. /\ \A p \in Attempts : Ours(p)' <=> Ours(p)
      /\ \A p \in Attempts : Repeated(p)' <=> Repeated(p)
      /\ \A p \in Attempts : Own(p)' = Own(p)
  BY <1>a, <1>m, MovedIdentifies
<1>1. TypeOK'
  BY <1>a, <1>m DEF TypeOK, Procs
<1>2. Numbered'
  BY <1>a, <1>m, MovedKeepsNumbered
<1>3. StepsAsAsked'
  BY <1>a, <1>m DEF StepsAsAsked
<1>4. CommandsAreAlone'
  BY <1>a, <1>m DEF CommandsAreAlone
<1>5. OverlapsAreCrossed'
  BY <1>a, <1>m DEF OverlapsAreCrossed
<1>6. CrossedBegan'
  BY <1>a, <1>m DEF CrossedBegan, TypeOK
<1>7. UsersMade'
  BY <1>a, <1>m DEF UsersMade, Settled
<1>8. RulesMade'
  BY <1>a, <1>m DEF RulesMade, TypeOK
<1>9. NobodyElseAssigns'
  BY <1>a, <1>m, MovedKeepsNobodyElseAssigns
<1>10. Assigned'
  BY <1>a, <1>m, <1>i DEF Assigned, Undisturbed
<1>11. Written'
  BY <1>a, <1>m, MovedKeepsWritten DEF Finished
<1>12. DoneIsClosedOnce'
  BY <1>m DEF DoneIsClosedOnce
<1>13. MonitorIsStopped'
  BY <1>a DEF MonitorIsStopped
<1>14. FailedIsRepeatable'
  BY <1>a, <1>m DEF FailedIsRepeatable
<1> QED
  BY <1>1, <1>2, <1>3, <1>4, <1>5, <1>6, <1>7, <1>8, <1>9, <1>10, <1>11, <1>12, <1>13, <1>14
     DEF Inv

(* The goroutine that closes done first.                                   *)
LEMMA ClosesDone ==
  ASSUME Inv, NEW q \in Attempts, At(q, "closing"), ~done, done' = TRUE, UNCHANGED proc, Goes(q, "quit"),
         UNCHANGED <<run, broken, monitor, late, diskVars, cfg, history>>
  PROVE  Inv'
<1> USE DEF Moved, At, Alive, Ours, Wizard, Busy, Steps, Done, Settings, procVars, diskVars,
       history
<1>a. TypeOK /\ Numbered /\ StepsAsAsked /\ CommandsAreAlone /\ OverlapsAreCrossed /\ CrossedBegan
        /\ UsersMade /\ RulesMade /\ NobodyElseAssigns /\ Assigned /\ Written /\ DoneIsClosedOnce
        /\ MonitorIsStopped /\ FailedIsRepeatable
  BY DEF Inv
<1>m. Moved(q, "quit", att[q].half)
  BY <1>a, GoesMoves
<1>i. /\ \A p \in Attempts : Ours(p)' <=> Ours(p)
      /\ \A p \in Attempts : Repeated(p)' <=> Repeated(p)
      /\ \A p \in Attempts : Own(p)' = Own(p)
  BY <1>a, <1>m, MovedIdentifies
<1>1. TypeOK'
  BY <1>a, <1>m DEF TypeOK
<1>2. Numbered'
  BY <1>a, <1>m, MovedKeepsNumbered
<1>3. StepsAsAsked'
  BY <1>a, <1>m DEF StepsAsAsked
<1>4. CommandsAreAlone'
  BY <1>a DEF CommandsAreAlone
<1>5. OverlapsAreCrossed'
  BY <1>a, <1>m DEF OverlapsAreCrossed
<1>6. CrossedBegan'
  BY <1>a, <1>m DEF CrossedBegan, TypeOK
<1>7. UsersMade'
  BY <1>a, <1>m DEF UsersMade, Settled
<1>8. RulesMade'
  BY <1>a, <1>m DEF RulesMade, TypeOK
<1>9. NobodyElseAssigns'
  BY <1>a, <1>m, MovedKeepsNobodyElseAssigns
<1>10. Assigned'
  BY <1>a, <1>m, <1>i DEF Assigned, Undisturbed
<1>11. Written'
  BY <1>a, <1>m, MovedKeepsWritten DEF Finished
<1>12. DoneIsClosedOnce'
  BY <1>m DEF DoneIsClosedOnce
<1>13. MonitorIsStopped'
  BY <1>a DEF MonitorIsStopped
<1>14. FailedIsRepeatable'
  BY <1>a, <1>m DEF FailedIsRepeatable
<1> QED
  BY <1>1, <1>2, <1>3, <1>4, <1>5, <1>6, <1>7, <1>8, <1>9, <1>10, <1>11, <1>12, <1>13, <1>14
     DEF Inv

(* The second one, after another attempt that succeeded, too.              *)
LEMMA ClosesDoneAgain ==
  ASSUME Inv, NEW q \in Attempts, At(q, "closing"), done, UNCHANGED done, proc' = "panicked", Goes(q, "quit"),
         UNCHANGED <<run, broken, monitor, late, diskVars, cfg, history>>
  PROVE  Inv'
<1> USE DEF Moved, At, Alive, Ours, Wizard, Busy, Steps, Done, Settings, procVars, diskVars,
       history
<1>a. TypeOK /\ Numbered /\ StepsAsAsked /\ CommandsAreAlone /\ OverlapsAreCrossed /\ CrossedBegan
        /\ UsersMade /\ RulesMade /\ NobodyElseAssigns /\ Assigned /\ Written /\ DoneIsClosedOnce
        /\ MonitorIsStopped /\ FailedIsRepeatable
  BY DEF Inv
<1>m. Moved(q, "quit", att[q].half)
  BY <1>a, GoesMoves
<1>i. /\ \A p \in Attempts : Ours(p)' <=> Ours(p)
      /\ \A p \in Attempts : Repeated(p)' <=> Repeated(p)
      /\ \A p \in Attempts : Own(p)' = Own(p)
  BY <1>a, <1>m, MovedIdentifies
<1>1. TypeOK'
  BY <1>a, <1>m DEF TypeOK, Procs
<1>2. Numbered'
  BY <1>a, <1>m, MovedKeepsNumbered
<1>3. StepsAsAsked'
  BY <1>a, <1>m DEF StepsAsAsked
<1>4. CommandsAreAlone'
  BY <1>a DEF CommandsAreAlone
<1>5. OverlapsAreCrossed'
  BY <1>a, <1>m DEF OverlapsAreCrossed
<1>6. CrossedBegan'
  BY <1>a, <1>m DEF CrossedBegan, TypeOK
<1>7. UsersMade'
  BY <1>a, <1>m DEF UsersMade, Settled
<1>8. RulesMade'
  BY <1>a, <1>m DEF RulesMade, TypeOK
<1>9. NobodyElseAssigns'
  BY <1>a, <1>m, MovedKeepsNobodyElseAssigns
<1>10. Assigned'
  BY <1>a, <1>m, <1>i DEF Assigned, Undisturbed
<1>11. Written'
  BY <1>a, <1>m, MovedKeepsWritten DEF Finished
<1>12. DoneIsClosedOnce'
  BY <1>a, <1>m DEF DoneIsClosedOnce, Ok
<1>13. MonitorIsStopped'
  BY <1>a DEF MonitorIsStopped
<1>14. FailedIsRepeatable'
  BY <1>a, <1>m DEF FailedIsRepeatable
<1> QED
  BY <1>1, <1>2, <1>3, <1>4, <1>5, <1>6, <1>7, <1>8, <1>9, <1>10, <1>11, <1>12, <1>13, <1>14
     DEF Inv

(* Steps of the process and its monitor leave disk, memory and attempts as *)
(* they are.                                                               *)
LEMMA ProcessStepKeeps ==
  ASSUME Inv, UNCHANGED <<run, diskVars, cfg, att, history>>,
         TypeOK', DoneIsClosedOnce', MonitorIsStopped'
  PROVE  Inv'
<1>1. UNCHANGED <<run, file, admin, rules, started, latest, crossed, cfg, att>>
  BY DEF diskVars, history
<1>2. /\ Numbered' /\ StepsAsAsked' /\ CommandsAreAlone' /\ OverlapsAreCrossed'
      /\ CrossedBegan' /\ UsersMade' /\ RulesMade'
  BY <1>1 DEF Inv, Numbered, StepsAsAsked, CommandsAreAlone, OverlapsAreCrossed, CrossedBegan,
     UsersMade, RulesMade, Wizard, Ours, Busy
<1>3. NobodyElseAssigns' /\ Assigned' /\ Written' /\ FailedIsRepeatable'
  BY <1>1 DEF Inv, NobodyElseAssigns, Assigned, Written, Undisturbed, Ours, Own, Repeated,
     FileIs, FailedIsRepeatable
<1> QED
  BY <1>2, <1>3 DEF Inv

(* Nor does the monitor: a command has none, and a late one is noted.      *)
LEMMA StartMonitorKeeps == ASSUME Inv, StartMonitor PROVE Inv'
<1>1. TypeOK'
  BY DEF StartMonitor, Inv, TypeOK, diskVars, history
<1>2. DoneIsClosedOnce'
  BY DEF StartMonitor, Inv, DoneIsClosedOnce, Ours, Ok
<1>3. MonitorIsStopped'
  BY DEF StartMonitor, MonitorIsStopped, Wizard, Alive
<1> QED
  BY <1>1, <1>2, <1>3, ProcessStepKeeps DEF StartMonitor, diskVars, history

(* Stopping it leaves no more behind.                                      *)
LEMMA StopMonitorKeeps == ASSUME Inv, StopMonitor PROVE Inv'
<1>1. TypeOK'
  BY DEF StopMonitor, Inv, TypeOK, diskVars, history
<1>2. DoneIsClosedOnce'
  BY DEF StopMonitor, Inv, DoneIsClosedOnce, Ours, Ok
<1>3. MonitorIsStopped'
  BY DEF StopMonitor, MonitorIsStopped
<1> QED
  BY <1>1, <1>2, <1>3, ProcessStepKeeps DEF StopMonitor, diskVars, history

(* Only a closed channel lets the server return.                           *)
LEMMA ListenAndServeReturnsKeeps == ASSUME Inv, ListenAndServeReturns PROVE Inv'
<1>1. TypeOK'
  BY DEF ListenAndServeReturns, Inv, TypeOK, Procs, diskVars, history
<1>2. DoneIsClosedOnce'
  BY DEF ListenAndServeReturns, Inv, DoneIsClosedOnce, Ours
<1>3. MonitorIsStopped'
  BY DEF ListenAndServeReturns, MonitorIsStopped, Wizard
<1> QED
  BY <1>1, <1>2, <1>3, ProcessStepKeeps DEF ListenAndServeReturns, diskVars, history

(* A listener that fails is noted.                                         *)
LEMMA ListenAndServeFailsKeeps == ASSUME Inv, ListenAndServeFails PROVE Inv'
<1>1. TypeOK'
  BY DEF ListenAndServeFails, Inv, TypeOK, Procs, diskVars, history
<1>2. DoneIsClosedOnce'
  BY DEF ListenAndServeFails, Inv, DoneIsClosedOnce, Ours
<1>3. MonitorIsStopped'
  BY DEF ListenAndServeFails, MonitorIsStopped, Wizard
<1> QED
  BY <1>1, <1>2, <1>3, ProcessStepKeeps DEF ListenAndServeFails, diskVars, history

(* The deferred stop.                                                      *)
LEMMA CleanUpKeeps == ASSUME Inv, CleanUp PROVE Inv'
<1>1. TypeOK'
  BY DEF CleanUp, Inv, TypeOK, Procs, diskVars, history
<1>2. DoneIsClosedOnce'
  BY DEF CleanUp, Inv, DoneIsClosedOnce, Ours, Wizard
<1>3. MonitorIsStopped'
  BY DEF CleanUp, MonitorIsStopped
<1> QED
  BY <1>1, <1>2, <1>3, ProcessStepKeeps DEF CleanUp, diskVars, history

(* What runs when main returns has been started late.                      *)
LEMMA ExitKeeps == ASSUME Inv, Exit PROVE Inv'
<1>1. TypeOK'
  BY DEF Exit, Inv, TypeOK, Procs, diskVars, history
<1>2. DoneIsClosedOnce'
  BY DEF Exit, Inv, DoneIsClosedOnce, Ours, Wizard
<1>3. MonitorIsStopped'
  BY DEF Exit, Inv, MonitorIsStopped, Wizard
<1> QED
  BY <1>1, <1>2, <1>3, ProcessStepKeeps DEF Exit, diskVars, history

(* A process that is killed promises nothing.                              *)
LEMMA InterruptKeeps == ASSUME Inv, Interrupt PROVE Inv'
<1>1. TypeOK'
  BY DEF Interrupt, Inv, TypeOK, Procs, diskVars, history
<1>2. DoneIsClosedOnce'
  BY DEF Interrupt, Inv, DoneIsClosedOnce, Ours
<1>3. MonitorIsStopped'
  BY DEF Interrupt, Inv, MonitorIsStopped, Wizard
<1> QED
  BY <1>1, <1>2, <1>3, ProcessStepKeeps DEF Interrupt, diskVars, history

(* The next run finds the disk as it is and a fresh configuration in       *)
(* memory.                                                                 *)
LEMMA RunAgainKeeps ==
  ASSUME Inv, RunAgain
  PROVE  Inv'
<1> USE DEF RunAgain, At, Alive, Ours, Wizard, Busy, Steps, Done, Settings, procVars, diskVars,
       history
<1>a. TypeOK /\ Numbered /\ StepsAsAsked /\ CommandsAreAlone /\ OverlapsAreCrossed /\ CrossedBegan
        /\ UsersMade /\ RulesMade /\ NobodyElseAssigns /\ Assigned /\ Written /\ DoneIsClosedOnce
        /\ MonitorIsStopped /\ FailedIsRepeatable
  BY DEF Inv
<1>r. run'.n = run.n + 1 /\ run' \in [n : 1 .. MaxRuns, kind : Kinds] /\ run.n \in Nat
  BY <1>a, SetupAssumption DEF TypeOK
<1>1. TypeOK'
  <2>1. Defaults \in Texts
    BY DEF Defaults, Texts
  <2> QED
    BY <1>a, <1>r, <2>1 DEF TypeOK, Procs
<1>2. Numbered'
  <2>1. ASSUME NEW p \in Attempts, p <= latest PROVE att[p].run <= run'.n
    <3>1. att[p].pc # "new" /\ att[p].run <= run.n
      BY <1>a, <2>1 DEF Numbered
    <3>2. att[p].run \in Nat
      BY <1>a, <3>1, AskedIsAsk DEF Ask
    <3> QED
      BY <1>r, <3>1, <3>2
  <2> QED
    BY <1>a, <2>1 DEF Numbered
<1>3. StepsAsAsked'
  <2>1. \A p \in Attempts : ~(Ours(p))'
    BY <1>a DEF TypeOK, Numbered
  <2> QED
    BY <1>a, <2>1 DEF StepsAsAsked
<1>4. CommandsAreAlone'
  BY <1>a DEF CommandsAreAlone, TypeOK, Numbered
<1>5. OverlapsAreCrossed'
  BY <1>a DEF OverlapsAreCrossed, TypeOK, Numbered
<1>6. CrossedBegan'
  BY <1>a DEF CrossedBegan
<1>7. UsersMade'
  BY <1>a DEF UsersMade
<1>8. RulesMade'
  BY <1>a DEF RulesMade, TypeOK, Numbered
<1>9. NobodyElseAssigns'
  BY DEF NobodyElseAssigns, Defaults
<1>10. Assigned'
  BY <1>a DEF Assigned, TypeOK, Numbered
<1>11. Written'
  BY <1>a DEF Written, Undisturbed, FileIs, Repeated, Own
<1>12. DoneIsClosedOnce'
  BY DEF DoneIsClosedOnce
<1>13. MonitorIsStopped'
  BY DEF MonitorIsStopped
<1>14. FailedIsRepeatable'
  BY <1>a DEF FailedIsRepeatable
<1> QED
  BY <1>1, <1>2, <1>3, <1>4, <1>5, <1>6, <1>7, <1>8, <1>9, <1>10, <1>11, <1>12, <1>13, <1>14
     DEF Inv

(* A client without a key leaves that setting alone.                       *)
LEMMA SkipKeyKeeps ==
  ASSUME Inv, NEW q \in Attempts, SkipKey(q)
  PROVE  Inv'
<1> USE DEF SkipKey, Moved, At, Alive, Ours, Wizard, Busy, Steps, Done, Settings, procVars,
       diskVars, history
<1>a. TypeOK /\ Numbered /\ StepsAsAsked /\ CommandsAreAlone /\ OverlapsAreCrossed /\ CrossedBegan
        /\ UsersMade /\ RulesMade /\ NobodyElseAssigns /\ Assigned /\ Written /\ DoneIsClosedOnce
        /\ MonitorIsStopped /\ FailedIsRepeatable
  BY DEF Inv
<1>m. Moved(q, "create", att[q].half)
  BY <1>a, GoesMoves
<1>1. TypeOK'
  BY <1>a, <1>m DEF TypeOK
<1>2. Numbered'
  BY <1>a, <1>m, MovedKeepsNumbered
<1>3. StepsAsAsked'
  BY <1>a, <1>m DEF StepsAsAsked
<1>4. CommandsAreAlone'
  BY <1>a, <1>m DEF CommandsAreAlone
<1>5. OverlapsAreCrossed'
  BY <1>a, <1>m DEF OverlapsAreCrossed
<1>6. CrossedBegan'
  BY <1>a, <1>m DEF CrossedBegan, TypeOK
<1>7. UsersMade'
  BY <1>a, <1>m DEF UsersMade, Settled
<1>8. RulesMade'
  BY <1>a, <1>m DEF RulesMade, TypeOK
<1>9. NobodyElseAssigns'
  BY <1>a, <1>m, MovedKeepsNobodyElseAssigns
<1>10. Assigned'
  BY <1>a, <1>m DEF Assigned, Undisturbed, Own
<1>11. Written'
  BY <1>a, <1>m, MovedKeepsWritten DEF Finished
<1>12. DoneIsClosedOnce'
  BY <1>a, <1>m DEF DoneIsClosedOnce
<1>13. MonitorIsStopped'
  BY <1>a DEF MonitorIsStopped
<1>14. FailedIsRepeatable'
  BY <1>a, <1>m DEF FailedIsRepeatable
<1> QED
  BY <1>1, <1>2, <1>3, <1>4, <1>5, <1>6, <1>7, <1>8, <1>9, <1>10, <1>11, <1>12, <1>13, <1>14
     DEF Inv

(* The wizard makes rules, after the user.                                 *)
LEMMA CreateRulesKeeps ==
  ASSUME Inv, NEW q \in Attempts, CreateRules(q)
  PROVE  Inv'
<1> USE DEF CreateRules, Moved, At, Alive, Ours, Wizard, Busy, Steps, Done, Settings, procVars,
       diskVars, history
<1>a. TypeOK /\ Numbered /\ StepsAsAsked /\ CommandsAreAlone /\ OverlapsAreCrossed /\ CrossedBegan
        /\ UsersMade /\ RulesMade /\ NobodyElseAssigns /\ Assigned /\ Written /\ DoneIsClosedOnce
        /\ MonitorIsStopped /\ FailedIsRepeatable
  BY DEF Inv
<1>m. Moved(q, IF att[q].service THEN "service" ELSE "reply", att[q].half)
  BY <1>a, GoesMoves
<1>i. /\ \A p \in Attempts : Ours(p)' <=> Ours(p)
      /\ \A p \in Attempts : Repeated(p)' <=> Repeated(p)
      /\ \A p \in Attempts : Own(p)' = Own(p)
  BY <1>a, <1>m, MovedIdentifies
<1>1. TypeOK'
  BY <1>a, <1>m DEF TypeOK
<1>2. Numbered'
  BY <1>a, <1>m, MovedKeepsNumbered
<1>3. StepsAsAsked'
  BY <1>a, <1>m DEF StepsAsAsked
<1>4. CommandsAreAlone'
  BY <1>a DEF CommandsAreAlone
<1>5. OverlapsAreCrossed'
  BY <1>a, <1>m DEF OverlapsAreCrossed
<1>6. CrossedBegan'
  BY <1>a, <1>m DEF CrossedBegan, TypeOK
<1>7. UsersMade'
  BY <1>a, <1>m DEF UsersMade, Settled
<1>8. RulesMade'
  BY <1>a, <1>m DEF RulesMade, TypeOK, CommandsAreAlone
<1>9. NobodyElseAssigns'
  BY <1>a, <1>m, MovedKeepsNobodyElseAssigns
<1>10. Assigned'
  BY <1>a, <1>m, <1>i DEF Assigned, Undisturbed
<1>11. Written'
  BY <1>a, <1>m, MovedKeepsWritten DEF Finished
<1>12. DoneIsClosedOnce'
  BY <1>a, <1>m DEF DoneIsClosedOnce
<1>13. MonitorIsStopped'
  BY <1>a DEF MonitorIsStopped
<1>14. FailedIsRepeatable'
  BY <1>a, <1>m DEF FailedIsRepeatable
<1> QED
  BY <1>1, <1>2, <1>3, <1>4, <1>5, <1>6, <1>7, <1>8, <1>9, <1>10, <1>11, <1>12, <1>13, <1>14
     DEF Inv

(* Whoever finds done open will close it.                                  *)
LEMMA FindDoneKeeps ==
  ASSUME Inv, NEW q \in Attempts, FindDone(q)
  PROVE  Inv'
<1> USE DEF FindDone, Moved, At, Alive, Ours, Wizard, Busy, Steps, Done, Settings, procVars,
       diskVars, history
<1>a. TypeOK /\ Numbered /\ StepsAsAsked /\ CommandsAreAlone /\ OverlapsAreCrossed /\ CrossedBegan
        /\ UsersMade /\ RulesMade /\ NobodyElseAssigns /\ Assigned /\ Written /\ DoneIsClosedOnce
        /\ MonitorIsStopped /\ FailedIsRepeatable
  BY DEF Inv
<1>m. Moved(q, IF done THEN "quit" ELSE "closing", att[q].half)
  BY <1>a, GoesMoves
<1>i. /\ \A p \in Attempts : Ours(p)' <=> Ours(p)
      /\ \A p \in Attempts : Repeated(p)' <=> Repeated(p)
      /\ \A p \in Attempts : Own(p)' = Own(p)
  BY <1>a, <1>m, MovedIdentifies
<1>1. TypeOK'
  BY <1>a, <1>m DEF TypeOK
<1>2. Numbered'
  BY <1>a, <1>m, MovedKeepsNumbered
<1>3. StepsAsAsked'
  BY <1>a, <1>m DEF StepsAsAsked
<1>4. CommandsAreAlone'
  BY <1>a DEF CommandsAreAlone
<1>5. OverlapsAreCrossed'
  BY <1>a, <1>m DEF OverlapsAreCrossed
<1>6. CrossedBegan'
  BY <1>a, <1>m DEF CrossedBegan, TypeOK
<1>7. UsersMade'
  BY <1>a, <1>m DEF UsersMade, Settled
<1>8. RulesMade'
  BY <1>a, <1>m DEF RulesMade, TypeOK
<1>9. NobodyElseAssigns'
  BY <1>a, <1>m, MovedKeepsNobodyElseAssigns
<1>10. Assigned'
  BY <1>a, <1>m, <1>i DEF Assigned, Undisturbed
<1>11. Written'
  BY <1>a, <1>m, MovedKeepsWritten DEF Finished
<1>12. DoneIsClosedOnce'
  BY <1>a, <1>m DEF DoneIsClosedOnce
<1>13. MonitorIsStopped'
  BY <1>a DEF MonitorIsStopped
<1>14. FailedIsRepeatable'
  BY <1>a, <1>m DEF FailedIsRepeatable
<1> QED
  BY <1>1, <1>2, <1>3, <1>4, <1>5, <1>6, <1>7, <1>8, <1>9, <1>10, <1>11, <1>12, <1>13, <1>14
     DEF Inv

(* Half a string is nobody's setting, but its own attempt is not past it.  *)
LEMMA AssignFirstWordKeeps ==
  ASSUME Inv, NEW q \in Attempts, NEW s \in Settings, AssignFirstWord(q, s)
  PROVE  Inv'
<1> USE DEF AssignFirstWord, Moved, At, Alive, Ours, Wizard, Busy, Steps, Done, Settings,
       procVars, diskVars, history
<1>a. TypeOK /\ Numbered /\ StepsAsAsked /\ CommandsAreAlone /\ OverlapsAreCrossed /\ CrossedBegan
        /\ UsersMade /\ RulesMade /\ NobodyElseAssigns /\ Assigned /\ Written /\ DoneIsClosedOnce
        /\ MonitorIsStopped /\ FailedIsRepeatable
  BY DEF Inv
<1>m. Moved(q, s, TRUE)
  BY <1>a, FirstMoves
<1>1. TypeOK'
  BY <1>a, <1>m DEF TypeOK, Texts
<1>2. Numbered'
  <2>1. att[q].pc # "new" /\ UNCHANGED <<run, latest>> /\ s \in Steps
    OBVIOUS
  <2> QED
    BY ONLY <1>a, <1>m, <2>1, MovedKeepsNumbered
<1>3. StepsAsAsked'
  BY <1>a DEF StepsAsAsked
<1>4. CommandsAreAlone'
  BY <1>a DEF CommandsAreAlone
<1>5. OverlapsAreCrossed'
  BY <1>a DEF OverlapsAreCrossed
<1>6. CrossedBegan'
  BY <1>a DEF CrossedBegan
<1>7. UsersMade'
  BY <1>a DEF UsersMade
<1>8. RulesMade'
  BY <1>a DEF RulesMade
<1>9. NobodyElseAssigns'
  BY <1>a DEF NobodyElseAssigns, Repeated, Own, StepsAsAsked
<1>10. Assigned'
  BY <1>a, AttemptsAreNumbers DEF Assigned, Undisturbed, OverlapsAreCrossed
<1>11. Written'
  BY <1>a, <1>m, MovedKeepsWritten DEF Finished
<1>12. DoneIsClosedOnce'
  BY <1>a DEF DoneIsClosedOnce
<1>13. MonitorIsStopped'
  BY <1>a DEF MonitorIsStopped
<1>14. FailedIsRepeatable'
  BY <1>a DEF FailedIsRepeatable
<1> QED
  BY <1>1, <1>2, <1>3, <1>4, <1>5, <1>6, <1>7, <1>8, <1>9, <1>10, <1>11, <1>12, <1>13, <1>14
     DEF Inv

(* The whole string is its attempt's.                                      *)
LEMMA AssignSecondWordKeeps ==
  ASSUME Inv, NEW q \in Attempts, NEW s \in Settings, AssignSecondWord(q, s)
  PROVE  Inv'
<1> USE DEF AssignSecondWord, Moved, At, Alive, Ours, Wizard, Busy, Steps, Done, Settings,
       procVars, diskVars, history
<1>a. TypeOK /\ Numbered /\ StepsAsAsked /\ CommandsAreAlone /\ OverlapsAreCrossed /\ CrossedBegan
        /\ UsersMade /\ RulesMade /\ NobodyElseAssigns /\ Assigned /\ Written /\ DoneIsClosedOnce
        /\ MonitorIsStopped /\ FailedIsRepeatable
  BY DEF Inv
<1>m. PICK pc \in {"key", "create"} :
             /\ Moved(q, pc, FALSE)
             /\ pc = (IF s = "addr" THEN "key" ELSE "create")
  BY <1>a, Updates
<1>1. TypeOK'
  BY <1>a DEF TypeOK, Ask, New
<1>2. Numbered'
  <2> HIDE DEF Moved
  <2>1. att[q].pc # "new" /\ pc \in Steps \cup Done \cup {"failed"} /\ UNCHANGED <<run, latest>>
    OBVIOUS
  <2> QED
    BY <1>a, <1>m, <2>1, MovedKeepsNumbered
<1>3. StepsAsAsked'
  BY <1>a, <1>m DEF StepsAsAsked
<1>4. CommandsAreAlone'
  BY <1>a, <1>m DEF CommandsAreAlone
<1>5. OverlapsAreCrossed'
  BY <1>a, <1>m DEF OverlapsAreCrossed
<1>6. CrossedBegan'
  BY <1>a DEF CrossedBegan, TypeOK
<1>7. UsersMade'
  BY <1>a, <1>m DEF UsersMade, Settled
<1>8. RulesMade'
  BY <1>a DEF RulesMade, TypeOK
<1>9. NobodyElseAssigns'
  BY <1>a, <1>m DEF NobodyElseAssigns, Repeated, Own, StepsAsAsked
<1>10. Assigned'
  BY <1>a, AttemptsAreNumbers DEF Assigned, TypeOK, Texts, Modes, Undisturbed, Own,
     OverlapsAreCrossed, StepsAsAsked
<1>11. Written'
  BY <1>a, <1>m, MovedKeepsWritten DEF Finished
<1>12. DoneIsClosedOnce'
  BY <1>a, <1>m DEF DoneIsClosedOnce
<1>13. MonitorIsStopped'
  BY <1>a DEF MonitorIsStopped
<1>14. FailedIsRepeatable'
  BY <1>a, <1>m DEF FailedIsRepeatable
<1> QED
  BY <1>1, <1>2, <1>3, <1>4, <1>5, <1>6, <1>7, <1>8, <1>9, <1>10, <1>11, <1>12, <1>13, <1>14
     DEF Inv

(* A new attempt has made nothing yet, and overlaps with those at work.    *)
LEMMA BeginKeeps ==
  ASSUME Inv, NEW q \in Attempts, NEW mode \in Modes, NEW name \in 1 .. q, NEW given \in BOOLEAN,
         NEW service \in BOOLEAN, Begin(q, mode, name, given, service)
  PROVE  Inv'
<1> USE DEF Begin, First, New, At, Alive, Ours, Wizard, Busy, Steps, Done, Settings, procVars,
       diskVars, history
<1>a. TypeOK /\ Numbered /\ StepsAsAsked /\ CommandsAreAlone /\ OverlapsAreCrossed /\ CrossedBegan
        /\ UsersMade /\ RulesMade /\ NobodyElseAssigns /\ Assigned /\ Written /\ DoneIsClosedOnce
        /\ MonitorIsStopped /\ FailedIsRepeatable
  BY DEF Inv
<1>b. /\ att[q].pc = "new" /\ q = latest + 1 /\ latest' = q
      /\ att'[q] = [run |-> run.n, mode |-> mode, name |-> name, given |-> given,
                    service |-> service, half |-> FALSE, pc |-> First(mode, given)]
      /\ \A p \in Attempts \ {q} : att'[p] = att[p]
  BY <1>a DEF TypeOK, Numbered
<1>n. name \in Names /\ run.n \in 1 .. MaxRuns
  BY <1>a, SetupAssumption DEF TypeOK, Names, Attempts
<1>t. att' \in [Attempts -> Ask \cup {New}] /\ att'[q] \in Ask
  <2>1. att'[q] \in Ask
    BY <1>b, <1>n DEF Ask
  <2>2. att' = [att EXCEPT ![q] = att'[q]]
    OBVIOUS
  <2> QED
    <3>1. att \in [Attempts -> Ask \cup {New}]
      BY <1>a DEF TypeOK
    <3> HIDE DEF New, Begin
    <3> QED
      BY <2>1, <2>2, <3>1
<1>1. TypeOK'
  <2>1. latest' \in 0 .. MaxAttempts
    BY DEF Attempts
  <2>2. crossed' \subseteq Attempts
    BY <1>a DEF TypeOK
  <2> QED
    BY <1>a, <1>t, <2>1, <2>2 DEF TypeOK
<1>2. Numbered'
  BY <1>a DEF Numbered, TypeOK, Texts
<1>3. StepsAsAsked'
  BY <1>a DEF StepsAsAsked, Modes
<1>4. CommandsAreAlone'
  <2> SUFFICES ASSUME ~Wizard, NEW r \in Attempts, Ours(r)'
               PROVE  /\ r \notin crossed' /\ att'[r].pc \notin {"rules", "sleep", "closing"}
                      /\ \A p \in Attempts : Ours(p)' => p = r
    BY DEF CommandsAreAlone
  <2>1. \A p \in Attempts : ~Ours(p)
    OBVIOUS
  <2>2. \A p \in Attempts : Ours(p)' => p = q
    OBVIOUS
  <2>3. Busy = {} /\ crossed' = crossed
    OBVIOUS
  <2> QED
    BY <1>a, <1>b, <2>2, <2>3 DEF CrossedBegan
<1>5. OverlapsAreCrossed'
  <2> SUFFICES ASSUME NEW p \in Attempts, NEW r \in Attempts, p < r, Ours(r)', p \in Busy'
               PROVE  p \in crossed' /\ r \in crossed'
    BY DEF OverlapsAreCrossed
  <2>1. r <= q
    BY <1>a DEF Numbered, TypeOK
  <2>2. p # q /\ p \in Busy
    BY <2>1
  <2>3. CASE r = q
    BY <2>3
  <2>4. CASE r # q
    <3>1. Ours(r)
      BY <2>4
    <3> QED
      BY <1>a, <2>2, <3>1 DEF OverlapsAreCrossed
  <2> QED
    BY <2>3, <2>4
<1>6. CrossedBegan'
  BY <1>a DEF CrossedBegan, TypeOK
<1>7. UsersMade'
  <2>1. att'[q].pc \notin Settled
    BY <1>b DEF Settled
  <2>2. ASSUME NEW u \in Names, NEW p \in Attempts, admin[u] = p
        PROVE  att'[p].pc \in Settled \cup {"failed"}
    <3>1. p # q
      BY <1>a, <1>b, <2>2 DEF UsersMade, Settled
    <3> QED
      BY <1>a, <1>b, <2>2, <3>1 DEF UsersMade
  <2>3. ASSUME NEW p \in Attempts, att'[p].pc \in Settled, att'[p].mode = "server"
        PROVE  admin[att'[p].name] = p
    <3>1. p # q
      BY <2>1, <2>3
    <3> QED
      BY <1>a, <1>b, <2>3, <3>1 DEF UsersMade
  <2> QED
    BY <2>2, <2>3 DEF UsersMade, diskVars
<1>8. RulesMade'
  BY <1>a, <1>b DEF RulesMade
<1>9. NobodyElseAssigns'
  BY <1>a DEF NobodyElseAssigns, TypeOK, Repeated, Defaults, Numbered
<1>10. Assigned'
  BY DEF Assigned, Modes, Undisturbed, Own
<1>11. Written'
  BY <1>a DEF Written, TypeOK, Undisturbed, Finished
<1>12. DoneIsClosedOnce'
  BY <1>a DEF DoneIsClosedOnce, TypeOK, Numbered
<1>13. MonitorIsStopped'
  BY DEF MonitorIsStopped
<1>14. FailedIsRepeatable'
  BY <1>a DEF FailedIsRepeatable, TypeOK
<1> QED
  BY <1>1, <1>2, <1>3, <1>4, <1>5, <1>6, <1>7, <1>8, <1>9, <1>10, <1>11, <1>12, <1>13, <1>14
     DEF Inv

(* The exchange of credentials fails in the wizard only, before the key.   *)
LEMMA ExchangeFailsKeeps == ASSUME Inv, NEW q \in Attempts, ExchangeFails(q) PROVE Inv'
  BY FailsKeeps DEF ExchangeFails, At

(* Creating the file: done or failed.                                      *)
LEMMA CreateFileKeeps == ASSUME Inv, NEW q \in Attempts, CreateFile(q) PROVE Inv'
  BY FailsKeeps, CreateFileGoesOn DEF CreateFile, At, diskVars

(* Writing it: done or failed.                                             *)
LEMMA WriteFileKeeps == ASSUME Inv, NEW q \in Attempts, WriteFile(q) PROVE Inv'
  BY FailsKeeps, WriteFileGoesOn DEF WriteFile, At, diskVars

(* The user: made or refused.                                              *)
LEMMA CreateUserKeeps == ASSUME Inv, NEW q \in Attempts, CreateUser(q) PROVE Inv'
  BY FailsKeeps, CreateUserGoesOn DEF CreateUser, At, diskVars

(* The service: started, noted, or failed.                                 *)
LEMMA InstallSystemdKeeps == ASSUME Inv, NEW q \in Attempts, InstallSystemd(q) PROVE Inv'
  BY FailsKeeps, InstallSystemdGoesOn DEF InstallSystemd, At, diskVars

(* The answer, of a wizard or a command.                                   *)
LEMMA ReplyKeeps == ASSUME Inv, NEW q \in Attempts, Reply(q) PROVE Inv'
  BY ReplyOfWizard, ReplyOfCommand DEF Reply

(* Closing done, for the first or the second time.                         *)
LEMMA CloseDoneKeeps == ASSUME Inv, NEW q \in Attempts, CloseDone(q) PROVE Inv'
  BY ClosesDone, ClosesDoneAgain DEF CloseDone

(* No step of an attempt breaks the invariant.                             *)
LEMMA AttemptStepKeeps ==
  ASSUME Inv, NEW q \in Attempts, AttemptStep(q)
  PROVE  Inv'
<1>1. ASSUME NEW mode \in Modes, NEW name \in 1 .. q, NEW given \in BOOLEAN, NEW service \in BOOLEAN,
             Begin(q, mode, name, given, service)
      PROVE  Inv'
  BY <1>1, BeginKeeps
<1>2. ASSUME NEW s \in Settings, AssignFirstWord(q, s) \/ AssignSecondWord(q, s)
      PROVE  Inv'
  BY <1>2, AssignFirstWordKeeps, AssignSecondWordKeeps
<1>3. CASE SkipKey(q) \/ ExchangeFails(q)
  BY <1>3, SkipKeyKeeps, ExchangeFailsKeeps
<1>4. CASE CreateFile(q) \/ WriteFile(q)
  BY <1>4, CreateFileKeeps, WriteFileKeeps
<1>5. CASE CreateUser(q) \/ CreateRules(q)
  BY <1>5, CreateUserKeeps, CreateRulesKeeps
<1>6. CASE InstallSystemd(q) \/ Reply(q)
  BY <1>6, InstallSystemdKeeps, ReplyKeeps
<1> QED
  BY <1>1, <1>2, <1>3, <1>4, <1>5, <1>6 DEF AttemptStep

(* Nor does what leaves everything as it is.                               *)
LEMMA StutterKeeps == ASSUME Inv, UNCHANGED vars PROVE Inv'
<1>1. UNCHANGED <<run, broken, proc, done, monitor, late, diskVars, cfg, att, history>>
  BY DEF vars, procVars
<1>2. TypeOK'
  BY <1>1 DEF Inv, TypeOK, diskVars, history
<1>3. DoneIsClosedOnce' /\ MonitorIsStopped'
  BY <1>1 DEF Inv, DoneIsClosedOnce, MonitorIsStopped, Ours, Ok, Wizard
<1> QED
  BY <1>1, <1>2, <1>3, ProcessStepKeeps

(* No step breaks the invariant.                                           *)
LEMMA NextKeeps == Inv /\ [Next]_vars => Inv'
<1> SUFFICES ASSUME Inv, [Next]_vars PROVE Inv'
  OBVIOUS
<1>1. ASSUME NEW q \in Attempts, AttemptStep(q) PROVE Inv'
  BY <1>1, AttemptStepKeeps
<1>2. ASSUME EndStep PROVE Inv'
  BY <1>2, FindDoneKeeps, CloseDoneKeeps, ListenAndServeReturnsKeeps, CleanUpKeeps, ExitKeeps
     DEF EndStep
<1>3. CASE StartMonitor \/ StopMonitor \/ ListenAndServeFails
  BY <1>3, StartMonitorKeeps, StopMonitorKeeps, ListenAndServeFailsKeeps
<1>4. CASE Interrupt \/ RunAgain
  BY <1>4, InterruptKeeps, RunAgainKeeps
<1>5. CASE UNCHANGED vars
  BY <1>5, StutterKeeps
<1> QED
  BY <1>1, <1>2, <1>3, <1>4, <1>5 DEF Next

(* For any numbers of attempts and runs the invariant holds in every state *)
(* of setup.                                                               *)
THEOREM SetupCorrect == Spec => []Inv
<1>1. Init => Inv
  BY InitInv
<1>2. Inv /\ [Next]_vars => Inv'
  BY NextKeeps
<1> QED
  BY <1>1, <1>2, PTL DEF Spec

(* Memory, disk, process and attempts hold values of their types.          *)
THEOREM TypeCorrect == Spec => []TypeOK
<1>1. Inv => TypeOK
  BY DEF Inv
<1> QED
  BY <1>1, SetupCorrect, PTL

(* Whoever was told that setup is complete, and was not overlapped or      *)
(* followed by another attempt, has what was asked for.                    *)
THEOREM ToldTrue == Spec => []ToldIsTrue
<1>1. Inv => ToldIsTrue
  <2> SUFFICES ASSUME Inv, NEW q \in Attempts, Ok(q), q = latest, q \notin crossed
               PROVE  FileIs(q) /\ (att[q].mode = "server" => admin[att[q].name] = q)
    BY DEF ToldIsTrue
  <2>1. Undisturbed(q) /\ att[q].pc \in Done
    BY DEF Undisturbed, Ok
  <2>2. FileIs(q)
    BY <2>1 DEF Inv, Written, Finished
  <2> QED
    BY <2>1, <2>2 DEF Inv, UsersMade, Settled
<1> QED
  BY <1>1, SetupCorrect, PTL

(* An attempt that failed can be made once more.                           *)
THEOREM Repeatable == Spec => []FailedIsRepeatable
<1>1. Inv => FailedIsRepeatable
  BY DEF Inv
<1> QED
  BY <1>1, SetupCorrect, PTL

(* The wizard ends itself only after a success or because its listener     *)
(* failed, closes its channel only after a success, and panics only after  *)
(* two.                                                                    *)
THEOREM EndsOnlyOnSuccess == Spec => []EndsOnSuccess
<1>1. Inv => EndsOnSuccess
  BY DEF Inv, EndsOnSuccess, DoneIsClosedOnce, Ok, Done
<1> QED
  BY <1>1, SetupCorrect, PTL

(* A wizard that ends leaves no monitor behind, unless one was started     *)
(* after its deferred stop.                                                *)
THEOREM NothingLeft == Spec => []NothingLeftBehind
<1>1. Inv => NothingLeftBehind
  BY DEF Inv, NothingLeftBehind, MonitorIsStopped
<1> QED
  BY <1>1, SetupCorrect, PTL

(* Only its own installation starts the service for an attempt.            *)
LEMMA OnlyInstallStarts ==
  ASSUME Inv, [Next]_vars, NEW q \in started' \ started
  PROVE  q \in Attempts /\ InstallSystemd(q)
<1>1. ASSUME UNCHANGED diskVars PROVE FALSE
  BY <1>1 DEF diskVars
<1>2. ASSUME UNCHANGED started PROVE FALSE
  BY <1>2
<1>3. ASSUME NEW p \in Attempts, AttemptStep(p) PROVE InstallSystemd(p)
  BY <1>1, <1>3 DEF AttemptStep, Begin, AssignFirstWord, AssignSecondWord, SkipKey,
     ExchangeFails, CreateFile, WriteFile, CreateUser, CreateRules, Reply
<1>4. ASSUME EndStep PROVE FALSE
  BY <1>1, <1>4 DEF EndStep, FindDone, CloseDone, ListenAndServeReturns, CleanUp, Exit
<1>5. ASSUME \/ StartMonitor \/ StopMonitor \/ ListenAndServeFails
             \/ Interrupt \/ RunAgain \/ UNCHANGED vars
      PROVE  FALSE
  BY <1>1, <1>5 DEF StartMonitor, StopMonitor, ListenAndServeFails, Interrupt, RunAgain, vars
<1>6. PICK p \in Attempts : InstallSystemd(p)
  BY <1>3, <1>4, <1>5 DEF Next
<1>7. started' \subseteq started \cup {p}
  BY <1>6 DEF InstallSystemd
<1> QED
  BY <1>6, <1>7

(* The service is started only on a configuration that is the attempt's    *)
(* own, unless attempts overlapped, for a server that has a user, and for  *)
(* a client that has a key or was set up by the interactive command.       *)
THEOREM StartsOnConfigured == Spec => StartsConfigured
<1>1. ASSUME Inv, [Next]_vars, NEW q \in started' \ started
      PROVE  /\ q \in crossed \/ FileIs(q)
             /\ att[q].mode = "server" => \E u \in Names : admin[u] = q
             /\ att[q].mode = "client" /\ run.kind # "interactive" /\ q \notin crossed =>
                    file.text["key"] = q
  <2>1. q \in Attempts /\ Ours(q) /\ att[q].pc = "service"
    BY <1>1, OnlyInstallStarts DEF InstallSystemd, At
  <2>2. att[q].mode = "server" => \E u \in Names : admin[u] = q
    BY <1>1, <2>1, AskedIsAsk DEF Inv, UsersMade, Settled, Ask
  <2>3. ASSUME q \notin crossed PROVE q = latest
    <3>1. q \in Busy
      BY <2>1 DEF Busy, Steps
    <3>2. latest \in Attempts /\ q <= latest /\ Ours(latest)
      BY <1>1, <2>1, LatestIsOurs DEF Inv
    <3> QED
      BY <1>1, <2>1, <2>3, <3>1, <3>2, AttemptsAreNumbers DEF Inv, OverlapsAreCrossed
  <2>4. q \notin crossed => FileIs(q)
    BY <1>1, <2>1, <2>3 DEF Inv, Written, Undisturbed, Finished
  <2>5. att[q].mode = "client" /\ run.kind # "interactive" => att[q].given
    BY <1>1, <2>1 DEF Inv, StepsAsAsked, Ours
  <2>6. att[q].mode = "client" /\ run.kind # "interactive" => "key" \in Own(q)
    BY <2>5 DEF Own
  <2> QED
    BY <2>2, <2>4, <2>6 DEF FileIs
<1>2. Inv /\ [Next]_vars =>
        [\A q \in started' \ started :
            /\ q \in crossed \/ FileIs(q)
            /\ att[q].mode = "server" => \E u \in Names : admin[u] = q
            /\ att[q].mode = "client" /\ run.kind # "interactive" /\ q \notin crossed =>
                   file.text["key"] = q]_started
  BY <1>1
<1> QED
  BY <1>2, SetupCorrect, PTL DEF Spec, StartsConfigured
================================================================================
