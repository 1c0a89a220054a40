-------------------------------- MODULE Setup --------------------------------
(***************************************************************************)
(* ubr setup (internal/setup): the web wizard, the interactive and the     *)
(* unattended command, and what they leave for the server and the client:  *)
(* the configuration file, the administrator, the rules, the service.      *)
(*                                                                         *)
(* An attempt is one save request of the wizard or one run of a command.   *)
(* The wizard serves its requests concurrently from one configuration in   *)
(* memory, without a lock (wizard.go:121, 256-298).  A setting is named by *)
(* the attempt it came from.  A file is torn when two writers overlap and  *)
(* the shorter text leaves the end of the longer one standing.             *)
(***************************************************************************)
EXTENDS Naturals

CONSTANTS
    MaxAttempts,   \* bound: attempts to set up, numbered as they begin
    MaxRuns        \* bound: runs of ubr setup

ASSUME SetupAssumption == MaxAttempts \in Nat /\ MaxRuns \in Nat \ {0}

Attempts == 1 .. MaxAttempts
Names    == Attempts          \* user names, numbered as they are first asked for
Unset    == 0                  \* a setting that has its default
Garbled  == MaxAttempts + 1    \* a string only one of whose words is assigned
Modes    == {"server", "client"}
Kinds    == {"wizard", "interactive", "unattended"}
Settings == {"iface", "addr", "key"}     \* Server.Interface, Client.ServerAddress, Client.APIKey
Texts    == [Settings -> Attempts \cup {Unset, Garbled}]
Defaults == [s \in Settings |-> Unset]

VARIABLES
    run,        \* the run of ubr setup: its number and kind
    proc,       \* its process, see Procs
    cfg,        \* its configuration in memory
    done,       \* the channel done is closed
    monitor,    \* the monitor runs and its temporary directory exists
    file,       \* the configuration file: its state, and its text when whole
    admin,      \* the users table: the attempt that made the user
    rules,      \* attempts whose rules are in the table
    started,    \* attempts that started the service
    att,        \* an attempt: what it asks for and how far it is
    \* History.
    broken,     \* the wizard's listener has failed
    latest,     \* the attempt begun last
    crossed,    \* attempts that overlapped with another of their run
    late        \* a monitor was started after the run had cleaned up

procVars == <<run, proc, done, monitor, broken, late>>
diskVars == <<file, admin, rules, started>>
history  == <<latest, crossed>>
vars     == <<procVars, diskVars, cfg, att, history>>

\* "returned": ListenAndServe has; "leaving": the deferred stopMonitor has run.
Procs == {"serving", "returned", "leaving", "ended", "killed", "panicked"}
Steps == Settings \cup {"create", "write", "user", "rules", "service", "reply"}
Done  == {"sleep", "closing", "quit"}    \* answered with success; the wizard's ender

Ask     == [run : 1 .. MaxRuns, mode : Modes, name : Names, given : BOOLEAN,
            service : BOOLEAN, half : BOOLEAN, pc : Steps \cup Done \cup {"failed"}]
New     == [pc |-> "new"]
Nothing == [state |-> "none", text |-> Defaults]
Empty   == [state |-> "empty", text |-> Defaults]
Torn    == [state |-> "torn", text |-> Defaults]
Whole(text) == [state |-> "whole", text |-> text]

Alive       == proc \in {"serving", "returned", "leaving"}
Wizard      == run.kind = "wizard"
Ours(q)     == att[q].pc # "new" /\ att[q].run = run.n
At(q, pc)   == Alive /\ Ours(q) /\ att[q].pc = pc
Goes(q, pc) == att' = [att EXCEPT ![q].pc = pc]
Busy        == {q \in Attempts : Ours(q) /\ att[q].pc \in Steps}
Ok(q)       == att[q].pc \in Done

Init ==
    /\ run \in [n : {1}, kind : Kinds]
    /\ proc = "serving" /\ cfg = Defaults
    /\ done = FALSE /\ monitor = FALSE /\ broken = FALSE /\ late = FALSE
    /\ file = Nothing /\ admin = [u \in Names |-> Unset] /\ rules = {} /\ started = {}
    /\ att = [q \in Attempts |-> New]
    /\ latest = 0 /\ crossed = {}

-----------------------------------------------------------------------------
(* The wizard's monitor: one mutex covers each of its operations.          *)

\* startMonitor stops the one before; its directory or database may not be made.
StartMonitor ==
    /\ Alive /\ Wizard
    /\ monitor' \in BOOLEAN
    /\ late' = (late \/ (monitor' /\ proc = "leaving"))
    /\ UNCHANGED <<run, broken, proc, done, diskVars, cfg, att, history>>

\* POST stop-monitor, and a save that is refused for a missing field.
StopMonitor ==
    /\ Alive /\ Wizard /\ monitor
    /\ monitor' = FALSE
    /\ UNCHANGED <<run, broken, proc, done, late, diskVars, cfg, att, history>>

-----------------------------------------------------------------------------
(* An attempt.                                                             *)

\* The first setting it assigns: the server's only if it was given.
First(mode, given) ==
    IF mode = "client" THEN "addr" ELSE IF given THEN "iface" ELSE "create"

\* A command makes one attempt, and the unattended one installs no service.
\* Only the interactive one sets up a client without a key.
Begin(q, mode, name, given, service) ==
    /\ Alive /\ q = latest + 1
    /\ Wizard \/ \A p \in Attempts : ~Ours(p)
    /\ run.kind = "unattended" => ~service
    /\ mode = "client" => given \/ run.kind = "interactive"
    /\ monitor' = FALSE
    /\ att' = [att EXCEPT ![q] = [run |-> run.n, mode |-> mode, name |-> name, given |-> given,
                                  service |-> service, half |-> FALSE, pc |-> First(mode, given)]]
    /\ latest' = q
    /\ crossed' = IF Busy = {} THEN crossed ELSE crossed \cup Busy \cup {q}
    /\ UNCHANGED <<run, broken, proc, done, late, diskVars, cfg>>

\* An error ends it: a 500 of the wizard, the end of a command.
Fails(q) ==
    /\ Goes(q, "failed")
    /\ proc' = IF Wizard THEN proc ELSE "ended"

\* Assigning a string of the shared cfg stores two words.
AssignFirstWord(q, s) ==
    /\ At(q, s) /\ ~att[q].half
    /\ s = "key" => att[q].given
    /\ cfg' = [cfg EXCEPT ![s] = Garbled]
    /\ att' = [att EXCEPT ![q].half = TRUE]
    /\ UNCHANGED <<procVars, diskVars, history>>

AssignSecondWord(q, s) ==
    /\ At(q, s) /\ att[q].half
    /\ cfg' = [cfg EXCEPT ![s] = q]
    /\ att' = [att EXCEPT ![q].half = FALSE, ![q].pc = IF s = "addr" THEN "key" ELSE "create"]
    /\ UNCHANGED <<procVars, diskVars, history>>

\* Interactive, credentials chosen: the client asks for them later.
SkipKey(q) ==
    /\ At(q, "key") /\ ~att[q].given
    /\ Goes(q, "create")
    /\ UNCHANGED <<procVars, diskVars, cfg, history>>

\* exchangeCredentialsForAPIKey: the server is not reached or refuses.  A key it
\* grants is a key like one that was typed in.
ExchangeFails(q) ==
    /\ At(q, "key") /\ Wizard /\ ~att[q].half
    /\ Fails(q)
    /\ UNCHANGED <<run, broken, done, monitor, late, diskVars, cfg, history>>

\* Mutant: the file is opened without truncating it.
OpenFile(q) ==
    /\ At(q, "create")
    /\ \/ /\ file' = IF file = Nothing THEN Empty ELSE file
          /\ Goes(q, "write") /\ UNCHANGED proc
       \/ Fails(q) /\ UNCHANGED file
    /\ UNCHANGED <<run, broken, done, monitor, late, admin, rules, started, cfg, history>>

\* MkdirAll and os.Create, which truncates.
CreateFile(q) ==
    /\ At(q, "create")
    /\ \/ file' = Empty /\ Goes(q, "write") /\ UNCHANGED proc
       \/ Fails(q) /\ UNCHANGED file
    /\ UNCHANGED <<run, broken, done, monitor, late, admin, rules, started, cfg, history>>

\* Mutant: the service before the user.
AfterSaveService(q) ==
    CASE att[q].service                           -> "service"
      [] att[q].mode = "server" /\ ~att[q].service -> "user"
      [] OTHER                                    -> "reply"

AfterSave(q) ==
    CASE att[q].mode = "server"                   -> "user"
      [] att[q].mode = "client" /\ att[q].service -> "service"
      [] OTHER                                    -> "reply"

\* toml's Encode: one write, at the offset of this writer's own descriptor.  A
\* string it reads between two words may not be readable at all: the panic is
\* caught by net/http.
WriteFile(q) ==
    /\ At(q, "write")
    /\ \/ /\ file' \in {Whole(cfg)} \cup (IF file.state = "empty" THEN {} ELSE {Torn})
          /\ Goes(q, AfterSave(q)) /\ UNCHANGED proc
       \/ Fails(q) /\ UNCHANGED file
    /\ UNCHANGED <<run, broken, done, monitor, late, admin, rules, started, cfg, history>>

AfterUser(q) ==
    CASE Wizard                     -> "rules"
      [] ~Wizard /\ att[q].service -> "service"
      [] OTHER                      -> "reply"

\* Open and CreateUser: the name is unique; the database may be locked.
CreateUser(q) ==
    /\ At(q, "user")
    /\ \/ /\ admin[att[q].name] = Unset
          /\ admin' = [admin EXCEPT ![att[q].name] = q]
          /\ Goes(q, AfterUser(q)) /\ UNCHANGED proc
       \/ Fails(q) /\ UNCHANGED admin
    /\ UNCHANGED <<run, broken, done, monitor, late, file, rules, started, cfg, history>>

\* Its rules; one that fails is logged only.
CreateRules(q) ==
    /\ At(q, "rules")
    /\ rules' \in {rules, rules \cup {q}}
    /\ Goes(q, IF att[q].service THEN "service" ELSE "reply")
    /\ UNCHANGED <<procVars, file, admin, started, cfg, history>>

\* Mutant: what fails is an error of the wizard, too.
InstallOrFail(q) ==
    /\ At(q, "service")
    /\ \/ started' = started \cup {q} /\ Goes(q, "reply") /\ UNCHANGED proc
       \/ UNCHANGED started /\ Fails(q)
    /\ UNCHANGED <<run, broken, done, monitor, late, file, admin, rules, cfg, history>>

\* installSystemd: what fails is a note of the wizard and an error of the command.
InstallSystemd(q) ==
    /\ At(q, "service")
    /\ \/ started' = started \cup {q} /\ Goes(q, "reply") /\ UNCHANGED proc
       \/ UNCHANGED started /\ Wizard /\ Goes(q, "reply") /\ UNCHANGED proc
       \/ UNCHANGED started /\ ~Wizard /\ Fails(q)
    /\ UNCHANGED <<run, broken, done, monitor, late, file, admin, rules, cfg, history>>

Reply(q) ==
    /\ At(q, "reply")
    /\ \/ Wizard /\ Goes(q, "sleep") /\ UNCHANGED proc
       \/ ~Wizard /\ Goes(q, "quit") /\ proc' = "ended"
    /\ UNCHANGED <<run, broken, done, monitor, late, diskVars, cfg, history>>

-----------------------------------------------------------------------------
(* The end of the wizard.                                                  *)

\* Mutant: the branches of the select swapped.
FindNotDone(q) ==
    /\ At(q, "sleep")
    /\ Goes(q, IF done THEN "closing" ELSE "quit")
    /\ UNCHANGED <<procVars, diskVars, cfg, history>>

\* Two seconds later, the select: done is closed unless it is.
FindDone(q) ==
    /\ At(q, "sleep")
    /\ Goes(q, IF done THEN "quit" ELSE "closing")
    /\ UNCHANGED <<procVars, diskVars, cfg, history>>

\* Closing a closed channel panics, in a goroutine nothing recovers.
CloseDone(q) ==
    /\ At(q, "closing")
    /\ \/ ~done /\ done' = TRUE /\ UNCHANGED proc
       \/ done /\ UNCHANGED done /\ proc' = "panicked"
    /\ Goes(q, "quit")
    /\ UNCHANGED <<run, broken, monitor, late, diskVars, cfg, history>>

\* Mutant: an answer is enough, whatever it is.
ReturnsOnAnswer ==
    /\ Wizard /\ proc = "serving"
    /\ \E q \in Attempts : Ours(q) /\ att[q].pc \in Done \cup {"failed"}
    /\ proc' = "returned"
    /\ UNCHANGED <<run, broken, done, monitor, late, diskVars, cfg, att, history>>

\* Shutdown: ListenAndServe returns at once, whatever requests still run.
ListenAndServeReturns ==
    /\ Wizard /\ proc = "serving" /\ done
    /\ proc' = "returned"
    /\ UNCHANGED <<run, broken, done, monitor, late, diskVars, cfg, att, history>>

\* Its port, found free and closed again, was taken; or accepting fails.
ListenAndServeFails ==
    /\ Wizard /\ proc = "serving"
    /\ proc' = "returned" /\ broken' = TRUE
    /\ UNCHANGED <<run, done, monitor, late, diskVars, cfg, att, history>>

\* Mutant: the monitor is left to itself.
LeaveMonitor ==
    /\ proc = "returned"
    /\ proc' = "leaving"
    /\ UNCHANGED <<run, broken, done, monitor, late, diskVars, cfg, att, history>>

CleanUp ==
    /\ proc = "returned"
    /\ proc' = "leaving" /\ monitor' = FALSE
    /\ UNCHANGED <<run, broken, done, late, diskVars, cfg, att, history>>

Exit ==
    /\ proc = "leaving"
    /\ proc' = "ended"
    /\ UNCHANGED <<run, broken, done, monitor, late, diskVars, cfg, att, history>>

\* Ctrl+C, at any point at which there is something to interrupt.
Interrupt ==
    /\ Alive /\ (monitor \/ Busy # {}) /\ proc' = "killed"
    /\ UNCHANGED <<run, broken, done, monitor, late, diskVars, cfg, att, history>>

\* ubr setup once more.
RunAgain ==
    /\ ~Alive /\ run.n < MaxRuns
    /\ run' \in [n : {run.n + 1}, kind : Kinds]
    /\ proc' = "serving" /\ cfg' = Defaults
    /\ done' = FALSE /\ monitor' = FALSE /\ broken' = FALSE /\ late' = FALSE
    /\ UNCHANGED <<diskVars, att, history>>

AttemptStep(q) ==
    \/ \E mode \in Modes, name \in 1 .. q, given, service \in BOOLEAN :
          Begin(q, mode, name, given, service)
    \/ \E s \in Settings : AssignFirstWord(q, s) \/ AssignSecondWord(q, s)
    \/ SkipKey(q) \/ ExchangeFails(q) \/ CreateFile(q) \/ WriteFile(q) \/ CreateUser(q)
    \/ CreateRules(q) \/ InstallSystemd(q) \/ Reply(q)

EndStep == (\E q \in Attempts : FindDone(q) \/ CloseDone(q)) \/ ListenAndServeReturns \/ CleanUp \/ Exit

Next == (\E q \in Attempts : AttemptStep(q)) \/ EndStep
        \/ ListenAndServeFails \/ StartMonitor \/ StopMonitor \/ Interrupt \/ RunAgain

Spec == Init /\ [][Next]_vars

\* Once two seconds have passed the ender runs, and main returns.
FairSpec == Spec /\ WF_vars(EndStep)

-----------------------------------------------------------------------------
(* Memory, disk, process and attempts hold values of their types.          *)
TypeOK ==
    /\ run \in [n : 1 .. MaxRuns, kind : Kinds] /\ proc \in Procs
    /\ cfg \in Texts /\ done \in BOOLEAN /\ monitor \in BOOLEAN
    /\ broken \in BOOLEAN /\ late \in BOOLEAN
    /\ file \in [state : {"none", "empty", "torn", "whole"}, text : Texts]
    /\ admin \in [Names -> Attempts \cup {Unset}]
    /\ rules \subseteq Attempts /\ started \subseteq Attempts
    /\ att \in [Attempts -> Ask \cup {New}]
    /\ latest \in 0 .. MaxAttempts /\ crossed \subseteq Attempts

\* Another attempt of its run was begun: in the wizard the configuration keeps
\* what that one assigned.
Repeated(q) == \E p \in Attempts \ {q} : att[p].pc # "new" /\ att[p].run = att[q].run

Own(q) ==
    CASE att[q].mode = "server" -> IF att[q].given THEN {"iface"} ELSE {}
      [] OTHER                  -> IF att[q].given THEN {"addr", "key"} ELSE {"addr"}

\* The file is whole and holds q's settings, and no others unless it was repeated.
FileIs(q) ==
    /\ file.state = "whole"
    /\ \A s \in Own(q) : file.text[s] = q
    /\ Repeated(q) \/ \A s \in Settings \ Own(q) : file.text[s] = Unset

(* Who was told that setup is complete, and was not overlapped or followed *)
(* by another attempt, has what was asked for, by the wizard as by the     *)
(* commands: the file is whole with its settings and the user is its own.  *)
ToldIsTrue ==
    \A q \in Attempts :
        Ok(q) /\ q = latest /\ q \notin crossed =>
            /\ FileIs(q)
            /\ att[q].mode = "server" => admin[att[q].name] = q

(* An attempt told that it failed can be made once more: it left no rules  *)
(* that the next would double, and no user that would be in its way, but   *)
(* for the interactive command when only the service could not be started. *)
FailedIsRepeatable ==
    \A q \in Attempts :
        att[q].pc = "failed" =>
            /\ q \notin rules
            /\ (\E u \in Names : admin[u] = q) => att[q].service /\ q \notin crossed

(* The service is started on a configuration that is whole and the         *)
(* attempt's own, unless attempts overlap, and a server's with a user,     *)
(* which server.Run requires: it can run.  A client's can if it has a key; *)
(* without one it would have to ask, and a service has no terminal.  Only  *)
(* the interactive command starts such a one (setup.go:126-152).           *)
StartsConfigured ==
    [][\A q \in started' \ started :
          /\ q \in crossed \/ FileIs(q)
          /\ att[q].mode = "server" => \E u \in Names : admin[u] = q
          /\ att[q].mode = "client" /\ run.kind # "interactive" /\ q \notin crossed =>
                 file.text["key"] = q]_started

(* The wizard ends itself only after a success or because its listener     *)
(* failed, and panics only when two attempts of the run succeeded.         *)
EndsOnSuccess ==
    /\ Wizard /\ proc \in {"returned", "leaving", "ended"} =>
           broken \/ \E q \in Attempts : Ours(q) /\ Ok(q)
    /\ done => \E q \in Attempts : Ours(q) /\ Ok(q)
    /\ proc = "panicked" => \E p, q \in Attempts : p # q /\ Ours(p) /\ Ours(q) /\ Ok(p) /\ Ok(q)

(* A wizard that ends leaves no monitor and no temporary directory behind, *)
(* unless a request started one after the deferred stop.                   *)
NothingLeftBehind ==
    proc = "ended" /\ monitor => late

(* Once an attempt of it has succeeded the wizard ends.                    *)
WizardEnds ==
    (\E q \in Attempts : Ours(q) /\ Ok(q)) ~> ~Alive
=============================================================================
