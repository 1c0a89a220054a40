------------------------------- MODULE Updater -------------------------------
(***************************************************************************)
(* Self-update on Unix (internal/updater): the release cached by a         *)
(* Checker, Apply with its file operations, and Restart; and its callers,  *)
(* the web handlers of the server, which share one Checker                 *)
(* (handleUpdateApply), or the update commands a client receives, each     *)
(* with a Checker and a goroutine of its own (handleUpdateCommand).        *)
(*                                                                         *)
(* The names that matter are those of the executable with n suffixes       *)
(* ".bak", and of each with ".new" appended.  A name is a link to a file:  *)
(* a download writes to the file it opened, whatever name that has by      *)
(* then.  So does the running process stay with its file: os.Executable    *)
(* reads /proc/self/exe (Linux), which is the last name of that file, and  *)
(* Apply renames it.  Every system call that changes the directory is a    *)
(* step, and nothing keeps two updates apart.                              *)
(***************************************************************************)
EXTENDS Naturals, FiniteSetsExt

CONSTANTS
    Versions,      \* versions, <<major, minor, patch>>
    Tasks,         \* updates that may be under way at the same time
    Shared,        \* the server's Checker
    Files,         \* bound: files (inodes)
    Depth,         \* bound: suffixes ".bak" that updates append
    NoFile,        \* a name that does not exist; no process
    NoRelease,     \* Checker.latest is nil
    CanFail,       \* the system calls that may fail
    MaxUpdates,    \* bound: updates that begin
    MaxCrashes     \* bound: crashes of the process

ASSUME UpdaterAssumption ==
    /\ Versions \subseteq [1 .. 3 -> Nat]
    /\ Shared \notin Tasks
    /\ Depth \in Nat \ {0}
    /\ NoFile \notin Files
    /\ NoRelease \notin Versions
    /\ CanFail \subseteq {"download", "backup", "replace", "rollback"}
    /\ MaxUpdates \in Nat /\ MaxCrashes \in Nat

VARIABLES
    bin,       \* the file of each name of the executable, by its suffixes
    new,       \* and of that name with ".new"
    file,      \* a file: the versions its bytes come from, whether they are all
               \* there, whether it may be executed
    side,      \* which program is installed: "server" or "client"
    running,   \* the version of the running process
    up,        \* the process runs
    self,      \* the file it was started from
    path,      \* os.Executable: the suffixes of the last name of that file
    released,  \* the latest release on GitHub
    latest,    \* Checker.latest
    task,      \* an update: where it is, what it downloads, where to, and whether it
               \* was the last to truncate that file
    updates, crashes,
    overlapped,\* history: an update has begun while another was under way
    lowered,   \* history: an update has read a release that is not newer
    stranded   \* history: a rollback has failed

dirVars     == <<bin, new, file>>
procVars    == <<side, running, up, self, path>>
outerVars   == <<released, updates, crashes>>
historyVars == <<overlapped, lowered, stranded>>
vars        == <<dirVars, procVars, outerVars, latest, task, historyVars>>

Updatable == 0 .. Depth - 1   \* names that have a ".new" and a ".bak"
Content  == [from : SUBSET Versions, whole : BOOLEAN, exec : BOOLEAN]
Checkers == Tasks \cup {Shared}

\* Mutant: the update has a Checker of its own that has checked nothing.
OwnChecker(t) == t

checkerOf(t) == IF side = "server" THEN Shared ELSE t

Idle == [pc |-> "idle"]
Task == {Idle} \cup [pc : {"apply"}]
        \cup [pc : {"open"}, path : Updatable, version : Versions]
        \cup [pc : {"copy"}, path : Updatable, version : Versions, file : Files, last : BOOLEAN]
        \cup [pc : {"chmod", "unlink", "backup", "replace", "rollback", "restart"},
              path : Updatable]

Goto(t, pc)   == /\ task' = [task EXCEPT ![t] = [pc |-> pc, path |-> @.path]]
                 /\ UNCHANGED latest
\* A Checker of its own ends with the update.
End(t)        == task' = [task EXCEPT ![t] = Idle] /\ latest' = [latest EXCEPT ![t] = NoRelease]
At(t, pc)     == up /\ task[t].pc = pc
Writing(t, f) == task[t].pc = "copy" /\ task[t].file = f

\* Mutant: any larger part makes a version newer.
AnyPartNewer(a, b) == \E i \in 1 .. 3 : a[i] > b[i]

\* The first part that differs decides.
isNewer(a, b) ==
    LET differ == {i \in 1 .. 3 : a[i] # b[i]}
    IN  differ # {} /\ a[Min(differ)] > b[Min(differ)]

\* The order in which releases are numbered.
Follows(a, b) == \E i \in 1 .. 3 : a[i] > b[i] /\ \A j \in 1 .. i - 1 : a[j] = b[j]

Init ==
    /\ \E f \in Files, v \in Versions :
          /\ bin = [n \in 0 .. Depth |-> IF n = 0 THEN f ELSE NoFile]
          /\ self = f
          /\ file = [g \in Files |-> [from |-> {v}, whole |-> TRUE, exec |-> TRUE]]
          /\ running = v
    /\ new = [n \in Updatable |-> NoFile]
    /\ side \in {"server", "client"}
    /\ up = TRUE /\ path = 0
    /\ released \in Versions
    /\ latest = [c \in Checkers |-> NoRelease]
    /\ task = [t \in Tasks |-> Idle]
    /\ updates = 0 /\ crashes = 0
    /\ overlapped = FALSE /\ lowered = FALSE /\ stranded = FALSE

-----------------------------------------------------------------------------
(***************************************************************************)
(* Check, Status and their callers.                                        *)
(***************************************************************************)
Check(c) == latest' = [latest EXCEPT ![c] = released]

Available(v) == v # NoRelease /\ isNewer(v, running)

\* handleUpdateCheck and updateCheckLoop.
ServerCheck ==
    /\ side = "server" /\ up
    /\ Check(Shared)
    /\ UNCHANGED <<dirVars, procVars, outerVars, task, historyVars>>

Begin(t) ==
    /\ updates < MaxUpdates /\ updates' = updates + 1
    /\ task' = [task EXCEPT ![t] = [pc |-> "apply"]]
    /\ overlapped' = (overlapped \/ \E s \in Tasks \ {t} : task[s] # Idle)
    /\ UNCHANGED <<lowered, stranded>>

HandleUpdateApply(t) ==
    /\ side = "server" /\ At(t, "idle")
    /\ Available(latest[Shared])
    /\ Begin(t)
    /\ UNCHANGED <<dirVars, procVars, released, crashes, latest>>

\* Without a newer release, or if the check fails, the command ends.
HandleUpdateCommand(t) ==
    /\ side = "client" /\ At(t, "idle")
    /\ \/ Available(released) /\ Check(t) /\ Begin(t)
       \/ UNCHANGED <<task, updates, latest, historyVars>>
    /\ UNCHANGED <<dirVars, procVars, released, crashes>>

-----------------------------------------------------------------------------
(***************************************************************************)
(* Apply: one step for each system call.                                   *)
(***************************************************************************)
Exists(f) == f # NoFile

RemoveNew(n) == new' = [new EXCEPT ![n] = NoFile]

\* The release is read a second time; it may have no binary for this platform yet.
\* From here on the update keeps the name it found.
BeginApply(t) ==
    /\ At(t, "apply")
    /\ \/ /\ path < Depth
          /\ LET v == latest[checkerOf(t)]
             IN  /\ task' = [task EXCEPT ![t] = [pc |-> "open", path |-> path, version |-> v]]
                 /\ lowered' = (lowered \/ ~Available(v))
          /\ UNCHANGED latest
       \/ End(t) /\ UNCHANGED lowered
    /\ UNCHANGED <<dirVars, procVars, outerVars, overlapped, stranded>>

\* Files that no name, no download and no process refers to.
Unused == {f \in Files \ {self} : /\ \A n \in 0 .. Depth : bin[n] # f
                                  /\ \A n \in Updatable : new[n] # f
                                  /\ \A t \in Tasks : ~Writing(t, f)}

\* O_CREATE and O_TRUNC: a download that has the file open goes on writing to it.
OpenNew(t) ==
    /\ At(t, "open")
    /\ LET n == task[t].path
           v == task[t].version
       IN  \E f \in IF Exists(new[n]) THEN {new[n]} ELSE Unused :
           LET others == {s \in Tasks : Writing(s, f)}
           IN  /\ new' = [new EXCEPT ![n] = f]
               /\ file' = [file EXCEPT ![f] =
                      [from  |-> {v} \cup {task[s].version : s \in others},
                       whole |-> FALSE,
                       exec  |-> Exists(new[n]) /\ @.exec]]
               /\ task' = [s \in Tasks |->
                      CASE s = t        -> [pc |-> "copy", path |-> n, version |-> v,
                                            file |-> f, last |-> TRUE]
                        [] s \in others -> [task[s] EXCEPT !.last = FALSE]
                        [] OTHER        -> task[s]]
    /\ UNCHANGED <<bin, procVars, outerVars, latest, historyVars>>

\* All bytes are there if no other download truncated the file in between, or if that
\* one has got far enough.
FinishCopy(t) ==
    /\ At(t, "copy")
    /\ \E whole \in {file[task[t].file].whole \/ task[t].last, TRUE} :
          file' = [file EXCEPT ![task[t].file].whole = whole]
    /\ Goto(t, "chmod")
    /\ UNCHANGED <<bin, new, procVars, outerVars, historyVars>>

\* Mutant: the error is ignored.
IgnoreDownloadError(t) ==
    /\ "download" \in CanFail /\ (At(t, "open") \/ At(t, "copy"))
    /\ Goto(t, "chmod")
    /\ UNCHANGED <<dirVars, procVars, outerVars, historyVars>>

FailDownload(t) ==
    /\ "download" \in CanFail /\ (At(t, "open") \/ At(t, "copy"))
    /\ RemoveNew(task[t].path)
    /\ End(t)
    /\ UNCHANGED <<bin, file, procVars, outerVars, historyVars>>

Chmod(t) ==
    /\ At(t, "chmod")
    /\ LET f == new[task[t].path]
       IN  \/ Exists(f) /\ file' = [file EXCEPT ![f].exec = TRUE] /\ Goto(t, "unlink")
           \/ ~Exists(f) /\ UNCHANGED file /\ End(t)
    /\ UNCHANGED <<bin, new, procVars, outerVars, historyVars>>

RemoveBackup(t) ==
    /\ At(t, "unlink")
    /\ bin' = [bin EXCEPT ![task[t].path + 1] = NoFile]
    /\ Goto(t, "backup")
    /\ UNCHANGED <<new, file, procVars, outerVars, historyVars>>

\* bin[n] becomes bin[m]; the process keeps its file, which has another name then.
Rename(n, m) ==
    /\ bin' = [bin EXCEPT ![n] = NoFile, ![m] = bin[n]]
    /\ path' = IF bin[n] = self THEN m ELSE path
    /\ UNCHANGED <<side, running, up, self>>

\* Mutant: the old backup is removed after the new one was made.
BackUpThenRemove(t) ==
    /\ At(t, "backup")
    /\ Exists(bin[task[t].path])
    /\ bin' = [bin EXCEPT ![task[t].path] = NoFile, ![task[t].path + 1] = NoFile]
    /\ path' = IF bin[task[t].path] = self THEN task[t].path + 1 ELSE path
    /\ Goto(t, "replace")
    /\ UNCHANGED <<new, file, side, running, up, self, outerVars, historyVars>>

\* Mutant: the executable is not renamed.
NoBackUp(t) ==
    /\ At(t, "backup")
    /\ Goto(t, "replace")
    /\ UNCHANGED <<dirVars, procVars, outerVars, historyVars>>

BackUp(t) ==
    /\ At(t, "backup")
    /\ LET n == task[t].path
       IN  \/ Exists(bin[n]) /\ Rename(n, n + 1) /\ UNCHANGED new /\ Goto(t, "replace")
           \/ /\ "backup" \in CanFail \/ ~Exists(bin[n])
              /\ RemoveNew(n) /\ UNCHANGED <<bin, procVars>> /\ End(t)
    /\ UNCHANGED <<file, outerVars, historyVars>>

Replace(t) ==
    /\ At(t, "replace")
    /\ LET n == task[t].path
       IN  \/ /\ Exists(new[n])
              /\ bin' = [bin EXCEPT ![n] = new[n]] /\ RemoveNew(n)
              /\ Goto(t, "restart")
           \/ /\ "replace" \in CanFail \/ ~Exists(new[n])
              /\ UNCHANGED <<bin, new>> /\ Goto(t, "rollback")
    /\ UNCHANGED <<file, procVars, outerVars, historyVars>>

RollBack(t) ==
    /\ At(t, "rollback")
    /\ LET n == task[t].path
       IN  \/ Exists(bin[n + 1]) /\ Rename(n + 1, n) /\ UNCHANGED stranded
           \/ /\ "rollback" \in CanFail \/ ~Exists(bin[n + 1])
              /\ stranded' = TRUE /\ UNCHANGED <<bin, procVars>>
    /\ End(t)
    /\ UNCHANGED <<new, file, outerVars, overlapped, lowered>>

-----------------------------------------------------------------------------
(***************************************************************************)
(* Restart and the process.  execve is given the name the file of the      *)
(* process has by now, and takes every goroutine with it; it is refused    *)
(* for a file that is open for writing or may not be executed, and a file  *)
(* that is not a whole binary is refused or crashes.                       *)
(***************************************************************************)
Usable(f) == file[f].whole /\ file[f].exec /\ \E v \in Versions : file[f].from = {v}

Process(alive, v, f, n) ==
    /\ up' = alive /\ running' = v /\ self' = f /\ path' = n
    /\ task' = [t \in Tasks |-> Idle]
    /\ latest' = [c \in Checkers |-> NoRelease]

Run(n) == \E v \in Versions : file[bin[n]].from = {v} /\ Process(TRUE, v, bin[n], n)

Die == Process(FALSE, running, NoFile, 0)

Restart(t) ==
    /\ At(t, "restart")
    /\ LET f       == bin[path]
           refused == ~Exists(f) \/ ~file[f].exec \/ \E s \in Tasks : Writing(s, f)
       IN  \/ ~refused /\ Usable(f) /\ Run(path)
           \/ ~refused /\ ~Usable(f) /\ Die
           \/ /\ ~refused => ~Usable(f)
              /\ End(t)
              /\ UNCHANGED <<running, up, self, path>>
    /\ UNCHANGED <<dirVars, side, outerVars, historyVars>>

Crash ==
    /\ up /\ crashes < MaxCrashes
    /\ crashes' = crashes + 1
    /\ Die
    /\ UNCHANGED <<dirVars, side, released, updates, historyVars>>

\* The service manager starts the executable by its own name, if it can.
CanStart == Exists(bin[0]) /\ Usable(bin[0])

Start ==
    /\ ~up /\ CanStart
    /\ Run(0)
    /\ UNCHANGED <<dirVars, side, outerVars, historyVars>>

Broken ==
    /\ ~up /\ ~CanStart
    /\ UNCHANGED vars

\* GitHub: another release is the latest, a newer one, a backport to an older line, or an
\* older one again when the latest is withdrawn.
Publish ==
    /\ \E v \in Versions : v # released /\ released' = v
    /\ UNCHANGED <<dirVars, procVars, updates, crashes, task, latest, historyVars>>

-----------------------------------------------------------------------------
Update(t) ==
    \/ HandleUpdateApply(t) \/ HandleUpdateCommand(t)
    \/ BeginApply(t) \/ OpenNew(t) \/ FinishCopy(t) \/ FailDownload(t) \/ Chmod(t)
    \/ RemoveBackup(t) \/ BackUp(t) \/ Replace(t) \/ RollBack(t) \/ Restart(t)

Next ==
    \/ ServerCheck
    \/ \E t \in Tasks : Update(t)
    \/ Crash \/ Start \/ Broken
    \/ Publish

Spec == Init /\ [][Next]_vars

-----------------------------------------------------------------------------
(* Names are linked to files, and updates carry what their step needs.     *)
TypeOK ==
    /\ bin \in [0 .. Depth -> Files \cup {NoFile}]
    /\ new \in [Updatable -> Files \cup {NoFile}]
    /\ file \in [Files -> Content]
    /\ side \in {"server", "client"}
    /\ running \in Versions /\ up \in BOOLEAN
    /\ self \in Files \cup {NoFile} /\ path \in 0 .. Depth
    /\ released \in Versions
    /\ latest \in [Checkers -> Versions \cup {NoRelease}]
    /\ \A t \in Tasks : task[t].pc = "apply" => latest[checkerOf(t)] # NoRelease
    /\ task \in [Tasks -> Task]
    /\ updates \in 0 .. MaxUpdates /\ crashes \in 0 .. MaxCrashes
    /\ overlapped \in BOOLEAN /\ lowered \in BOOLEAN /\ stranded \in BOOLEAN

(* An installation survives its updates, whatever system call fails and    *)
(* wherever the process dies, as long as no update begins while another is *)
(* under way: the executable or its backup is a binary that can be         *)
(* started; after a rollback that failed, a file behind more suffixes is.  *)
LostOnlyByOverlap ==
    ~overlapped => \E n \in IF stranded THEN 0 .. Depth ELSE {0, 1} :
                       Exists(bin[n]) /\ Usable(bin[n])

(* Without an overlap, and whatever fails, neither the executable nor a    *)
(* backup is a binary that is partly downloaded, of two releases, or not   *)
(* executable.                                                             *)
ExeIsUsable == ~overlapped => \A n \in 0 .. Depth : Exists(bin[n]) => Usable(bin[n])

(* A process is never succeeded by an older version, be it restarted or    *)
(* started again, unless updates overlapped or a check put a release that  *)
(* is not newer in place of the one the update was allowed for.            *)
NeverDowngrades ==
    [][~overlapped' /\ ~lowered' => running' = running \/ Follows(running', running)]_vars

(* Restart runs "a fresh copy of the same binary" (restart_unix.go:10):    *)
(* the one that was running, which Apply has renamed, never the one Apply  *)
(* installed.  That one runs when the service manager starts the process.  *)
RestartIsSameBinary ==
    [][up /\ up' /\ ~overlapped' => running' = running /\ self' = self]_vars
=============================================================================
