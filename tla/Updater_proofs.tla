--------------------------- MODULE Updater_proofs ---------------------------
(***************************************************************************)
(* Self-update, for any versions, any numbers of updates and crashes, any  *)
(* depth of names and any failing system calls: an installation survives   *)
(* updates that do not overlap, which install newer versions only, and a   *)
(* restart runs the file that was running.                                 *)
(***************************************************************************)
EXTENDS Updater, TLAPS

(***************************************************************************)
(* What one update at a time leaves in the directory, at each of its       *)
(* steps.                                                                  *)
(***************************************************************************)
Ranks == 0 .. Depth

Alone == \A s, t \in Tasks : task[s] # Idle /\ task[t] # Idle => s = t

\* A file has one name.
OneName ==
    /\ \A n, m \in Ranks : bin[n] = bin[m] /\ Exists(bin[n]) => n = m
    /\ \A n, m \in Updatable : new[n] = new[m] /\ Exists(new[n]) => n = m
    /\ \A n \in Ranks, m \in Updatable : Exists(bin[n]) => bin[n] # new[m]

\* The process finds its own file.
SelfInv == up => Exists(self) /\ bin[path] = self

\* Updates whose process has its own name, or the backup's.
Before == {"open", "copy", "chmod", "unlink", "backup"}
After  == {"replace", "rollback", "restart"}

\* What an update finds: the name of the process, and its download, being written, written,
\* and ready to be started.
Finds(t) ==
    LET n == task[t].path
    IN  /\ task[t].pc \in Before => n = path
        /\ task[t].pc \in After => n + 1 = path
        /\ task[t].pc = "copy" => /\ new[n] = task[t].file /\ task[t].last
                                  /\ file[new[n]].from = {task[t].version}
        /\ task[t].pc = "chmod" => /\ Exists(new[n]) /\ file[new[n]].whole
                                   /\ \E v \in Versions : file[new[n]].from = {v}
        /\ task[t].pc \in {"unlink", "backup", "replace"} => Exists(new[n]) /\ Usable(new[n])

AllUsable == \A n \in Ranks : Exists(bin[n]) => Usable(bin[n])

\* The executable has no name of its own, and may get it back.
Swapping(t) == up /\ task[t].pc \in {"replace", "rollback"} /\ task[t].path = 0

Left ==
    /\ \E n \in Ranks : Exists(bin[n])
    /\ ~stranded /\ ~Exists(bin[0]) =>
           Exists(bin[1]) /\ (up => \E t \in Tasks : Swapping(t))

\* The process is of the version of its file.
Runs == up => file[self].from = {running}

\* Only newer versions are installed.
Newer(f) == \A v \in file[f].from : Follows(v, running)

Newest ==
    /\ Exists(bin[0]) => Newer(bin[0]) \/ file[bin[0]].from = {running}
    /\ \A t \in Tasks :
          /\ task[t].pc \in {"open", "copy"} => Follows(task[t].version, running)
          /\ task[t].pc \in {"chmod", "unlink", "backup", "replace"} => Newer(new[task[t].path])

Single ==
    /\ Alone /\ OneName /\ SelfInv /\ AllUsable /\ Left
    /\ \A t \in Tasks : Finds(t)

SingleInv == ~overlapped => Single

RunsInv == ~overlapped => Runs

NewestInv == ~overlapped /\ ~lowered => Newest

(***************************************************************************)
(* Versions: isNewer is the order in which releases are numbered.          *)
(***************************************************************************)
\* Follows, spelt out for the three parts.
LEMMA FollowsParts ==
    ASSUME NEW a \in [1 .. 3 -> Nat], NEW b \in [1 .. 3 -> Nat]
    PROVE  Follows(a, b) <=> \/ a[1] > b[1]
                             \/ a[1] = b[1] /\ a[2] > b[2]
                             \/ a[1] = b[1] /\ a[2] = b[2] /\ a[3] > b[3]
<1>1. /\ 1 \in 1 .. 3 /\ 2 \in 1 .. 3 /\ 3 \in 1 .. 3
      /\ \A i \in 1 .. 3 : i = 1 \/ i = 2 \/ i = 3
  OBVIOUS
<1>2. /\ \A j \in 1 .. 1 - 1 : FALSE
      /\ \A j : j \in 1 .. 2 - 1 <=> j = 1
      /\ \A j : j \in 1 .. 3 - 1 <=> j = 1 \/ j = 2
  OBVIOUS
<1> QED
  BY <1>1, <1>2 DEF Follows

\* The comparison of updater.go (isNewer) is that order: it finds a version newer
\* exactly if the first part that differs is larger.
THEOREM NewerFollows ==
    \A a, b \in [1 .. 3 -> Nat] : isNewer(a, b) <=> Follows(a, b)
<1> SUFFICES ASSUME NEW a \in [1 .. 3 -> Nat], NEW b \in [1 .. 3 -> Nat]
             PROVE  isNewer(a, b) <=> Follows(a, b)
  OBVIOUS
<1>1. PICK differ : differ = {i \in 1 .. 3 : a[i] # b[i]}
  OBVIOUS
<1>2. isNewer(a, b) <=> differ # {} /\ a[Min(differ)] > b[Min(differ)]
  BY <1>1 DEF isNewer
<1>3. CASE differ = {}
  <2>1. a[1] = b[1] /\ a[2] = b[2] /\ a[3] = b[3] /\ a[1] \in Nat /\ a[2] \in Nat /\ a[3] \in Nat
    BY <1>1, <1>3
  <2> QED
    BY <1>2, <1>3, <2>1, FollowsParts
<1>4. CASE differ # {}
  <2>1. \E i \in differ : \A j \in differ : i =< j
    <3>1. CASE 1 \in differ
      BY <1>1, <3>1
    <3>2. CASE 1 \notin differ /\ 2 \in differ
      BY <1>1, <3>2
    <3>3. CASE 1 \notin differ /\ 2 \notin differ
      <4>1. 3 \in differ
        BY <1>1, <1>4, <3>3
      <4> QED
        BY <1>1, <3>3, <4>1
    <3> QED
      BY <3>1, <3>2, <3>3
  <2>2. Min(differ) \in differ /\ \A j \in differ : Min(differ) =< j
    BY <2>1 DEF Min
  <2>3. PICK i \in differ : i = Min(differ) /\ \A j \in differ : i =< j
    BY <2>2
  <2>4. /\ i \in 1 .. 3 /\ a[i] # b[i]
        /\ \A j \in 1 .. 3 : j < i => a[j] = b[j]
    BY <1>1, <2>3
  <2>5. \A j \in 1 .. 3 : a[j] \in Nat /\ b[j] \in Nat
    OBVIOUS
  <2>6. (a[i] > b[i]) <=> Follows(a, b)
    <3>1. i = 1 \/ i = 2 \/ i = 3
      BY <2>4
    <3> QED
      BY <2>4, <2>5, <3>1, FollowsParts
  <2> QED
    BY <1>2, <1>4, <2>3, <2>6
<1> QED
  BY <1>3, <1>4

(***************************************************************************)
(* The steps of an update.                                                 *)
(***************************************************************************)
Steps == {"chmod", "unlink", "backup", "replace", "rollback", "restart"}

\* What an update may carry, by the step it is at.
LEMMA TaskStates ==
    /\ Idle \in Task /\ Idle.pc = "idle"
    /\ [pc |-> "apply"] \in Task
    /\ \A pc \in Steps, n \in Updatable : [pc |-> pc, path |-> n] \in Task
    /\ \A v \in Versions, n \in Updatable : [pc |-> "open", path |-> n, version |-> v] \in Task
    /\ \A v \in Versions, n \in Updatable, f \in Files, b \in BOOLEAN :
          [pc |-> "copy", path |-> n, version |-> v, file |-> f, last |-> b] \in Task
    /\ \A s \in Task : s.pc = "idle" => s = Idle
    /\ \A s \in Task : s.pc \notin {"idle", "apply"} => s.path \in Updatable
    /\ \A s \in Task : s.pc = "open" => s.version \in Versions
    /\ \A s \in Task : s.pc = "copy" => /\ s.version \in Versions /\ s.file \in Files
                                        /\ s.last \in BOOLEAN
                                        /\ s = [pc |-> "copy", path |-> s.path,
                                                version |-> s.version, file |-> s.file,
                                                last |-> s.last]
<1> DEFINE U == Updatable
<1> HIDE DEF U
<1>0. U = Updatable
  BY DEF U
<1> USE DEF Idle, Task, Steps
<1>1. /\ Idle \in Task /\ Idle.pc = "idle"
      /\ [pc |-> "apply"] \in Task
      /\ \A pc \in Steps, n \in U : [pc |-> pc, path |-> n] \in Task
  BY <1>0
<1>2. \A v \in Versions, n \in U : [pc |-> "open", path |-> n, version |-> v] \in Task
  BY <1>0
<1>3. \A v \in Versions, n \in U, f \in Files, b \in BOOLEAN :
          [pc |-> "copy", path |-> n, version |-> v, file |-> f, last |-> b] \in Task
  BY <1>0
<1>4. ASSUME NEW s \in Task
      PROVE  /\ s.pc = "idle" => s = Idle
             /\ s.pc \notin {"idle", "apply"} => s.path \in U
             /\ s.pc = "open" => s.version \in Versions
             /\ s.pc = "copy" => /\ s.version \in Versions /\ s.file \in Files
                                 /\ s.last \in BOOLEAN
                                 /\ s = [pc |-> "copy", path |-> s.path, version |-> s.version,
                                         file |-> s.file, last |-> s.last]
  <2>1. CASE s = Idle
    BY <2>1
  <2>2. CASE s \in [pc : {"apply"}]
    BY <2>2
  <2>3. CASE s \in [pc : {"open"}, path : Updatable, version : Versions]
    BY <2>3, <1>0
  <2>4. CASE s \in [pc : {"copy"}, path : Updatable, version : Versions, file : Files,
                    last : BOOLEAN]
    BY <2>4, <1>0
  <2>5. CASE s \in [pc : {"chmod", "unlink", "backup", "replace", "rollback", "restart"},
                    path : Updatable]
    BY <2>5, <1>0
  <2> QED
    BY <2>1, <2>2, <2>3, <2>4, <2>5
<1> QED
  BY <1>0, <1>1, <1>2, <1>3, <1>4

\* The name an update works on has a backup's and a download's.
LEMMA PathTypes ==
    ASSUME TypeOK, NEW t \in Tasks, task[t].pc \notin {"idle", "apply"}
    PROVE  /\ task[t].path \in Updatable
           /\ task[t].path \in 0 .. Depth /\ task[t].path + 1 \in 0 .. Depth
           /\ task[t].path + 1 # task[t].path /\ task[t].path + 1 # 0
<1>1. task[t].path \in Updatable
  BY TaskStates DEF TypeOK
<1> QED
  BY <1>1, UpdaterAssumption DEF Updatable

\* An update goes on to its next step.
LEMMA Went ==
    ASSUME TypeOK, NEW t \in Tasks, task[t].pc \notin {"idle", "apply"}, NEW pc \in Steps, Goto(t, pc)
    PROVE  /\ task' \in [Tasks -> Task] /\ task'[t].pc = pc /\ task'[t].path = task[t].path
           /\ \A s \in Tasks : s # t => task'[s] = task[s]
           /\ latest' = latest
<1>1. task \in [Tasks -> Task] /\ task[t].path \in Updatable
  BY PathTypes DEF TypeOK
<1>2. [pc |-> pc, path |-> task[t].path] \in Task
  BY <1>1, TaskStates
<1>3. task' = [task EXCEPT ![t] = [pc |-> pc, path |-> task[t].path]] /\ latest' = latest
  BY <1>1 DEF Goto
<1> QED
  BY <1>1, <1>2, <1>3

\* An update ends, and its own Checker with it: the Checkers of the others stay.
LEMMA Ended ==
    ASSUME TypeOK, NEW t \in Tasks, End(t), side' = side
    PROVE  /\ task' \in [Tasks -> Task] /\ task'[t] = Idle
           /\ \A s \in Tasks : s # t => /\ task'[s] = task[s]
                                        /\ latest'[checkerOf(s)'] = latest[checkerOf(s)]
           /\ latest' \in [Checkers -> Versions \cup {NoRelease}]
<1>1. task \in [Tasks -> Task] /\ latest \in [Checkers -> Versions \cup {NoRelease}]
  BY DEF TypeOK
<1>2. Idle \in Task
  BY TaskStates
<1>3. task' = [task EXCEPT ![t] = Idle] /\ latest' = [latest EXCEPT ![t] = NoRelease]
  BY DEF End
<1>4. ASSUME NEW s \in Tasks, s # t PROVE latest'[checkerOf(s)'] = latest[checkerOf(s)]
  <2>1. checkerOf(s)' = checkerOf(s) /\ checkerOf(s) \in Checkers /\ checkerOf(s) # t
    BY <1>4, UpdaterAssumption DEF checkerOf, Checkers
  <2> QED
    BY <1>1, <1>3, <2>1
<1> QED
  BY <1>1, <1>2, <1>3, <1>4

(***************************************************************************)
(* Types.                                                                  *)
(***************************************************************************)
\* Nothing is under way at first.
LEMMA InitTypeOK == Init => TypeOK
<1> SUFFICES ASSUME Init PROVE TypeOK
  OBVIOUS
<1>1. Idle \in Task /\ Idle.pc = "idle"
  BY TaskStates
<1>2. PICK f \in Files, v \in Versions :
          /\ bin = [n \in 0 .. Depth |-> IF n = 0 THEN f ELSE NoFile]
          /\ self = f
          /\ file = [g \in Files |-> [from |-> {v}, whole |-> TRUE, exec |-> TRUE]]
          /\ running = v
  BY DEF Init
<1>3. bin \in [0 .. Depth -> Files \cup {NoFile}] /\ self \in Files \cup {NoFile} /\ running \in Versions
  BY <1>2
<1>4. new \in [Updatable -> Files \cup {NoFile}]
  BY DEF Init
<1>5. file \in [Files -> Content]
  BY <1>2 DEF Content
<1>6. \A t \in Tasks : task[t].pc # "apply"
  BY <1>1 DEF Init
<1>7. task \in [Tasks -> Task] /\ latest \in [Checkers -> Versions \cup {NoRelease}]
  BY <1>1 DEF Init
<1>8. updates \in 0 .. MaxUpdates /\ crashes \in 0 .. MaxCrashes /\ path \in 0 .. Depth
  BY UpdaterAssumption DEF Init
<1>9. /\ side \in {"server", "client"} /\ up \in BOOLEAN /\ released \in Versions
      /\ overlapped \in BOOLEAN /\ lowered \in BOOLEAN /\ stranded \in BOOLEAN
  BY DEF Init
<1> QED
  BY <1>3, <1>4, <1>5, <1>6, <1>7, <1>8, <1>9 DEF TypeOK

\* A step that clears every update.
LEMMA ClearedTypeOK ==
    ASSUME TypeOK, NEW alive \in BOOLEAN, NEW v \in Versions, NEW f \in Files \cup {NoFile},
           NEW n \in 0 .. Depth, Process(alive, v, f, n),
           UNCHANGED <<dirVars, side, released, updates, historyVars>>,
           crashes' \in 0 .. MaxCrashes
    PROVE  TypeOK'
<1>1. Idle \in Task /\ Idle.pc = "idle"
  BY TaskStates
<1>2. task' \in [Tasks -> Task] /\ \A t \in Tasks : task'[t].pc # "apply"
  BY <1>1 DEF Process
<1>3. latest' \in [Checkers -> Versions \cup {NoRelease}]
  BY DEF Process
<1> QED
  BY <1>2, <1>3 DEF TypeOK, Process, dirVars, historyVars

\* A process runs the file of a name, or none runs.
LEMMA RunTypes ==
    ASSUME TypeOK, NEW n \in 0 .. Depth, Run(n)
    PROVE  \E v \in Versions : bin[n] \in Files \cup {NoFile} /\ Process(TRUE, v, bin[n], n)
  BY DEF Run, TypeOK

\* The same of a process that ends.
LEMMA DieTypes ==
    ASSUME TypeOK, Die
    PROVE  /\ running \in Versions /\ 0 \in 0 .. Depth /\ NoFile \in Files \cup {NoFile}
           /\ Process(FALSE, running, NoFile, 0)
<1>1. 0 \in 0 .. Depth
  BY UpdaterAssumption
<1> QED
  BY <1>1 DEF Die, TypeOK

\* A step of an update that keeps the files in their places, or moves them.
LEMMA StepTypeOK ==
    ASSUME TypeOK, NEW t \in Tasks,
           UNCHANGED <<side, running, up, self, outerVars, overlapped>>,
           \/ task[t].pc \notin {"idle", "apply"} /\ \E pc \in Steps : Goto(t, pc)
           \/ End(t),
           bin' \in [0 .. Depth -> Files \cup {NoFile}],
           new' \in [Updatable -> Files \cup {NoFile}], file' \in [Files -> Content],
           path' \in 0 .. Depth, lowered' \in BOOLEAN, stranded' \in BOOLEAN
    PROVE  TypeOK'
<1>1. UNCHANGED <<side, running, up, self, released, updates, crashes, overlapped>>
  BY DEF outerVars
<1>2. CASE task[t].pc \notin {"idle", "apply"} /\ \E pc \in Steps : Goto(t, pc)
  <2>1. PICK pc \in Steps : Goto(t, pc)
    BY <1>2
  <2>2. /\ task' \in [Tasks -> Task] /\ task'[t].pc = pc
        /\ \A s \in Tasks : s # t => task'[s] = task[s]
        /\ latest' = latest
    BY <1>2, <2>1, Went
  <2>3. \A s \in Tasks : checkerOf(s)' = checkerOf(s)
    BY <1>1 DEF checkerOf
  <2>4. \A s \in Tasks : task'[s].pc = "apply" => latest'[checkerOf(s)'] # NoRelease
    BY <2>2, <2>3 DEF Steps, TypeOK
  <2> QED
    BY <1>1, <2>2, <2>4 DEF TypeOK
<1>3. CASE End(t)
  <2>1. /\ task' \in [Tasks -> Task] /\ task'[t] = Idle
        /\ \A s \in Tasks : s # t => /\ task'[s] = task[s]
                                     /\ latest'[checkerOf(s)'] = latest[checkerOf(s)]
        /\ latest' \in [Checkers -> Versions \cup {NoRelease}]
    BY <1>1, <1>3, Ended
  <2>2. Idle.pc = "idle"
    BY TaskStates
  <2>3. \A s \in Tasks : task'[s].pc = "apply" => latest'[checkerOf(s)'] # NoRelease
    BY <2>1, <2>2 DEF TypeOK
  <2> QED
    BY <1>1, <2>1, <2>3 DEF TypeOK
<1> QED
  BY <1>2, <1>3

\* What OpenNew does, with the file it opens and the version it downloads.
Opens(t, f, v) ==
    LET n == task[t].path
    IN  /\ v = task[t].version /\ task[t].pc = "open"
        /\ new' = [new EXCEPT ![n] = f]
        /\ Exists(new[n]) => f = new[n]
        /\ ~Exists(new[n]) => /\ \A m \in Ranks : bin[m] # f
                              /\ \A m \in Updatable : new[m] # f
                              /\ f # self
        /\ file' = [file EXCEPT ![f] =
               [from  |-> {v} \cup {task[s].version : s \in {s \in Tasks : Writing(s, f)}},
                whole |-> FALSE,
                exec  |-> Exists(new[n]) /\ file[f].exec]]
        /\ task'[t] = [pc |-> "copy", path |-> n, version |-> v, file |-> f, last |-> TRUE]
        /\ \A s \in Tasks : s # t =>
               /\ ~Writing(s, f) => task'[s] = task[s]
               /\ Writing(s, f) => task'[s] = [pc |-> "copy", path |-> task[s].path,
                                               version |-> task[s].version,
                                               file |-> f, last |-> FALSE]
        /\ task' \in [Tasks -> Task]

\* Opening the download does that, for one file and one version.
LEMMA OpenNewStep ==
    ASSUME TypeOK, NEW t \in Tasks, OpenNew(t)
    PROVE  \E f \in Files, v \in Versions : Opens(t, f, v)
<1>1. /\ task \in [Tasks -> Task] /\ new \in [Updatable -> Files \cup {NoFile}]
      /\ file \in [Files -> Content] /\ task[t].pc = "open"
  BY DEF TypeOK, OpenNew, At
<1>2. PICK v, n : v = task[t].version /\ n = task[t].path
  OBVIOUS
<1>3. v \in Versions /\ n \in Updatable /\ new[n] \in Files \cup {NoFile}
  BY <1>1, <1>2, TaskStates
<1>0. PICK f \in IF Exists(new[task[t].path]) THEN {new[task[t].path]} ELSE Unused :
          LET others == {s \in Tasks : Writing(s, f)}
          IN  /\ new' = [new EXCEPT ![task[t].path] = f]
              /\ file' = [file EXCEPT ![f] =
                     [from  |-> {task[t].version} \cup {task[s].version : s \in others},
                      whole |-> FALSE,
                      exec  |-> Exists(new[task[t].path]) /\ @.exec]]
              /\ task' = [s \in Tasks |->
                     CASE s = t       -> [pc |-> "copy", path |-> task[t].path,
                                          version |-> task[t].version, file |-> f, last |-> TRUE]
                       [] s \in others -> [task[s] EXCEPT !.last = FALSE]
                       [] OTHER       -> task[s]]
  BY Zenon DEF OpenNew
<1>4. /\ f \in IF Exists(new[n]) THEN {new[n]} ELSE Unused
      /\ new' = [new EXCEPT ![n] = f]
      /\ file' = [file EXCEPT ![f] =
             [from  |-> {v} \cup {task[s].version : s \in {s \in Tasks : Writing(s, f)}},
              whole |-> FALSE,
              exec  |-> Exists(new[n]) /\ @.exec]]
      /\ task' = [s \in Tasks |->
             CASE s = t -> [pc |-> "copy", path |-> n, version |-> v, file |-> f, last |-> TRUE]
               [] s \in {u \in Tasks : Writing(u, f)} -> [task[s] EXCEPT !.last = FALSE]
               [] OTHER -> task[s]]
  <2>1. /\ f \in IF Exists(new[n]) THEN {new[n]} ELSE Unused
        /\ new' = [new EXCEPT ![n] = f]
    BY <1>0, <1>2
  <2>2. file' = [file EXCEPT ![f] =
             [from  |-> {v} \cup {task[s].version : s \in {s \in Tasks : Writing(s, f)}},
              whole |-> FALSE,
              exec  |-> Exists(new[n]) /\ @.exec]]
    BY <1>0, <1>2
  <2>3. task' = [s \in Tasks |->
             CASE s = t -> [pc |-> "copy", path |-> n, version |-> v, file |-> f, last |-> TRUE]
               [] s \in {u \in Tasks : Writing(u, f)} -> [task[s] EXCEPT !.last = FALSE]
               [] OTHER -> task[s]]
    BY <1>0, <1>2
  <2> QED
    BY <2>1, <2>2, <2>3
<1>5. /\ f \in Files
      /\ Exists(new[n]) => f = new[n]
      /\ ~Exists(new[n]) => /\ \A m \in Ranks : bin[m] # f
                            /\ \A m \in Updatable : new[m] # f
                            /\ f # self
  BY <1>3, <1>4 DEF Exists, Unused, Ranks
<1>6. ASSUME NEW s \in Tasks, s # t, Writing(s, f)
      PROVE  /\ task'[s] = [pc |-> "copy", path |-> task[s].path, version |-> task[s].version,
                            file |-> f, last |-> FALSE]
             /\ task'[s] \in Task
  <2>1. task[s] = [pc |-> "copy", path |-> task[s].path, version |-> task[s].version, file |-> f,
                   last |-> task[s].last]
        /\ task[s].version \in Versions /\ task[s].path \in Updatable
    BY <1>1, <1>6, TaskStates DEF Writing
  <2>2. task'[s] = [task[s] EXCEPT !.last = FALSE]
    BY <1>4, <1>6
  <2>3. PICK u, b, m : u = task[s].version /\ b = task[s].last /\ m = task[s].path
    OBVIOUS
  <2>4. task'[s] = [[pc |-> "copy", path |-> m, version |-> u, file |-> f, last |-> b] EXCEPT !.last = FALSE]
    BY <2>1, <2>2, <2>3
  <2>5. task'[s] = [pc |-> "copy", path |-> m, version |-> u, file |-> f, last |-> FALSE]
    BY <2>4
  <2>6. [pc |-> "copy", path |-> m, version |-> u, file |-> f, last |-> FALSE] \in Task
    BY <1>5, <2>1, <2>3, TaskStates
  <2> QED
    BY <2>3, <2>5, <2>6
<1>7. ~Writing(t, f)
  BY <1>1 DEF Writing
<1>8. task'[t] = [pc |-> "copy", path |-> n, version |-> v, file |-> f, last |-> TRUE] /\ task'[t] \in Task
  <2>1. task'[t] = [pc |-> "copy", path |-> n, version |-> v, file |-> f, last |-> TRUE]
    BY <1>4, <1>7
  <2>2. [pc |-> "copy", path |-> n, version |-> v, file |-> f, last |-> TRUE] \in Task
    BY <1>3, <1>5, TaskStates
  <2> QED
    BY <2>1, <2>2
<1>9. \A s \in Tasks : s # t /\ ~Writing(s, f) => task'[s] = task[s]
  BY <1>4
<1>10. task' \in [Tasks -> Task]
  <2>1. \A s \in Tasks : task'[s] \in Task
    BY <1>1, <1>6, <1>8, <1>9
  <2>2. task' = [s \in Tasks |-> task'[s]]
    BY <1>4
  <2> QED
    BY <2>1, <2>2
<1> QED
  BY <1>1, <1>2, <1>3, <1>4, <1>5, <1>6, <1>8, <1>9, <1>10 DEF Opens

\* An update begins.
LEMMA BeginTypeOK ==
    ASSUME TypeOK, NEW t \in Tasks, HandleUpdateApply(t) \/ HandleUpdateCommand(t)
    PROVE  TypeOK'
<1>1. /\ task \in [Tasks -> Task] /\ latest \in [Checkers -> Versions \cup {NoRelease}]
      /\ overlapped \in BOOLEAN /\ released \in Versions /\ running \in Versions
  BY DEF TypeOK
<1>2. CASE UNCHANGED <<task, updates, latest, historyVars>>
  <2>1. UNCHANGED <<dirVars, procVars, released, crashes>>
    BY <1>2 DEF HandleUpdateApply, HandleUpdateCommand
  <2> QED
    BY <1>2, <2>1 DEF dirVars, procVars, historyVars, TypeOK, checkerOf
<1>3. CASE Begin(t)
  <2>1. /\ UNCHANGED <<bin, new, file, side, running, up, self, path, released, crashes>>
        /\ \/ latest' = latest /\ side = "server" /\ latest[Shared] # NoRelease
           \/ latest' = [latest EXCEPT ![t] = released] /\ side = "client"
           \/ UNCHANGED <<task, latest>>
    <3>1. CASE HandleUpdateApply(t)
      BY <3>1 DEF HandleUpdateApply, Available, dirVars, procVars
    <3>2. CASE HandleUpdateCommand(t)
      BY <3>2 DEF HandleUpdateCommand, Check, dirVars, procVars
    <3> QED
      BY <3>1, <3>2
  <2>2. /\ task' = [task EXCEPT ![t] = [pc |-> "apply"]] /\ overlapped' \in BOOLEAN
        /\ UNCHANGED <<lowered, stranded>> /\ updates' \in 0 .. MaxUpdates
    BY <1>3, UpdaterAssumption DEF Begin, TypeOK
  <2>3. task' \in [Tasks -> Task]
    BY <1>1, <2>2, TaskStates
  <2>4. /\ latest' \in [Checkers -> Versions \cup {NoRelease}]
        /\ \A s \in Tasks : task'[s].pc = "apply" => latest'[checkerOf(s)'] # NoRelease
    <3>1. CASE UNCHANGED <<task, latest>>
      BY <2>1, <3>1 DEF TypeOK, checkerOf
    <3>2. CASE latest' = latest /\ side = "server" /\ latest[Shared] # NoRelease
      BY <1>1, <2>1, <3>2 DEF checkerOf
    <3>3. CASE latest' = [latest EXCEPT ![t] = released] /\ side = "client"
      <4>1. \A s \in Tasks : checkerOf(s)' = s /\ checkerOf(s) = s /\ s \in Checkers
        BY <2>1, <3>3 DEF checkerOf, Checkers
      <4>2. latest'[t] = released /\ \A s \in Tasks : s # t => latest'[s] = latest[s]
        BY <1>1, <3>3, <4>1
      <4>3. \A s \in Tasks : s # t => task'[s] = task[s]
        BY <1>1, <2>2
      <4> QED
        BY <1>1, <3>3, <4>1, <4>2, <4>3, UpdaterAssumption DEF TypeOK
    <3> QED
      BY <2>1, <3>1, <3>2, <3>3
  <2> QED
    BY <2>1, <2>2, <2>3, <2>4 DEF TypeOK
<1> QED
  BY <1>2, <1>3 DEF HandleUpdateApply, HandleUpdateCommand

\* An update reads its release and its name.
LEMMA ReadTypeOK ==
    ASSUME TypeOK, NEW t \in Tasks, BeginApply(t)
    PROVE  TypeOK'
<1>1. /\ UNCHANGED <<bin, new, file, side, running, up, self, path, released, updates, crashes,
                     overlapped, stranded>>
      /\ lowered' \in BOOLEAN
  BY DEF BeginApply, dirVars, procVars, outerVars, Available, isNewer, TypeOK
<1>2. CASE End(t)
  BY <1>1, <1>2, StepTypeOK DEF TypeOK, outerVars
<1>3. CASE /\ path < Depth /\ UNCHANGED latest
           /\ task' = [task EXCEPT ![t] = [pc |-> "open", path |-> path,
                                           version |-> latest[checkerOf(t)]]]
  <2>1. latest[checkerOf(t)] \in Versions /\ path \in Updatable
    <3>1. checkerOf(t) \in Checkers /\ task[t].pc = "apply"
      BY DEF BeginApply, At, checkerOf, Checkers
    <3>2. path \in Updatable
      BY <1>3, UpdaterAssumption DEF TypeOK, Updatable
    <3> QED
      BY <3>1, <3>2 DEF TypeOK
  <2>2. PICK v \in Versions : v = latest[checkerOf(t)]
    BY <2>1
  <2>3. [pc |-> "open", path |-> path, version |-> v] \in Task
    BY <2>1, TaskStates
  <2>4. task' \in [Tasks -> Task] /\ task'[t].pc = "open" /\ \A s \in Tasks : s # t => task'[s] = task[s]
    BY <1>3, <2>2, <2>3 DEF TypeOK
  <2>5. \A s \in Tasks : task'[s].pc = "apply" => latest'[checkerOf(s)'] # NoRelease
    BY <1>1, <1>3, <2>4 DEF TypeOK, checkerOf
  <2> QED
    BY <1>1, <1>3, <2>4, <2>5 DEF TypeOK
<1> QED
  BY <1>2, <1>3 DEF BeginApply

\* The download is opened.
LEMMA OpenTypeOK ==
    ASSUME TypeOK, NEW t \in Tasks, OpenNew(t)
    PROVE  TypeOK'
<1>1. PICK f \in Files, v \in Versions : Opens(t, f, v)
  BY OpenNewStep
<1>2. UNCHANGED <<bin, side, running, up, self, path, released, updates, crashes, latest,
                  overlapped, lowered, stranded>>
  BY DEF OpenNew, procVars, outerVars, historyVars
<1>3. /\ task \in [Tasks -> Task] /\ file \in [Files -> Content]
      /\ new \in [Updatable -> Files \cup {NoFile}]
  BY DEF TypeOK
<1>4. file' \in [Files -> Content]
  <2>1. \A s \in Tasks : Writing(s, f) => task[s].version \in Versions
    BY <1>3, TaskStates DEF Writing
  <2>2. file[f].exec \in BOOLEAN
    BY <1>3 DEF Content
  <2>3. PICK from : from = {v} \cup {task[s].version : s \in {s \in Tasks : Writing(s, f)}}
    OBVIOUS
  <2>4. from \in SUBSET Versions
    BY <2>1, <2>3
  <2>5. PICK exec \in BOOLEAN : exec = (Exists(new[task[t].path]) /\ file[f].exec)
    BY <2>2 DEF Exists
  <2>6. file' = [file EXCEPT ![f] = [from |-> from, whole |-> FALSE, exec |-> exec]]
    BY <1>1, <2>3, <2>5 DEF Opens
  <2>7. [from |-> from, whole |-> FALSE, exec |-> exec] \in Content
    BY <2>4 DEF Content
  <2> QED
    BY <1>3, <2>6, <2>7
<1>5. \A s \in Tasks : task'[s].pc = "apply" => task[s].pc = "apply"
  BY <1>1 DEF Opens
<1>6. new' \in [Updatable -> Files \cup {NoFile}] /\ task' \in [Tasks -> Task]
  BY <1>1, <1>3 DEF Opens
<1> QED
  BY <1>2, <1>4, <1>5, <1>6 DEF TypeOK, checkerOf

\* The download is written.
LEMMA WriteTypeOK ==
    ASSUME TypeOK, NEW t \in Tasks, FinishCopy(t) \/ Chmod(t)
    PROVE  TypeOK'
<1>1. /\ UNCHANGED <<bin, new, procVars, outerVars, historyVars>>
      /\ task \in [Tasks -> Task] /\ file \in [Files -> Content]
      /\ new \in [Updatable -> Files \cup {NoFile}]
      /\ task[t].pc \in {"copy", "chmod"} /\ "chmod" \in Steps /\ "unlink" \in Steps
  BY DEF FinishCopy, Chmod, TypeOK, At, Steps
<1>2. Goto(t, "chmod") \/ Goto(t, "unlink") \/ End(t)
  BY DEF FinishCopy, Chmod
<1>3. file' \in [Files -> Content]
  <2>1. CASE FinishCopy(t)
    <3>1. PICK g : g = task[t].file
      OBVIOUS
    <3>2. g \in Files /\ task[t].last \in BOOLEAN
      BY <1>1, <2>1, <3>1, TaskStates DEF FinishCopy, At
    <3>3. PICK whole \in BOOLEAN : file' = [file EXCEPT ![g].whole = whole]
      BY <1>1, <2>1, <3>1, <3>2 DEF FinishCopy, Content
    <3>4. [file[g] EXCEPT !.whole = whole] \in Content
      BY <1>1, <3>2, <3>3 DEF Content
    <3> QED
      BY <1>1, <3>2, <3>3, <3>4
  <2>2. CASE Chmod(t)
    <3>1. PICK g : g = new[task[t].path]
      OBVIOUS
    <3>2. g \in Files \cup {NoFile}
      <4>1. task[t].path \in Updatable
        BY <1>1, PathTypes
      <4> QED
        BY <1>1, <3>1, <4>1
    <3>3. file' = file \/ (g \in Files /\ file' = [file EXCEPT ![g].exec = TRUE])
      BY <2>2, <3>1, <3>2 DEF Chmod, Exists
    <3>4. CASE g \in Files /\ file' = [file EXCEPT ![g].exec = TRUE]
      <4>1. [file[g] EXCEPT !.exec = TRUE] \in Content
        BY <1>1, <3>4 DEF Content
      <4> QED
        BY <1>1, <3>4, <4>1
    <3> QED
      BY <1>1, <3>3, <3>4
  <2> QED
    BY <2>1, <2>2
<1>4. \/ task[t].pc \notin {"idle", "apply"} /\ \E pc \in Steps : Goto(t, pc)
      \/ End(t)
  BY <1>1, <1>2
<1> QED
  BY <1>1, <1>3, <1>4, StepTypeOK DEF TypeOK, procVars, historyVars

\* Names are removed and given to other files.
LEMMA MoveTypeOK ==
    ASSUME TypeOK, NEW t \in Tasks,
           FailDownload(t) \/ RemoveBackup(t) \/ BackUp(t) \/ Replace(t) \/ RollBack(t)
    PROVE  TypeOK'
<1>1. /\ UNCHANGED <<file, side, running, up, self, outerVars, overlapped, lowered>>
      /\ bin \in [0 .. Depth -> Files \cup {NoFile}] /\ new \in [Updatable -> Files \cup {NoFile}]
      /\ path \in 0 .. Depth /\ stranded \in BOOLEAN
      /\ task[t].pc \in {"open", "copy", "unlink", "backup", "replace", "rollback"}
      /\ "backup" \in Steps /\ "replace" \in Steps /\ "rollback" \in Steps /\ "restart" \in Steps
  BY DEF FailDownload, RemoveBackup, BackUp, Replace, RollBack, Rename, procVars, historyVars,
         TypeOK, At, Steps
<1>2. PICK n : n = task[t].path
  OBVIOUS
<1>3. n \in Updatable /\ n \in 0 .. Depth /\ n + 1 \in 0 .. Depth
  BY <1>1, <1>2, PathTypes
<1>4. \/ task[t].pc \notin {"idle", "apply"} /\ \E pc \in Steps : Goto(t, pc)
      \/ End(t)
  BY <1>1 DEF FailDownload, RemoveBackup, BackUp, Replace, RollBack
<1>5. /\ \/ bin' = bin
         \/ \E i \in 0 .. Depth : bin' = [bin EXCEPT ![i] = NoFile]
         \/ \E i, j \in 0 .. Depth : bin' = [bin EXCEPT ![i] = NoFile, ![j] = bin[i]]
         \/ \E i \in 0 .. Depth, m \in Updatable : bin' = [bin EXCEPT ![i] = new[m]]
      /\ new' = new \/ \E m \in Updatable : new' = [new EXCEPT ![m] = NoFile]
      /\ path' = path \/ path' = n \/ path' = n + 1
      /\ stranded' = stranded \/ stranded' = TRUE
  <2>1. CASE FailDownload(t)
    BY <1>2, <1>3, <2>1 DEF FailDownload, RemoveNew, procVars, historyVars
  <2>2. CASE RemoveBackup(t)
    BY <1>2, <1>3, <2>2 DEF RemoveBackup, procVars, historyVars
  <2>3. CASE BackUp(t)
    BY <1>2, <1>3, <2>3 DEF BackUp, RemoveNew, Rename, procVars, historyVars
  <2>4. CASE Replace(t)
    BY <1>2, <1>3, <2>4 DEF Replace, RemoveNew, procVars, historyVars
  <2>5. CASE RollBack(t)
    BY <1>2, <1>3, <2>5 DEF RollBack, Rename, procVars
  <2> QED
    BY <2>1, <2>2, <2>3, <2>4, <2>5
<1>6. bin' \in [0 .. Depth -> Files \cup {NoFile}] /\ new' \in [Updatable -> Files \cup {NoFile}]
  BY <1>1, <1>5
<1>7. path' \in 0 .. Depth /\ stranded' \in BOOLEAN
  BY <1>1, <1>3, <1>5
<1> QED
  BY <1>1, <1>4, <1>6, <1>7, StepTypeOK DEF TypeOK

\* The process is replaced, or the restart fails.
LEMMA RestartTypeOK ==
    ASSUME TypeOK, NEW t \in Tasks, Restart(t)
    PROVE  TypeOK'
<1>1. UNCHANGED <<dirVars, side, outerVars, historyVars>> /\ path \in 0 .. Depth
      /\ UNCHANGED <<released, updates, crashes>> /\ crashes' \in 0 .. MaxCrashes
  BY DEF Restart, TypeOK, outerVars
<1>2. CASE Run(path)
  BY <1>1, <1>2, RunTypes, ClearedTypeOK
<1>3. CASE Die
  BY <1>1, <1>3, DieTypes, ClearedTypeOK
<1>4. CASE End(t) /\ UNCHANGED <<running, up, self, path>>
  BY <1>1, <1>4, StepTypeOK DEF TypeOK, dirVars, historyVars
<1> QED
  BY <1>2, <1>3, <1>4 DEF Restart

(* Links, files, updates and Checkers hold values of their kinds           *)
(* (updater.go Checker, Apply).                                            *)
THEOREM TypeCorrect == Spec => []TypeOK
<1>1. TypeOK /\ [Next]_vars => TypeOK'
  <2> SUFFICES ASSUME TypeOK, [Next]_vars PROVE TypeOK'
    OBVIOUS
  <2>1. CASE ServerCheck
    <3>1. latest' = [latest EXCEPT ![Shared] = released] /\ Shared \in Checkers
      BY <2>1 DEF ServerCheck, Check, Checkers
    <3>2. latest' \in [Checkers -> Versions \cup {NoRelease}]
      BY <3>1 DEF TypeOK
    <3>3. \A c \in Checkers : latest[c] # NoRelease => latest'[c] # NoRelease
      BY <3>1, UpdaterAssumption DEF TypeOK
    <3>4. \A t \in Tasks : checkerOf(t)' = checkerOf(t) /\ checkerOf(t) \in Checkers
      BY <2>1 DEF ServerCheck, procVars, checkerOf, Checkers
    <3> QED
      BY <2>1, <3>2, <3>3, <3>4 DEF ServerCheck, TypeOK, dirVars, procVars, outerVars, historyVars
  <2>2. CASE \E t \in Tasks : Update(t)
    BY <2>2, BeginTypeOK, ReadTypeOK, OpenTypeOK, WriteTypeOK, MoveTypeOK, RestartTypeOK DEF Update
  <2>3. CASE Crash
    <3>1. crashes' \in 0 .. MaxCrashes
      BY <2>3, UpdaterAssumption DEF Crash, TypeOK
    <3> QED
      BY <2>3, <3>1, DieTypes, ClearedTypeOK DEF Crash
  <2>4. CASE Start
    <3>1. Run(0) /\ 0 \in 0 .. Depth
      BY <2>4, UpdaterAssumption DEF Start
    <3>2. UNCHANGED <<dirVars, side, released, updates, historyVars>> /\ crashes' \in 0 .. MaxCrashes
      BY <2>4 DEF Start, outerVars, TypeOK
    <3> QED
      BY <3>1, <3>2, RunTypes, ClearedTypeOK
  <2>5. CASE Publish
    BY <2>5 DEF Publish, TypeOK, checkerOf, dirVars, procVars, historyVars
  <2>6. CASE Broken \/ UNCHANGED vars
    BY <2>6 DEF Broken, vars, dirVars, procVars, outerVars, historyVars, TypeOK, checkerOf
  <2> QED
    BY <2>1, <2>2, <2>3, <2>4, <2>5, <2>6 DEF Next
<1> QED
  BY InitTypeOK, <1>1, PTL DEF Spec

(***************************************************************************)
(* One update at a time.                                                   *)
(***************************************************************************)
\* What the steps are about.
LEMMA Shape ==
    ASSUME TypeOK
    PROVE  /\ bin \in [Ranks -> Files \cup {NoFile}] /\ new \in [Updatable -> Files \cup {NoFile}]
           /\ file \in [Files -> Content] /\ task \in [Tasks -> Task]
           /\ path \in Ranks /\ 0 \in Ranks /\ 1 \in Ranks
           /\ \A n \in Updatable : n \in Ranks /\ n + 1 \in Ranks /\ n + 1 # n /\ n + 1 # 0
           /\ NoFile \notin Files
  BY UpdaterAssumption DEF TypeOK, Ranks, Updatable

\* The other updates are idle, and stay so.
Only(t) == \A s \in Tasks : s # t => task[s] = Idle /\ task'[s] = Idle

\* An update that is under way is the only one.
LEMMA AloneIsOnly ==
    ASSUME Alone, NEW t \in Tasks, task[t].pc # "idle",
           \A s \in Tasks : s # t => task'[s] = task[s]
    PROVE  Only(t)
<1>1. task[t] # Idle
  BY TaskStates
<1> QED
  BY <1>1 DEF Alone, Only

\* The step of an update that went on or ended is the only one.
LEMMA StepIsOnly ==
    ASSUME TypeOK, Alone, NEW t \in Tasks, task[t].pc \notin {"idle", "apply"}, side' = side,
           (\E pc \in Steps : Goto(t, pc)) \/ End(t)
    PROVE  /\ Only(t)
           /\ \A pc \in Steps : Goto(t, pc) => task'[t].pc = pc /\ task'[t].path = task[t].path
           /\ End(t) => task'[t].pc = "idle"
<1>1. \A s \in Tasks : s # t => task'[s] = task[s]
  BY Went, Ended
<1>2. Idle.pc = "idle"
  BY TaskStates
<1> QED
  BY <1>1, <1>2, AloneIsOnly, Went, Ended

\* With one update, the invariant is about the step it is at.
LEMMA OnlyOne ==
    ASSUME NEW t \in Tasks, Only(t), (OneName /\ SelfInv /\ AllUsable /\ Left)', Finds(t)'
    PROVE  Single'
<1>1. Alone'
  BY DEF Only, Alone
<1>2. ASSUME NEW s \in Tasks PROVE Finds(s)'
  <2>1. CASE s = t
    BY <2>1
  <2>2. CASE s # t
    <3>1. task'[s].pc = "idle"
      BY <2>2, TaskStates DEF Only
    <3> QED
      BY <3>1 DEF Finds, Before, After
  <2> QED
    BY <2>1, <2>2
<1> QED
  BY <1>1, <1>2 DEF Single

\* What Left says while an update takes a step.
LEMMA LeftOfOne ==
    ASSUME Left, NEW t \in Tasks, Only(t), up
    PROVE  stranded \/ Exists(bin[0]) \/ (Exists(bin[1]) /\ Swapping(t))
<1>1. \A s \in Tasks : Swapping(s) => s = t
  BY TaskStates DEF Swapping, Only
<1> QED
  BY <1>1 DEF Left

\* What it asks of the next state.
LEMMA LeftOfNext ==
    ASSUME TypeOK', SelfInv', up', NEW t \in Tasks,
           stranded' \/ Exists(bin[0])' \/ (Exists(bin[1]) /\ Swapping(t))'
    PROVE  Left'
<1>1. bin'[path'] # NoFile /\ path' \in Ranks
  BY Shape DEF SelfInv, Exists, TypeOK, Ranks
<1> QED
  BY <1>1 DEF Left, Exists

\* A step that leaves the binaries alone, of an update that has not moved them.
LEMMA QuietKeeps ==
    ASSUME TypeOK, TypeOK', Single, up, NEW t \in Tasks, Only(t),
           task[t].pc \notin {"replace", "rollback"},
           UNCHANGED <<bin, procVars, stranded>>
    PROVE  (SelfInv /\ Left)'
<1>1. SelfInv' /\ up' /\ bin' = bin
  BY DEF procVars, Single, SelfInv, Exists
<1>2. stranded \/ Exists(bin[0])
  BY LeftOfOne DEF Single, Swapping
<1> QED
  BY <1>1, <1>2, LeftOfNext DEF Exists

\* The same of one that leaves all files alone.
LEMMA StillKeeps ==
    ASSUME TypeOK, TypeOK', Single, up, NEW t \in Tasks, Only(t),
           task[t].pc \notin {"replace", "rollback"},
           UNCHANGED <<dirVars, procVars, stranded>>, Finds(t)'
    PROVE  Single'
<1>1. (SelfInv /\ Left)'
  BY QuietKeeps DEF dirVars
<1>2. (OneName /\ AllUsable)'
  BY DEF dirVars, Single, OneName, AllUsable, Exists, Usable
<1> QED
  BY <1>1, <1>2, OnlyOne

\* An update begins.
LEMMA BeginKeeps ==
    ASSUME TypeOK, TypeOK', Single, NEW t \in Tasks, ~overlapped',
           HandleUpdateApply(t) \/ HandleUpdateCommand(t)
    PROVE  Single'
<1>1. /\ UNCHANGED <<dirVars, procVars, stranded>> /\ up /\ task \in [Tasks -> Task]
      /\ task[t].pc = "idle"
  BY DEF HandleUpdateApply, HandleUpdateCommand, Begin, historyVars, At, TypeOK
<1>2. CASE UNCHANGED task
  BY <1>1, <1>2 DEF dirVars, procVars, Single, Alone, OneName, SelfInv, AllUsable, Left, Finds,
                    Swapping, Exists, Usable
<1>3. CASE Begin(t)
  <2>1. Only(t) /\ task'[t].pc = "apply"
    BY <1>1, <1>3 DEF Begin, Only
  <2>2. Finds(t)'
    BY <2>1 DEF Finds, Before, After
  <2> QED
    BY <1>1, <2>1, <2>2, StillKeeps
<1> QED
  BY <1>2, <1>3 DEF HandleUpdateApply, HandleUpdateCommand

\* An update reads its release, or ends without a restart.
LEMMA ReadKeeps ==
    ASSUME TypeOK, TypeOK', Single, NEW t \in Tasks,
           \/ BeginApply(t)
           \/ Restart(t) /\ End(t) /\ UNCHANGED <<running, up, self, path>>
    PROVE  Single'
<1>1. /\ UNCHANGED <<dirVars, procVars, stranded>> /\ up /\ task \in [Tasks -> Task]
      /\ task[t].pc \in {"apply", "restart"}
  BY DEF BeginApply, Restart, historyVars, procVars, At, TypeOK
<1>2. /\ \A s \in Tasks : s # t => task'[s] = task[s]
      /\ task'[t].pc = "idle" \/ (task'[t].pc = "open" /\ task'[t].path = path)
  <2>1. CASE End(t)
    BY <1>1, <2>1, Ended, TaskStates DEF procVars
  <2>2. CASE BeginApply(t) /\ ~End(t)
    <3>1. \E v : task' = [task EXCEPT ![t] = [pc |-> "open", path |-> path, version |-> v]]
      BY <2>2 DEF BeginApply
    <3> QED
      BY <1>1, <3>1
  <2> QED
    BY <2>1, <2>2
<1>3. Only(t)
  BY <1>1, <1>2, AloneIsOnly DEF Single
<1>4. Finds(t)'
  BY <1>1, <1>2 DEF Finds, Before, After, procVars
<1> QED
  BY <1>1, <1>3, <1>4, StillKeeps

\* The download begins: no other file is touched.
LEMMA OpenKeeps ==
    ASSUME TypeOK, TypeOK', Single, NEW t \in Tasks, OpenNew(t)
    PROVE  Single'
<1>1. PICK f \in Files, v \in Versions : Opens(t, f, v)
  BY OpenNewStep
<1>2. PICK n : n = task[t].path
  OBVIOUS
<1>3. /\ UNCHANGED <<bin, procVars, stranded>> /\ up /\ task[t].pc = "open"
      /\ n \in Updatable /\ n = path
  <2>1. UNCHANGED <<bin, procVars, stranded>> /\ up /\ task[t].pc = "open"
    BY DEF OpenNew, At, historyVars
  <2> QED
    BY <1>2, <2>1, PathTypes DEF Single, Finds, Before
<1>4. \A s \in Tasks : ~Writing(s, f)
  <2>1. \A s \in Tasks : s # t => task[s] = Idle
    BY <1>3, TaskStates DEF Single, Alone
  <2> QED
    BY <1>3, <2>1, TaskStates DEF Writing
<1>5. /\ Only(t)
      /\ task'[t] = [pc |-> "copy", path |-> n, version |-> v, file |-> f, last |-> TRUE]
  BY <1>1, <1>2, <1>3, <1>4, AloneIsOnly DEF Opens, Single
<1>6. /\ new'[n] = f /\ \A m \in Updatable : m # n => new'[m] = new[m]
      /\ \A m \in Ranks : bin[m] # f
      /\ \A m \in Updatable : m # n => new[m] # f
  <2>1. new' = [new EXCEPT ![n] = f]
    BY <1>1, <1>2 DEF Opens
  <2>2. CASE Exists(new[n])
    <3>1. f = new[n]
      BY <1>1, <1>2, <2>2 DEF Opens
    <3> QED
      BY <1>3, <2>1, <2>2, <3>1, Shape DEF Single, OneName, Exists
  <2>3. CASE ~Exists(new[n])
    <3>1. (\A m \in Ranks : bin[m] # f) /\ (\A m \in Updatable : new[m] # f)
      BY <1>1, <1>2, <2>3 DEF Opens
    <3> QED
      BY <1>3, <2>1, <3>1, Shape
  <2> QED
    BY <2>2, <2>3
<1>7. file'[f].from = {v} /\ \A g \in Files : g # f => file'[g] = file[g]
  BY <1>1, <1>4, Shape DEF Opens
<1>8. OneName'
  BY <1>3, <1>6 DEF Single, OneName, Exists
<1>9. AllUsable'
  <2> SUFFICES ASSUME NEW m \in Ranks, bin[m] # NoFile PROVE Usable(bin[m])'
    BY <1>3 DEF AllUsable, Exists
  <2>1. Usable(bin[m]) /\ bin[m] \in Files /\ bin[m] # f
    BY <1>6, Shape DEF Single, AllUsable, Exists
  <2> QED
    BY <1>3, <1>7, <2>1 DEF Usable
<1>10. Finds(t)'
  BY <1>3, <1>5, <1>6, <1>7 DEF Finds, Before, After, procVars
<1> QED
  BY <1>3, <1>5, <1>8, <1>9, <1>10, QuietKeeps, OnlyOne

\* The download is finished and made executable.
LEMMA WriteKeeps ==
    ASSUME TypeOK, TypeOK', Single, NEW t \in Tasks, FinishCopy(t) \/ Chmod(t)
    PROVE  Single'
<1>1. /\ UNCHANGED <<bin, new, procVars, stranded>> /\ up /\ side' = side
      /\ task[t].pc \in {"copy", "chmod"} /\ "chmod" \in Steps /\ "unlink" \in Steps
  BY DEF FinishCopy, Chmod, At, procVars, historyVars, Steps
<1>2. PICK n, g : n = task[t].path /\ g = new[n]
  OBVIOUS
<1>3. n \in Updatable /\ n = path /\ Finds(t)
  BY <1>1, <1>2, PathTypes DEF Single, Finds, Before
<1>4. /\ g \in Files /\ \E v \in Versions : file[g].from = {v}
      /\ FinishCopy(t) => task[t].file = g /\ task[t].last
      /\ Chmod(t) => file[g].whole
  <2>1. CASE FinishCopy(t)
    <3>1. task[t].pc = "copy" /\ task[t] \in Task
      BY <2>1, Shape DEF FinishCopy, At
    <3>2. /\ task[t].file \in Files /\ task[t].version \in Versions
          /\ task[t].file = g /\ task[t].last /\ file[g].from = {task[t].version}
      BY <1>2, <1>3, <3>1, TaskStates DEF Finds
    <3> QED
      BY <2>1, <3>1, <3>2 DEF Chmod, At
  <2>2. CASE Chmod(t)
    <3>1. task[t].pc = "chmod"
      BY <2>2 DEF Chmod, At
    <3>2. g # NoFile /\ file[g].whole /\ \E v \in Versions : file[g].from = {v}
      BY <1>2, <1>3, <3>1 DEF Finds, Exists
    <3> QED
      BY <1>2, <1>3, <2>2, <3>1, <3>2, Shape DEF FinishCopy, At
  <2> QED
    BY <2>1, <2>2
<1>5. /\ FinishCopy(t) => Goto(t, "chmod") /\ file' = [file EXCEPT ![g].whole = TRUE]
      /\ Chmod(t) => Goto(t, "unlink") /\ file' = [file EXCEPT ![g].exec = TRUE]
  <2>1. CASE FinishCopy(t)
    BY <1>4, <2>1 DEF FinishCopy, Chmod, At
  <2>2. CASE Chmod(t)
    <3>1. g # NoFile
      BY <1>4, UpdaterAssumption
    <3> QED
      BY <1>2, <1>4, <2>2, <3>1 DEF FinishCopy, Chmod, At, Exists
  <2> QED
    BY <2>1, <2>2
<1>6. /\ \A h \in Files : h # g => file'[h] = file[h]
      /\ file'[g].from = file[g].from
      /\ file'[g].whole
      /\ Chmod(t) => file'[g].exec
  BY <1>4, <1>5, Shape DEF Content
<1>7. /\ Only(t)
      /\ FinishCopy(t) => task'[t].pc = "chmod" /\ task'[t].path = n
      /\ Chmod(t) => task'[t].pc = "unlink" /\ task'[t].path = n
  BY <1>1, <1>2, <1>5, StepIsOnly DEF Single
<1>8. OneName'
  BY <1>1 DEF Single, OneName, Exists
<1>9. AllUsable'
  <2> SUFFICES ASSUME NEW m \in Ranks, bin[m] # NoFile PROVE Usable(bin[m])'
    BY <1>1 DEF AllUsable, Exists
  <2>1. Usable(bin[m]) /\ bin[m] \in Files /\ bin[m] # g
    BY <1>2, <1>3, Shape DEF Single, AllUsable, OneName, Exists
  <2> QED
    BY <1>1, <1>6, <2>1 DEF Usable
<1>10. Finds(t)'
  <2>1. new'[n] = g /\ g # NoFile /\ path' = path
    BY <1>1, <1>2, <1>4, Shape DEF procVars
  <2> QED
    BY <1>3, <1>4, <1>6, <1>7, <2>1 DEF Finds, Before, After, Exists, Usable
<1> QED
  BY <1>1, <1>7, <1>8, <1>9, <1>10, QuietKeeps, OnlyOne

\* A binary that keeps its file, or is renamed, is as usable as it was.
LEMMA RenamedIsUsable ==
    ASSUME UNCHANGED file, NEW f, Usable(f)
    PROVE  Usable(f)'
  BY DEF Usable

\* What a name stands for before the binaries are moved.
LEMMA MoveFacts ==
    ASSUME TypeOK, Single, NEW t \in Tasks, up, Only(t), NEW n, n = task[t].path,
           task[t].pc \in {"open", "copy", "unlink", "backup", "replace", "rollback"}
    PROVE  /\ n \in Updatable /\ n \in Ranks /\ n + 1 \in Ranks /\ n + 1 # n /\ n + 1 # 0
           /\ bin[path] = self /\ Exists(self)
           /\ task[t].pc \in {"replace", "rollback"} => path = n + 1
           /\ task[t].pc \notin {"replace", "rollback"} => path = n
           /\ n # 0 \/ task[t].pc \notin {"replace", "rollback"} => stranded \/ Exists(bin[0])
           /\ task[t].pc \in {"unlink", "backup", "replace"} => Exists(new[n]) /\ Usable(new[n])
           /\ \A m \in Ranks : Exists(bin[m]) => Usable(bin[m])
<1>1. n \in Updatable
  BY PathTypes
<1>2. Finds(t) /\ SelfInv /\ AllUsable
  BY DEF Single
<1>3. stranded \/ Exists(bin[0]) \/ Swapping(t)
  BY LeftOfOne DEF Single
<1> QED
  BY <1>1, <1>2, <1>3, Shape DEF Finds, Before, After, SelfInv, AllUsable, Swapping

\* The download is given up.
LEMMA DiscardKeeps ==
    ASSUME TypeOK, TypeOK', Single, up, NEW t \in Tasks, Only(t),
           task[t].pc \in {"open", "copy", "backup"}, task'[t].pc = "idle",
           RemoveNew(task[t].path), UNCHANGED <<bin, file, procVars, stranded>>
    PROVE  Single'
<1>1. PICK n : n = task[t].path
  OBVIOUS
<1>2. n \in Updatable
  BY <1>1, PathTypes
<1>3. new'[n] = NoFile /\ \A m \in Updatable : m # n => new'[m] = new[m]
  BY <1>1, <1>2, Shape DEF RemoveNew
<1>4. OneName'
  BY <1>3 DEF Single, OneName, Exists
<1>5. AllUsable'
  BY DEF Single, AllUsable, Exists, Usable
<1>6. Finds(t)'
  BY DEF Finds, Before, After
<1> QED
  BY <1>4, <1>5, <1>6, QuietKeeps, OnlyOne

\* The old backup is removed, which is never the file of the process.
LEMMA RemoveBackupKeeps ==
    ASSUME TypeOK, TypeOK', Single, NEW t \in Tasks, RemoveBackup(t)
    PROVE  Single'
<1>1. /\ UNCHANGED <<new, file, procVars, stranded>> /\ up /\ task[t].pc = "unlink"
      /\ Goto(t, "backup") /\ "backup" \in Steps /\ side' = side
  BY DEF RemoveBackup, At, Steps, historyVars, procVars
<1>2. Only(t) /\ task'[t].pc = "backup" /\ task'[t].path = task[t].path
  BY <1>1, StepIsOnly DEF Single
<1>3. PICK n : n = task[t].path
  OBVIOUS
<1>4. /\ n \in Updatable /\ n \in Ranks /\ n + 1 \in Ranks /\ n + 1 # n /\ n + 1 # 0
      /\ bin[path] = self /\ Exists(self) /\ path = n
      /\ stranded \/ Exists(bin[0])
      /\ Exists(new[n]) /\ Usable(new[n])
      /\ \A m \in Ranks : Exists(bin[m]) => Usable(bin[m])
  BY <1>1, <1>2, <1>3, MoveFacts
<1>5. bin'[n + 1] = NoFile /\ \A m \in Ranks : m # n + 1 => bin'[m] = bin[m]
  BY <1>3, <1>4, Shape DEF RemoveBackup
<1>6. OneName'
  BY <1>1, <1>5 DEF Single, OneName, Exists
<1>7. AllUsable'
  BY <1>1, <1>4, <1>5, RenamedIsUsable DEF AllUsable, Exists
<1>8. SelfInv'
  BY <1>1, <1>4, <1>5 DEF SelfInv, Exists, procVars
<1>9. Left'
  BY <1>1, <1>4, <1>5, <1>8, LeftOfNext, Shape DEF Exists, procVars
<1>10. Finds(t)'
  <2>1. path' = n /\ new'[n] = new[n] /\ Usable(new[n])'
    BY <1>1, <1>4, RenamedIsUsable DEF procVars
  <2> QED
    BY <1>2, <1>3, <1>4, <2>1 DEF Finds, Before, After, Exists
<1> QED
  BY <1>2, <1>6, <1>7, <1>8, <1>9, <1>10, OnlyOne

\* The executable becomes the backup, and the process goes with its file.
LEMMA BackUpKeeps ==
    ASSUME TypeOK, TypeOK', Single, NEW t \in Tasks, BackUp(t)
    PROVE  Single'
<1>1. /\ UNCHANGED <<file, stranded>> /\ up /\ task[t].pc = "backup"
      /\ "replace" \in Steps /\ side' = side
      /\ Goto(t, "replace") \/ End(t)
  BY DEF BackUp, Rename, At, Steps, historyVars, procVars
<1>2. Only(t)
  BY <1>1, StepIsOnly DEF Single
<1>3. PICK n : n = task[t].path
  OBVIOUS
<1>4. /\ n \in Updatable /\ n \in Ranks /\ n + 1 \in Ranks /\ n + 1 # n /\ n + 1 # 0
      /\ bin[path] = self /\ Exists(self) /\ path = n
      /\ stranded \/ Exists(bin[0])
      /\ Exists(new[n]) /\ Usable(new[n])
      /\ \A m \in Ranks : Exists(bin[m]) => Usable(bin[m])
  BY <1>1, <1>2, <1>3, MoveFacts
<1>5. CASE Exists(bin[n]) /\ Rename(n, n + 1) /\ UNCHANGED new /\ Goto(t, "replace")
  <2>1. task'[t].pc = "replace" /\ task'[t].path = n
    BY <1>1, <1>3, <1>5, StepIsOnly DEF Single
  <2>2. /\ bin'[n] = NoFile /\ bin'[n + 1] = self
        /\ \A m \in Ranks : m # n /\ m # n + 1 => bin'[m] = bin[m]
        /\ path' = n + 1 /\ UNCHANGED <<up, self, new>>
    BY <1>4, <1>5, Shape DEF Rename
  <2>3. OneName'
    BY <1>4, <2>2 DEF Single, OneName, Exists
  <2>4. AllUsable'
    BY <1>1, <1>4, <2>2, RenamedIsUsable DEF AllUsable, Exists
  <2>5. SelfInv'
    BY <1>4, <2>2 DEF SelfInv, Exists
  <2>6. Left'
    <3>1. stranded' \/ Exists(bin[0])' \/ (Exists(bin[1]) /\ Swapping(t))'
      <4>1. CASE n = 0
        <5>1. bin'[1] = self
          BY <2>2, <4>1
        <5> QED
          BY <1>1, <1>4, <2>1, <2>2, <4>1, <5>1 DEF Swapping, Exists
      <4>2. CASE n # 0
        BY <1>1, <1>4, <2>2, <4>2, Shape DEF Exists
      <4> QED
        BY <4>1, <4>2
    <3> QED
      BY <1>1, <2>2, <2>5, <3>1, LeftOfNext
  <2>7. Finds(t)'
    <3>1. Usable(new[n])'
      BY <1>1, <1>4, <2>2, RenamedIsUsable
    <3> QED
      BY <1>4, <2>1, <2>2, <3>1 DEF Finds, Before, After, Exists
  <2> QED
    BY <1>2, <2>3, <2>4, <2>5, <2>6, <2>7, OnlyOne
<1>6. CASE RemoveNew(n) /\ UNCHANGED <<bin, procVars>> /\ End(t)
  <2>1. task'[t].pc = "idle"
    BY <1>1, <1>6, StepIsOnly DEF Single
  <2> QED
    BY <1>1, <1>2, <1>3, <1>6, <2>1, DiscardKeeps
<1> QED
  BY <1>3, <1>5, <1>6 DEF BackUp

\* The download becomes the executable.
LEMMA ReplaceKeeps ==
    ASSUME TypeOK, TypeOK', Single, NEW t \in Tasks, Replace(t)
    PROVE  Single'
<1>1. /\ UNCHANGED <<file, procVars, stranded>> /\ up /\ task[t].pc = "replace"
      /\ "restart" \in Steps /\ "rollback" \in Steps /\ side' = side
      /\ Goto(t, "restart") \/ Goto(t, "rollback")
  BY DEF Replace, At, Steps, historyVars, procVars
<1>2. Only(t)
  BY <1>1, StepIsOnly DEF Single
<1>3. PICK n : n = task[t].path
  OBVIOUS
<1>4. /\ n \in Updatable /\ n \in Ranks /\ n + 1 \in Ranks /\ n + 1 # n /\ n + 1 # 0
      /\ bin[path] = self /\ Exists(self) /\ path = n + 1
      /\ n # 0 => stranded \/ Exists(bin[0])
      /\ Exists(new[n]) /\ Usable(new[n])
      /\ \A m \in Ranks : Exists(bin[m]) => Usable(bin[m])
  BY <1>1, <1>2, <1>3, MoveFacts
<1>5. CASE bin' = [bin EXCEPT ![n] = new[n]] /\ RemoveNew(n) /\ Goto(t, "restart")
  <2>1. task'[t].pc = "restart" /\ task'[t].path = n
    BY <1>1, <1>3, <1>5, StepIsOnly DEF Single
  <2>2. /\ bin'[n] = new[n] /\ \A m \in Ranks : m # n => bin'[m] = bin[m]
        /\ new'[n] = NoFile /\ \A m \in Updatable : m # n => new'[m] = new[m]
    BY <1>4, <1>5, Shape DEF RemoveNew
  <2>3. OneName'
    BY <1>4, <2>2 DEF Single, OneName, Exists
  <2>4. AllUsable'
    BY <1>1, <1>4, <2>2, RenamedIsUsable DEF AllUsable, Exists
  <2>5. SelfInv'
    BY <1>1, <1>4, <2>2 DEF SelfInv, Exists, procVars
  <2>6. Left'
    <3>1. stranded' \/ Exists(bin[0])'
      BY <1>1, <1>4, <2>2, Shape DEF Exists
    <3> QED
      BY <1>1, <2>5, <3>1, LeftOfNext DEF procVars
  <2>7. Finds(t)'
    BY <1>1, <1>4, <2>1 DEF Finds, Before, After, procVars
  <2> QED
    BY <1>2, <2>3, <2>4, <2>5, <2>6, <2>7, OnlyOne
<1>6. CASE UNCHANGED <<bin, new>> /\ Goto(t, "rollback")
  <2>1. task'[t].pc = "rollback" /\ task'[t].path = n
    BY <1>1, <1>3, <1>6, StepIsOnly DEF Single
  <2>2. (OneName /\ AllUsable /\ SelfInv)'
    BY <1>1, <1>6 DEF Single, OneName, AllUsable, SelfInv, Exists, Usable, procVars
  <2>3. Left'
    <3>1. stranded \/ Exists(bin[0]) \/ (Exists(bin[1]) /\ Swapping(t))
      BY <1>1, <1>2, LeftOfOne DEF Single
    <3>2. Swapping(t) => Swapping(t)'
      BY <1>1, <1>3, <2>1 DEF Swapping, procVars
    <3> QED
      BY <1>1, <1>6, <2>2, <3>1, <3>2, LeftOfNext DEF Exists, procVars
  <2>4. Finds(t)'
    BY <1>1, <1>4, <2>1 DEF Finds, Before, After, procVars
  <2> QED
    BY <1>2, <2>2, <2>3, <2>4, OnlyOne
<1> QED
  BY <1>3, <1>5, <1>6 DEF Replace

\* The backup becomes the executable again, or it stays behind.
LEMMA RollBackKeeps ==
    ASSUME TypeOK, TypeOK', Single, NEW t \in Tasks, RollBack(t)
    PROVE  Single'
<1>1. /\ UNCHANGED <<new, file>> /\ up /\ task[t].pc = "rollback" /\ End(t) /\ side' = side
  BY DEF RollBack, Rename, At, procVars
<1>2. Only(t) /\ task'[t].pc = "idle"
  BY <1>1, StepIsOnly DEF Single
<1>3. PICK n : n = task[t].path
  OBVIOUS
<1>4. /\ n \in Updatable /\ n \in Ranks /\ n + 1 \in Ranks /\ n + 1 # n /\ n + 1 # 0
      /\ bin[path] = self /\ Exists(self) /\ path = n + 1
      /\ n # 0 => stranded \/ Exists(bin[0])
      /\ \A m \in Ranks : Exists(bin[m]) => Usable(bin[m])
  BY <1>1, <1>2, <1>3, MoveFacts
<1>5. Finds(t)'
  BY <1>2 DEF Finds, Before, After
<1>6. CASE Rename(n + 1, n) /\ UNCHANGED stranded
  <2>1. /\ bin'[n + 1] = NoFile /\ bin'[n] = self
        /\ \A m \in Ranks : m # n /\ m # n + 1 => bin'[m] = bin[m]
        /\ path' = n /\ UNCHANGED <<up, self>>
    BY <1>4, <1>6, Shape DEF Rename
  <2>2. OneName'
    BY <1>1, <1>4, <2>1 DEF Single, OneName, Exists
  <2>3. AllUsable'
    BY <1>1, <1>4, <2>1, RenamedIsUsable DEF AllUsable, Exists
  <2>4. SelfInv'
    BY <1>4, <2>1 DEF SelfInv, Exists
  <2>5. Left'
    <3>1. stranded' \/ Exists(bin[0])'
      BY <1>4, <1>6, <2>1, Shape DEF Exists
    <3> QED
      BY <1>1, <2>1, <2>4, <3>1, LeftOfNext
  <2> QED
    BY <1>2, <1>5, <2>2, <2>3, <2>4, <2>5, OnlyOne
<1>7. CASE stranded' = TRUE /\ UNCHANGED <<bin, procVars>>
  <2>1. (OneName /\ AllUsable /\ SelfInv)'
    BY <1>1, <1>7 DEF Single, OneName, AllUsable, SelfInv, Exists, Usable, procVars
  <2>2. Left'
    BY <1>1, <1>7, <2>1, LeftOfNext DEF procVars
  <2> QED
    BY <1>2, <1>5, <2>1, <2>2, OnlyOne
<1> QED
  BY <1>3, <1>6, <1>7 DEF RollBack

\* Nothing is left of an update but what is in the directory.
LEMMA ClearedKeeps ==
    ASSUME TypeOK, TypeOK', Single, NEW alive \in BOOLEAN, NEW v, NEW f, NEW n,
           Process(alive, v, f, n), UNCHANGED <<dirVars, stranded>>,
           alive => Exists(f) /\ f = bin[n] /\ (stranded \/ Exists(bin[0]))
    PROVE  Single'
<1>1. \A t \in Tasks : task'[t] = Idle /\ task'[t].pc = "idle"
  BY TaskStates DEF Process
<1>2. Alone' /\ \A t \in Tasks : Finds(t)'
  BY <1>1 DEF Alone, Finds, Before, After
<1>3. (OneName /\ AllUsable)'
  BY DEF dirVars, Single, OneName, AllUsable, Exists, Usable
<1>4. SelfInv'
  BY DEF dirVars, SelfInv, Process, Exists
<1>5. Left'
  <2>1. bin' = bin /\ up' = alive /\ stranded' = stranded
    BY DEF dirVars, Process
  <2>2. /\ \E m \in Ranks : Exists(bin[m])
        /\ ~stranded /\ ~Exists(bin[0]) => Exists(bin[1])
    BY DEF Single, Left
  <2> QED
    BY <2>1, <2>2 DEF Left, Exists
<1> QED
  BY <1>2, <1>3, <1>4, <1>5 DEF Single

\* A restart finds the file the process runs.
LEMMA RestartFinds ==
    ASSUME TypeOK, Single, NEW t \in Tasks, Restart(t)
    PROVE  up /\ bin[path] = self /\ Exists(self) /\ (stranded \/ Exists(bin[0]))
<1>1. up /\ task[t].pc = "restart"
  BY DEF Restart, At
<1>2. \A s \in Tasks : ~Swapping(s)
  <2>1. \A s \in Tasks : s # t => task[s] = Idle
    BY <1>1, TaskStates DEF Single, Alone
  <2> QED
    BY <1>1, <2>1, TaskStates DEF Swapping
<1> QED
  BY <1>1, <1>2 DEF Single, SelfInv, Left

\* The process is replaced, ends, or goes on.
LEMMA RestartKeeps ==
    ASSUME TypeOK, TypeOK', Single, NEW t \in Tasks, Restart(t)
    PROVE  Single'
<1>1. UNCHANGED <<dirVars, stranded>> /\ TRUE \in BOOLEAN /\ FALSE \in BOOLEAN
  BY DEF Restart, historyVars
<1>2. up /\ bin[path] = self /\ Exists(self) /\ (stranded \/ Exists(bin[0]))
  BY RestartFinds
<1>3. CASE Run(path)
  <2>1. \E v : Process(TRUE, v, bin[path], path)
    BY <1>3 DEF Run
  <2> QED
    BY <1>1, <1>2, <2>1, ClearedKeeps
<1>4. CASE Die
  BY <1>1, <1>4, ClearedKeeps DEF Die
<1>5. CASE End(t) /\ UNCHANGED <<running, up, self, path>>
  BY <1>5, ReadKeeps
<1> QED
  BY <1>3, <1>4, <1>5 DEF Restart

\* What has overlapped, or was lowered, stays so.
LEMMA OverlapStays ==
    ASSUME [Next]_vars
    PROVE  (overlapped => overlapped') /\ (lowered => lowered')
<1>1. overlapped => overlapped'
  BY DEF Next, ServerCheck, Update, HandleUpdateApply, HandleUpdateCommand, Begin, BeginApply,
         OpenNew, FinishCopy, FailDownload, Chmod, RemoveBackup, BackUp, Replace, RollBack,
         Restart, Crash, Start, Broken, Publish, vars, historyVars
<1>2. ASSUME NEW t \in Tasks, BeginApply(t), lowered PROVE lowered'
  BY <1>2 DEF BeginApply
<1>3. ASSUME NEW t \in Tasks, HandleUpdateApply(t) \/ HandleUpdateCommand(t) PROVE lowered' = lowered
  BY <1>3 DEF HandleUpdateApply, HandleUpdateCommand, Begin, historyVars
<1>4. ASSUME NEW t \in Tasks, Update(t), ~BeginApply(t), ~HandleUpdateApply(t), ~HandleUpdateCommand(t)
      PROVE  lowered' = lowered
  BY <1>4 DEF Update, OpenNew, FinishCopy, FailDownload, Chmod, RemoveBackup, BackUp, Replace,
              RollBack, Restart, historyVars
<1>5. ServerCheck \/ Crash \/ Start \/ Broken \/ Publish \/ UNCHANGED vars => lowered' = lowered
  BY DEF ServerCheck, Crash, Start, Broken, Publish, vars, historyVars
<1>6. lowered => lowered'
  BY <1>2, <1>3, <1>4, <1>5 DEF Next
<1> QED
  BY <1>1, <1>6

\* SingleInv holds in every state.
LEMMA SinglesTracked == Spec => []SingleInv
<1>1. Init => SingleInv
  <2> SUFFICES ASSUME Init PROVE Single
    BY DEF SingleInv
  <2>0. TypeOK
    BY InitTypeOK
  <2>1. \A t \in Tasks : task[t] = Idle /\ task[t].pc = "idle"
    BY TaskStates DEF Init
  <2>2. Alone /\ \A t \in Tasks : Finds(t)
    BY <2>1 DEF Alone, Finds, Before, After
  <2>3. PICK f \in Files, v \in Versions :
            /\ bin = [n \in 0 .. Depth |-> IF n = 0 THEN f ELSE NoFile]
            /\ self = f
            /\ file = [g \in Files |-> [from |-> {v}, whole |-> TRUE, exec |-> TRUE]]
    BY DEF Init
  <2>4. /\ bin[0] = f /\ f # NoFile /\ path = 0
        /\ \A n \in Ranks : n # 0 => bin[n] = NoFile
        /\ \A n \in Updatable : new[n] = NoFile
    BY <2>0, <2>3, Shape DEF Init, Ranks
  <2>5. Usable(f)
    BY <2>3 DEF Usable
  <2>6. OneName /\ SelfInv /\ AllUsable /\ Left
    BY <2>0, <2>3, <2>4, <2>5, Shape DEF OneName, SelfInv, AllUsable, Left, Exists
  <2> QED
    BY <2>2, <2>6 DEF Single
<1>2. TypeOK /\ TypeOK' /\ SingleInv /\ [Next]_vars => SingleInv'
  <2> SUFFICES ASSUME TypeOK, TypeOK', SingleInv, [Next]_vars, ~overlapped' PROVE Single'
    BY DEF SingleInv
  <2>1. Single
    <3>1. overlapped => overlapped'
      BY OverlapStays
    <3> QED
      BY <3>1 DEF SingleInv
  <2>2. CASE \E t \in Tasks : Update(t)
    <3>1. PICK t \in Tasks : Update(t)
      BY <2>2
    <3>2. CASE FailDownload(t)
      <4>1. /\ up /\ task[t].pc \in {"open", "copy"} /\ RemoveNew(task[t].path) /\ End(t)
            /\ UNCHANGED <<bin, file, procVars, stranded>> /\ side' = side
        BY <3>2 DEF FailDownload, At, procVars, historyVars
      <4>2. Only(t) /\ task'[t].pc = "idle"
        BY <2>1, <4>1, StepIsOnly DEF Single
      <4> QED
        BY <2>1, <4>1, <4>2, DiscardKeeps
    <3> QED
      BY <2>1, <3>1, <3>2, BeginKeeps, ReadKeeps, OpenKeeps, WriteKeeps, RemoveBackupKeeps,
         BackUpKeeps, ReplaceKeeps, RollBackKeeps, RestartKeeps DEF Update
  <2>3. CASE Crash
    BY <2>1, <2>3, ClearedKeeps DEF Crash, Die, historyVars
  <2>4. CASE Start
    <3>1. \E v : Process(TRUE, v, bin[0], 0)
      BY <2>4 DEF Start, Run
    <3> QED
      BY <2>1, <2>4, <3>1, ClearedKeeps DEF Start, CanStart, historyVars
  <2>5. CASE ServerCheck \/ Broken \/ Publish \/ UNCHANGED vars
    <3>1. UNCHANGED <<bin, new, file, task, up, self, path, stranded>>
      BY <2>5 DEF ServerCheck, Broken, Publish, vars, dirVars, procVars, historyVars
    <3> QED
      BY <2>1, <3>1 DEF Single, Alone, OneName, SelfInv, AllUsable, Left, Finds, Swapping,
                        Exists, Usable
  <2> QED
    BY <2>2, <2>3, <2>4, <2>5 DEF Next
<1> QED
  BY <1>1, <1>2, TypeCorrect, PTL DEF Spec

(* Wherever the process dies, and whatever fails, the executable or its    *)
(* backup can be started, if no update has overlapped another; after a     *)
(* rollback that failed, some file under a backup's name (updater.go       *)
(* Apply).                                                                 *)
THEOREM SurvivesUpdates == Spec => []LostOnlyByOverlap
<1>1. TypeOK /\ SingleInv => LostOnlyByOverlap
  <2> SUFFICES ASSUME TypeOK, Single
               PROVE  \E n \in IF stranded THEN 0 .. Depth ELSE {0, 1} :
                          Exists(bin[n]) /\ Usable(bin[n])
    BY DEF SingleInv, LostOnlyByOverlap
  <2>1. PICK n \in Ranks : Exists(bin[n]) /\ (~stranded => n \in {0, 1})
    BY Shape DEF Single, Left
  <2>2. Usable(bin[n])
    BY <2>1 DEF Single, AllUsable
  <2> QED
    BY <2>1, <2>2 DEF Ranks
<1> QED
  BY <1>1, TypeCorrect, SinglesTracked, PTL

(* Neither the executable nor a backup is anything but a whole binary of   *)
(* one release that may be executed, if no update has overlapped another   *)
(* (updater.go Apply: the download goes to a name of its own).             *)
THEOREM ExeStaysUsable == Spec => []ExeIsUsable
<1>1. SingleInv => ExeIsUsable
  BY DEF SingleInv, Single, AllUsable, ExeIsUsable, Ranks
<1> QED
  BY <1>1, SinglesTracked, PTL

(***************************************************************************)
(* The version of the process, and of what it starts.                      *)
(***************************************************************************)
\* Only the start of a download changes where a file's bytes come from, and never those of
\* a binary.
LEMMA SourcesKept ==
    ASSUME TypeOK, Single, [Next]_vars
    PROVE  /\ \A n \in Ranks : Exists(bin[n]) => file'[bin[n]].from = file[bin[n]].from
           /\ (\A t \in Tasks : ~OpenNew(t)) => \A f \in Files : file'[f].from = file[f].from
<1>1. ASSUME NEW t \in Tasks, OpenNew(t), NEW n \in Ranks, Exists(bin[n])
      PROVE  file'[bin[n]].from = file[bin[n]].from
  <2>1. PICK f \in Files, v \in Versions : Opens(t, f, v)
    BY <1>1, OpenNewStep
  <2>2. task[t].path \in Updatable
    BY <2>1, PathTypes DEF Opens
  <2>3. bin[n] # f
    BY <1>1, <2>1, <2>2, Shape DEF Opens, Single, OneName, Exists
  <2>4. bin[n] \in Files
    BY <1>1, Shape DEF Exists
  <2> QED
    BY <2>1, <2>3, <2>4, Shape DEF Opens
<1>2. ASSUME NEW t \in Tasks, FinishCopy(t) \/ Chmod(t), NEW f \in Files
      PROVE  file'[f].from = file[f].from
  <2>1. CASE FinishCopy(t)
    <3>1. \E b : file' = [file EXCEPT ![task[t].file].whole = b]
      BY <2>1 DEF FinishCopy
    <3> QED
      BY <3>1, Shape DEF Content
  <2>2. CASE Chmod(t)
    <3>1. file' = file \/ file' = [file EXCEPT ![new[task[t].path]].exec = TRUE]
      BY <2>2 DEF Chmod
    <3> QED
      BY <3>1, Shape DEF Content
  <2> QED
    BY <1>2, <2>1, <2>2
<1>3. ASSUME NEW t \in Tasks, Update(t), ~OpenNew(t), ~FinishCopy(t), ~Chmod(t)
      PROVE  file' = file
  BY <1>3 DEF Update, HandleUpdateApply, HandleUpdateCommand, BeginApply, FailDownload, RemoveBackup,
              BackUp, Replace, RollBack, Restart, dirVars
<1>4. ServerCheck \/ Crash \/ Start \/ Broken \/ Publish \/ UNCHANGED vars => file' = file
  BY DEF ServerCheck, Crash, Start, Broken, Publish, vars, dirVars
<1>5. \A n \in Ranks : Exists(bin[n]) => bin[n] \in Files
  BY Shape DEF Exists
<1> QED
  BY <1>1, <1>2, <1>3, <1>4, <1>5 DEF Next

\* The process goes on, ends, is run again from its own file, or is started from the name
\* of the executable.
LEMMA ProcessSteps ==
    ASSUME TypeOK, Single, [Next]_vars
    PROVE  \/ UNCHANGED <<running, self, up>>
           \/ ~up' /\ running' = running
           \/ /\ up /\ self' = self /\ file' = file /\ up' /\ running' \in Versions
              /\ file[self].from = {running'} /\ bin' = bin /\ \A t \in Tasks : task'[t] = Idle
           \/ /\ ~up /\ up' /\ Exists(bin[0]) /\ self' = bin[0] /\ file' = file
              /\ running' \in Versions /\ file[bin[0]].from = {running'}
              /\ bin' = bin /\ \A t \in Tasks : task'[t] = Idle
<1>1. ASSUME NEW t \in Tasks, Update(t), ~Restart(t) PROVE UNCHANGED <<running, self, up>>
  BY <1>1 DEF Update, procVars, HandleUpdateApply, HandleUpdateCommand, BeginApply, OpenNew,
              FinishCopy, FailDownload, Chmod, RemoveBackup, BackUp, Replace, RollBack, Rename
<1>2. ServerCheck \/ Broken \/ Publish \/ UNCHANGED vars => UNCHANGED <<running, self, up>>
  BY DEF ServerCheck, Broken, Publish, vars, procVars
<1>3. Crash => ~up' /\ running' = running
  BY DEF Crash, Die, Process
<1>4. ASSUME NEW t \in Tasks, Restart(t), ~UNCHANGED <<running, self, up>>
      PROVE  \/ ~up' /\ running' = running
             \/ /\ up /\ self' = self /\ file' = file /\ up' /\ running' \in Versions
                /\ file[self].from = {running'} /\ bin' = bin /\ \A s \in Tasks : task'[s] = Idle
  <2>1. up /\ bin[path] = self
    BY <1>4, RestartFinds
  <2>2. UNCHANGED <<bin, file>>
    BY <1>4 DEF Restart, dirVars
  <2> QED
    BY <1>4, <2>1, <2>2 DEF Restart, Run, Die, Process
<1>5. Start => /\ ~up /\ up' /\ Exists(bin[0]) /\ self' = bin[0] /\ file' = file
               /\ running' \in Versions /\ file[bin[0]].from = {running'}
               /\ bin' = bin /\ \A t \in Tasks : task'[t] = Idle
  BY DEF Start, CanStart, Run, Process, dirVars
<1> QED
  BY <1>1, <1>2, <1>3, <1>4, <1>5 DEF Next

\* RunsInv holds in every state.
LEMMA RunsTracked == Spec => []RunsInv
<1>1. Init => RunsInv
  BY DEF Init, RunsInv, Runs
<1>2. TypeOK /\ SingleInv /\ RunsInv /\ [Next]_vars => RunsInv'
  <2> SUFFICES ASSUME TypeOK, SingleInv, RunsInv, [Next]_vars, ~overlapped', up'
               PROVE  file'[self'].from = {running'}
    BY DEF RunsInv, Runs
  <2>1. Single /\ Runs
    <3>1. overlapped => overlapped'
      BY OverlapStays
    <3> QED
      BY <3>1 DEF SingleInv, RunsInv
  <2>2. CASE UNCHANGED <<running, self, up>>
    <3>1. up /\ bin[path] = self /\ Exists(self) /\ path \in Ranks
      BY <2>1, <2>2, Shape DEF Single, SelfInv
    <3>2. file'[bin[path]].from = file[bin[path]].from
      BY <2>1, <3>1, SourcesKept
    <3> QED
      BY <2>1, <2>2, <3>1, <3>2 DEF Runs
  <2>3. CASE ~UNCHANGED <<running, self, up>>
    BY <2>1, <2>3, ProcessSteps
  <2> QED
    BY <2>2, <2>3
<1> QED
  BY <1>1, <1>2, TypeCorrect, SinglesTracked, PTL DEF Spec

(* A process that restarts is succeeded by its own file, of its own        *)
(* version: Restart asks for its name after Apply has renamed it           *)
(* (restart_unix.go; updater.go Apply).                                    *)
THEOREM RestartsItself == Spec => RestartIsSameBinary
<1>1. TypeOK /\ SingleInv /\ RunsInv /\ [Next]_vars
          => [up /\ up' /\ ~overlapped' => running' = running /\ self' = self]_vars
  <2> SUFFICES ASSUME TypeOK, SingleInv, RunsInv, [Next]_vars, up, up', ~overlapped'
               PROVE  running' = running /\ self' = self
    OBVIOUS
  <2>1. Single /\ Runs
    <3>1. overlapped => overlapped'
      BY OverlapStays
    <3> QED
      BY <3>1 DEF SingleInv, RunsInv
  <2> QED
    BY <2>1, ProcessSteps DEF Runs
<1> QED
  BY <1>1, TypeCorrect, SinglesTracked, RunsTracked, PTL DEF Spec, RestartIsSameBinary

(***************************************************************************)
(* No older version.                                                       *)
(***************************************************************************)
\* What a step must see to, of the update that takes it.
LEMMA NewestOfOne ==
    ASSUME NEW t \in Tasks, Only(t),
           (Exists(bin[0]) => Newer(bin[0]) \/ file[bin[0]].from = {running})',
           task'[t].pc \in {"open", "copy"} => Follows(task[t].version, running)',
           task'[t].pc \in {"chmod", "unlink", "backup", "replace"} => Newer(new[task[t].path])'
    PROVE  Newest'
<1>1. ASSUME NEW s \in Tasks, s # t PROVE task'[s].pc = "idle"
  BY <1>1, TaskStates DEF Only
<1> QED
  BY <1>1 DEF Newest

\* An executable that stays in its place, with its bytes.
LEMMA StaysNewest ==
    ASSUME Newest, bin'[0] = bin[0], running' = running,
           Exists(bin[0]) => file'[bin[0]].from = file[bin[0]].from
    PROVE  (Exists(bin[0]) => Newer(bin[0]) \/ file[bin[0]].from = {running})'
  BY DEF Newest, Newer, Exists

\* An update begins, or reads the release: with nothing lowered, it is a newer one.
LEMMA ReadKeepsNewest ==
    ASSUME TypeOK, TypeOK', Single, Newest, NEW t \in Tasks, ~overlapped', ~lowered',
           HandleUpdateApply(t) \/ HandleUpdateCommand(t) \/ BeginApply(t)
    PROVE  Newest'
<1>1. UNCHANGED <<bin, new, file, running>> /\ task \in [Tasks -> Task]
  BY DEF HandleUpdateApply, HandleUpdateCommand, BeginApply, dirVars, procVars, TypeOK
<1>2. (Exists(bin[0]) => Newer(bin[0]) \/ file[bin[0]].from = {running})'
  BY <1>1, StaysNewest
<1>3. CASE UNCHANGED task
  BY <1>1, <1>2, <1>3 DEF Newest, Newer
<1>4. CASE Begin(t) /\ task[t].pc = "idle"
  <2>1. Only(t) /\ task'[t].pc = "apply"
    BY <1>1, <1>4 DEF Begin, Only
  <2> QED
    BY <1>2, <2>1, NewestOfOne
<1>5. CASE BeginApply(t)
  <2>1. task[t].pc = "apply" /\ side' = side
    BY <1>5 DEF BeginApply, At, procVars
  <2>2. CASE End(t)
    <3>1. task'[t].pc = "idle" /\ \A s \in Tasks : s # t => task'[s] = task[s]
      BY <2>1, <2>2, Ended, TaskStates
    <3>2. Only(t)
      BY <2>1, <3>1, AloneIsOnly DEF Single
    <3> QED
      BY <1>2, <3>1, <3>2, NewestOfOne
  <2>3. CASE ~End(t)
    <3>1. PICK v : /\ task' = [task EXCEPT ![t] = [pc |-> "open", path |-> path, version |-> v]]
                   /\ v = latest[checkerOf(t)] /\ Available(v)
      BY <1>5, <2>3 DEF BeginApply
    <3>2. v \in Versions
      BY <2>1, <3>1 DEF TypeOK, checkerOf, Checkers
    <3>3. Follows(v, running)
      <4>1. v \in [1 .. 3 -> Nat] /\ running \in [1 .. 3 -> Nat]
        BY <3>2, UpdaterAssumption DEF TypeOK
      <4> QED
        BY <3>1, <4>1, NewerFollows DEF Available
    <3>4. /\ task'[t].pc = "open" /\ task'[t].version = v
          /\ \A s \in Tasks : s # t => task'[s] = task[s]
      BY <1>1, <3>1
    <3>5. Only(t)
      BY <2>1, <3>4, AloneIsOnly DEF Single
    <3>6. Follows(task[t].version, running)'
      BY <1>1, <3>3, <3>4
    <3> QED
      BY <1>2, <3>4, <3>5, <3>6, NewestOfOne
  <2> QED
    BY <2>2, <2>3
<1> QED
  BY <1>3, <1>4, <1>5 DEF HandleUpdateApply, HandleUpdateCommand, At

\* The download begins: its file is the release's.
LEMMA OpenKeepsNewest ==
    ASSUME TypeOK, TypeOK', Single, Newest, NEW t \in Tasks, OpenNew(t), [Next]_vars
    PROVE  Newest'
<1>1. PICK f \in Files, v \in Versions : Opens(t, f, v)
  BY OpenNewStep
<1>2. UNCHANGED <<bin, running>> /\ task[t].pc = "open"
  BY DEF OpenNew, At, procVars
<1>3. /\ task'[t].pc = "copy" /\ task'[t].version = task[t].version
      /\ \A s \in Tasks : s # t => task'[s] = task[s] \/ Writing(s, f)
  BY <1>1 DEF Opens
<1>4. \A s \in Tasks : s # t => task[s] = Idle /\ ~Writing(s, f)
  BY <1>2, TaskStates DEF Single, Alone, Writing
<1>5. Only(t)
  BY <1>3, <1>4 DEF Only
<1>6. Exists(bin[0]) => file'[bin[0]].from = file[bin[0]].from
  BY SourcesKept, Shape
<1>7. (Exists(bin[0]) => Newer(bin[0]) \/ file[bin[0]].from = {running})'
  BY <1>2, <1>6, StaysNewest
<1>8. Follows(task[t].version, running)'
  BY <1>2, <1>3 DEF Newest
<1> QED
  BY <1>3, <1>5, <1>7, <1>8, NewestOfOne

\* The download is finished, made executable, or given up, and the old backup removed.
LEMMA WriteKeepsNewest ==
    ASSUME TypeOK, TypeOK', Single, Newest, NEW t \in Tasks, [Next]_vars,
           FinishCopy(t) \/ Chmod(t) \/ FailDownload(t) \/ RemoveBackup(t)
    PROVE  Newest'
<1>1. /\ running' = running /\ side' = side
      /\ task[t].pc \in {"open", "copy", "chmod", "unlink"}
      /\ "chmod" \in Steps /\ "unlink" \in Steps /\ "backup" \in Steps
      /\ ~OpenNew(t) \/ task[t].pc = "open"
  BY DEF FinishCopy, Chmod, FailDownload, RemoveBackup, OpenNew, At, procVars, Steps
<1>2. PICK n : n = task[t].path
  OBVIOUS
<1>3. n \in Updatable /\ n + 1 \in Ranks /\ n + 1 # 0 /\ 0 \in Ranks
  BY <1>1, <1>2, PathTypes, Shape
<1>4. bin'[0] = bin[0]
  <2>1. bin' = bin \/ bin' = [bin EXCEPT ![n + 1] = NoFile]
    BY <1>2 DEF FinishCopy, Chmod, FailDownload, RemoveBackup
  <2> QED
    BY <1>3, <2>1, Shape
<1>5. (Exists(bin[0]) => Newer(bin[0]) \/ file[bin[0]].from = {running})'
  BY <1>1, <1>3, <1>4, SourcesKept, StaysNewest
<1>6. CASE End(t)
  <2>1. Only(t) /\ task'[t].pc = "idle"
    BY <1>1, <1>6, StepIsOnly DEF Single
  <2> QED
    BY <1>5, <2>1, NewestOfOne
<1>7. CASE ~End(t)
  <2>1. PICK pc \in {"chmod", "unlink", "backup"} : Goto(t, pc)
    BY <1>7 DEF FinishCopy, Chmod, FailDownload, RemoveBackup
  <2>2. Only(t) /\ task'[t].pc = pc /\ task'[t].path = n
    BY <1>1, <1>2, <2>1, StepIsOnly DEF Single, Steps
  <2>3. new' = new /\ task[t].pc \in {"copy", "chmod", "unlink"}
    BY <1>7 DEF FinishCopy, Chmod, FailDownload, RemoveBackup, At
  <2>4. Newer(new[n]) /\ Exists(new[n])
    <3>1. Finds(t) /\ Newest
      BY DEF Single
    <3>2. CASE task[t].pc = "copy"
      <4>1. file[new[n]].from = {task[t].version} /\ Follows(task[t].version, running)
        BY <1>2, <3>1, <3>2 DEF Finds, Newest
      <4>2. new[n] = task[t].file /\ task[t].file \in Files
        BY <1>2, <3>1, <3>2, TaskStates, Shape DEF Finds
      <4> QED
        BY <4>1, <4>2, Shape DEF Newer, Exists
    <3>3. CASE task[t].pc \in {"chmod", "unlink"}
      BY <1>2, <3>1, <3>3 DEF Finds, Newest
    <3> QED
      BY <2>3, <3>2, <3>3
  <2>5. file'[new[n]].from = file[new[n]].from
    <3>1. new[n] \in Files
      BY <1>3, <2>4, Shape DEF Exists
    <3>2. \A s \in Tasks : ~OpenNew(s)
      <4>1. \A s \in Tasks : s # t => task[s].pc = "idle"
        BY <2>2, TaskStates DEF Only
      <4> QED
        BY <2>3, <4>1 DEF OpenNew, At
    <3> QED
      BY <3>1, <3>2, SourcesKept
  <2>6. Newer(new[n])'
    BY <1>1, <2>3, <2>4, <2>5 DEF Newer
  <2> QED
    BY <1>5, <2>2, <2>6, NewestOfOne
<1> QED
  BY <1>6, <1>7

\* The binaries are moved: what gets the name of the executable is newer, or the process's.
LEMMA MoveKeepsNewest ==
    ASSUME TypeOK, TypeOK', Single, Runs, Newest, NEW t \in Tasks,
           BackUp(t) \/ Replace(t) \/ RollBack(t)
    PROVE  Newest'
<1>1. /\ running' = running /\ file' = file /\ up /\ side' = side
      /\ task[t].pc \in {"backup", "replace", "rollback"}
      /\ "replace" \in Steps /\ "restart" \in Steps /\ "rollback" \in Steps
  BY DEF BackUp, Replace, RollBack, Rename, At, procVars, Steps
<1>2. \/ Goto(t, "replace") /\ BackUp(t) /\ new' = new
      \/ Goto(t, "restart") \/ Goto(t, "rollback") \/ End(t)
  BY DEF BackUp, Replace, RollBack
<1>3. Only(t)
  BY <1>1, <1>2, StepIsOnly DEF Single
<1>4. PICK n : n = task[t].path
  OBVIOUS
<1>5. /\ n \in Updatable /\ n \in Ranks /\ n + 1 \in Ranks /\ n + 1 # n /\ n + 1 # 0 /\ 0 \in Ranks
      /\ bin[path] = self
      /\ task[t].pc \in {"replace", "rollback"} => path = n + 1
  BY <1>1, <1>3, <1>4, MoveFacts, Shape
<1>6. /\ task'[t].pc \notin {"open", "copy", "chmod", "unlink", "backup"}
      /\ task'[t].pc = "replace" => new' = new /\ task'[t].path = n /\ task[t].pc = "backup"
  BY <1>1, <1>2, <1>4, StepIsOnly DEF Single, BackUp, At
<1>7. task'[t].pc = "replace" => Newer(new[task[t].path])'
  BY <1>1, <1>4, <1>6 DEF Newest, Newer
<1>8. \/ bin'[0] = NoFile \/ bin'[0] = bin[0]
      \/ bin'[0] = new[n] /\ task[t].pc = "replace"
      \/ bin'[0] = self
  <2>1. CASE BackUp(t)
    <3>1. bin' = bin \/ bin' = [bin EXCEPT ![n] = NoFile, ![n + 1] = bin[n]]
      BY <1>4, <2>1 DEF BackUp, Rename
    <3> QED
      BY <1>5, <3>1, Shape
  <2>2. CASE Replace(t)
    <3>1. task[t].pc = "replace" /\ (bin' = bin \/ bin' = [bin EXCEPT ![n] = new[n]])
      BY <1>4, <2>2 DEF Replace, At
    <3> QED
      BY <1>5, <3>1, Shape
  <2>3. CASE RollBack(t)
    <3>1. /\ task[t].pc = "rollback"
          /\ bin' = bin \/ bin' = [bin EXCEPT ![n + 1] = NoFile, ![n] = bin[n + 1]]
      BY <1>4, <2>3 DEF RollBack, Rename, At
    <3> QED
      BY <1>5, <3>1, Shape
  <2> QED
    BY <2>1, <2>2, <2>3
<1>9. (Exists(bin[0]) => Newer(bin[0]) \/ file[bin[0]].from = {running})'
  <2>1. CASE bin'[0] = bin[0]
    BY <1>1, <2>1, StaysNewest
  <2>2. CASE bin'[0] = NoFile
    BY <2>2 DEF Exists
  <2>3. CASE bin'[0] = new[n] /\ task[t].pc = "replace"
    BY <1>1, <1>4, <2>3 DEF Newest, Newer
  <2>4. CASE bin'[0] = self
    BY <1>1, <2>4 DEF Runs
  <2> QED
    BY <1>8, <2>1, <2>2, <2>3, <2>4
<1> QED
  BY <1>3, <1>6, <1>7, <1>9, NewestOfOne

\* The process ends, or runs what it ran or what has the executable's name.
LEMMA ProcessKeepsNewest ==
    ASSUME TypeOK, Single, Runs, Newest, [Next]_vars,
           Crash \/ Start \/ \E t \in Tasks : Restart(t)
    PROVE  Newest'
<1>1. UNCHANGED <<bin, file>>
  BY DEF Crash, Start, Restart, dirVars
<1>2. \A t \in Tasks : task'[t].pc = "idle"
  <2>1. CASE Crash \/ Start
    BY <2>1, TaskStates DEF Crash, Die, Start, Run, Process
  <2>2. ASSUME NEW t \in Tasks, Restart(t) PROVE \A s \in Tasks : task'[s].pc = "idle"
    <3>1. CASE Run(path) \/ Die
      BY <3>1, TaskStates DEF Run, Die, Process
    <3>2. CASE End(t)
      <4>1. \A s \in Tasks : s # t => task[s] = Idle
        BY <2>2, TaskStates DEF Restart, At, Single, Alone
      <4> QED
        BY <3>2, <4>1, TaskStates, Shape DEF End
    <3> QED
      BY <2>2, <3>1, <3>2 DEF Restart
  <2> QED
    BY <2>1, <2>2
<1>3. (Exists(bin[0]) => Newer(bin[0]) \/ file[bin[0]].from = {running})'
  <2>1. CASE running' = running
    BY <1>1, <2>1, StaysNewest
  <2>2. CASE running' # running
    BY <1>1, <2>2, ProcessSteps DEF Runs, Exists
  <2> QED
    BY <2>1, <2>2
<1> QED
  BY <1>2, <1>3 DEF Newest

\* NewestInv holds in every state.
LEMMA NewestTracked == Spec => []NewestInv
<1>1. Init => NewestInv
  <2> SUFFICES ASSUME Init PROVE Newest
    BY DEF NewestInv
  <2>0. TypeOK
    BY InitTypeOK
  <2>1. \A t \in Tasks : task[t].pc = "idle"
    BY TaskStates DEF Init
  <2>2. PICK f \in Files, v \in Versions :
            /\ bin = [n \in 0 .. Depth |-> IF n = 0 THEN f ELSE NoFile]
            /\ file = [g \in Files |-> [from |-> {v}, whole |-> TRUE, exec |-> TRUE]]
            /\ running = v
    BY DEF Init
  <2>3. bin[0] = f
    BY <2>0, <2>2, Shape DEF Ranks
  <2> QED
    BY <2>1, <2>2, <2>3 DEF Newest
<1>2. TypeOK /\ TypeOK' /\ SingleInv /\ RunsInv /\ NewestInv /\ [Next]_vars => NewestInv'
  <2> SUFFICES ASSUME TypeOK, TypeOK', SingleInv, RunsInv, NewestInv, [Next]_vars,
                      ~overlapped', ~lowered'
               PROVE  Newest'
    BY DEF NewestInv
  <2>1. Single /\ Runs /\ Newest
    BY OverlapStays DEF SingleInv, RunsInv, NewestInv
  <2>2. CASE Crash \/ Start \/ \E t \in Tasks : Restart(t)
    BY <2>1, <2>2, ProcessKeepsNewest
  <2>3. CASE \E t \in Tasks : Update(t) /\ ~Restart(t)
    BY <2>1, <2>3, ReadKeepsNewest, OpenKeepsNewest, WriteKeepsNewest, MoveKeepsNewest DEF Update
  <2>4. CASE ServerCheck \/ Broken \/ Publish \/ UNCHANGED vars
    <3>1. UNCHANGED <<bin, new, file, task, running>>
      BY <2>4 DEF ServerCheck, Broken, Publish, vars, dirVars, procVars
    <3> QED
      BY <2>1, <3>1 DEF Newest, Newer, Exists
  <2> QED
    BY <2>2, <2>3, <2>4 DEF Next
<1> QED
  BY <1>1, <1>2, TypeCorrect, SinglesTracked, RunsTracked, PTL DEF Spec

(* Unless updates overlapped, or a check put a release that is not newer   *)
(* in place of the one an update was allowed for, no process is succeeded  *)
(* by an older version, whatever fails, crashes or is withdrawn            *)
(* (updater.go isNewer, Apply; restart_unix.go).                           *)
THEOREM OnlyUpgrades == Spec => NeverDowngrades
<1>1. TypeOK /\ SingleInv /\ RunsInv /\ NewestInv /\ [Next]_vars
          => [~overlapped' /\ ~lowered' => running' = running \/ Follows(running', running)]_vars
  <2> SUFFICES ASSUME TypeOK, SingleInv, RunsInv, NewestInv, [Next]_vars, ~overlapped', ~lowered'
               PROVE  running' = running \/ Follows(running', running)
    OBVIOUS
  <2>1. Single /\ Runs /\ Newest
    BY OverlapStays DEF SingleInv, RunsInv, NewestInv
  <2> QED
    BY <2>1, ProcessSteps DEF Runs, Newest, Newer
<1> QED
  BY <1>1, TypeCorrect, SinglesTracked, RunsTracked, NewestTracked, PTL DEF Spec, NeverDowngrades

=============================================================================
