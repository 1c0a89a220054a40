------------------------------- MODULE RuleScan --------------------------------
(***************************************************************************)
(* The read pump looks for a packet's rule in client.Rules (relay.go:293-  *)
(* 311) while the hub replaces the slice (hub.go:184), without a lock: a   *)
(* data race on a value of several words.                                  *)
(*                                                                         *)
(* Arrays are never written once a slice of them is assigned, so a slice   *)
(* is which list it points to and a length.  The two words are stored in   *)
(* either order, and each is read anew where the code names client.Rules:  *)
(* range reads the length once, an index reads the length, to check, and   *)
(* then the pointer.                                                       *)
(***************************************************************************)
EXTENDS Naturals, Sequences

CONSTANTS
    Lists,     \* lists of rules the database may return: sequences of [id, forwards]
    MaxPushes  \* bound: rule updates

VARIABLES
    list,      \* the list that was assigned last
    pointer,   \* the list the slice points to
    length,    \* its length
    incoming,  \* lists of which one word has been stored
    pushes,
    scan,      \* the pump: where it is, its index, how far range goes, the packet's rule
    \* History.
    seen       \* lists client.Rules was, or was becoming, since the scan began

hubVars == <<list, pointer, length, incoming, pushes>>
vars    == <<hubVars, scan, seen>>

Ids     == UNION {{l[i].id : i \in DOMAIN l} : l \in Lists}
Idle    == [pc |-> "idle"]
Verdicts == {"relayed", "refused", "panicked"}

Init ==
    /\ list \in Lists /\ pointer = list /\ length = Len(list)
    /\ incoming = {} /\ pushes = 0
    /\ scan = Idle /\ seen = {}

-----------------------------------------------------------------------------
\* doRuleUpdate: client.Rules = req.Rules, one word and then the other.
StoreFirst(l) ==
    /\ incoming = {} /\ pushes < MaxPushes
    /\ pushes' = pushes + 1
    /\ incoming' = {l}
    /\ \/ pointer' = l /\ UNCHANGED length
       \/ length' = Len(l) /\ UNCHANGED pointer
    /\ seen' = IF scan = Idle THEN seen ELSE seen \cup {l}
    /\ UNCHANGED <<list, scan>>

StoreSecond ==
    /\ incoming # {}
    /\ \E l \in incoming : list' = l /\ pointer' = l /\ length' = Len(l)
    /\ incoming' = {}
    /\ UNCHANGED <<pushes, scan, seen>>

-----------------------------------------------------------------------------
Continues(pc, i) == scan' = [scan EXCEPT !.pc = pc, !.i = i]
Decides(verdict) == scan' = [pc |-> verdict, id |-> scan.id]

\* What the array holds; beyond its end there is memory of something else.
Elements(i) ==
    IF i <= Len(pointer) THEN {pointer[i]} ELSE [id : Ids, forwards : BOOLEAN]

\* A packet has come; range reads the length.
StartScan(id) ==
    /\ scan = Idle
    /\ scan' = [pc |-> "check", id |-> id, i |-> 1, n |-> length]
    /\ seen' = {list} \cup incoming
    /\ UNCHANGED hubVars

\* The bounds check of client.Rules[i]: a panic, which nothing recovers.
CheckIndex(pc, next) ==
    /\ scan.pc = pc
    /\ \/ scan.i > scan.n /\ Decides("refused")
       \/ scan.i \in (length + 1) .. scan.n /\ Decides("panicked")
       \/ scan.i <= scan.n /\ scan.i <= length /\ Continues(next, scan.i)
    /\ UNCHANGED <<hubVars, seen>>

Compare ==
    /\ scan.pc = "compare"
    /\ \E r \in Elements(scan.i) :
          IF r.id = scan.id THEN Continues("recheck", scan.i) ELSE Continues("check", scan.i + 1)
    /\ UNCHANGED <<hubVars, seen>>

\* r := client.Rules[i], and the direction of r.
Copy ==
    /\ scan.pc = "copy"
    /\ \E r \in Elements(scan.i) : Decides(IF r.forwards THEN "relayed" ELSE "refused")
    /\ UNCHANGED <<hubVars, seen>>

NextPacket ==
    /\ scan.pc \in {"relayed", "refused"}
    /\ scan' = Idle /\ seen' = {}
    /\ UNCHANGED hubVars

Next ==
    \/ \E l \in Lists : StoreFirst(l)
    \/ StoreSecond
    \/ \E id \in Ids : StartScan(id)
    \/ CheckIndex("check", "compare") \/ Compare \/ CheckIndex("recheck", "copy") \/ Copy
    \/ NextPacket

Spec == Init /\ [][Next]_vars

-----------------------------------------------------------------------------
\* What a scan of one list finds.
Verdict(l, id) ==
    IF \E i \in DOMAIN l : l[i].id = id /\ l[i].forwards THEN "relayed" ELSE "refused"

(* Whatever rules are pushed meanwhile, a packet is relayed or refused as  *)
(* one of the lists the client had would have it.                          *)
DecidesByOneList ==
    scan.pc \in Verdicts => \E l \in seen : scan.pc = Verdict(l, scan.id)
=============================================================================
