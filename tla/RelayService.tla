---------------------------- MODULE RelayService ----------------------------
(***************************************************************************)
(* What the relay server promises, without hub, channels or pumps: packets *)
(* enter one total order; a connection receives some of them, each at most *)
(* once and in that order, none its own key sent, and a packet moves only  *)
(* under a rule that has at some time been in force for the key.           *)
(***************************************************************************)
EXTENDS Naturals, Sequences

CONSTANTS Keys, Conns, RuleIds, NoKey

VARIABLES
    published,   \* the packets, in the order the service accepted them
    owner,       \* the key a connection authenticated with
    got,         \* positions of the packets a connection has received
    granted      \* <<key, rule>> pairs that have ever been in force

svcVars == <<published, owner, got, granted>>

Init ==
    /\ published = <<>>
    /\ owner = [c \in Conns |-> NoKey]
    /\ got = [c \in Conns |-> <<>>]
    /\ granted \in SUBSET (Keys \X RuleIds)

Connect(c, k) ==
    /\ owner[c] = NoKey
    /\ owner' = [owner EXCEPT ![c] = k]
    /\ UNCHANGED <<published, got, granted>>

Grant(S) ==
    /\ granted' = granted \cup S
    /\ UNCHANGED <<published, owner, got>>

Publish(r, k) ==
    /\ k = NoKey \/ <<k, r>> \in granted
    /\ published' = Append(published, [rule |-> r, sender |-> k])
    /\ UNCHANGED <<owner, got, granted>>

Deliver(c, n) ==
    /\ \A i \in DOMAIN got[c] : got[c][i] < n
    /\ published[n].sender # owner[c]
    /\ <<owner[c], published[n].rule>> \in granted
    /\ got' = [got EXCEPT ![c] = Append(@, n)]
    /\ UNCHANGED <<published, owner, granted>>

Next ==
    \/ \E c \in Conns, k \in Keys : Connect(c, k)
    \/ \E S \in SUBSET (Keys \X RuleIds) : Grant(S)
    \/ \E r \in RuleIds, k \in Keys \cup {NoKey} : Publish(r, k)
    \/ \E c \in Conns, n \in DOMAIN published : Deliver(c, n)

Spec == Init /\ [][Next]_svcVars
=============================================================================
