---------------------------- MODULE FrameChannel ----------------------------
(***************************************************************************)
(* What the framing promises to whoever reads a connection: the frames     *)
(* that were sent, whole, each once and in the order they were sent; when  *)
(* the connection breaks, a suffix of them is lost.                        *)
(***************************************************************************)
EXTENDS Naturals, Sequences

CONSTANT Frames

VARIABLES sent, received

chanVars == <<sent, received>>

Init == sent = <<>> /\ received = <<>>

Send(f) == sent' = Append(sent, f) /\ UNCHANGED received

Receive ==
    /\ Len(received) < Len(sent)
    /\ received' = Append(received, sent[Len(received) + 1])
    /\ UNCHANGED sent

Next == (\E f \in Frames : Send(f)) \/ Receive

Spec == Init /\ [][Next]_chanVars
=============================================================================
