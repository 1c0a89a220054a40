----------------------------- MODULE FrameStream -----------------------------
(***************************************************************************)
(* One direction of a relay connection, byte by byte: WriteFrame and       *)
(* ReadFrame (internal/protocol/protocol.go) and the goroutines that share *)
(* the socket.  A frame is a length, a type and a payload; WriteFrame      *)
(* writes length and type with one Write, the payload with another, and no *)
(* lock is held across the two.  Each side has two writers: the write      *)
(* pump, which stops at the first error, and the read pump, which answers  *)
(* a ping and ignores the error (relay.go:258-260, connection.go:194-196). *)
(*                                                                         *)
(* A single Write is atomic with respect to other Writes, but it may fail  *)
(* after a part of its bytes is sent, when its deadline passes.            *)
(***************************************************************************)
EXTENDS Naturals, Sequences

CONSTANTS
    Msgs,       \* messages
    Size,       \* payload size of each message
    PumpMsgs,   \* the messages the write pump sends
    PongMsgs,   \* the messages the read pump sends: pongs, which have no payload
    Writers,    \* the goroutines at work: a subset of {"pump", "pong"}
    MaxLength,  \* MaxFrameSize
    MaxFrames,  \* bound: frames begun
    CanFail     \* whether a Write may miss its deadline

ASSUME FrameAssumption ==
    /\ Size \in [Msgs -> Nat]
    /\ PumpMsgs \subseteq Msgs /\ PongMsgs \subseteq Msgs
    /\ \A m \in PongMsgs : Size[m] = 0
    /\ Writers \subseteq {"pump", "pong"}
    /\ MaxLength \in Nat \ {0}
    /\ MaxFrames \in Nat
    /\ CanFail \in BOOLEAN

VARIABLES
    stream,    \* bytes sent and not yet read
    writer,    \* where each writer is: which message it is writing
    begun,     \* frames begun
    need,      \* bytes the reader still waits for; 0 at the start of a frame
    frame,     \* bytes of the current frame read so far
    reading,   \* ReadFrame has not failed
    sent,      \* history: frames whose first byte is on the wire, in order
    received,  \* history: frames ReadFrame has returned
    torn,      \* history: the writers that abandoned a frame after its first byte
    mixed      \* history: bytes followed those of an unfinished frame of another
               \* writer, or a pong one that was cut off

vars == <<stream, writer, begun, need, frame, reading, sent, received, torn, mixed>>

LengthByte(n)  == [kind |-> "length", n |-> n]
TypeByte(m)    == [kind |-> "type", m |-> m]
DataByte(m, i) == [kind |-> "data", m |-> m, i |-> i]

\* Mutant: the length leaves out the type.
PayloadLength(m) == Size[m]

FrameLength(m) == 1 + Size[m]

Header(m)  == <<LengthByte(FrameLength(m)), TypeByte(m)>>
Payload(m) == [i \in 1 .. Size[m] |-> DataByte(m, i)]
Whole(m)   == <<TypeByte(m)>> \o Payload(m)

Messages(w) == IF w = "pump" THEN PumpMsgs ELSE PongMsgs

Idle == [pc |-> "idle"]
Done == [pc |-> "done"]

Init ==
    /\ stream = <<>> /\ begun = 0
    /\ writer = [w \in Writers |-> Idle]
    /\ need = 0 /\ frame = <<>> /\ reading = TRUE
    /\ sent = <<>> /\ received = <<>> /\ torn = {} /\ mixed = FALSE

-----------------------------------------------------------------------------
\* Mutant: the write pump ignores an error too.
AfterErrorGoOn(w) == Idle

\* What a writer does once WriteFrame has failed.
AfterError(w) == IF w = "pump" THEN Done ELSE Idle

Unfinished(w) == \E v \in Writers \ {w} : writer[v].pc = "payload"

\* Bytes of w now follow half a frame, which no lock and no stop of the other writer
\* prevents, nor the ignored error of a pong.  The write pump has to stop by itself.
Mixes(w) == Unfinished(w) \/ torn \ {w} # {} \/ (w = "pong" /\ w \in torn)

Emit(bytes) ==
    /\ stream' = stream \o bytes
    /\ UNCHANGED <<need, frame, reading, received>>

\* A frame too large is refused before anything is written.
RefuseFrame(w, m) ==
    /\ writer[w] = Idle /\ begun < MaxFrames
    /\ FrameLength(m) > MaxLength
    /\ writer' = [writer EXCEPT ![w] = AfterError(w)]
    /\ begun' = begun + 1
    /\ UNCHANGED <<stream, need, frame, reading, sent, received, torn, mixed>>

\* Mutant: frames of any length are sent.
BeginAnyFrame(w, m) ==
    /\ writer[w] = Idle /\ begun < MaxFrames
    /\ begun' = begun + 1
    /\ writer' = [writer EXCEPT ![w] = IF Size[m] = 0 THEN Idle ELSE [pc |-> "payload", m |-> m]]
    /\ sent' = Append(sent, Whole(m))
    /\ mixed' = (mixed \/ Mixes(w))
    /\ Emit(Header(m))
    /\ UNCHANGED torn

BeginFrame(w, m) ==
    /\ writer[w] = Idle /\ begun < MaxFrames
    /\ FrameLength(m) <= MaxLength
    /\ begun' = begun + 1
    /\ writer' = [writer EXCEPT ![w] = IF Size[m] = 0 THEN Idle ELSE [pc |-> "payload", m |-> m]]
    /\ sent' = Append(sent, Whole(m))
    /\ mixed' = (mixed \/ Mixes(w))
    /\ Emit(Header(m))
    /\ UNCHANGED torn

BeginFails(w, m) ==
    /\ CanFail
    /\ writer[w] = Idle /\ begun < MaxFrames
    /\ FrameLength(m) <= MaxLength
    /\ begun' = begun + 1
    /\ writer' = [writer EXCEPT ![w] = AfterError(w)]
    /\ \E n \in 0 .. Len(Header(m)) - 1 :
          /\ Emit(SubSeq(Header(m), 1, n))
          /\ sent' = IF n = 0 THEN sent ELSE Append(sent, Whole(m))
          /\ mixed' = (mixed \/ (n > 0 /\ Mixes(w)))
          /\ torn' = IF n = 0 THEN torn ELSE torn \cup {w}

FinishFrame(w) ==
    /\ writer[w].pc = "payload"
    /\ Emit(Payload(writer[w].m))
    /\ writer' = [writer EXCEPT ![w] = Idle]
    /\ mixed' = (mixed \/ Mixes(w))
    /\ UNCHANGED <<begun, sent, torn>>

FinishFails(w) ==
    /\ CanFail
    /\ writer[w].pc = "payload"
    /\ \E n \in 0 .. Size[writer[w].m] - 1 : Emit(SubSeq(Payload(writer[w].m), 1, n))
    /\ writer' = [writer EXCEPT ![w] = AfterError(w)]
    /\ torn' = torn \cup {w}
    /\ UNCHANGED <<begun, sent, mixed>>

-----------------------------------------------------------------------------
(***************************************************************************)
(* ReadFrame.  Bytes that are not a length are taken for one: whatever     *)
(* number they make, it is a length the reader accepts or an error.        *)
(***************************************************************************)
Consume(n) == stream' = SubSeq(stream, n + 1, Len(stream))

KeepsWriting == UNCHANGED <<writer, begun, sent, torn, mixed>>

TakenFor(byte) == IF byte.kind = "length" THEN {byte.n} ELSE 0 .. MaxLength + 1

ReadLength ==
    /\ reading /\ need = 0 /\ stream # <<>>
    /\ \E n \in TakenFor(Head(stream)) :
          /\ need' = IF n \in 1 .. MaxLength THEN n ELSE 0
          /\ reading' = (n \in 1 .. MaxLength)
    /\ Consume(1)
    /\ KeepsWriting
    /\ UNCHANGED <<frame, received>>

ReadByte ==
    /\ reading /\ need > 0 /\ stream # <<>>
    /\ Consume(1)
    /\ need' = need - 1
    /\ LET bytes == Append(frame, Head(stream))
       IN  IF need = 1
             THEN frame' = <<>> /\ received' = Append(received, bytes)
             ELSE frame' = bytes /\ UNCHANGED received
    /\ KeepsWriting
    /\ UNCHANGED reading

\* The deadline passes or the connection is closed: what was read is lost.
ReadFails ==
    /\ reading
    /\ reading' = FALSE
    /\ KeepsWriting
    /\ UNCHANGED <<stream, need, frame, received>>

Stopped == ~reading /\ UNCHANGED vars

Write(w) ==
    \/ \E m \in Messages(w) : RefuseFrame(w, m) \/ BeginFrame(w, m) \/ BeginFails(w, m)
    \/ FinishFrame(w) \/ FinishFails(w)

Next == (\E w \in Writers : Write(w)) \/ ReadLength \/ ReadByte \/ ReadFails \/ Stopped

Spec == Init /\ [][Next]_vars

-----------------------------------------------------------------------------
Byte == [kind : {"length"}, n : 1 .. MaxLength] \cup [kind : {"type"}, m : Msgs]
        \cup [kind : {"data"}, m : Msgs, i : Nat]

(* Only bytes of frames are on the wire, no announced length exceeds       *)
(* MaxFrameSize, whatever was written in whatever order, and the reader    *)
(* waits for no more than that.                                            *)
TypeOK ==
    /\ stream \in Seq(Byte)
    /\ writer \in [Writers -> {Idle, Done} \cup [pc : {"payload"}, m : Msgs]]
    /\ begun \in 0 .. MaxFrames
    /\ need \in 0 .. MaxLength
    /\ frame \in Seq(Byte)
    /\ reading \in BOOLEAN /\ torn \subseteq Writers /\ mixed \in BOOLEAN
    /\ sent \in Seq(Seq(Byte)) /\ received \in Seq(Seq(Byte))

(* A reader that has read everything and finds no writer in the middle of  *)
(* a frame is at the start of a frame and has read all of them.            *)
NothingLost ==
    /\ stream = <<>> /\ reading /\ torn = {} /\ ~mixed
    /\ \A w \in Writers : writer[w].pc # "payload"
    => need = 0 /\ received = sent

Channel == INSTANCE FrameChannel WITH
    Frames <- {Whole(m) : m \in Msgs}

(* The stream is the ordered channel of whole frames, each read once and   *)
(* in the order sent, failed writes included: a frame that the write pump  *)
(* abandons is the last of the stream.  Excepted is what two writers do to *)
(* each other without a lock: bytes between the two halves of the other's  *)
(* frame, or after one that the other abandoned, and a pong after half a   *)
(* pong.                                                                   *)
ChannelUntilMixed == Channel!Init /\ [][mixed' \/ Channel!Next]_<<sent, received>>

-----------------------------------------------------------------------------
(* README.md:220-224 "All TCP framing: [4 bytes length] [1 byte type]      *)
(* [payload]": what is read is what was sent, when no write fails.         *)
FramesIntact == Len(received) <= Len(sent) /\ \A i \in DOMAIN received : received[i] = sent[i]
=============================================================================
