--------------------------- MODULE FrameStream_proofs ---------------------------
(***************************************************************************)
(* Proofs about FrameStream: type correctness, and that the byte stream is *)
(* the ordered channel of whole frames until a writer mixes two frames;    *)
(* and about the packets its frames carry: what Codec encodes and builds   *)
(* is what it decodes and parses, and checksums verify.                    *)
(***************************************************************************)
EXTENDS RelayedPackets, SequenceTheorems, TLAPS

\* Bytes s, ls of them, are what is unread of n frames fs, of sizes len, from frame first
\* on: frame k is announced after at[k] bytes (those before the first are read), one
\* frame follows another, and the last may lack bytes at its end.
Placed(at, s, ls, fs, len, n, first) ==
    /\ \A k \in Nat : at[k] \in Int
    /\ \A k \in first .. n : at[k + 1] = at[k] + 1 + len[k]
    /\ \A j, k \in first .. n + 1 : j < k => at[j] < at[k]
    /\ \A k \in first .. n, i \in 1 .. ls :
          /\ i = at[k] + 1 => s[i] = LengthByte(len[k])
          /\ i \in at[k] + 2 .. at[k] + 1 + len[k] => s[i] = fs[k][i - at[k] - 1]
    /\ at[n + 1] >= ls

\* The end of the last of n frames is at ls; in to, another of size lf follows it.
EndsAt(at, n, ls)            == at[n + 1] = ls
Lengthened(to, at, n, ls, lf) == /\ \A k \in 0 .. n + 1 : to[k] = at[k]
                                /\ to[n + 2] = ls + 1 + lf

\* The sizes are numbers; t is s without its first byte; u is s with t after it; t is the
\* length of frame f and the first of its bytes; gs is fs with f after it.
Counts(len, n)               == \A k \in 1 .. n : len[k] \in Nat
Shifted(t, s, ls)            == \A i \in 1 .. ls - 1 : t[i] = s[i + 1]
Extended(u, s, ls, t, lt)    == /\ \A i \in 1 .. ls : u[i] = s[i]
                                /\ \A i \in 1 .. lt : u[ls + i] = t[i]
Announces(t, lt, f, lf)      == /\ lt \in 1 .. lf + 1
                                /\ t[1] = LengthByte(lf)
                                /\ \A i \in 2 .. lt : t[i] = f[i - 1]
Added(gs, size, fs, len, n, f, lf) ==
    /\ \A k \in 1 .. n : gs[k] = fs[k] /\ size[k] = len[k]
    /\ gs[n + 1] = f /\ size[n + 1] = lf
Continues(t, lt, fs, len, n, missing) ==
    /\ lt <= missing /\ missing <= len[n]
    /\ \A i \in 1 .. lt : t[i] = fs[n][len[n] - missing + i]

Sizes(fs) == [k \in 1 .. Len(fs) |-> Len(fs[k])]

Layout(at, s, fs, first) == Placed(at, s, Len(s), fs, Sizes(fs), Len(fs), first)

\* The bytes unread are laid out, up to where the reader is, and only what a writer has
\* still to write, or never will, is missing at the end.
LaidOut(at) ==
    /\ Layout(at, stream, sent, Len(received) + 1)
    /\ at[Len(received) + 1] = IF need = 0 THEN 0 ELSE -(1 + Len(frame))
    /\ \A w \in Writers : writer[w].pc = "payload" =>
          at[Len(sent) + 1] = Len(stream) + Size[writer[w].m]
    /\ torn = {} /\ (\A w \in Writers : writer[w].pc # "payload") =>
          at[Len(sent) + 1] = Len(stream)

\* One writer at a time has the second half of its frame to write, that of the last
\* frame sent, and none once a frame was abandoned.
OneAtATime ==
    /\ \A v, w \in Writers : writer[v].pc = "payload" /\ writer[w].pc = "payload" => v = w
    /\ \A w \in Writers : writer[w].pc = "payload" =>
          /\ torn = {} /\ Size[writer[w].m] > 0
          /\ Len(sent) > 0 /\ sent[Len(sent)] = Whole(writer[w].m)

\* What was received is what was sent first, and what is read of a frame is the start of
\* the next.
ReadInOrder ==
    /\ Len(received) <= Len(sent)
    /\ \A k \in 1 .. Len(received) : received[k] = sent[k]
    /\ \A k \in 1 .. Len(sent) : Len(sent[k]) \in 1 .. MaxLength
    /\ need = 0 => frame = <<>>
    /\ need > 0 =>
          /\ Len(received) < Len(sent)
          /\ need + Len(frame) = Len(sent[Len(received) + 1])
          /\ \A i \in 1 .. Len(frame) : frame[i] = sent[Len(received) + 1][i]

FrameInv == ~mixed => OneAtATime /\ ReadInOrder /\ \E at : LaidOut(at)

\* The bytes of a payload, and those that the reader returns for the frame.
LEMMA PayloadType ==
    ASSUME NEW m \in Msgs
    PROVE  /\ Size[m] \in Nat /\ FrameLength(m) = 1 + Size[m]
           /\ Payload(m) \in Seq(Byte) /\ Len(Payload(m)) = Size[m]
           /\ \A i \in 1 .. Size[m] : Payload(m)[i] = DataByte(m, i)
           /\ Whole(m) \in Seq(Byte) /\ Len(Whole(m)) = 1 + Size[m]
           /\ Whole(m)[1] = TypeByte(m)
           /\ \A i \in 1 .. Size[m] : Whole(m)[i + 1] = DataByte(m, i)
<1>1. Size[m] \in Nat /\ FrameLength(m) = 1 + Size[m]
  BY FrameAssumption DEF FrameLength
<1>2. \A i \in 1 .. Size[m] : DataByte(m, i) \in Byte
  BY DEF Byte, DataByte
<1>3. /\ Payload(m) \in Seq(Byte) /\ Len(Payload(m)) = Size[m]
      /\ \A i \in 1 .. Size[m] : Payload(m)[i] = DataByte(m, i)
  <2>1. Payload(m) \in [1 .. Size[m] -> Byte]
    BY <1>2 DEF Payload
  <2>2. Payload(m) \in Seq(Byte)
    BY <1>1, <2>1, SeqDef
  <2>3. Len(Payload(m)) = Size[m]
    BY <1>1, <2>1, <2>2, LenProperties
  <2> QED
    BY <2>2, <2>3 DEF Payload
<1>4. PICK h \in Seq(Byte) : h = <<TypeByte(m)>> /\ Len(h) = 1 /\ h[1] = TypeByte(m)
  <2>1. /\ <<TypeByte(m)>> \in Seq(Byte) /\ Len(<<TypeByte(m)>>) = 1
        /\ <<TypeByte(m)>>[1] = TypeByte(m)
    BY DEF Byte, TypeByte
  <2> QED
    BY <2>1
<1>5. PICK p \in Seq(Byte) : p = Payload(m)
  BY <1>3
<1>6. Whole(m) = h \o p
  BY <1>4, <1>5 DEF Whole
<1>7. /\ h \o p \in Seq(Byte) /\ Len(h \o p) = 1 + Size[m]
      /\ (h \o p)[1] = TypeByte(m)
      /\ \A i \in 1 .. Size[m] : (h \o p)[i + 1] = p[i]
  <2>1. /\ h \o p \in Seq(Byte) /\ Len(h \o p) = Len(h) + Len(p)
        /\ \A i \in 1 .. Len(h) + Len(p) :
              (h \o p)[i] = IF i <= Len(h) THEN h[i] ELSE p[i - Len(h)]
    BY ConcatProperties
  <2>2. Len(h) = 1 /\ Len(p) = Size[m] /\ h[1] = TypeByte(m)
    BY <1>3, <1>4, <1>5
  <2>3. (h \o p)[1] = TypeByte(m)
    BY <1>1, <2>1, <2>2
  <2>4. ASSUME NEW i \in 1 .. Size[m] PROVE (h \o p)[i + 1] = p[i]
    <3>1. i + 1 \in 1 .. Len(h) + Len(p) /\ ~(i + 1 <= Len(h)) /\ (i + 1) - Len(h) = i
      BY <1>1, <2>2
    <3> QED
      BY <2>1, <3>1
  <2> QED
    BY <2>1, <2>2, <2>3, <2>4
<1>8. /\ Whole(m) \in Seq(Byte) /\ Len(Whole(m)) = 1 + Size[m]
      /\ Whole(m)[1] = TypeByte(m)
      /\ \A i \in 1 .. Size[m] : Whole(m)[i + 1] = DataByte(m, i)
  BY <1>3, <1>5, <1>6, <1>7
<1> QED
  BY <1>1, <1>3, <1>8

\* The header of a frame that is not too large.
LEMMA BytesOfFrame ==
    ASSUME NEW m \in Msgs, FrameLength(m) <= MaxLength
    PROVE  /\ Header(m) \in Seq(Byte) /\ Len(Header(m)) = 2
           /\ Header(m)[1] = LengthByte(FrameLength(m)) /\ Header(m)[2] = TypeByte(m)
           /\ Whole(m) \in Seq(Byte) /\ Len(Whole(m)) = FrameLength(m)
           /\ Len(Whole(m)) \in 1 .. MaxLength
<1>1. MaxLength \in Nat
  BY FrameAssumption
<1>2. Size[m] \in Nat /\ FrameLength(m) = 1 + Size[m]
  BY PayloadType
<1>3. FrameLength(m) \in 1 .. MaxLength
  BY <1>1, <1>2
<1>4. LengthByte(FrameLength(m)) \in Byte /\ TypeByte(m) \in Byte
  BY <1>3 DEF Byte, LengthByte, TypeByte
<1>5. /\ Header(m) \in Seq(Byte) /\ Len(Header(m)) = 2
      /\ Header(m)[1] = LengthByte(FrameLength(m)) /\ Header(m)[2] = TypeByte(m)
  BY <1>4 DEF Header
<1> QED
  BY <1>2, <1>3, <1>5, PayloadType

\* What is left of a sequence once its first byte is consumed.
LEMMA Consumed ==
    ASSUME NEW s \in Seq(Byte), s # <<>>
    PROVE  /\ SubSeq(s, 2, Len(s)) \in Seq(Byte)
           /\ Len(s) \in Nat \ {0} /\ Len(SubSeq(s, 2, Len(s))) = Len(s) - 1
           /\ \A i \in 1 .. Len(s) - 1 : SubSeq(s, 2, Len(s))[i] = s[i + 1]
           /\ Head(s) \in Byte /\ Head(s) = s[1]
<1>1. Len(s) \in Nat \ {0}
  BY EmptySeq
<1>2. Head(s) = s[1] /\ Head(s) \in Byte
  BY <1>1, LenProperties, ElementOfSeq, HeadTailProperties
<1>3. Tail(s) \in Seq(Byte) /\ Len(Tail(s)) = Len(s) - 1
      /\ \A i \in 1 .. Len(Tail(s)) : Tail(s)[i] = s[i + 1]
  BY HeadTailProperties
<1>4. Tail(s) = SubSeq(s, 2, Len(s))
  BY TailIsSubSeq
<1>5. PICK t : t = Tail(s)
  OBVIOUS
<1>6. PICK u : u = SubSeq(s, 2, Len(s))
  OBVIOUS
<1>7. t = u
  BY <1>4, <1>5, <1>6
<1>8. u \in Seq(Byte) /\ Len(u) = Len(s) - 1 /\ \A i \in 1 .. Len(s) - 1 : u[i] = s[i + 1]
  BY <1>3, <1>5, <1>7
<1> QED
  BY <1>1, <1>2, <1>6, <1>8

\* A part of a frame that is written before an error.
LEMMA Part ==
    ASSUME NEW s \in Seq(Byte), NEW n \in 0 .. Len(s)
    PROVE  /\ SubSeq(s, 1, n) \in Seq(Byte) /\ Len(SubSeq(s, 1, n)) = n
           /\ \A i \in 1 .. n : SubSeq(s, 1, n)[i] = s[i]
<1>1. Len(s) \in Nat /\ n \in Nat /\ s \in [1 .. Len(s) -> Byte]
  BY LenProperties
<1>2. \A i \in 1 .. n : s[i] \in Byte
  BY <1>1
<1>3. PICK u : u = SubSeq(s, 1, n)
  OBVIOUS
<1>4. /\ u \in Seq(Byte) /\ Len(u) = IF 1 <= n THEN n - 1 + 1 ELSE 0
      /\ \A i \in 1 .. n - 1 + 1 : u[i] = s[1 + i - 1]
  BY <1>1, <1>2, <1>3, SubSeqProperties
<1>5. Len(u) = n /\ \A i \in 1 .. n : u[i] = s[i]
  BY <1>1, <1>4
<1> QED
  BY <1>3, <1>4, <1>5

\* A writer that is in the middle of a frame, or not.
LEMMA WriterType ==
    ASSUME TypeOK, NEW w \in Writers, writer[w].pc = "payload"
    PROVE  writer[w].m \in Msgs /\ writer[w] = [pc |-> "payload", m |-> writer[w].m]
<1>1. writer[w] \in [pc : {"payload"}, m : Msgs]
  BY DEF TypeOK, Idle, Done
<1> QED
  BY <1>1

\* What the steps that write have in common, and what they add to the stream.
LEMMA Writing ==
    ASSUME TypeOK, NEW w \in Writers
    PROVE  /\ \A m \in Messages(w) : BeginFrame(w, m) =>
                 /\ m \in Msgs /\ FrameLength(m) <= MaxLength
                 /\ stream' = stream \o Header(m)
           /\ \A m \in Messages(w) : BeginFails(w, m) =>
                 /\ m \in Msgs /\ FrameLength(m) <= MaxLength
                 /\ \/ stream' = stream /\ sent' = sent /\ mixed' = mixed /\ torn' = torn
                    \/ /\ stream' = stream \o SubSeq(Header(m), 1, 1)
                       /\ sent' = Append(sent, Whole(m))
                       /\ torn' # {} /\ mixed' = (mixed \/ Mixes(w))
           /\ FinishFails(w) =>
                 \E n \in 0 .. Size[writer[w].m] - 1 :
                    stream' = stream \o SubSeq(Payload(writer[w].m), 1, n)
<1>1. Messages(w) \subseteq Msgs
  BY FrameAssumption DEF Messages
<1>2. ASSUME NEW m \in Messages(w), BeginFails(w, m)
      PROVE  \/ stream' = stream /\ sent' = sent /\ mixed' = mixed /\ torn' = torn
             \/ /\ stream' = stream \o SubSeq(Header(m), 1, 1)
                /\ sent' = Append(sent, Whole(m))
                /\ torn' # {} /\ mixed' = (mixed \/ Mixes(w))
  <2>1. Len(Header(m)) = 2 /\ Header(m) \in Seq(Byte)
    BY <1>1, <1>2, BytesOfFrame DEF BeginFails
  <2>2. PICK n \in 0 .. Len(Header(m)) - 1 :
            /\ Emit(SubSeq(Header(m), 1, n))
            /\ sent' = IF n = 0 THEN sent ELSE Append(sent, Whole(m))
            /\ mixed' = (mixed \/ (n > 0 /\ Mixes(w)))
            /\ torn' = IF n = 0 THEN torn ELSE torn \cup {w}
    BY <1>2 DEF BeginFails
  <2>3. n = 0 \/ n = 1
    BY <2>1, <2>2
  <2>4. CASE n = 0
    <3>1. SubSeq(Header(m), 1, 0) = <<>>
      BY SubSeqEmpty
    <3>2. stream \o <<>> = stream
      BY ConcatEmptySeq DEF TypeOK
    <3>3. torn' = torn /\ mixed' = mixed
      BY <2>2, <2>4 DEF TypeOK
    <3> QED
      BY <2>2, <2>4, <3>1, <3>2, <3>3 DEF Emit
  <2>5. CASE n = 1
    <3>1. n > 0 /\ n # 0
      BY <2>5
    <3>2. torn' # {} /\ mixed' = (mixed \/ Mixes(w))
      <4>1. torn' = torn \cup {w}
        BY <2>2, <3>1
      <4>2. mixed' = (mixed \/ (n > 0 /\ Mixes(w)))
        BY <2>2
      <4>3. mixed' = (mixed \/ Mixes(w))
        BY ONLY <3>1, <4>2, Zenon
      <4> QED
        BY <4>1, <4>3
    <3>3. sent' = Append(sent, Whole(m)) /\ stream' = stream \o SubSeq(Header(m), 1, 1)
      BY <2>2, <2>5, <3>1 DEF Emit
    <3> QED
      BY <3>2, <3>3
  <2> QED
    BY <2>3, <2>4, <2>5
<1> QED
  BY <1>1, <1>2 DEF BeginFrame, BeginFails, FinishFails, Emit

(* Only bytes of frames are on the wire, no announced length is more than  *)
(* MaxFrameSize, and the reader waits for no more than that, whatever the  *)
(* messages, their sizes and the goroutines at work (FrameStream, TypeOK). *)
THEOREM TypeCorrect == Spec => []TypeOK
<1>1. Init => TypeOK
  <2> SUFFICES ASSUME Init PROVE TypeOK
    OBVIOUS
  <2>1. <<>> \in Seq(Byte) /\ <<>> \in Seq(Seq(Byte))
    BY EmptySeq
  <2>2. 0 \in 0 .. MaxFrames /\ 0 \in 0 .. MaxLength
    BY FrameAssumption
  <2>3. writer \in [Writers -> {Idle, Done} \cup [pc : {"payload"}, m : Msgs]]
    BY DEF Init
  <2> QED
    BY <2>1, <2>2, <2>3 DEF Init, TypeOK
<1>2. TypeOK /\ [Next]_vars => TypeOK'
  <2>a. SUFFICES ASSUME TypeOK, [Next]_vars PROVE TypeOK'
    OBVIOUS
  <2>b. /\ stream \in Seq(Byte) /\ frame \in Seq(Byte) /\ sent \in Seq(Seq(Byte))
        /\ received \in Seq(Seq(Byte))
        /\ begun \in 0 .. MaxFrames /\ MaxFrames \in Nat /\ need \in 0 .. MaxLength
        /\ MaxLength \in Nat \ {0}
    BY <2>a, FrameAssumption DEF TypeOK
  <2>1. ASSUME NEW w \in Writers, NEW m \in Messages(w), RefuseFrame(w, m) PROVE TypeOK'
    <3>1. begun' \in 0 .. MaxFrames
      BY <2>1, <2>b DEF RefuseFrame
    <3>2. writer' \in [Writers -> {Idle, Done} \cup [pc : {"payload"}, m : Msgs]]
      BY <2>1, <2>a DEF RefuseFrame, AfterError, TypeOK
    <3> QED
      BY <2>1, <2>a, <3>1, <3>2 DEF RefuseFrame, TypeOK
  <2>2. ASSUME NEW w \in Writers, NEW m \in Messages(w), BeginFrame(w, m) PROVE TypeOK'
    <3>1. m \in Msgs /\ FrameLength(m) <= MaxLength /\ stream' = stream \o Header(m)
      BY <2>2, <2>a, Writing
    <3>2. Header(m) \in Seq(Byte) /\ Whole(m) \in Seq(Byte)
      BY <3>1, BytesOfFrame
    <3>3. stream' \in Seq(Byte) /\ sent' \in Seq(Seq(Byte))
      BY <2>2, <2>b, <3>1, <3>2, ConcatProperties, AppendProperties DEF BeginFrame
    <3>4. begun' \in 0 .. MaxFrames
      BY <2>2, <2>b DEF BeginFrame
    <3>5. writer' \in [Writers -> {Idle, Done} \cup [pc : {"payload"}, m : Msgs]]
      BY <2>2, <2>a, <3>1 DEF BeginFrame, TypeOK
    <3>6. mixed' \in BOOLEAN
      BY <2>2 DEF BeginFrame
    <3> QED
      BY <2>2, <2>a, <3>3, <3>4, <3>5, <3>6 DEF BeginFrame, Emit, TypeOK
  <2>3. ASSUME NEW w \in Writers, NEW m \in Messages(w), BeginFails(w, m) PROVE TypeOK'
    <3>1. /\ m \in Msgs /\ FrameLength(m) <= MaxLength
          /\ stream' = stream \/ stream' = stream \o SubSeq(Header(m), 1, 1)
          /\ sent' = sent \/ sent' = Append(sent, Whole(m))
      BY <2>3, <2>a, Writing
    <3>2. Whole(m) \in Seq(Byte) /\ SubSeq(Header(m), 1, 1) \in Seq(Byte)
      <4>1. Header(m) \in Seq(Byte) /\ Len(Header(m)) = 2 /\ Whole(m) \in Seq(Byte)
        BY <3>1, BytesOfFrame
      <4>2. 1 \in 0 .. Len(Header(m))
        BY <4>1
      <4> QED
        BY <4>1, <4>2, Part
    <3>3. stream' \in Seq(Byte) /\ sent' \in Seq(Seq(Byte))
      <4>1. stream \o SubSeq(Header(m), 1, 1) \in Seq(Byte)
        BY <2>b, <3>2, ConcatProperties
      <4>2. Append(sent, Whole(m)) \in Seq(Seq(Byte))
        BY <2>b, <3>2, AppendProperties
      <4> QED
        BY <2>b, <3>1, <4>1, <4>2
    <3>4. begun' \in 0 .. MaxFrames
      BY <2>3, <2>b DEF BeginFails
    <3>5. writer' \in [Writers -> {Idle, Done} \cup [pc : {"payload"}, m : Msgs]]
      BY <2>3, <2>a DEF BeginFails, AfterError, TypeOK
    <3>6. mixed' \in BOOLEAN /\ torn' \subseteq Writers /\ UNCHANGED <<need, frame, reading, received>>
      BY <2>3, <2>a DEF BeginFails, Emit, TypeOK
    <3> QED
      BY <2>a, <3>3, <3>4, <3>5, <3>6 DEF TypeOK
  <2>4. ASSUME NEW w \in Writers, FinishFrame(w) PROVE TypeOK'
    <3>1. writer[w].m \in Msgs
      BY <2>4, <2>a, WriterType DEF FinishFrame
    <3>2. stream' \in Seq(Byte)
      BY <2>4, <2>b, <3>1, PayloadType, ConcatProperties DEF FinishFrame, Emit
    <3> QED
      BY <2>4, <2>a, <3>2 DEF FinishFrame, Emit, TypeOK
  <2>5. ASSUME NEW w \in Writers, FinishFails(w) PROVE TypeOK'
    <3>1. writer[w].m \in Msgs
      BY <2>5, <2>a, WriterType DEF FinishFails
    <3>2. PICK p \in Seq(Byte) : p = Payload(writer[w].m) /\ Len(p) = Size[writer[w].m]
      BY <3>1, PayloadType
    <3>3. PICK n \in 0 .. Size[writer[w].m] - 1 : stream' = stream \o SubSeq(p, 1, n)
      BY <2>5, <2>a, <3>2, Writing
    <3>4. n \in 0 .. Len(p)
      <4>1. Size[writer[w].m] \in Nat
        BY <3>1, PayloadType
      <4> QED
        BY <3>2, <3>3, <4>1
    <3>5. SubSeq(p, 1, n) \in Seq(Byte)
      BY <3>2, <3>4, Part
    <3>6. stream' \in Seq(Byte)
      BY <2>b, <3>3, <3>5, ConcatProperties
    <3>7. /\ writer' \in [Writers -> {Idle, Done} \cup [pc : {"payload"}, m : Msgs]]
          /\ torn' \subseteq Writers
          /\ UNCHANGED <<begun, sent, mixed, need, frame, reading, received>>
      BY <2>5, <2>a DEF FinishFails, Emit, AfterError, TypeOK
    <3> QED
      BY <2>a, <3>6, <3>7 DEF TypeOK
  <2>6. ASSUME ReadLength PROVE TypeOK'
    <3>1. stream' \in Seq(Byte)
      BY <2>6, <2>b, Consumed DEF ReadLength, Consume
    <3>2. need' \in 0 .. MaxLength /\ reading' \in BOOLEAN
      BY <2>6, <2>b DEF ReadLength
    <3> QED
      BY <2>6, <2>a, <3>1, <3>2 DEF ReadLength, KeepsWriting, TypeOK
  <2>7. ASSUME ReadByte PROVE TypeOK'
    <3>1. stream' \in Seq(Byte) /\ Head(stream) \in Byte
      BY <2>7, <2>b, Consumed DEF ReadByte, Consume
    <3>2. PICK bytes \in Seq(Byte) : bytes = Append(frame, Head(stream))
      BY <2>b, <3>1, AppendProperties
    <3>3. need' \in 0 .. MaxLength
      BY <2>7, <2>b DEF ReadByte
    <3>4. \/ frame' = <<>> /\ received' = Append(received, bytes)
          \/ frame' = bytes /\ received' = received
      BY <2>7, <3>2 DEF ReadByte
    <3>5. frame' \in Seq(Byte) /\ received' \in Seq(Seq(Byte))
      <4>1. Append(received, bytes) \in Seq(Seq(Byte)) /\ <<>> \in Seq(Byte)
        BY <2>b, <3>2, AppendProperties, EmptySeq
      <4> QED
        BY <2>b, <3>2, <3>4, <4>1
    <3> QED
      BY <2>7, <2>a, <3>1, <3>3, <3>5 DEF ReadByte, KeepsWriting, TypeOK
  <2>8. CASE ReadFails
    BY <2>8, <2>a DEF ReadFails, KeepsWriting, TypeOK
  <2>9. CASE UNCHANGED vars
    BY <2>9, <2>a DEF vars, TypeOK
  <2> QED
    BY <2>a, <2>1, <2>2, <2>3, <2>4, <2>5, <2>6, <2>7, <2>8, <2>9 DEF Next, Write, Stopped
<1> QED
  BY <1>1, <1>2, PTL DEF Spec

\* A byte is consumed.
LEMMA PlacedConsumed ==
    ASSUME NEW first \in Nat, first > 0, NEW n \in Nat, NEW ls \in Nat, ls > 0,
           NEW len, NEW s, NEW t, NEW fs, NEW at
    PROVE  Counts(len, n) /\ Shifted(t, s, ls) /\ Placed(at, s, ls, fs, len, n, first) =>
              \E to : /\ Placed(to, t, ls - 1, fs, len, n, first)
                      /\ \A k \in Nat : to[k] = at[k] - 1
<1>a. SUFFICES ASSUME Counts(len, n), Shifted(t, s, ls), Placed(at, s, ls, fs, len, n, first)
               PROVE  \E to : /\ Placed(to, t, ls - 1, fs, len, n, first)
                              /\ \A k \in Nat : to[k] = at[k] - 1
  OBVIOUS
<1>b. /\ \A k \in 1 .. n : len[k] \in Nat
      /\ \A i \in 1 .. ls - 1 : t[i] = s[i + 1]
  BY <1>a DEF Counts, Shifted
<1>1. \A k \in Nat : at[k] \in Int
  BY <1>b, <1>a DEF Placed
<1>2. PICK to : \A k \in Nat : to[k] = at[k] - 1
  <2>1. \A k \in Nat : [j \in Nat |-> at[j] - 1][k] = at[k] - 1
    BY <1>b
  <2> QED
    BY <1>b, <2>1
<1>2a. \A k \in Nat : to[k] \in Int
  BY <1>b, <1>1, <1>2
<1>3. ASSUME NEW k \in first .. n PROVE to[k + 1] = to[k] + 1 + len[k]
  <2>1. at[k + 1] = at[k] + 1 + len[k] /\ len[k] \in Nat
    BY <1>b, <1>a DEF Placed
  <2>2. k \in Nat /\ k + 1 \in Nat /\ at[k] \in Int /\ at[k + 1] \in Int
    BY <1>b, <1>1
  <2> QED
    BY <1>b, <1>2, <2>1, <2>2
<1>4. ASSUME NEW j \in first .. n + 1, NEW k \in first .. n + 1, j < k
      PROVE  to[j] < to[k]
  <2>1. at[j] < at[k]
    BY <1>b, <1>a, <1>4 DEF Placed
  <2> QED
    BY <1>b, <1>1, <1>2, <2>1
<1>5. ASSUME NEW k \in first .. n, NEW i \in 1 .. ls - 1
      PROVE  /\ i = to[k] + 1 => t[i] = LengthByte(len[k])
             /\ i \in to[k] + 2 .. to[k] + 1 + len[k] => t[i] = fs[k][i - to[k] - 1]
  <2>1. i + 1 \in 1 .. ls /\ t[i] = s[i + 1]
    BY <1>b
  <2>2. /\ i + 1 = at[k] + 1 => s[i + 1] = LengthByte(len[k])
        /\ i + 1 \in at[k] + 2 .. at[k] + 1 + len[k] => s[i + 1] = fs[k][(i + 1) - at[k] - 1]
    BY <1>b, <1>a, <2>1 DEF Placed
  <2>3. k \in Nat /\ at[k] \in Int /\ to[k] = at[k] - 1 /\ len[k] \in Nat
    BY <1>b, <1>1, <1>2
  <2>4. i = to[k] + 1 => i + 1 = at[k] + 1
    BY <1>b, <2>3
  <2>5. i \in to[k] + 2 .. to[k] + 1 + len[k] =>
           /\ i + 1 \in at[k] + 2 .. at[k] + 1 + len[k]
           /\ (i + 1) - at[k] - 1 = i - to[k] - 1
    BY <1>b, <2>3
  <2> QED
    BY <1>b, <2>1, <2>2, <2>4, <2>5
<1>6. to[n + 1] >= ls - 1
  <2>1. at[n + 1] >= ls
    BY <1>b, <1>a DEF Placed
  <2> QED
    BY <1>b, <1>1, <1>2, <2>1
<1>7. Placed(to, t, ls - 1, fs, len, n, first)
  BY <1>b, <1>2a, <1>3, <1>4, <1>5, <1>6 DEF Placed
<1> QED
  BY <1>b, <1>2, <1>7

\* Another frame is announced where nothing is missing, and as much of it added as is
\* written.
LEMMA PlacedAppended ==
    ASSUME NEW first \in Nat, first > 0, NEW n \in Nat, first <= n + 1,
           NEW ls \in Nat, NEW lt \in Nat, NEW lf \in Nat,
           NEW len, NEW size, NEW s, NEW t, NEW u, NEW f, NEW fs, NEW gs, NEW at
    PROVE  /\ Counts(len, n) /\ Extended(u, s, ls, t, lt) /\ Announces(t, lt, f, lf)
           /\ Added(gs, size, fs, len, n, f, lf)
           /\ Placed(at, s, ls, fs, len, n, first) /\ EndsAt(at, n, ls)
           => \E to : /\ Placed(to, u, ls + lt, gs, size, n + 1, first)
                      /\ Lengthened(to, at, n, ls, lf)
<1>a. SUFFICES ASSUME Counts(len, n), Extended(u, s, ls, t, lt), Announces(t, lt, f, lf),
                      Added(gs, size, fs, len, n, f, lf),
                      Placed(at, s, ls, fs, len, n, first), EndsAt(at, n, ls)
               PROVE  \E to : /\ Placed(to, u, ls + lt, gs, size, n + 1, first)
                              /\ Lengthened(to, at, n, ls, lf)
  OBVIOUS
<1>b. /\ \A k \in 1 .. n : len[k] \in Nat
      /\ \A i \in 1 .. ls : u[i] = s[i]
      /\ \A i \in 1 .. lt : u[ls + i] = t[i]
      /\ lt > 0 /\ lt <= lf + 1
      /\ t[1] = LengthByte(lf) /\ \A i \in 2 .. lt : t[i] = f[i - 1]
      /\ \A k \in 1 .. n : gs[k] = fs[k] /\ size[k] = len[k]
      /\ gs[n + 1] = f /\ size[n + 1] = lf /\ at[n + 1] = ls
  BY <1>a DEF Counts, Extended, Announces, Added, EndsAt
<1>c. \A k \in 1 .. n + 1 : size[k] \in Nat
  <2> SUFFICES ASSUME NEW k \in 1 .. n + 1 PROVE size[k] \in Nat
    OBVIOUS
  <2>1. k = n + 1 \/ k \in 1 .. n
    OBVIOUS
  <2> QED
    BY <1>b, <2>1
<1>1. /\ \A k \in Nat : at[k] \in Int
      /\ \A k \in first .. n : at[k + 1] = at[k] + 1 + len[k]
      /\ \A j, k \in first .. n + 1 : j < k => at[j] < at[k]
      /\ \A k \in first .. n, i \in 1 .. ls :
            /\ i = at[k] + 1 => s[i] = LengthByte(len[k])
            /\ i \in at[k] + 2 .. at[k] + 1 + len[k] => s[i] = fs[k][i - at[k] - 1]
  BY <1>b, <1>a DEF Placed
<1>2p. PICK to : \A k \in Nat : to[k] = IF k <= n + 1 THEN at[k] ELSE ls + 1 + lf
  <2>1. \A k \in Nat : [j \in Nat |-> IF j <= n + 1 THEN at[j] ELSE ls + 1 + lf][k]
                           = IF k <= n + 1 THEN at[k] ELSE ls + 1 + lf
    BY <1>b
  <2> QED
    BY <1>b, <2>1
<1>2. /\ \A k \in Nat : to[k] \in Int
      /\ \A k \in 0 .. n + 1 : to[k] = at[k]
      /\ to[n + 2] = ls + 1 + lf
  BY <1>b, <1>1, <1>2p
<1>3. \A j \in first .. n + 1 : at[j] \in Int /\ at[j] <= ls
  <2> SUFFICES ASSUME NEW j \in first .. n + 1 PROVE at[j] \in Int /\ at[j] <= ls
    OBVIOUS
  <2>1. at[j] \in Int
    BY <1>b, <1>1
  <2>2. CASE j = n + 1
    BY <1>b, <2>1, <2>2
  <2>3. CASE j < n + 1
    <3>1. at[j] < at[n + 1]
      BY <1>b, <1>1, <2>3
    <3> QED
      BY <1>b, <2>1, <3>1
  <2> QED
    BY <1>b, <2>2, <2>3
<1>4. ASSUME NEW k \in first .. n + 1 PROVE to[k + 1] = to[k] + 1 + size[k]
  <2>1. CASE k = n + 1
    BY <1>b, <1>2, <2>1
  <2>2. CASE k \in first .. n
    <3>1. size[k] = len[k] /\ to[k] = at[k] /\ to[k + 1] = at[k + 1]
      BY <1>b, <1>2, <2>2
    <3> QED
      BY <1>b, <1>1, <2>2, <3>1
  <2> QED
    BY <1>b, <2>1, <2>2
<1>5. ASSUME NEW j \in first .. n + 2, NEW k \in first .. n + 2, j < k PROVE to[j] < to[k]
  <2>1. j \in first .. n + 1 /\ to[j] = at[j]
    BY <1>b, <1>2, <1>5
  <2>2. CASE k \in first .. n + 1
    <3>1. to[k] = at[k] /\ at[j] < at[k]
      BY <1>b, <1>1, <1>2, <1>5, <2>1, <2>2
    <3> QED
      BY <1>b, <2>1, <3>1
  <2>3. CASE k = n + 2
    <3>1. at[j] \in Int /\ at[j] <= ls
      BY <1>b, <1>3, <2>1
    <3> QED
      BY <1>b, <1>2, <2>1, <2>3, <3>1
  <2> QED
    BY <1>b, <2>2, <2>3
<1>6. ASSUME NEW k \in first .. n + 1, NEW i \in 1 .. ls + lt
      PROVE  /\ i = to[k] + 1 => u[i] = LengthByte(size[k])
             /\ i \in to[k] + 2 .. to[k] + 1 + size[k] => u[i] = gs[k][i - to[k] - 1]
  <2>1. CASE k \in first .. n
    <3>1. gs[k] = fs[k] /\ size[k] = len[k] /\ to[k] = at[k] /\ len[k] \in Nat /\ at[k] \in Int
      BY <1>b, <1>1, <1>2, <2>1
    <3>2. k + 1 \in first .. n + 1
      BY <1>b, <2>1
    <3>3. at[k + 1] <= ls /\ at[k + 1] = at[k] + 1 + len[k]
      BY <1>b, <1>1, <1>3, <2>1, <3>2
    <3>4. /\ i = at[k] + 1 => i \in 1 .. ls
          /\ i \in at[k] + 2 .. at[k] + 1 + len[k] => i \in 1 .. ls
      BY <1>b, <3>1, <3>3
    <3>5. i \in 1 .. ls =>
             /\ u[i] = s[i]
             /\ i = at[k] + 1 => s[i] = LengthByte(len[k])
             /\ i \in at[k] + 2 .. at[k] + 1 + len[k] => s[i] = fs[k][i - at[k] - 1]
      BY <1>b, <1>1, <2>1
    <3> QED
      BY <1>b, <3>1, <3>4, <3>5
  <2>2. CASE k = n + 1
    <3>1. gs[k] = f /\ to[k] = ls /\ size[k] = lf
      BY <1>b, <1>2, <2>2
    <3>2. i = ls + 1 => u[i] = LengthByte(lf)
      <4>1. 1 \in 1 .. lt
        BY <1>b
      <4> QED
        BY <1>b, <4>1
    <3>3. ASSUME i \in ls + 2 .. ls + 1 + lf PROVE u[i] = f[i - ls - 1]
      <4>1. PICK j \in Int : j = i - ls
        OBVIOUS
      <4>2. j \in 2 .. lt /\ j \in 1 .. lt /\ i = ls + j
        BY <1>b, <3>3, <4>1
      <4>3. u[ls + j] = t[j] /\ t[j] = f[j - 1]
        BY <1>b, <4>2
      <4>4. i - ls - 1 = j - 1
        BY <1>b, <4>1
      <4> QED
        BY <1>b, <4>2, <4>3, <4>4
    <3> QED
      BY <1>b, <3>1, <3>2, <3>3
  <2> QED
    BY <1>b, <2>1, <2>2
<1>7. to[(n + 1) + 1] >= ls + lt
  <2>1. (n + 1) + 1 = n + 2
    OBVIOUS
  <2> QED
    BY <1>b, <1>2, <2>1
<1>8. Placed(to, u, ls + lt, gs, size, n + 1, first)
  <2>1. (n + 1) + 1 = n + 2
    OBVIOUS
  <2> QED
    BY <1>b, <1>2, <1>4, <1>5, <1>6, <1>7, <2>1 DEF Placed
<1> QED
  BY <1>2, <1>8 DEF Lengthened

\* More is written of the last frame, of which bytes are missing.
LEMMA PlacedContinued ==
    ASSUME NEW first \in Nat, first > 0, NEW n \in Nat, first <= n,
           NEW ls \in Nat, NEW lt \in Nat, NEW missing \in Nat,
           NEW len, NEW s, NEW t, NEW u, NEW fs, NEW at
    PROVE  /\ Counts(len, n) /\ Extended(u, s, ls, t, lt)
           /\ Continues(t, lt, fs, len, n, missing)
           /\ Placed(at, s, ls, fs, len, n, first) /\ at[n + 1] = ls + missing
           => Placed(at, u, ls + lt, fs, len, n, first)
<1>a. SUFFICES ASSUME Counts(len, n), Extended(u, s, ls, t, lt),
                      Continues(t, lt, fs, len, n, missing),
                      Placed(at, s, ls, fs, len, n, first), at[n + 1] = ls + missing
               PROVE  Placed(at, u, ls + lt, fs, len, n, first)
  OBVIOUS
<1>b. /\ \A k \in 1 .. n : len[k] \in Nat
      /\ \A i \in 1 .. ls : u[i] = s[i]
      /\ \A i \in 1 .. lt : u[ls + i] = t[i]
      /\ lt <= missing /\ missing <= len[n]
      /\ \A i \in 1 .. lt : t[i] = fs[n][len[n] - missing + i]
      /\ at[n + 1] = ls + missing
  BY <1>a DEF Counts, Extended, Continues
<1>1. /\ \A k \in Nat : at[k] \in Int
      /\ \A k \in first .. n : at[k + 1] = at[k] + 1 + len[k]
      /\ \A j, k \in first .. n + 1 : j < k => at[j] < at[k]
      /\ \A k \in first .. n, i \in 1 .. ls :
            /\ i = at[k] + 1 => s[i] = LengthByte(len[k])
            /\ i \in at[k] + 2 .. at[k] + 1 + len[k] => s[i] = fs[k][i - at[k] - 1]
  BY <1>b, <1>a DEF Placed
<1>2. at[n] \in Int /\ at[n] = ls + missing - 1 - len[n] /\ len[n] \in Nat
  <2>1. n \in first .. n /\ n \in 1 .. n
    OBVIOUS
  <2>2. at[n] \in Int /\ len[n] \in Nat
    BY <1>b, <1>1, <2>1
  <2>3. at[n + 1] = at[n] + 1 + len[n]
    BY <1>b, <1>1, <2>1
  <2>4. at[n + 1] = ls + missing
    BY <1>b
  <2> QED
    BY <1>b, <2>2, <2>3, <2>4
<1>3. ASSUME NEW k \in first .. n, NEW i \in 1 .. ls + lt
      PROVE  /\ i = at[k] + 1 => u[i] = LengthByte(len[k])
             /\ i \in at[k] + 2 .. at[k] + 1 + len[k] => u[i] = fs[k][i - at[k] - 1]
  <2>1. CASE i <= ls
    <3>1. i \in 1 .. ls /\ u[i] = s[i]
      BY <1>b, <2>1
    <3> QED
      BY <1>b, <1>1, <3>1
  <2>2. CASE i > ls /\ k = n
    <3>1. PICK j \in Int : j = i - ls
      OBVIOUS
    <3>2. j \in 1 .. lt /\ i = ls + j /\ i # at[n] + 1
      BY <1>b, <1>2, <2>2, <3>1
    <3>3. u[ls + j] = t[j] /\ t[j] = fs[n][len[n] - missing + j]
      BY <1>b, <3>2
    <3>4. i - at[n] - 1 = len[n] - missing + j
      BY <1>b, <1>2, <3>1
    <3> QED
      BY <1>b, <2>2, <3>2, <3>3, <3>4
  <2>3. CASE i > ls /\ k < n
    <3>1. k + 1 \in first .. n + 1 /\ n \in first .. n + 1 /\ (k + 1 = n \/ k + 1 < n)
      BY <1>b, <2>3
    <3>2. at[k + 1] \in Int /\ at[k] \in Int /\ len[k] \in Nat
      BY <1>b, <1>1
    <3>3. at[k + 1] <= at[n]
      BY <1>b, <1>1, <1>2, <3>1, <3>2
    <3>4. at[k + 1] = at[k] + 1 + len[k]
      BY <1>b, <1>1
    <3>5. i > at[k] + 1 + len[k]
      BY <1>b, <1>2, <2>3, <3>2, <3>3, <3>4
    <3>6. i # at[k] + 1 /\ i \notin at[k] + 2 .. at[k] + 1 + len[k]
      BY <1>b, <3>2, <3>5
    <3> QED
      BY <1>b, <3>6
  <2> QED
    BY <1>b, <2>1, <2>2, <2>3
<1>4. at[n + 1] >= ls + lt
  BY <1>b
<1> QED
  BY <1>b, <1>1, <1>3, <1>4 DEF Placed

\* The numbers of a layout.
LEMMA Numbers ==
    ASSUME NEW s \in Seq(Byte), NEW fs \in Seq(Seq(Byte))
    PROVE  \E n, ls \in Nat :
              /\ n = Len(fs) /\ ls = Len(s)
              /\ \A k \in 1 .. n : fs[k] \in Seq(Byte) /\ Sizes(fs)[k] = Len(fs[k])
                                   /\ Sizes(fs)[k] \in Nat
<1>1. Len(fs) \in Nat /\ Len(s) \in Nat
  BY LenProperties
<1>2. \A k \in 1 .. Len(fs) : fs[k] \in Seq(Byte)
  BY ElementOfSeq
<1>3. \A k \in 1 .. Len(fs) : Len(fs[k]) \in Nat
  BY <1>2, LenProperties
<1>4. \A k \in 1 .. Len(fs) : Sizes(fs)[k] = Len(fs[k])
  BY DEF Sizes
<1> QED
  BY <1>1, <1>2, <1>3, <1>4

\* Bytes added to a stream.
LEMMA Joined ==
    ASSUME NEW s \in Seq(Byte), NEW t \in Seq(Byte)
    PROVE  /\ s \o t \in Seq(Byte) /\ Len(s) \in Nat /\ Len(t) \in Nat
           /\ Len(s \o t) = Len(s) + Len(t)
           /\ \A i \in 1 .. Len(s) : (s \o t)[i] = s[i]
           /\ \A i \in 1 .. Len(t) : (s \o t)[Len(s) + i] = t[i]
<1>1. PICK u : u = s \o t
  OBVIOUS
<1>2. PICK n, m \in Nat : n = Len(s) /\ m = Len(t)
  BY LenProperties
<1>3. /\ u \in Seq(Byte) /\ Len(u) = n + m
      /\ \A i \in 1 .. n + m : u[i] = IF i <= n THEN s[i] ELSE t[i - n]
  BY <1>1, <1>2, ConcatProperties
<1>4. \A i \in 1 .. n : u[i] = s[i]
  BY <1>3
<1>5. \A i \in 1 .. m : u[n + i] = t[i]
  <2> SUFFICES ASSUME NEW i \in 1 .. m PROVE u[n + i] = t[i]
    OBVIOUS
  <2>1. n + i \in 1 .. n + m /\ ~(n + i <= n) /\ (n + i) - n = i
    OBVIOUS
  <2> QED
    BY <1>3, <2>1
<1> QED
  BY <1>1, <1>2, <1>3, <1>4, <1>5

\* A frame added to those sent.
LEMMA FrameAdded ==
    ASSUME NEW fs \in Seq(Seq(Byte)), NEW f \in Seq(Byte)
    PROVE  /\ Append(fs, f) \in Seq(Seq(Byte)) /\ Len(fs) \in Nat
           /\ Len(Append(fs, f)) = Len(fs) + 1 /\ Append(fs, f)[Len(fs) + 1] = f
           /\ \A k \in 1 .. Len(fs) : Append(fs, f)[k] = fs[k]
BY AppendProperties, LenProperties

\* A layout once its first byte is consumed.
LEMMA LayoutConsumed ==
    ASSUME NEW s \in Seq(Byte), s # <<>>, NEW fs \in Seq(Seq(Byte)), NEW first \in Nat,
           first > 0, NEW at
    PROVE  Layout(at, s, fs, first) =>
              \E to : /\ Layout(to, SubSeq(s, 2, Len(s)), fs, first)
                      /\ \A k \in Nat : to[k] = at[k] - 1
<1>a. SUFFICES ASSUME Layout(at, s, fs, first)
               PROVE  \E to : /\ Layout(to, SubSeq(s, 2, Len(s)), fs, first)
                              /\ \A k \in Nat : to[k] = at[k] - 1
  OBVIOUS
<1>1. PICK n, ls \in Nat :
          /\ n = Len(fs) /\ ls = Len(s)
          /\ \A k \in 1 .. n : fs[k] \in Seq(Byte) /\ Sizes(fs)[k] = Len(fs[k])
                               /\ Sizes(fs)[k] \in Nat
  BY Numbers
<1>2. PICK len : len = Sizes(fs)
  OBVIOUS
<1>3. PICK t : t = SubSeq(s, 2, Len(s))
  OBVIOUS
<1>4. ls > 0 /\ Len(t) = ls - 1 /\ Shifted(t, s, ls)
  BY <1>1, <1>3, Consumed DEF Shifted
<1>5. Placed(at, s, ls, fs, len, n, first)
  BY <1>a, <1>1, <1>2 DEF Layout
<1>6. Counts(len, n)
  BY <1>1, <1>2 DEF Counts
<1>7. PICK to : Placed(to, t, ls - 1, fs, len, n, first) /\ \A k \in Nat : to[k] = at[k] - 1
  BY ONLY first \in Nat, first > 0, n \in Nat, ls \in Nat, <1>4, <1>5, <1>6, PlacedConsumed
<1>8. Layout(to, t, fs, first)
  BY <1>1, <1>2, <1>4, <1>7 DEF Layout
<1> QED
  BY <1>3, <1>7, <1>8

\* A layout from one frame on is one from the next on.
LEMMA LayoutNext ==
    ASSUME NEW s \in Seq(Byte), NEW fs \in Seq(Seq(Byte)), NEW first \in Nat, NEW at
    PROVE  Layout(at, s, fs, first) => Layout(at, s, fs, first + 1)
<1>a. SUFFICES ASSUME Layout(at, s, fs, first) PROVE Layout(at, s, fs, first + 1)
  OBVIOUS
<1>1. PICK n \in Nat : n = Len(fs)
  BY LenProperties
<1>2. PICK ls, len : Placed(at, s, ls, fs, len, n, first) /\ ls = Len(s) /\ len = Sizes(fs)
  BY <1>a, <1>1 DEF Layout
<1>3. /\ \A k \in first + 1 .. n : k \in first .. n
      /\ \A k \in first + 1 .. n + 1 : k \in first .. n + 1
  OBVIOUS
<1>4. Placed(at, s, ls, fs, len, n, first + 1)
  BY ONLY <1>2, <1>3 DEF Placed
<1> QED
  BY <1>1, <1>2, <1>4 DEF Layout

\* A layout that lacks nothing, once a frame is announced and some of it added.
LEMMA LayoutAppended ==
    ASSUME NEW s \in Seq(Byte), NEW fs \in Seq(Seq(Byte)), NEW first \in Nat, first > 0,
           NEW f \in Seq(Byte), NEW t \in Seq(Byte), NEW at
    PROVE  /\ Layout(at, s, fs, first) /\ first <= Len(fs) + 1 /\ EndsAt(at, Len(fs), Len(s))
           /\ Announces(t, Len(t), f, Len(f))
           => \E to : /\ Layout(to, s \o t, Append(fs, f), first)
                      /\ Lengthened(to, at, Len(fs), Len(s), Len(f))
<1>a. SUFFICES ASSUME Layout(at, s, fs, first), first <= Len(fs) + 1,
                      EndsAt(at, Len(fs), Len(s)), Announces(t, Len(t), f, Len(f))
               PROVE  \E to : /\ Layout(to, s \o t, Append(fs, f), first)
                              /\ Lengthened(to, at, Len(fs), Len(s), Len(f))
  OBVIOUS
<1>1. PICK n, ls \in Nat :
          /\ n = Len(fs) /\ ls = Len(s)
          /\ \A k \in 1 .. n : fs[k] \in Seq(Byte) /\ Sizes(fs)[k] = Len(fs[k])
                               /\ Sizes(fs)[k] \in Nat
  BY Numbers
<1>2. PICK lt, lf \in Nat : lt = Len(t) /\ lf = Len(f)
  BY LenProperties
<1>3. PICK u : u = s \o t
  OBVIOUS
<1>4. Len(u) = ls + lt /\ Extended(u, s, ls, t, lt)
  BY <1>1, <1>2, <1>3, Joined DEF Extended
<1>5. PICK gs \in Seq(Seq(Byte)) : gs = Append(fs, f)
  BY FrameAdded
<1>6. Len(gs) = n + 1 /\ gs[n + 1] = f /\ \A k \in 1 .. n : gs[k] = fs[k]
  BY <1>1, <1>5, FrameAdded
<1>7. PICK len, size : len = Sizes(fs) /\ size = Sizes(gs)
  OBVIOUS
<1>8. Counts(len, n)
  BY <1>1, <1>7 DEF Counts
<1>9. size[n + 1] = lf /\ \A k \in 1 .. n : size[k] = len[k]
  <2>1. \A k \in 1 .. n + 1 : size[k] = Len(gs[k])
    BY <1>6, <1>7 DEF Sizes
  <2>2. n + 1 \in 1 .. n + 1 /\ \A k \in 1 .. n : k \in 1 .. n + 1
    OBVIOUS
  <2>3. size[n + 1] = lf
    BY <1>2, <1>6, <2>1, <2>2
  <2>4. \A k \in 1 .. n : size[k] = len[k]
    BY <1>1, <1>6, <1>7, <2>1, <2>2
  <2> QED
    BY <2>3, <2>4
<1>10. Added(gs, size, fs, len, n, f, lf)
  BY <1>6, <1>9 DEF Added
<1>11. Placed(at, s, ls, fs, len, n, first)
  BY <1>a, <1>1, <1>7 DEF Layout
<1>12. first <= n + 1 /\ EndsAt(at, n, ls) /\ Announces(t, lt, f, lf)
  BY <1>a, <1>1, <1>2
<1>13. PICK to : Placed(to, u, ls + lt, gs, size, n + 1, first) /\ Lengthened(to, at, n, ls, lf)
  BY ONLY first \in Nat, first > 0, n \in Nat, ls \in Nat, lt \in Nat, lf \in Nat,
          <1>4, <1>8, <1>10, <1>11, <1>12, PlacedAppended
<1>14. Layout(to, u, gs, first)
  BY <1>4, <1>6, <1>7, <1>13 DEF Layout
<1> QED
  BY <1>1, <1>2, <1>3, <1>5, <1>13, <1>14

\* A layout that lacks bytes of the last frame, once some of them are added.
LEMMA LayoutContinued ==
    ASSUME NEW s \in Seq(Byte), NEW fs \in Seq(Seq(Byte)), NEW first \in Nat, first > 0,
           NEW missing \in Nat, NEW t \in Seq(Byte), NEW at
    PROVE  /\ Layout(at, s, fs, first) /\ first <= Len(fs)
           /\ at[Len(fs) + 1] = Len(s) + missing
           /\ Continues(t, Len(t), fs, Sizes(fs), Len(fs), missing)
           => Layout(at, s \o t, fs, first)
<1>a. SUFFICES ASSUME Layout(at, s, fs, first), first <= Len(fs),
                      at[Len(fs) + 1] = Len(s) + missing,
                      Continues(t, Len(t), fs, Sizes(fs), Len(fs), missing)
               PROVE  Layout(at, s \o t, fs, first)
  OBVIOUS
<1>1. PICK n, ls \in Nat :
          /\ n = Len(fs) /\ ls = Len(s)
          /\ \A k \in 1 .. n : fs[k] \in Seq(Byte) /\ Sizes(fs)[k] = Len(fs[k])
                               /\ Sizes(fs)[k] \in Nat
  BY Numbers
<1>2. PICK lt \in Nat : lt = Len(t)
  BY LenProperties
<1>3. PICK u : u = s \o t
  OBVIOUS
<1>4. Len(u) = ls + lt /\ Extended(u, s, ls, t, lt)
  BY <1>1, <1>2, <1>3, Joined DEF Extended
<1>5. PICK len : len = Sizes(fs)
  OBVIOUS
<1>6. Counts(len, n)
  BY <1>1, <1>5 DEF Counts
<1>7. first <= n
  BY <1>a, <1>1
<1>8. at[n + 1] = ls + missing /\ Continues(t, lt, fs, len, n, missing)
  BY <1>a, <1>1, <1>2, <1>5
<1>9. Placed(at, s, ls, fs, len, n, first)
  BY <1>a, <1>1, <1>5 DEF Layout
<1>10. Placed(at, u, ls + lt, fs, len, n, first)
  BY ONLY first \in Nat, first > 0, n \in Nat, ls \in Nat, lt \in Nat, missing \in Nat,
          <1>4, <1>6, <1>7, <1>8, <1>9, PlacedContinued
<1> QED
  BY <1>1, <1>3, <1>4, <1>5, <1>10 DEF Layout

\* A frame is begun where nothing is missing: its length, or its length and its type, are
\* written.
LEMMA FrameBegun ==
    ASSUME TypeOK, ReadInOrder, NEW at, LaidOut(at), torn = {},
           \A v \in Writers : writer[v].pc # "payload",
           NEW m \in Msgs, NEW t \in Seq(Byte), NEW lt \in 1 .. 2, Len(t) = lt,
           t[1] = LengthByte(FrameLength(m)), lt = 2 => t[2] = TypeByte(m)
    PROVE  \E to : /\ Layout(to, stream \o t, Append(sent, Whole(m)), Len(received) + 1)
                   /\ to[Len(received) + 1] = at[Len(received) + 1]
                   /\ to[Len(sent) + 2] = Len(stream) + 2 + Size[m]
                   /\ Len(stream \o t) = Len(stream) + lt /\ Len(stream) \in Nat
                   /\ Len(sent) \in Nat
<1>1. stream \in Seq(Byte) /\ sent \in Seq(Seq(Byte)) /\ received \in Seq(Seq(Byte))
  BY DEF TypeOK
<1>2. PICK n, ls, r, size \in Nat :
          n = Len(sent) /\ ls = Len(stream) /\ r = Len(received) /\ size = Size[m]
  BY <1>1, LenProperties, PayloadType
<1>3. r + 1 <= n + 1
  BY <1>2 DEF ReadInOrder
<1>4. PICK first \in Nat : first = r + 1 /\ first > 0 /\ first <= n + 1
  BY <1>3
<1>5. PICK f \in Seq(Byte) :
          f = Whole(m) /\ Len(f) = 1 + size /\ f[1] = TypeByte(m) /\ FrameLength(m) = 1 + size
  BY <1>2, PayloadType
<1>6. Layout(at, stream, sent, first) /\ EndsAt(at, Len(sent), Len(stream))
  BY <1>2, <1>4 DEF LaidOut, EndsAt
<1>7. Len(t) \in 1 .. Len(f) + 1 /\ t[1] = LengthByte(Len(f))
  BY <1>5
<1>8. \A i \in 2 .. Len(t) : t[i] = f[i - 1]
  <2> SUFFICES ASSUME NEW i \in 2 .. Len(t) PROVE t[i] = f[i - 1]
    OBVIOUS
  <2>1. i = 2 /\ lt = 2 /\ i - 1 = 1
    OBVIOUS
  <2> QED
    BY <1>5, <2>1
<1>9. first <= Len(sent) + 1 /\ Announces(t, Len(t), f, Len(f))
  BY <1>2, <1>4, <1>7, <1>8 DEF Announces
<1>10. PICK to : /\ Layout(to, stream \o t, Append(sent, f), first)
                 /\ Lengthened(to, at, Len(sent), Len(stream), Len(f))
  BY ONLY <1>1, first \in Nat, <1>4, f \in Seq(Byte), t \in Seq(Byte), <1>6, <1>9,
          LayoutAppended
<1>11. to[first] = at[first]
  <2>1. first \in 0 .. n + 1
    BY <1>4
  <2> QED
    BY <1>2, <1>10, <2>1 DEF Lengthened
<1>12. to[Len(sent) + 2] = Len(stream) + 2 + Size[m]
  <2>1. to[Len(sent) + 2] = ls + 1 + (1 + size)
    BY <1>2, <1>5, <1>10 DEF Lengthened
  <2>2. ls + 1 + (1 + size) = ls + 2 + size
    OBVIOUS
  <2> QED
    BY <1>2, <2>1, <2>2
<1>13. Len(stream \o t) = Len(stream) + lt
  BY <1>1, Joined
<1> QED
  BY <1>2, <1>4, <1>5, <1>10, <1>11, <1>12, <1>13

\* Bytes of the payload that is missing are written.
LEMMA FrameContinued ==
    ASSUME TypeOK, OneAtATime, ReadInOrder, NEW at, LaidOut(at),
           NEW w \in Writers, writer[w].pc = "payload",
           NEW t \in Seq(Byte), NEW lt \in Nat, lt <= Size[writer[w].m], Len(t) = lt,
           \A i \in 1 .. lt : t[i] = Payload(writer[w].m)[i]
    PROVE  /\ Layout(at, stream \o t, sent, Len(received) + 1)
           /\ at[Len(sent) + 1] = Len(stream) + Size[writer[w].m]
           /\ Len(stream \o t) = Len(stream) + lt
<1>1. stream \in Seq(Byte) /\ sent \in Seq(Seq(Byte)) /\ received \in Seq(Seq(Byte))
  BY DEF TypeOK
<1>2. PICK m \in Msgs : m = writer[w].m
  BY WriterType
<1>3. PICK n, ls, r, size \in Nat :
          n = Len(sent) /\ ls = Len(stream) /\ r = Len(received) /\ size = Size[m]
  BY <1>1, LenProperties, PayloadType
<1>4. size > 0 /\ n > 0 /\ sent[n] = Whole(m)
  BY <1>2, <1>3 DEF OneAtATime
<1>5. at[n + 1] = ls + size
  BY <1>2, <1>3 DEF LaidOut
<1>6. r < n
  <2>1. r <= n /\ (need > 0 => r < n)
    BY <1>3 DEF ReadInOrder
  <2>2. need \in Nat
    BY FrameAssumption DEF TypeOK
  <2>3. need = 0 => at[r + 1] = 0
    BY <1>3 DEF LaidOut
  <2>4. r = n => at[n + 1] = 0
    BY <2>1, <2>2, <2>3
  <2> QED
    BY <1>4, <1>5, <2>1, <2>4
<1>7. PICK first \in Nat : first = r + 1 /\ first > 0 /\ first <= n
  BY <1>6
<1>8. Len(sent[n]) = 1 + size
  BY <1>3, <1>4, PayloadType
<1>9. \A i \in 1 .. lt : t[i] = sent[n][i + 1]
  <2> SUFFICES ASSUME NEW i \in 1 .. lt PROVE t[i] = sent[n][i + 1]
    OBVIOUS
  <2>1. i \in 1 .. size
    BY <1>2, <1>3
  <2> QED
    BY <1>2, <1>3, <1>4, <2>1, PayloadType
<1>10. /\ Layout(at, stream, sent, first) /\ first <= Len(sent)
       /\ at[Len(sent) + 1] = Len(stream) + size
       /\ size <= Len(sent[Len(sent)]) /\ Len(t) <= size
  <2>1. Layout(at, stream, sent, first)
    BY <1>3, <1>7 DEF LaidOut
  <2>2. size <= 1 + size /\ lt <= size
    BY <1>2, <1>3
  <2> QED
    BY <1>3, <1>5, <1>7, <1>8, <2>1, <2>2
<1>11. \A i \in 1 .. Len(t) : t[i] = sent[Len(sent)][Len(sent[Len(sent)]) - size + i]
  <2> SUFFICES ASSUME NEW i \in 1 .. lt
               PROVE  t[i] = sent[Len(sent)][Len(sent[Len(sent)]) - size + i]
    OBVIOUS
  <2>1. (1 + size) - size + i = i + 1
    OBVIOUS
  <2>2. Len(sent[Len(sent)]) - size + i = i + 1
    BY <1>3, <1>8, <2>1
  <2> QED
    BY <1>3, <1>9, <2>2
<1>12. Layout(at, stream \o t, sent, first)
  <2>1. Continues(t, Len(t), sent, Sizes(sent), Len(sent), size)
    <3>1. Sizes(sent)[n] = Len(sent[n])
      BY <1>3, <1>4 DEF Sizes
    <3> QED
      BY <1>3, <1>10, <1>11, <3>1 DEF Continues
  <2> QED
    BY ONLY <1>1, first \in Nat, <1>7, size \in Nat, t \in Seq(Byte), <1>10, <2>1,
            LayoutContinued
<1>13. Len(stream \o t) = Len(stream) + lt
  BY <1>1, Joined
<1> QED
  BY <1>2, <1>3, <1>5, <1>7, <1>12, <1>13

\* The byte the reader finds next: the length of the next frame, or the next byte of the
\* frame it is reading.
LEMMA ByteAhead ==
    ASSUME TypeOK, ReadInOrder, NEW at, LaidOut(at), stream # <<>>
    PROVE  \E n, r, L, size \in Nat :
              /\ n = Len(sent) /\ r = Len(received) /\ L = Len(frame) /\ r < n
              /\ size = Len(sent[r + 1]) /\ sent[r + 1] \in Seq(Byte)
              /\ need = 0 => Head(stream) = LengthByte(size)
              /\ need > 0 => Head(stream) = sent[r + 1][L + 1] /\ need + L = size
              /\ need > 0 => at[r + 2] = need
<1>1. /\ stream \in Seq(Byte) /\ sent \in Seq(Seq(Byte)) /\ received \in Seq(Seq(Byte))
      /\ frame \in Seq(Byte) /\ need \in Nat
  BY FrameAssumption DEF TypeOK
<1>2. PICK n, r, L, ls \in Nat :
          n = Len(sent) /\ r = Len(received) /\ L = Len(frame) /\ ls = Len(stream)
  BY <1>1, LenProperties
<1>3. ls > 0 /\ Head(stream) = stream[1]
  BY <1>1, <1>2, Consumed
<1>4. at[r + 1] = IF need = 0 THEN 0 ELSE -(1 + L)
  BY <1>2 DEF LaidOut
<1>5. PICK len : len = Sizes(sent)
  OBVIOUS
<1>6. \A k \in 1 .. n : sent[k] \in Seq(Byte) /\ len[k] = Len(sent[k]) /\ len[k] \in Nat
  BY <1>1, <1>2, <1>5, Numbers
<1>7. Placed(at, stream, ls, sent, len, n, r + 1)
  BY <1>2, <1>5 DEF LaidOut, Layout
<1>8. at[n + 1] >= ls
  BY <1>7 DEF Placed
<1>9. r < n
  <2>1. r <= n /\ (need > 0 => r < n)
    BY <1>2 DEF ReadInOrder
  <2>2. r = n => at[n + 1] = 0
    BY <1>1, <1>4, <2>1
  <2> QED
    BY <1>3, <1>8, <2>1, <2>2
<1>10. PICK k \in 1 .. n : k = r + 1
  BY <1>9
<1>11. PICK size \in Nat : size = len[k]
  BY <1>6
<1>12. /\ 1 = at[k] + 1 => stream[1] = LengthByte(size)
       /\ 1 \in at[k] + 2 .. at[k] + 1 + size => stream[1] = sent[k][1 - at[k] - 1]
  <2>1. k \in r + 1 .. n /\ 1 \in 1 .. ls
    BY <1>3, <1>10
  <2> QED
    BY <1>7, <1>11, <2>1 DEF Placed
<1>13. CASE need = 0
  <2>1. at[k] = 0
    BY <1>4, <1>10, <1>13
  <2>2. stream[1] = LengthByte(size)
    BY <1>12, <2>1
  <2>3. ~(need > 0)
    BY <1>13
  <2>4. size = Len(sent[k]) /\ sent[k] \in Seq(Byte)
    BY <1>6, <1>11
  <2> QED
    BY <1>2, <1>3, <1>9, <1>10, <2>2, <2>3, <2>4
<1>14. CASE need > 0
  <2>1. at[k] = -(1 + L) /\ need + L = size
    BY <1>2, <1>4, <1>6, <1>10, <1>11, <1>14 DEF ReadInOrder
  <2>2. 1 \in at[k] + 2 .. at[k] + 1 + size /\ 1 - at[k] - 1 = L + 1
    BY <1>1, <1>14, <2>1
  <2>3. stream[1] = sent[k][L + 1]
    BY <1>12, <2>2
  <2>4. at[r + 2] = need
    <3>1. k \in r + 1 .. n /\ k + 1 = r + 2
      BY <1>10
    <3>2. at[k + 1] = at[k] + 1 + len[k]
      BY <1>7, <3>1 DEF Placed
    <3>3. at[k] + 1 + size = need
      BY <1>1, <2>1
    <3> QED
      BY <1>11, <3>1, <3>2, <3>3
  <2>5. need # 0
    BY <1>14
  <2>6. size = Len(sent[k]) /\ sent[k] \in Seq(Byte)
    BY <1>6, <1>11
  <2> QED
    BY <1>2, <1>3, <1>9, <1>10, <2>1, <2>3, <2>4, <2>5, <2>6
<1> QED
  BY <1>1, <1>13, <1>14

\* Once the writer in the middle of a frame ends it, no writer is in the middle of one.
LEMMA NoOtherWriter ==
    ASSUME TypeOK, OneAtATime, NEW w \in Writers, writer[w].pc = "payload",
           NEW e \in {Idle, Done}, writer' = [writer EXCEPT ![w] = e]
    PROVE  \A v \in Writers : writer'[v].pc # "payload"
<1> SUFFICES ASSUME NEW v \in Writers PROVE writer'[v].pc # "payload"
  OBVIOUS
<1>1. CASE v = w
  BY <1>1 DEF TypeOK, Idle, Done
<1>2. CASE v # w
  <2>1. writer'[v] = writer[v]
    BY <1>2 DEF TypeOK
  <2> QED
    BY <1>2, <2>1 DEF OneAtATime
<1> QED
  BY <1>1, <1>2

\* A frame that is begun while no other is unfinished, whether its header was written as a
\* whole or not.
LEMMA BegunInOrder ==
    ASSUME TypeOK, OneAtATime, ReadInOrder, \E at : LaidOut(at), torn = {},
           NEW w \in Writers, writer[w] = Idle, ~Unfinished(w),
           NEW m \in Msgs, FrameLength(m) <= MaxLength,
           NEW t \in Seq(Byte), NEW lt \in 1 .. 2, Len(t) = lt,
           t[1] = LengthByte(FrameLength(m)), lt = 2 => t[2] = TypeByte(m),
           stream' = stream \o t, sent' = Append(sent, Whole(m)),
           UNCHANGED <<need, frame, reading, received>>,
           \/ lt = 1 /\ torn' # {} /\ \A v \in Writers : writer'[v].pc # "payload"
           \/ /\ lt = 2 /\ torn' = torn
              /\ writer' = [writer EXCEPT ![w] = IF Size[m] = 0 THEN Idle
                                                  ELSE [pc |-> "payload", m |-> m]]
    PROVE  OneAtATime' /\ ReadInOrder' /\ (\E at : LaidOut(at))'
<1>1. stream \in Seq(Byte) /\ sent \in Seq(Seq(Byte)) /\ received \in Seq(Seq(Byte))
  BY DEF TypeOK
<1>2. \A v \in Writers : writer[v].pc # "payload"
  BY DEF Unfinished, Idle
<1>3. PICK at : LaidOut(at)
  OBVIOUS
<1>4. PICK to : /\ Layout(to, stream \o t, Append(sent, Whole(m)), Len(received) + 1)
                /\ to[Len(received) + 1] = at[Len(received) + 1]
                /\ to[Len(sent) + 2] = Len(stream) + 2 + Size[m]
                /\ Len(stream \o t) = Len(stream) + lt /\ Len(stream) \in Nat
                /\ Len(sent) \in Nat
  BY <1>2, <1>3, FrameBegun
<1>5. PICK n, ls, r, size \in Nat :
          n = Len(sent) /\ ls = Len(stream) /\ r = Len(received) /\ size = Size[m]
  BY <1>1, LenProperties, PayloadType
<1>6. Whole(m) \in Seq(Byte) /\ Len(Whole(m)) \in 1 .. MaxLength
  BY BytesOfFrame
<1>7. /\ Len(sent') = n + 1 /\ sent'[n + 1] = Whole(m)
      /\ \A k \in 1 .. n : sent'[k] = sent[k]
  BY <1>1, <1>5, <1>6, FrameAdded
<1>8. r <= n
  BY <1>5 DEF ReadInOrder
<1>9. ReadInOrder'
  <2>1. Len(received') <= Len(sent')
    BY <1>5, <1>7, <1>8
  <2>2. \A k \in 1 .. Len(received') : received'[k] = sent'[k]
    <3> SUFFICES ASSUME NEW k \in 1 .. r PROVE received[k] = sent'[k]
      BY <1>5
    <3>1. k \in 1 .. n
      BY <1>8
    <3> QED
      BY <1>5, <1>7, <3>1 DEF ReadInOrder
  <2>3. \A k \in 1 .. Len(sent') : Len(sent'[k]) \in 1 .. MaxLength
    <3> SUFFICES ASSUME NEW k \in 1 .. n + 1 PROVE Len(sent'[k]) \in 1 .. MaxLength
      BY <1>7
    <3>1. k = n + 1 \/ k \in 1 .. n
      OBVIOUS
    <3> QED
      BY <1>5, <1>6, <1>7, <3>1 DEF ReadInOrder
  <2>4. need' = 0 => frame' = <<>>
    BY DEF ReadInOrder
  <2>5. need' > 0 =>
          /\ Len(received') < Len(sent')
          /\ need' + Len(frame') = Len(sent'[Len(received') + 1])
          /\ \A i \in 1 .. Len(frame') : frame'[i] = sent'[Len(received') + 1][i]
    <3>1. SUFFICES ASSUME need > 0
                   PROVE  /\ r < n + 1
                          /\ need + Len(frame) = Len(sent'[r + 1])
                          /\ \A i \in 1 .. Len(frame) : frame[i] = sent'[r + 1][i]
      BY <1>5, <1>7
    <3>2. r < n /\ r + 1 \in 1 .. n
      BY <1>5, <3>1 DEF ReadInOrder
    <3>3. sent'[r + 1] = sent[r + 1]
      BY <1>7, <3>2
    <3> QED
      BY <1>5, <3>1, <3>2, <3>3 DEF ReadInOrder
  <2> QED
    BY <2>1, <2>2, <2>3, <2>4, <2>5 DEF ReadInOrder
<1>10. /\ Layout(to, stream', sent', Len(received') + 1)
       /\ to[Len(received') + 1] = IF need' = 0 THEN 0 ELSE -(1 + Len(frame'))
       /\ to[Len(sent') + 1] = Len(stream) + 2 + Size[m]
  <2>1. Len(sent') + 1 = Len(sent) + 2
    BY <1>5, <1>7
  <2> QED
    BY <1>3, <1>4, <2>1 DEF LaidOut
<1>11. CASE lt = 1 /\ torn' # {} /\ \A v \in Writers : writer'[v].pc # "payload"
  <2>1. LaidOut(to)'
    BY <1>10, <1>11 DEF LaidOut
  <2>2. OneAtATime'
    BY <1>11 DEF OneAtATime
  <2> QED
    BY <1>9, <2>1, <2>2
<1>12. CASE /\ lt = 2 /\ torn' = torn
            /\ writer' = [writer EXCEPT ![w] = IF Size[m] = 0 THEN Idle
                                                ELSE [pc |-> "payload", m |-> m]]
  <2>1. \A v \in Writers : writer'[v].pc = "payload" => v = w /\ Size[m] # 0
    <3> SUFFICES ASSUME NEW v \in Writers, writer'[v].pc = "payload"
                 PROVE  v = w /\ Size[m] # 0
      OBVIOUS
    <3>1. v # w => writer'[v] = writer[v]
      BY <1>12 DEF TypeOK
    <3>2. v = w => writer'[v] = IF Size[m] = 0 THEN Idle ELSE [pc |-> "payload", m |-> m]
      BY <1>12 DEF TypeOK
    <3> QED
      BY <1>2, <3>1, <3>2 DEF Idle
  <2>2. Size[m] # 0 => writer'[w].pc = "payload" /\ writer'[w].m = m
    BY <1>12 DEF TypeOK
  <2>3. Len(stream') = ls + 2
    BY <1>4, <1>5, <1>12
  <2>4. ASSUME NEW v \in Writers, writer'[v].pc = "payload"
        PROVE  /\ to[Len(sent') + 1] = Len(stream') + Size[writer'[v].m]
               /\ torn' = {} /\ Size[writer'[v].m] > 0
               /\ Len(sent') > 0 /\ sent'[Len(sent')] = Whole(writer'[v].m)
    <3>1. v = w /\ size # 0 /\ writer'[v].m = m
      BY <1>5, <2>1, <2>2, <2>4
    <3>2. to[Len(sent') + 1] = ls + 2 + size
      BY <1>5, <1>10
    <3>3. size > 0 /\ n + 1 > 0
      BY <3>1
    <3> QED
      BY <1>5, <1>7, <1>12, <2>3, <3>1, <3>2, <3>3
  <2>5. (\A v \in Writers : writer'[v].pc # "payload") => to[Len(sent') + 1] = Len(stream')
    <3>1. SUFFICES ASSUME \A v \in Writers : writer'[v].pc # "payload"
                   PROVE  to[Len(sent') + 1] = Len(stream')
      OBVIOUS
    <3>2. size = 0
      BY <1>5, <2>2, <3>1
    <3>3. to[Len(sent') + 1] = ls + 2 + 0
      BY <1>5, <1>10, <3>2
    <3> QED
      BY <2>3, <3>3
  <2>6. LaidOut(to)'
    BY <1>10, <2>4, <2>5 DEF LaidOut
  <2>7. OneAtATime'
    BY <2>1, <2>4 DEF OneAtATime
  <2> QED
    BY <1>9, <2>6, <2>7
<1> QED
  BY <1>11, <1>12

\* More of a frame is written, all of it or the part that preceded an error.
LEMMA ContinuedInOrder ==
    ASSUME TypeOK, OneAtATime, ReadInOrder, \E at : LaidOut(at),
           NEW w \in Writers, writer[w].pc = "payload", NEW e \in {Idle, Done},
           writer' = [writer EXCEPT ![w] = e],
           NEW t \in Seq(Byte), NEW lt \in Nat, lt <= Size[writer[w].m], Len(t) = lt,
           \A i \in 1 .. lt : t[i] = Payload(writer[w].m)[i],
           stream' = stream \o t, sent' = sent, torn' # {} \/ lt = Size[writer[w].m],
           UNCHANGED <<need, frame, reading, received>>
    PROVE  OneAtATime' /\ ReadInOrder' /\ (\E at : LaidOut(at))'
<1>1. PICK at : LaidOut(at)
  OBVIOUS
<1>2. /\ Layout(at, stream \o t, sent, Len(received) + 1)
      /\ at[Len(sent) + 1] = Len(stream) + Size[writer[w].m]
      /\ Len(stream \o t) = Len(stream) + lt
  BY <1>1, FrameContinued, SMTT(30)
<1>3. \A v \in Writers : writer'[v].pc # "payload"
  BY NoOtherWriter
<1>4. ReadInOrder'
  BY DEF ReadInOrder
<1>5. OneAtATime'
  BY <1>3 DEF OneAtATime
<1>6. torn' = {} => at[Len(sent') + 1] = Len(stream')
  BY <1>2
<1>7. LaidOut(at)'
  BY <1>1, <1>2, <1>3, <1>6 DEF LaidOut
<1> QED
  BY <1>4, <1>5, <1>7

\* A byte is taken off the stream: everything is one byte nearer, and what a writer has
\* still to write is still what is missing.
LEMMA OneByteLess ==
    ASSUME TypeOK, NEW at, LaidOut(at), stream # <<>>,
           stream' = SubSeq(stream, 2, Len(stream)), KeepsWriting
    PROVE  \E to : /\ Layout(to, stream', sent', Len(received) + 1)
                   /\ \A k \in Nat : at[k] \in Int /\ to[k] = at[k] - 1
                   /\ \A w \in Writers : writer'[w].pc = "payload" =>
                         to[Len(sent') + 1] = Len(stream') + Size[writer'[w].m]
                   /\ torn' = {} /\ (\A w \in Writers : writer'[w].pc # "payload") =>
                         to[Len(sent') + 1] = Len(stream')
<1>1. stream \in Seq(Byte) /\ sent \in Seq(Seq(Byte)) /\ received \in Seq(Seq(Byte))
  BY DEF TypeOK
<1>2. sent' = sent /\ writer' = writer /\ torn' = torn
  BY DEF KeepsWriting
<1>3. PICK n, ls, r \in Nat : n = Len(sent) /\ ls = Len(stream) /\ r = Len(received)
  BY <1>1, LenProperties
<1>4. ls > 0 /\ Len(stream') = ls - 1
  BY <1>1, <1>3, Consumed
<1>5. PICK first \in Nat : first = r + 1 /\ first > 0
  OBVIOUS
<1>6. Layout(at, stream, sent, first)
  BY <1>3, <1>5 DEF LaidOut
<1>7. PICK to : /\ Layout(to, SubSeq(stream, 2, Len(stream)), sent, first)
                /\ \A k \in Nat : to[k] = at[k] - 1
  BY <1>1, <1>5, <1>6, LayoutConsumed
<1>8. \A k \in Nat : at[k] \in Int
  BY <1>6 DEF Layout, Placed
<1>9. to[n + 1] = at[n + 1] - 1 /\ at[n + 1] \in Int
  BY <1>7, <1>8
<1>10. ASSUME NEW w \in Writers, writer[w].pc = "payload"
       PROVE  to[n + 1] = Len(stream') + Size[writer[w].m]
  <2>1. PICK size \in Nat : size = Size[writer[w].m]
    BY <1>10, WriterType, PayloadType
  <2>2. at[n + 1] = ls + size
    BY <1>3, <1>10, <2>1 DEF LaidOut
  <2>3. to[n + 1] = (ls - 1) + size
    BY <1>9, <2>2
  <2> QED
    BY <1>4, <2>1, <2>3
<1>11. torn = {} /\ (\A w \in Writers : writer[w].pc # "payload") => to[n + 1] = Len(stream')
  <2>1. torn = {} /\ (\A w \in Writers : writer[w].pc # "payload") => at[n + 1] = ls
    BY <1>3 DEF LaidOut
  <2> QED
    BY <1>4, <1>9, <2>1
<1> QED
  BY <1>2, <1>3, <1>5, <1>7, <1>8, <1>10, <1>11

\* The length of a frame is read.
LEMMA LengthInOrder ==
    ASSUME TypeOK, OneAtATime, ReadInOrder, \E at : LaidOut(at), ReadLength
    PROVE  OneAtATime' /\ ReadInOrder' /\ (\E at : LaidOut(at))'
<1>1. /\ need = 0 /\ stream # <<>> /\ stream' = SubSeq(stream, 2, Len(stream))
      /\ KeepsWriting /\ frame' = frame /\ received' = received
  BY DEF ReadLength, Consume
<1>2. sent' = sent /\ writer' = writer /\ torn' = torn
  BY <1>1 DEF KeepsWriting
<1>3. PICK at : LaidOut(at)
  OBVIOUS
<1>4. PICK n, r, size \in Nat :
          /\ n = Len(sent) /\ r = Len(received) /\ r < n
          /\ size = Len(sent[r + 1]) /\ Head(stream) = LengthByte(size)
  BY <1>1, <1>3, ByteAhead
<1>5. size \in 1 .. MaxLength
  <2>1. r + 1 \in 1 .. n
    BY <1>4
  <2> QED
    BY <1>4, <2>1 DEF ReadInOrder
<1>6. need' = size
  <2>1. TakenFor(Head(stream)) = {size}
    BY <1>4 DEF TakenFor, LengthByte
  <2> QED
    BY <1>5, <2>1 DEF ReadLength
<1>7. frame = <<>> /\ Len(frame) = 0
  BY <1>1 DEF ReadInOrder
<1>8. PICK to : /\ Layout(to, stream', sent', Len(received) + 1)
                /\ \A k \in Nat : at[k] \in Int /\ to[k] = at[k] - 1
                /\ \A w \in Writers : writer'[w].pc = "payload" =>
                      to[Len(sent') + 1] = Len(stream') + Size[writer'[w].m]
                /\ torn' = {} /\ (\A w \in Writers : writer'[w].pc # "payload") =>
                      to[Len(sent') + 1] = Len(stream')
  BY <1>1, <1>3, OneByteLess
<1>9. to[Len(received') + 1] = IF need' = 0 THEN 0 ELSE -(1 + Len(frame'))
  <2>1. at[r + 1] = 0
    BY <1>1, <1>3, <1>4 DEF LaidOut
  <2>2. to[r + 1] = -1
    BY <1>8, <2>1
  <2>3. need' # 0 /\ -(1 + 0) = -1
    BY <1>5, <1>6
  <2> QED
    BY <1>1, <1>4, <1>7, <2>2, <2>3
<1>10. ReadInOrder'
  <2>1. need' # 0 /\ need' + Len(frame') = Len(sent[Len(received) + 1])
    BY <1>1, <1>4, <1>5, <1>6, <1>7
  <2>2. Len(received') < Len(sent') /\ \A i \in 1 .. Len(frame') : FALSE
    BY <1>1, <1>2, <1>4, <1>7
  <2> QED
    BY <1>1, <1>2, <2>1, <2>2 DEF ReadInOrder
<1>11. OneAtATime'
  BY <1>2 DEF OneAtATime
<1>12. LaidOut(to)'
  BY <1>1, <1>8, <1>9 DEF LaidOut
<1> QED
  BY <1>10, <1>11, <1>12

\* A byte of a frame is read; the last one completes the frame that is next in order.
LEMMA ByteInOrder ==
    ASSUME TypeOK, OneAtATime, ReadInOrder, \E at : LaidOut(at), ReadByte
    PROVE  /\ OneAtATime' /\ ReadInOrder' /\ (\E at : LaidOut(at))'
           /\ \/ received' = received
              \/ /\ Len(received) < Len(sent)
                 /\ received' = Append(received, sent[Len(received) + 1])
<1>1. /\ need > 0 /\ stream # <<>> /\ stream' = SubSeq(stream, 2, Len(stream))
      /\ KeepsWriting /\ need' = need - 1
      /\ IF need = 1
           THEN frame' = <<>> /\ received' = Append(received, Append(frame, Head(stream)))
           ELSE frame' = Append(frame, Head(stream)) /\ received' = received
  BY DEF ReadByte, Consume
<1>2. sent' = sent /\ writer' = writer /\ torn' = torn
  BY <1>1 DEF KeepsWriting
<1>3. /\ stream \in Seq(Byte) /\ sent \in Seq(Seq(Byte)) /\ received \in Seq(Seq(Byte))
      /\ frame \in Seq(Byte) /\ need \in Nat
  BY FrameAssumption DEF TypeOK
<1>4. PICK at : LaidOut(at)
  OBVIOUS
<1>5. PICK n, r, L, size \in Nat :
          /\ n = Len(sent) /\ r = Len(received) /\ L = Len(frame) /\ r < n
          /\ size = Len(sent[r + 1]) /\ sent[r + 1] \in Seq(Byte)
          /\ Head(stream) = sent[r + 1][L + 1] /\ need + L = size
          /\ at[r + 2] = need
  BY <1>1, <1>4, ByteAhead
<1>6. PICK bytes \in Seq(Byte) :
          /\ bytes = Append(frame, Head(stream)) /\ Len(bytes) = L + 1
          /\ \A i \in 1 .. L : bytes[i] = frame[i]
          /\ bytes[L + 1] = Head(stream)
  <2>1. PICK byte \in Byte : byte = Head(stream)
    BY <1>1, <1>3, Consumed
  <2>2. PICK u : u = Append(frame, byte)
    OBVIOUS
  <2>3. /\ u \in Seq(Byte) /\ Len(u) = L + 1 /\ u[L + 1] = byte
        /\ \A i \in 1 .. L : u[i] = frame[i]
    BY <1>3, <1>5, <2>2, AppendProperties
  <2> QED
    BY <2>1, <2>2, <2>3
<1>7. \A i \in 1 .. L + 1 : bytes[i] = sent[r + 1][i]
  <2> SUFFICES ASSUME NEW i \in 1 .. L + 1 PROVE bytes[i] = sent[r + 1][i]
    OBVIOUS
  <2>1. i = L + 1 \/ i \in 1 .. L
    OBVIOUS
  <2>2. i \in 1 .. L => frame[i] = sent[r + 1][i]
    BY <1>1, <1>5 DEF ReadInOrder
  <2> QED
    BY <1>5, <1>6, <2>1, <2>2
<1>8. PICK to : /\ Layout(to, stream', sent', Len(received) + 1)
                /\ \A k \in Nat : at[k] \in Int /\ to[k] = at[k] - 1
                /\ \A w \in Writers : writer'[w].pc = "payload" =>
                      to[Len(sent') + 1] = Len(stream') + Size[writer'[w].m]
                /\ torn' = {} /\ (\A w \in Writers : writer'[w].pc # "payload") =>
                      to[Len(sent') + 1] = Len(stream')
  BY <1>1, <1>4, OneByteLess
<1>9. at[r + 1] = -(1 + L)
  <2>1. need # 0
    BY <1>1
  <2> QED
    BY <1>4, <1>5, <2>1 DEF LaidOut
<1>10. OneAtATime'
  BY <1>2 DEF OneAtATime
<1>11. CASE need # 1
  <2>1. received' = received /\ frame' = bytes /\ need' # 0 /\ Len(frame') = L + 1
    BY <1>1, <1>3, <1>6, <1>11
  <2>2. to[r + 1] = -(1 + (L + 1))
    BY <1>8, <1>9
  <2>3. LaidOut(to)'
    BY <1>5, <1>8, <2>1, <2>2 DEF LaidOut
  <2>4. need' + (L + 1) = size
    BY <1>1, <1>3, <1>5
  <2>5. ReadInOrder'
    BY <1>2, <1>5, <1>7, <2>1, <2>4 DEF ReadInOrder
  <2> QED
    BY <1>10, <2>1, <2>3, <2>5
<1>12. CASE need = 1
  <2>1. need' = 0 /\ frame' = <<>> /\ L + 1 = size
    BY <1>1, <1>5, <1>12
  <2>2. bytes = sent[r + 1]
    <3>1. PICK f \in Seq(Byte) : f = sent[r + 1]
      BY <1>5
    <3>2. Len(bytes) = Len(f) /\ \A i \in 1 .. Len(bytes) : bytes[i] = f[i]
      BY <1>5, <1>6, <1>7, <2>1, <3>1
    <3>3. bytes = f
      BY ONLY bytes \in Seq(Byte), f \in Seq(Byte), <3>2, SeqEqual
    <3> QED
      BY <3>1, <3>3
  <2>3. received' = Append(received, bytes)
    BY <1>1, <1>6, <1>12
  <2>4. /\ Len(received') = r + 1 /\ received'[r + 1] = sent[r + 1]
        /\ \A k \in 1 .. r : received'[k] = received[k]
    BY <1>3, <1>5, <2>2, <2>3, FrameAdded
  <2>5. to[r + 2] = 0
    BY <1>5, <1>8, <1>12
  <2>6. Layout(to, stream', sent', Len(received') + 1)
    <3>1. PICK s \in Seq(Byte) : s = stream'
      BY <1>1, <1>3, Consumed
    <3>2. PICK fs \in Seq(Seq(Byte)) : fs = sent'
      BY <1>2, <1>3
    <3>3. PICK first \in Nat : first = r + 1
      OBVIOUS
    <3>4. Layout(to, s, fs, first + 1)
      BY <1>5, <1>8, <3>1, <3>2, <3>3, LayoutNext
    <3> QED
      BY <2>4, <3>1, <3>2, <3>3, <3>4
  <2>7. LaidOut(to)'
    <3>1. Len(received') + 1 = r + 2
      BY <2>4
    <3> QED
      BY <1>8, <2>1, <2>5, <2>6, <3>1 DEF LaidOut
  <2>8. ReadInOrder'
    <3>1. Len(received') <= Len(sent')
      BY <1>2, <1>5, <2>4
    <3>2. \A k \in 1 .. Len(received') : received'[k] = sent'[k]
      <4> SUFFICES ASSUME NEW k \in 1 .. r + 1 PROVE received'[k] = sent[k]
        BY <1>2, <2>4
      <4>1. k = r + 1 \/ k \in 1 .. r
        OBVIOUS
      <4>2. k \in 1 .. r => received[k] = sent[k]
        BY <1>5 DEF ReadInOrder
      <4> QED
        BY <2>4, <4>1, <4>2
    <3>3. ~(need' > 0)
      BY <2>1
    <3> QED
      BY <1>2, <2>1, <3>1, <3>2, <3>3 DEF ReadInOrder
  <2> QED
    BY <1>5, <1>10, <2>2, <2>3, <2>7, <2>8
<1> QED
  BY <1>11, <1>12

\* What a frame adds to the channel.
LEMMA FrameSent ==
    ASSUME NEW m \in Msgs, sent' = Append(sent, Whole(m)), received' = received
    PROVE  Channel!Next
<1>1. Whole(m) \in {Whole(k) : k \in Msgs}
  OBVIOUS
<1> QED
  BY <1>1 DEF Channel!Next, Channel!Send

\* A write pump that abandoned a frame has stopped.
PumpStops == "pump" \in torn => writer["pump"] = Done

\* Only whole frames are sent.
SentWhole == \A k \in 1 .. Len(sent) : \E m \in Msgs : sent[k] = Whole(m)

\* A writer that begins a frame without mixing two finds nothing abandoned.
LEMMA NothingTorn ==
    ASSUME TypeOK, PumpStops, NEW w \in Writers, writer[w] = Idle, ~Mixes(w)
    PROVE  torn = {} /\ ~Unfinished(w)
<1>1. w = "pump" \/ w = "pong"
  BY FrameAssumption
<1>2. w \notin torn
  BY <1>1 DEF Mixes, PumpStops, Idle, Done
<1> QED
  BY <1>2 DEF Mixes

\* The write pump stops once it has abandoned a frame, and what is sent is whole frames.
THEOREM WritersInOrder == Spec => [](PumpStops /\ SentWhole)
<1>1. Init => PumpStops /\ SentWhole
  <2>1. Len(<<>>) = 0
    BY EmptySeq
  <2> QED
    BY <2>1 DEF Init, PumpStops, SentWhole
<1>2. TypeOK /\ PumpStops /\ SentWhole /\ [Next]_vars => PumpStops' /\ SentWhole'
  <2>a. SUFFICES ASSUME TypeOK, PumpStops, SentWhole, [Next]_vars
                 PROVE  PumpStops' /\ SentWhole'
    OBVIOUS
  <2>1. ASSUME NEW w \in Writers, Write(w)
        PROVE  /\ PumpStops'
               /\ \/ sent' = sent
                  \/ \E m \in Msgs : sent' = Append(sent, Whole(m))
    <3>1. Messages(w) \subseteq Msgs
      BY FrameAssumption DEF Messages
    <3>2. CASE \E m \in Messages(w) : RefuseFrame(w, m)
      BY <2>a, <3>2 DEF RefuseFrame, AfterError, PumpStops, TypeOK, Idle, Done
    <3>3. CASE \E m \in Messages(w) : BeginFrame(w, m)
      BY <2>a, <3>1, <3>3 DEF BeginFrame, PumpStops, TypeOK, Idle, Done
    <3>4. CASE \E m \in Messages(w) : BeginFails(w, m)
      <4>1. PICK m \in Messages(w) : BeginFails(w, m)
        BY <3>4
      <4>2. /\ writer[w] = Idle /\ writer' = [writer EXCEPT ![w] = AfterError(w)]
            /\ torn' = torn \/ torn' = torn \cup {w}
            /\ sent' = sent \/ sent' = Append(sent, Whole(m))
        BY <4>1 DEF BeginFails
      <4>3. PumpStops'
        BY <2>a, <4>2 DEF PumpStops, AfterError, TypeOK, Idle, Done
      <4> QED
        BY <3>1, <4>2, <4>3
    <3>5. CASE FinishFrame(w)
      BY <2>a, <3>5 DEF FinishFrame, PumpStops, TypeOK, Idle, Done
    <3>6. CASE FinishFails(w)
      BY <2>a, <3>6 DEF FinishFails, AfterError, PumpStops, TypeOK, Idle, Done
    <3> QED
      BY <2>1, <3>2, <3>3, <3>4, <3>5, <3>6 DEF Write
  <2>2. \/ \E w \in Writers : Write(w)
        \/ UNCHANGED <<writer, torn, sent>>
    BY <2>a DEF Next, ReadLength, ReadByte, ReadFails, Stopped, KeepsWriting, vars
  <2>3. /\ PumpStops'
        /\ \/ sent' = sent
           \/ \E m \in Msgs : sent' = Append(sent, Whole(m))
    BY <2>a, <2>1, <2>2 DEF PumpStops
  <2>4. SentWhole'
    <3>1. CASE sent' = sent
      BY <2>a, <3>1 DEF SentWhole
    <3>2. CASE \E m \in Msgs : sent' = Append(sent, Whole(m))
      <4>1. PICK m \in Msgs : sent' = Append(sent, Whole(m))
        BY <3>2
      <4>2. sent \in Seq(Seq(Byte)) /\ Whole(m) \in Seq(Byte)
        BY <2>a, PayloadType DEF TypeOK
      <4>3. PICK f \in Seq(Byte) : f = Whole(m)
        BY <4>2
      <4>4. PICK n \in Nat : n = Len(sent)
        BY <4>2, LenProperties
      <4>5. /\ Len(sent') = n + 1 /\ sent'[n + 1] = f
            /\ \A k \in 1 .. n : sent'[k] = sent[k]
        BY <4>1, <4>2, <4>3, <4>4, FrameAdded
      <4> QED
        BY <2>a, <4>3, <4>4, <4>5 DEF SentWhole
    <3> QED
      BY <2>3, <3>1, <3>2
  <2> QED
    BY <2>3, <2>4
<1> QED
  BY <1>1, <1>2, TypeCorrect, PTL DEF Spec

\* The mark of two mixed frames stays, and what a step leaves on the wire, unless it mixes
\* two frames, is in order; to the channel the step adds a frame, or it takes the next one.
LEMMA StepInOrder ==
    ASSUME TypeOK, PumpStops, OneAtATime, ReadInOrder, \E at : LaidOut(at), [Next]_vars,
           ~mixed'
    PROVE  /\ OneAtATime' /\ ReadInOrder' /\ (\E at : LaidOut(at))'
           /\ Channel!Next \/ UNCHANGED <<sent, received>>
<1>1. ASSUME NEW w \in Writers, NEW m \in Messages(w), BeginFrame(w, m)
      PROVE  /\ OneAtATime' /\ ReadInOrder' /\ (\E at : LaidOut(at))'
             /\ Channel!Next
  <2>1. m \in Msgs /\ FrameLength(m) <= MaxLength /\ stream' = stream \o Header(m)
    BY <1>1, Writing
  <2>0. writer[w] = Idle /\ ~Mixes(w)
    BY <1>1 DEF BeginFrame
  <2>2. /\ writer[w] = Idle /\ torn = {} /\ ~Unfinished(w) /\ torn' = torn
        /\ sent' = Append(sent, Whole(m)) /\ UNCHANGED <<need, frame, reading, received>>
        /\ writer' = [writer EXCEPT ![w] = IF Size[m] = 0 THEN Idle
                                            ELSE [pc |-> "payload", m |-> m]]
    BY <1>1, <2>0, NothingTorn DEF BeginFrame, Emit
  <2>3. PICK t \in Seq(Byte) :
            /\ t = Header(m) /\ Len(t) = 2 /\ t[1] = LengthByte(FrameLength(m))
            /\ t[2] = TypeByte(m)
    BY <2>1, BytesOfFrame
  <2>4. PICK lt \in 1 .. 2 : lt = 2
    OBVIOUS
  <2>5. OneAtATime' /\ ReadInOrder' /\ (\E at : LaidOut(at))'
    BY <2>1, <2>2, <2>3, <2>4, BegunInOrder
  <2> QED
    BY <2>1, <2>2, <2>5, FrameSent
<1>2. ASSUME NEW w \in Writers, NEW m \in Messages(w), BeginFails(w, m)
      PROVE  /\ OneAtATime' /\ ReadInOrder' /\ (\E at : LaidOut(at))'
             /\ Channel!Next \/ UNCHANGED <<sent, received>>
  <2>1. /\ m \in Msgs /\ FrameLength(m) <= MaxLength
        /\ \/ stream' = stream /\ sent' = sent /\ mixed' = mixed /\ torn' = torn
           \/ /\ stream' = stream \o SubSeq(Header(m), 1, 1)
              /\ sent' = Append(sent, Whole(m))
              /\ torn' # {} /\ mixed' = (mixed \/ Mixes(w))
    BY <1>2, Writing
  <2>2. /\ writer[w] = Idle /\ writer' = [writer EXCEPT ![w] = AfterError(w)]
        /\ UNCHANGED <<need, frame, reading, received>>
    BY <1>2 DEF BeginFails, Emit
  <2>3. \A v \in Writers : writer'[v].pc = "payload" => v # w /\ writer'[v] = writer[v]
    BY <2>2 DEF TypeOK, AfterError, Idle, Done
  <2>4. \A v \in Writers \ {w} : writer'[v] = writer[v]
    BY <2>2 DEF TypeOK
  <2>5. writer[w].pc # "payload"
    BY <2>2 DEF Idle
  <2>6. CASE stream' = stream /\ sent' = sent /\ mixed' = mixed /\ torn' = torn
    <3>1. \A v \in Writers : /\ writer'[v].pc = "payload" <=> writer[v].pc = "payload"
                             /\ writer'[v].pc = "payload" => writer'[v].m = writer[v].m
      BY <2>3, <2>4, <2>5
    <3>2. PICK at : LaidOut(at)
      OBVIOUS
    <3>3. LaidOut(at)'
      BY <2>2, <2>6, <3>1, <3>2 DEF LaidOut
    <3>4. OneAtATime'
      BY <2>6, <3>1 DEF OneAtATime
    <3>5. ReadInOrder'
      BY <2>2, <2>6 DEF ReadInOrder
    <3> QED
      BY <2>2, <2>6, <3>3, <3>4, <3>5
  <2>7. CASE /\ stream' = stream \o SubSeq(Header(m), 1, 1)
             /\ sent' = Append(sent, Whole(m))
             /\ torn' # {} /\ mixed' = (mixed \/ Mixes(w))
    <3>1. torn = {} /\ ~Unfinished(w)
      BY <2>2, <2>7, NothingTorn
    <3>2. \A v \in Writers : writer'[v].pc # "payload"
      BY <2>3, <3>1 DEF Unfinished
    <3>3. PICK h \in Seq(Byte) :
              h = Header(m) /\ Len(h) = 2 /\ h[1] = LengthByte(FrameLength(m))
      BY <2>1, BytesOfFrame
    <3>4. PICK t \in Seq(Byte) : t = SubSeq(h, 1, 1) /\ Len(t) = 1 /\ t[1] = h[1]
      <4>1. PICK n \in 0 .. Len(h) : n = 1
        BY <3>3
      <4>2. PICK u : u = SubSeq(h, 1, n)
        OBVIOUS
      <4>3. u \in Seq(Byte) /\ Len(u) = n /\ \A i \in 1 .. n : u[i] = h[i]
        BY <4>2, Part
      <4>4. 1 \in 1 .. n
        BY <4>1
      <4>5. Len(u) = 1 /\ u[1] = h[1]
        BY <4>1, <4>3, <4>4
      <4> QED
        BY <4>1, <4>2, <4>3, <4>5
    <3>5. PICK lt \in 1 .. 2 : lt = 1
      OBVIOUS
    <3>6. /\ stream' = stream \o t /\ t[1] = LengthByte(FrameLength(m)) /\ Len(t) = lt
          /\ torn' # {} /\ lt # 2
      BY <2>7, <3>3, <3>4, <3>5
    <3>7. OneAtATime' /\ ReadInOrder' /\ (\E at : LaidOut(at))'
      BY <2>1, <2>2, <2>7, <3>1, <3>2, <3>5, <3>6, BegunInOrder
    <3> QED
      BY <2>1, <2>2, <2>7, <3>7, FrameSent
  <2> QED
    BY <2>1, <2>6, <2>7
<1>3. ASSUME NEW w \in Writers, FinishFrame(w)
      PROVE  /\ OneAtATime' /\ ReadInOrder' /\ (\E at : LaidOut(at))'
             /\ UNCHANGED <<sent, received>>
  <2>1. /\ writer[w].pc = "payload" /\ writer' = [writer EXCEPT ![w] = Idle]
        /\ stream' = stream \o Payload(writer[w].m) /\ sent' = sent
        /\ UNCHANGED <<need, frame, reading, received>>
    BY <1>3 DEF FinishFrame, Emit
  <2>2. PICK m \in Msgs : m = writer[w].m
    BY <2>1, WriterType
  <2>3. PICK lt \in Nat : lt = Size[m]
    BY PayloadType
  <2>4. PICK t \in Seq(Byte) : t = Payload(m) /\ Len(t) = lt
    BY <2>3, PayloadType
  <2>5. PICK e \in {Idle, Done} : e = Idle
    OBVIOUS
  <2>6. /\ writer' = [writer EXCEPT ![w] = e] /\ stream' = stream \o t
        /\ lt = Size[writer[w].m] /\ lt <= Size[writer[w].m]
        /\ \A i \in 1 .. lt : t[i] = Payload(writer[w].m)[i]
    BY <2>1, <2>2, <2>3, <2>4, <2>5
  <2>7. OneAtATime' /\ ReadInOrder' /\ (\E at : LaidOut(at))'
    BY <2>1, <2>4, <2>6, ContinuedInOrder
  <2> QED
    BY <2>1, <2>7
<1>4. ASSUME NEW w \in Writers, FinishFails(w)
      PROVE  /\ OneAtATime' /\ ReadInOrder' /\ (\E at : LaidOut(at))'
             /\ UNCHANGED <<sent, received>>
  <2>1. /\ writer[w].pc = "payload" /\ writer' = [writer EXCEPT ![w] = AfterError(w)]
        /\ sent' = sent /\ torn' # {}
        /\ UNCHANGED <<need, frame, reading, received>>
    BY <1>4 DEF FinishFails, Emit
  <2>2. PICK m \in Msgs : m = writer[w].m
    BY <2>1, WriterType
  <2>3. PICK p \in Seq(Byte) : p = Payload(m) /\ Len(p) = Size[m] /\ Size[m] \in Nat
    BY PayloadType
  <2>4. PICK n \in 0 .. Size[m] - 1 : stream' = stream \o SubSeq(p, 1, n)
    BY <1>4, <2>2, <2>3, Writing
  <2>5. PICK lt \in Nat : lt = n /\ lt <= Size[m]
    BY <2>3, <2>4
  <2>6. PICK t \in Seq(Byte) :
            t = SubSeq(p, 1, n) /\ Len(t) = lt /\ \A i \in 1 .. lt : t[i] = Payload(m)[i]
    <3>1. n \in 0 .. Len(p)
      BY <2>3, <2>4
    <3>2. /\ SubSeq(p, 1, n) \in Seq(Byte) /\ Len(SubSeq(p, 1, n)) = n
          /\ \A i \in 1 .. n : SubSeq(p, 1, n)[i] = p[i]
      BY <3>1, Part
    <3> QED
      BY <2>3, <2>5, <3>2
  <2>7. PICK e \in {Idle, Done} : writer' = [writer EXCEPT ![w] = e]
    BY <2>1 DEF AfterError
  <2>8. OneAtATime' /\ ReadInOrder' /\ (\E at : LaidOut(at))'
    BY <2>1, <2>2, <2>4, <2>5, <2>6, <2>7, ContinuedInOrder
  <2> QED
    BY <2>1, <2>8
<1>5. ASSUME NEW w \in Writers, NEW m \in Messages(w), RefuseFrame(w, m)
      PROVE  /\ OneAtATime' /\ ReadInOrder' /\ (\E at : LaidOut(at))'
             /\ UNCHANGED <<sent, received>>
  <2>1. /\ writer[w] = Idle /\ writer' = [writer EXCEPT ![w] = AfterError(w)]
        /\ UNCHANGED <<stream, need, frame, sent, received, torn>>
    BY <1>5 DEF RefuseFrame
  <2>2. \A v \in Writers : /\ writer'[v].pc = "payload" <=> writer[v].pc = "payload"
                           /\ writer'[v].pc = "payload" => writer'[v].m = writer[v].m
    BY <2>1 DEF TypeOK, AfterError, Idle, Done
  <2>3. PICK at : LaidOut(at)
    OBVIOUS
  <2>4. LaidOut(at)'
    BY <2>1, <2>2, <2>3 DEF LaidOut
  <2>5. OneAtATime'
    BY <2>1, <2>2 DEF OneAtATime
  <2>6. ReadInOrder'
    BY <2>1 DEF ReadInOrder
  <2> QED
    BY <2>1, <2>4, <2>5, <2>6
<1>6. ASSUME ReadLength
      PROVE  /\ OneAtATime' /\ ReadInOrder' /\ (\E at : LaidOut(at))'
             /\ UNCHANGED <<sent, received>>
  BY <1>6, LengthInOrder DEF ReadLength, KeepsWriting
<1>7. ASSUME ReadByte
      PROVE  /\ OneAtATime' /\ ReadInOrder' /\ (\E at : LaidOut(at))'
             /\ Channel!Next \/ UNCHANGED <<sent, received>>
  <2>1. /\ OneAtATime' /\ ReadInOrder' /\ (\E at : LaidOut(at))'
        /\ \/ received' = received
           \/ /\ Len(received) < Len(sent)
              /\ received' = Append(received, sent[Len(received) + 1])
    BY <1>7, ByteInOrder
  <2>2. sent' = sent
    BY <1>7 DEF ReadByte, KeepsWriting
  <2> QED
    BY <2>1, <2>2 DEF Channel!Next, Channel!Receive
<1>8. ASSUME ReadFails \/ UNCHANGED vars
      PROVE  /\ OneAtATime' /\ ReadInOrder' /\ (\E at : LaidOut(at))'
             /\ UNCHANGED <<sent, received>>
  <2>1. UNCHANGED <<stream, writer, need, frame, sent, received, torn>>
    BY <1>8 DEF ReadFails, KeepsWriting, vars
  <2>2. PICK at : LaidOut(at)
    OBVIOUS
  <2>3. LaidOut(at)'
    BY <2>1, <2>2 DEF LaidOut
  <2>4. OneAtATime' /\ ReadInOrder'
    BY <2>1 DEF OneAtATime, ReadInOrder
  <2> QED
    BY <2>1, <2>3, <2>4
<1> QED
  BY <1>1, <1>2, <1>3, <1>4, <1>5, <1>6, <1>7, <1>8 DEF Next, Write, Stopped

\* Two frames that are mixed stay mixed.
LEMMA MixedStays ==
    ASSUME [Next]_vars, mixed
    PROVE  mixed'
<1>1. ASSUME NEW w \in Writers, Write(w) PROVE mixed'
  BY <1>1 DEF Write, RefuseFrame, BeginFrame, BeginFails, FinishFrame, FinishFails
<1> QED
  BY <1>1 DEF Next, ReadLength, ReadByte, ReadFails, Stopped, KeepsWriting, vars

\* The bytes on the wire are those of whole frames, in order and up to what a writer has
\* still to write, until two frames are mixed.
THEOREM BytesInOrder == Spec => []FrameInv
<1>1. Init => FrameInv
  <2> SUFFICES ASSUME Init PROVE OneAtATime /\ ReadInOrder /\ \E at : LaidOut(at)
    BY DEF FrameInv
  <2>1. stream = <<>> /\ sent = <<>> /\ received = <<>> /\ need = 0 /\ frame = <<>>
        /\ \A w \in Writers : writer[w] = Idle
    BY DEF Init
  <2>2. Len(<<>>) = 0
    BY EmptySeq
  <2>3. OneAtATime /\ ReadInOrder
    BY <2>1, <2>2 DEF OneAtATime, ReadInOrder, Idle
  <2>4. PICK at : \A k \in Nat : at[k] = k - 1
    <3>1. \A k \in Nat : [j \in Nat |-> j - 1][k] = k - 1
      OBVIOUS
    <3> QED
      BY <3>1
  <2>5. Placed(at, stream, 0, sent, Sizes(sent), 0, 1)
    <3>1. at[1] = 0 /\ \A k \in Nat : at[k] \in Int
      BY <2>4
    <3>2. \A k \in 1 .. 0 : FALSE
      OBVIOUS
    <3>3. \A j, k \in 1 .. 0 + 1 : ~(j < k)
      OBVIOUS
    <3> QED
      BY <3>1, <3>2, <3>3 DEF Placed
  <2>6. LaidOut(at)
    <3>1. at[0 + 1] = 0
      BY <2>4
    <3>2. Layout(at, stream, sent, Len(received) + 1)
      BY <2>1, <2>2, <2>5 DEF Layout
    <3> QED
      BY <2>1, <2>2, <3>1, <3>2 DEF LaidOut, Idle
  <2> QED
    BY <2>3, <2>6
<1>2. TypeOK /\ PumpStops /\ FrameInv /\ [Next]_vars => FrameInv'
  <2> SUFFICES ASSUME TypeOK, PumpStops, FrameInv, [Next]_vars, ~mixed'
               PROVE  OneAtATime' /\ ReadInOrder' /\ (\E at : LaidOut(at))'
    BY DEF FrameInv
  <2>1. ~mixed
    BY MixedStays
  <2>2. OneAtATime /\ ReadInOrder /\ \E at : LaidOut(at)
    BY <2>1 DEF FrameInv
  <2> QED
    BY <2>2, StepInOrder
<1> QED
  BY <1>1, <1>2, TypeCorrect, WritersInOrder, PTL DEF Spec

(* A reader that has read everything and finds no writer in the middle of  *)
(* a frame is at the start of a frame and has read all of them             *)
(* (FrameStream, NothingLost).                                             *)
THEOREM NothingIsLost == Spec => []NothingLost
<1>1. TypeOK /\ FrameInv => NothingLost
  <2>a. SUFFICES ASSUME TypeOK, FrameInv, stream = <<>>, torn = {}, ~mixed,
                        \A w \in Writers : writer[w].pc # "payload"
                 PROVE  need = 0 /\ received = sent
    BY DEF NothingLost
  <2>1. ReadInOrder /\ \E at : LaidOut(at)
    BY <2>a DEF FrameInv
  <2>2. PICK at : LaidOut(at)
    BY <2>1
  <2>3. sent \in Seq(Seq(Byte)) /\ received \in Seq(Seq(Byte)) /\ frame \in Seq(Byte)
        /\ need \in Nat
    BY <2>a, FrameAssumption DEF TypeOK
  <2>4. PICK n, r, L \in Nat : n = Len(sent) /\ r = Len(received) /\ L = Len(frame)
    BY <2>3, LenProperties
  <2>5. at[n + 1] = 0
    BY <2>a, <2>2, <2>4, EmptySeq DEF LaidOut
  <2>6. /\ \A k \in Nat : at[k] \in Int
        /\ \A k \in r + 1 .. n : at[k + 1] = at[k] + 1 + Sizes(sent)[k]
        /\ \A j, k \in r + 1 .. n + 1 : j < k => at[j] < at[k]
    BY <2>2, <2>4 DEF LaidOut, Layout, Placed
  <2>7. r <= n
    BY <2>1, <2>4 DEF ReadInOrder
  <2>8. need = 0
    <3>1. SUFFICES ASSUME need > 0 PROVE FALSE
      BY <2>3
    <3>2. r < n /\ need + L = Len(sent[r + 1])
      BY <2>1, <2>4, <3>1 DEF ReadInOrder
    <3>3. PICK k \in 1 .. n : k = r + 1
      BY <3>2
    <3>4. Sizes(sent)[k] = need + L
      BY <2>4, <3>2, <3>3 DEF Sizes
    <3>5. at[k] = -(1 + L)
      <4>1. need # 0
        BY <3>1
      <4> QED
        BY <2>2, <2>4, <3>3, <4>1 DEF LaidOut
    <3>6. at[k + 1] = need
      <4>1. at[k + 1] = at[k] + 1 + Sizes(sent)[k]
        BY <2>6, <3>3
      <4> QED
        BY <2>3, <3>4, <3>5, <4>1
    <3>7. k + 1 = n + 1 \/ at[k + 1] < at[n + 1]
      BY <2>6, <3>3
    <3> QED
      BY <2>3, <2>5, <3>1, <3>6, <3>7
  <2>9. r = n
    <3>1. at[r + 1] = 0
      BY <2>2, <2>4, <2>8 DEF LaidOut
    <3>2. r < n => at[r + 1] < at[n + 1]
      BY <2>6
    <3> QED
      BY <2>5, <2>7, <3>1, <3>2
  <2>10. received = sent
    <3>1. Len(received) = Len(sent) /\ \A k \in 1 .. Len(received) : received[k] = sent[k]
      BY <2>1, <2>4, <2>9 DEF ReadInOrder
    <3> QED
      BY <2>3, <3>1, SeqEqual
  <2> QED
    BY <2>8, <2>10
<1> QED
  BY <1>1, TypeCorrect, BytesInOrder, PTL

(* The stream is the ordered channel of whole frames, each read once and   *)
(* in the order sent, whatever the messages, their sizes and the failures  *)
(* of Write, until a writer mixes two frames (FrameStream,                 *)
(* ChannelUntilMixed).                                                     *)
THEOREM IsChannel == Spec => ChannelUntilMixed
<1>1. Init => Channel!Init
  BY DEF Init, Channel!Init
<1>2. TypeOK /\ PumpStops /\ FrameInv /\ [Next]_vars => [mixed' \/ Channel!Next]_<<sent, received>>
  <2> SUFFICES ASSUME TypeOK, PumpStops, FrameInv, [Next]_vars, ~mixed'
               PROVE  Channel!Next \/ UNCHANGED <<sent, received>>
    OBVIOUS
  <2>1. ~mixed
    BY MixedStays
  <2>2. OneAtATime /\ ReadInOrder /\ \E at : LaidOut(at)
    BY <2>1 DEF FrameInv
  <2> QED
    BY <2>2, StepInOrder
<1> QED
  BY <1>1, <1>2, TypeCorrect, WritersInOrder, BytesInOrder, PTL DEF Spec, ChannelUntilMixed

-----------------------------------------------------------------------------
\* PutUint16 writes the two bytes of a port or a length.
LEMMA TwoBytes ==
    ASSUME NEW n \in Nat, n < Word
    PROVE  \E h, l \in Octets : PutUint16(n) = <<h, l>> /\ h * 256 + l = n
<1>1. /\ (n % Word) \div 256 \in Octets /\ n % 256 \in Octets
      /\ ((n % Word) \div 256) * 256 + (n % 256) = n
  BY DEF Octets, Word
<1> QED
  BY <1>1 DEF PutUint16

\* PutUint32 writes the four bytes of a rule id.
LEMMA FourBytes ==
    ASSUME NEW n \in Nat, n \div Word < Word
    PROVE  \E a, b, c, d \in Octets : /\ PutUint32(n) = <<a, b, c, d>>
                                      /\ (a * 256 + b) * Word + (c * 256 + d) = n
<1>1. PICK h, l : h = n \div Word /\ l = n % Word
  OBVIOUS
<1>2. h \in Nat /\ h < Word /\ l \in Nat /\ l < Word /\ h * Word + l = n
  BY <1>1 DEF Word
<1>3. PutUint16(n) = PutUint16(l)
  <2>1. n % Word = l % Word /\ n % 256 = l % 256
    BY <1>1 DEF Word
  <2> QED
    BY <2>1 DEF PutUint16
<1>4. PICK a, b \in Octets : PutUint16(h) = <<a, b>> /\ a * 256 + b = h
  BY <1>2, TwoBytes
<1>5. PICK c, d \in Octets : PutUint16(l) = <<c, d>> /\ c * 256 + d = l
  BY <1>2, TwoBytes
<1>6. PICK s, u, v, t : s = <<a, b>> /\ u = <<c, d>> /\ v = s \o u /\ t = <<a, b, c, d>>
  OBVIOUS
<1>7. /\ s \in Seq(Octets) /\ Len(s) = 2 /\ s[1] = a /\ s[2] = b
      /\ u \in Seq(Octets) /\ Len(u) = 2 /\ u[1] = c /\ u[2] = d
      /\ t \in Seq(Octets) /\ Len(t) = 4 /\ t[1] = a /\ t[2] = b /\ t[3] = c /\ t[4] = d
  BY <1>6
<1>8. v \in Seq(Octets) /\ Len(v) = 4 /\ \A i \in 1 .. 4 : v[i] = IF i <= 2 THEN s[i] ELSE u[i - 2]
  BY <1>6, <1>7, ConcatProperties
<1>9. \A i \in 1 .. 4 : v[i] = t[i]
  <2>1. v[1] = t[1] /\ v[2] = t[2] /\ v[3] = t[3] /\ v[4] = t[4]
    BY <1>7, <1>8
  <2> QED
    BY <2>1
<1>10. v = t
  BY <1>7, <1>8, <1>9, SeqEqual
<1>11. PutUint32(n) = <<a, b, c, d>>
  BY <1>1, <1>3, <1>4, <1>5, <1>6, <1>10 DEF PutUint32
<1>12. (a * 256 + b) * Word + (c * 256 + d) = n
  BY <1>2, <1>4, <1>5
<1> QED
  BY <1>11, <1>12

\* An address is its four bytes.
LEMMA AddressBytes ==
    ASSUME NEW s \in [1 .. 4 -> Octets]
    PROVE  \E a, b, c, d \in Octets : s = <<a, b, c, d>>
<1>1. s = <<s[1], s[2], s[3], s[4]>>
  OBVIOUS
<1>2. s[1] \in Octets /\ s[2] \in Octets /\ s[3] \in Octets /\ s[4] \in Octets
  OBVIOUS
<1> QED
  BY <1>1, <1>2

\* The slice of four bytes.
LEMMA FourOf ==
    ASSUME NEW s \in Seq(Octets), NEW i \in Nat, i + 4 <= Len(s)
    PROVE  Slice(s, i, i + 4) = <<s[i + 1], s[i + 2], s[i + 3], s[i + 4]>>
<1>1. \A k \in i + 1 .. i + 4 : s[k] \in Octets
  <2> SUFFICES ASSUME NEW k \in i + 1 .. i + 4 PROVE s[k] \in Octets
    OBVIOUS
  <2>1. PICK n \in Nat : n = Len(s)
    BY LenProperties
  <2>2. k \in 1 .. Len(s)
    BY <2>1
  <2> QED
    BY <2>2, ElementOfSeq
<1>2. PICK u : u = SubSeq(s, i + 1, i + 4)
  OBVIOUS
<1>3. /\ u \in Seq(Octets)
      /\ Len(u) = IF i + 1 <= i + 4 THEN (i + 4) - (i + 1) + 1 ELSE 0
      /\ \A k \in 1 .. (i + 4) - (i + 1) + 1 : u[k] = s[(i + 1) + k - 1]
  BY <1>1, <1>2, SubSeqProperties
<1>4. Len(u) = 4 /\ u[1] = s[i + 1] /\ u[2] = s[i + 2] /\ u[3] = s[i + 3] /\ u[4] = s[i + 4]
  <2>1. Len(u) = 4
    BY <1>3
  <2>2. ASSUME NEW k \in 1 .. 4 PROVE u[k] = s[i + k]
    <3>1. k \in 1 .. (i + 4) - (i + 1) + 1 /\ (i + 1) + k - 1 = i + k
      OBVIOUS
    <3> QED
      BY <1>3, <3>1
  <2> QED
    BY <2>1, <2>2
<1>5. PICK t : t = <<s[i + 1], s[i + 2], s[i + 3], s[i + 4]>>
  OBVIOUS
<1>6. /\ t \in Seq(Octets) /\ Len(t) = 4
      /\ t[1] = s[i + 1] /\ t[2] = s[i + 2] /\ t[3] = s[i + 3] /\ t[4] = s[i + 4]
  <2>1. s[i + 1] \in Octets /\ s[i + 2] \in Octets /\ s[i + 3] \in Octets /\ s[i + 4] \in Octets
    BY <1>1
  <2> QED
    BY <1>5, <2>1
<1>7. \A k \in 1 .. 4 : u[k] = t[k]
  <2>1. u[1] = t[1] /\ u[2] = t[2] /\ u[3] = t[3] /\ u[4] = t[4]
    BY <1>4, <1>6
  <2> QED
    BY <2>1
<1>8. u = t
  BY <1>3, <1>4, <1>6, <1>7, SeqEqual
<1> QED
  BY <1>2, <1>5, <1>8 DEF Slice

\* The slice where a sequence was put.
LEMMA RestOf ==
    ASSUME NEW s \in Seq(Octets), NEW i \in Nat, NEW t \in Seq(Octets), i + Len(t) <= Len(s),
           \A k \in Nat : 1 <= k /\ k <= Len(t) => s[i + k] = t[k]
    PROVE  Slice(s, i, i + Len(t)) = t
<1>1. PICK n, m \in Nat : n = Len(s) /\ m = Len(t)
  BY LenProperties
<1>2. \A k \in i + 1 .. i + m : s[k] \in Octets
  <2> SUFFICES ASSUME NEW k \in i + 1 .. i + m PROVE s[k] \in Octets
    OBVIOUS
  <2>1. k \in 1 .. Len(s)
    BY <1>1
  <2> QED
    BY <2>1, ElementOfSeq
<1>3. PICK u : u = SubSeq(s, i + 1, i + m)
  OBVIOUS
<1>4. /\ u \in Seq(Octets)
      /\ Len(u) = IF i + 1 <= i + m THEN (i + m) - (i + 1) + 1 ELSE 0
      /\ \A k \in 1 .. (i + m) - (i + 1) + 1 : u[k] = s[(i + 1) + k - 1]
  BY <1>2, <1>3, SubSeqProperties
<1>5. Len(u) = m
  BY <1>4
<1>6. \A k \in 1 .. m : u[k] = t[k]
  <2> SUFFICES ASSUME NEW k \in 1 .. m PROVE u[k] = t[k]
    OBVIOUS
  <2>1. k \in 1 .. (i + m) - (i + 1) + 1 /\ (i + 1) + k - 1 = i + k
    OBVIOUS
  <2> QED
    BY <1>1, <1>4, <2>1
<1>7. u = t
  BY <1>1, <1>4, <1>5, <1>6, SeqEqual
<1> QED
  BY <1>1, <1>3, <1>7 DEF Slice

\* Sequence v is the n bytes s with the m bytes u after them.
JoinedTo(v, s, n, u, m) ==
    /\ v \in Seq(Octets) /\ Len(v) = n + m
    /\ \A i \in Nat : 1 <= i /\ i <= n => v[i] = s[i]
    /\ \A i \in Nat : n < i /\ i <= n + m => v[i] = u[i - n]

\* What concatenation makes.
LEMMA Joining ==
    ASSUME NEW s \in Seq(Octets), NEW u \in Seq(Octets), NEW v, v = s \o u
    PROVE  JoinedTo(v, s, Len(s), u, Len(u))
<1>1. PICK n, m \in Nat : n = Len(s) /\ m = Len(u)
  BY LenProperties
<1>2. /\ v \in Seq(Octets) /\ Len(v) = n + m
      /\ \A i \in 1 .. n + m : v[i] = IF i <= n THEN s[i] ELSE u[i - n]
  BY <1>1, ConcatProperties
<1>3. \A i \in Nat : 1 <= i /\ i <= n => v[i] = s[i]
  BY <1>2
<1>4. \A i \in Nat : n < i /\ i <= n + m => v[i] = u[i - n]
  BY <1>2
<1> QED
  BY <1>1, <1>2, <1>3, <1>4 DEF JoinedTo

\* The bytes of a relay packet.
Relays(v, h, p, n) ==
    /\ v \in Seq(Octets) /\ Len(v) = 18 + n
    /\ (v[1] * 256 + v[2]) * Word + (v[3] * 256 + v[4]) = h.rule
    /\ h.src = <<v[5], v[6], v[7], v[8]>> /\ h.dst = <<v[9], v[10], v[11], v[12]>>
    /\ v[13] * 256 + v[14] = h.srcPort /\ v[15] * 256 + v[16] = h.dstPort
    /\ v[17] * 256 + v[18] = n
    /\ \A k \in Nat : 1 <= k /\ k <= n => v[18 + k] = p[k]

\* A header in memory, and the size of a payload.
Relayable(h, n) ==
    /\ h.rule \in Nat /\ h.rule \div Word < Word
    /\ h.src \in [1 .. 4 -> Octets] /\ h.dst \in [1 .. 4 -> Octets]
    /\ h.srcPort \in Nat /\ h.srcPort < Word /\ h.dstPort \in Nat /\ h.dstPort < Word
    /\ n \in Nat /\ n < Word

\* EncodeRelayPacket puts every field in its place.
LEMMA Encoded ==
    ASSUME NEW h, NEW n, Relayable(h, n), NEW p \in Seq(Octets), Len(p) = n
    PROVE  Relays(EncodeRelayPacket(h, p), h, p, n)
<1>1. PICK r1, r2, r3, r4 \in Octets : /\ PutUint32(h.rule) = <<r1, r2, r3, r4>>
                                       /\ (r1 * 256 + r2) * Word + (r3 * 256 + r4) = h.rule
  BY FourBytes DEF Relayable
<1>2. PICK s1, s2, s3, s4 \in Octets : h.src = <<s1, s2, s3, s4>>
  BY AddressBytes DEF Relayable
<1>3. PICK d1, d2, d3, d4 \in Octets : h.dst = <<d1, d2, d3, d4>>
  BY AddressBytes DEF Relayable
<1>4. PICK p1, p2 \in Octets : PutUint16(h.srcPort) = <<p1, p2>> /\ p1 * 256 + p2 = h.srcPort
  BY TwoBytes DEF Relayable
<1>5. PICK q1, q2 \in Octets : PutUint16(h.dstPort) = <<q1, q2>> /\ q1 * 256 + q2 = h.dstPort
  BY TwoBytes DEF Relayable
<1>6. PICK n1, n2 \in Octets : PutUint16(n) = <<n1, n2>> /\ n1 * 256 + n2 = n
  BY TwoBytes DEF Relayable
<1>7. PICK r, s, d, po, qo, no : /\ r = <<r1, r2, r3, r4>> /\ s = <<s1, s2, s3, s4>>
                                /\ d = <<d1, d2, d3, d4>> /\ po = <<p1, p2>>
                                /\ qo = <<q1, q2>> /\ no = <<n1, n2>>
  OBVIOUS
<1>8. /\ r \in Seq(Octets) /\ Len(r) = 4 /\ r[1] = r1 /\ r[2] = r2 /\ r[3] = r3 /\ r[4] = r4
      /\ s \in Seq(Octets) /\ Len(s) = 4 /\ s[1] = s1 /\ s[2] = s2 /\ s[3] = s3 /\ s[4] = s4
      /\ d \in Seq(Octets) /\ Len(d) = 4 /\ d[1] = d1 /\ d[2] = d2 /\ d[3] = d3 /\ d[4] = d4
      /\ po \in Seq(Octets) /\ Len(po) = 2 /\ po[1] = p1 /\ po[2] = p2
      /\ qo \in Seq(Octets) /\ Len(qo) = 2 /\ qo[1] = q1 /\ qo[2] = q2
      /\ no \in Seq(Octets) /\ Len(no) = 2 /\ no[1] = n1 /\ no[2] = n2
  BY <1>7
<1>9. PICK v1, v2, v3, v4, v5, v6 : /\ v1 = r \o s /\ v2 = v1 \o d /\ v3 = v2 \o po
                                    /\ v4 = v3 \o qo /\ v5 = v4 \o no /\ v6 = v5 \o p
  OBVIOUS
<1>10. JoinedTo(v1, r, 4, s, 4) /\ v1 \in Seq(Octets) /\ Len(v1) = 8
  <2>1. r \in Seq(Octets) /\ s \in Seq(Octets) /\ Len(r) = 4 /\ Len(s) = 4
    BY <1>8
  <2>2. PICK i, j : i = Len(r) /\ j = Len(s)
    OBVIOUS
  <2>3. JoinedTo(v1, r, i, s, j)
    BY <1>9, <2>1, <2>2, Joining
  <2>4. i = 4 /\ j = 4
    BY <2>1, <2>2
  <2>5. JoinedTo(v1, r, 4, s, 4)
    BY <2>3, <2>4
  <2> QED
    BY <2>5 DEF JoinedTo
<1>11. JoinedTo(v2, v1, 8, d, 4) /\ v2 \in Seq(Octets) /\ Len(v2) = 12
  <2>1. v1 \in Seq(Octets) /\ d \in Seq(Octets) /\ Len(v1) = 8 /\ Len(d) = 4
    BY <1>8, <1>10
  <2>2. PICK i, j : i = Len(v1) /\ j = Len(d)
    OBVIOUS
  <2>3. JoinedTo(v2, v1, i, d, j)
    BY <1>9, <2>1, <2>2, Joining
  <2>4. i = 8 /\ j = 4
    BY <2>1, <2>2
  <2>5. JoinedTo(v2, v1, 8, d, 4)
    BY <2>3, <2>4
  <2> QED
    BY <2>5 DEF JoinedTo
<1>12. JoinedTo(v3, v2, 12, po, 2) /\ v3 \in Seq(Octets) /\ Len(v3) = 14
  <2>1. v2 \in Seq(Octets) /\ po \in Seq(Octets) /\ Len(v2) = 12 /\ Len(po) = 2
    BY <1>8, <1>11
  <2>2. PICK i, j : i = Len(v2) /\ j = Len(po)
    OBVIOUS
  <2>3. JoinedTo(v3, v2, i, po, j)
    BY <1>9, <2>1, <2>2, Joining
  <2>4. i = 12 /\ j = 2
    BY <2>1, <2>2
  <2>5. JoinedTo(v3, v2, 12, po, 2)
    BY <2>3, <2>4
  <2> QED
    BY <2>5 DEF JoinedTo
<1>13. JoinedTo(v4, v3, 14, qo, 2) /\ v4 \in Seq(Octets) /\ Len(v4) = 16
  <2>1. v3 \in Seq(Octets) /\ qo \in Seq(Octets) /\ Len(v3) = 14 /\ Len(qo) = 2
    BY <1>8, <1>12
  <2>2. PICK i, j : i = Len(v3) /\ j = Len(qo)
    OBVIOUS
  <2>3. JoinedTo(v4, v3, i, qo, j)
    BY <1>9, <2>1, <2>2, Joining
  <2>4. i = 14 /\ j = 2
    BY <2>1, <2>2
  <2>5. JoinedTo(v4, v3, 14, qo, 2)
    BY <2>3, <2>4
  <2> QED
    BY <2>5 DEF JoinedTo
<1>14. JoinedTo(v5, v4, 16, no, 2) /\ v5 \in Seq(Octets) /\ Len(v5) = 18
  <2>1. v4 \in Seq(Octets) /\ no \in Seq(Octets) /\ Len(v4) = 16 /\ Len(no) = 2
    BY <1>8, <1>13
  <2>2. PICK i, j : i = Len(v4) /\ j = Len(no)
    OBVIOUS
  <2>3. JoinedTo(v5, v4, i, no, j)
    BY <1>9, <2>1, <2>2, Joining
  <2>4. i = 16 /\ j = 2
    BY <2>1, <2>2
  <2>5. JoinedTo(v5, v4, 16, no, 2)
    BY <2>3, <2>4
  <2> QED
    BY <2>5 DEF JoinedTo
<1>15. JoinedTo(v6, v5, 18, p, n) /\ v6 \in Seq(Octets) /\ Len(v6) = 18 + n
  <2>1. v5 \in Seq(Octets) /\ p \in Seq(Octets) /\ Len(v5) = 18 /\ Len(p) = n
    BY <1>8, <1>14
  <2>2. PICK i, j : i = Len(v5) /\ j = Len(p)
    OBVIOUS
  <2>3. JoinedTo(v6, v5, i, p, j)
    BY <1>9, <2>1, <2>2, Joining
  <2>4. i = 18 /\ j = n
    BY <2>1, <2>2
  <2>5. JoinedTo(v6, v5, 18, p, n)
    BY <2>3, <2>4
  <2> QED
    BY <2>5 DEF JoinedTo
<1>16. \A k \in Nat : 1 <= k /\ k <= n => v6[18 + k] = p[k]
  <2> SUFFICES ASSUME NEW k \in Nat, 1 <= k, k <= n PROVE v6[18 + k] = p[k]
    OBVIOUS
  <2>1. 18 + k \in Nat /\ 18 < 18 + k /\ 18 + k <= 18 + n /\ (18 + k) - 18 = k
    BY DEF Relayable
  <2> QED
    BY <1>15, <2>1 DEF JoinedTo
<1>17. \A i \in Nat : 1 <= i /\ i <= 18 => v6[i] = v5[i]
  BY <1>15 DEF JoinedTo
<1>18. \A i \in Nat : 1 <= i /\ i <= 16 => v6[i] = v4[i]
  BY <1>14, <1>17 DEF JoinedTo
<1>19. \A i \in Nat : 1 <= i /\ i <= 14 => v6[i] = v3[i]
  BY <1>13, <1>18 DEF JoinedTo
<1>20. \A i \in Nat : 1 <= i /\ i <= 12 => v6[i] = v2[i]
  BY <1>12, <1>19 DEF JoinedTo
<1>21. \A i \in Nat : 1 <= i /\ i <= 8 => v6[i] = v1[i]
  BY <1>11, <1>20 DEF JoinedTo
<1>22. \A i \in Nat : 1 <= i /\ i <= 4 => v6[i] = r[i]
  BY <1>10, <1>21 DEF JoinedTo
<1>23. /\ v6[1] = r1 /\ v6[2] = r2 /\ v6[3] = r3 /\ v6[4] = r4
       /\ v6[5] = s1 /\ v6[6] = s2 /\ v6[7] = s3 /\ v6[8] = s4
  <2>1. v6[1] = r[1] /\ v6[2] = r[2] /\ v6[3] = r[3] /\ v6[4] = r[4]
    BY <1>22
  <2>2. v6[5] = v1[5] /\ v6[6] = v1[6] /\ v6[7] = v1[7] /\ v6[8] = v1[8]
    BY <1>21
  <2>3. v1[5] = s[1] /\ v1[6] = s[2] /\ v1[7] = s[3] /\ v1[8] = s[4]
    BY <1>10 DEF JoinedTo
  <2> QED
    BY <1>8, <2>1, <2>2, <2>3
<1>24. v6[9] = d1 /\ v6[10] = d2 /\ v6[11] = d3 /\ v6[12] = d4
  <2>1. v6[9] = v2[9] /\ v6[10] = v2[10] /\ v6[11] = v2[11] /\ v6[12] = v2[12]
    BY <1>20
  <2>2. v2[9] = d[1] /\ v2[10] = d[2] /\ v2[11] = d[3] /\ v2[12] = d[4]
    BY <1>11 DEF JoinedTo
  <2> QED
    BY <1>8, <2>1, <2>2
<1>25. v6[13] = p1 /\ v6[14] = p2 /\ v6[15] = q1 /\ v6[16] = q2 /\ v6[17] = n1 /\ v6[18] = n2
  <2>1. v6[13] = v3[13] /\ v6[14] = v3[14] /\ v6[15] = v4[15] /\ v6[16] = v4[16]
    BY <1>18, <1>19
  <2>2. v6[17] = v5[17] /\ v6[18] = v5[18]
    BY <1>17
  <2>3. v3[13] = po[1] /\ v3[14] = po[2]
    BY <1>12 DEF JoinedTo
  <2>4. v4[15] = qo[1] /\ v4[16] = qo[2]
    BY <1>13 DEF JoinedTo
  <2>5. v5[17] = no[1] /\ v5[18] = no[2]
    BY <1>14 DEF JoinedTo
  <2> QED
    BY <1>8, <2>1, <2>2, <2>3, <2>4, <2>5
<1>26. EncodeRelayPacket(h, p) = v6
  BY <1>1, <1>2, <1>3, <1>4, <1>5, <1>6, <1>7, <1>9 DEF EncodeRelayPacket
<1>27. Relays(v6, h, p, n)
  <2>1. (v6[1] * 256 + v6[2]) * Word + (v6[3] * 256 + v6[4]) = h.rule
    BY <1>1, <1>23
  <2>2. h.src = <<v6[5], v6[6], v6[7], v6[8]>> /\ h.dst = <<v6[9], v6[10], v6[11], v6[12]>>
    BY <1>2, <1>3, <1>23, <1>24
  <2>3. v6[13] * 256 + v6[14] = h.srcPort /\ v6[15] * 256 + v6[16] = h.dstPort
    BY <1>4, <1>5, <1>25
  <2>4. v6[17] * 256 + v6[18] = n
    BY <1>6, <1>25
  <2> QED
    BY <1>15, <1>16, <2>1, <2>2, <2>3, <2>4 DEF Relays
<1> QED
  BY <1>26, <1>27

\* What was encoded comes out again.
LEMMA Decoded ==
    ASSUME NEW h, NEW n, Relayable(h, n), NEW p \in Seq(Octets), Len(p) = n,
           NEW v, Relays(v, h, p, n)
    PROVE  DecodeRelayPacket(v) =
               [ok      |-> TRUE,
                h       |-> [rule    |-> h.rule, src |-> h.src, dst |-> h.dst,
                             srcPort |-> h.srcPort, dstPort |-> h.dstPort],
                payload |-> p]
<1>1. /\ Uint32(v, 0) = h.rule /\ Uint16(v, 12) = h.srcPort /\ Uint16(v, 14) = h.dstPort
      /\ Uint16(v, 16) = n
  BY DEF Relays, Uint32, Uint16
<1>2. PICK l \in Nat : l = 18 + n /\ Len(v) = l
  BY DEF Relays, Relayable
<1>3. Slice(v, 4, 8) = h.src /\ Slice(v, 8, 12) = h.dst
  <2>1. v \in Seq(Octets) /\ 4 + 4 <= Len(v) /\ 8 + 4 <= Len(v)
    BY <1>2 DEF Relays, Relayable
  <2>2. /\ Slice(v, 4, 4 + 4) = <<v[4 + 1], v[4 + 2], v[4 + 3], v[4 + 4]>>
        /\ Slice(v, 8, 8 + 4) = <<v[8 + 1], v[8 + 2], v[8 + 3], v[8 + 4]>>
    BY <2>1, FourOf
  <2> QED
    BY <2>2 DEF Relays
<1>4. Slice(v, 18, 18 + n) = p
  <2>1. v \in Seq(Octets) /\ 18 + Len(p) <= Len(v)
    BY <1>2 DEF Relays, Relayable
  <2>2. \A k \in Nat : 1 <= k /\ k <= Len(p) => v[18 + k] = p[k]
    BY DEF Relays
  <2>3. Slice(v, 18, 18 + Len(p)) = p
    BY <2>1, <2>2, RestOf
  <2> QED
    BY <2>3
<1>5. ~(Len(v) < 18 \/ Len(v) - 18 < n)
  BY <1>2 DEF Relayable
<1> QED
  BY <1>1, <1>3, <1>4, <1>5 DEF DecodeRelayPacket, RelayHeaderSize

\* Equal up to a multiple of 2^16 - 1.
Congruent(x, y) == \E q \in Nat : x = q * (Word - 1) + y

\* Folding the carries in, the loop of Checksum, ends with 16 bits and the same remainder.
LEMMA Folding ==
    ASSUME NEW x \in Nat, x < 16 * Word
    PROVE  Folded[x] \in Nat /\ Folded[x] < Word /\ Congruent(x, Folded[x])
<1> DEFINE Step(f) == [sum \in Nat |-> IF sum < Word THEN sum
                                      ELSE f[(sum % Word) + (sum \div Word)]]
<1>1. \E f : f = Step(f)
  <2> DEFINE f == [sum \in Nat |-> IF sum = 0 THEN 0 ELSE ((sum - 1) % (Word - 1)) + 1]
  <2>1. ASSUME NEW sum \in Nat PROVE f[sum] = Step(f)[sum]
    <3>1. CASE sum < Word
      BY <3>1 DEF Word
    <3>2. CASE ~(sum < Word)
      <4>1. PICK l, h : l = sum % Word /\ h = sum \div Word
        OBVIOUS
      <4>2. l \in Nat /\ h \in Nat /\ h > 0 /\ sum = h * Word + l
        BY <3>2, <4>1 DEF Word
      <4>3. PICK r, q : r = ((l + h) - 1) % (Word - 1) /\ q = ((l + h) - 1) \div (Word - 1)
        OBVIOUS
      <4>4. r \in Nat /\ r < Word - 1 /\ q \in Nat /\ (l + h) - 1 = q * (Word - 1) + r
        BY <4>2, <4>3 DEF Word
      <4>5. sum - 1 = (q + h) * (Word - 1) + r
        BY <4>2, <4>4 DEF Word
      <4>6. (sum - 1) % (Word - 1) = r
        BY <4>2, <4>4, <4>5 DEF Word
      <4>7. f[l + h] = r + 1 /\ f[sum] = r + 1
        <5>1. l + h \in Nat /\ ~(l + h = 0) /\ ~(sum = 0)
          BY <4>2 DEF Word
        <5>2. f[l + h] = (((l + h) - 1) % (Word - 1)) + 1
          BY <5>1
        <5>3. f[sum] = ((sum - 1) % (Word - 1)) + 1
          BY <5>1
        <5> QED
          BY <4>3, <4>6, <5>2, <5>3
      <4>8. Step(f)[sum] = f[l + h]
        BY <3>2, <4>1
      <4> QED
        BY <4>7, <4>8
    <3> QED
      BY <3>1, <3>2
  <2>2. f = Step(f)
    BY <2>1
  <2> QED
    BY <2>2
<1>2. Folded = Step(Folded)
  BY <1>1 DEF Folded
<1>3. \A y \in Nat : Folded[y] = IF y < Word THEN y ELSE Folded[(y % Word) + (y \div Word)]
  BY <1>2
<1> HIDE DEF Step
<1>4. ASSUME NEW y \in Nat, ~(y < Word), NEW z, z = (y % Word) + (y \div Word)
      PROVE  z \in Nat /\ Folded[y] = Folded[z] /\ y = (y \div Word) * (Word - 1) + z
  BY <1>3, <1>4 DEF Word
<1>5. CASE x < Word
  <2>1. x = 0 * (Word - 1) + x
    BY DEF Word
  <2> QED
    BY <1>3, <1>5, <2>1 DEF Congruent
<1>6. CASE ~(x < Word)
  <2>1. PICK y, h : y = (x % Word) + (x \div Word) /\ h = x \div Word
    OBVIOUS
  <2>2. y \in Nat /\ h \in Nat /\ y < Word + 15 /\ x = h * (Word - 1) + y
    BY <1>6, <2>1 DEF Word
  <2>3. Folded[x] = Folded[y]
    BY <1>4, <1>6, <2>1
  <2>4. CASE y < Word
    BY <1>3, <2>2, <2>3, <2>4 DEF Congruent
  <2>5. CASE ~(y < Word)
    <3>1. PICK z : z = (y % Word) + (y \div Word)
      OBVIOUS
    <3>2. z \in Nat /\ z < Word /\ y = (Word - 1) + z
      BY <2>2, <2>5, <3>1 DEF Word
    <3>3. Folded[y] = z
      BY <1>3, <1>4, <2>2, <2>5, <3>1, <3>2
    <3>4. x = (h + 1) * (Word - 1) + z
      BY <2>2, <3>2 DEF Word
    <3>5. h + 1 \in Nat
      BY <2>2
    <3> QED
      BY <2>3, <3>2, <3>3, <3>4, <3>5 DEF Congruent
  <2> QED
    BY <2>4, <2>5
<1> QED
  BY <1>5, <1>6

\* The sum of ten words.
LEMMA TenWords ==
    ASSUME NEW w \in Seq(Nat), Len(w) = 10
    PROVE  Sums(w)[10] = w[1] + w[2] + w[3] + w[4] + w[5] + w[6] + w[7] + w[8] + w[9] + w[10]
<1> DEFINE Step(f) == [i \in 0 .. Len(w) |-> IF i = 0 THEN 0 ELSE f[i - 1] + w[i]]
<1>1. \A i \in 1 .. 10 : w[i] \in Nat
  BY ElementOfSeq
<1>2. PICK t1, t2, t3, t4, t5, t6, t7, t8, t9, t10 :
          /\ t1 = w[1] /\ t2 = t1 + w[2] /\ t3 = t2 + w[3] /\ t4 = t3 + w[4] /\ t5 = t4 + w[5]
          /\ t6 = t5 + w[6] /\ t7 = t6 + w[7] /\ t8 = t7 + w[8] /\ t9 = t8 + w[9]
          /\ t10 = t9 + w[10]
  OBVIOUS
<1>3. \E f : f = Step(f)
  <2> DEFINE f == [i \in 0 .. Len(w) |->
                     CASE i = 0 -> 0 [] i = 1 -> t1 [] i = 2 -> t2 [] i = 3 -> t3 [] i = 4 -> t4
                       [] i = 5 -> t5 [] i = 6 -> t6 [] i = 7 -> t7 [] i = 8 -> t8 [] i = 9 -> t9
                       [] OTHER -> t10]
  <2>1. ASSUME NEW i \in 0 .. 10 PROVE f[i] = Step(f)[i]
    <3>1. /\ f[0] = 0 /\ f[1] = t1 /\ f[2] = t2 /\ f[3] = t3 /\ f[4] = t4 /\ f[5] = t5
          /\ f[6] = t6 /\ f[7] = t7 /\ f[8] = t8 /\ f[9] = t9 /\ f[10] = t10
      OBVIOUS
    <3>2. PICK g : g = f
      OBVIOUS
    <3>3. 0 + w[1] = t1
      <4>1. w[1] \in Nat
        BY <1>1
      <4>2. PICK n \in Nat : n = w[1]
        BY <4>1
      <4> QED
        BY <1>2, <4>2
    <3>4. Step(g)[0] = 0
      OBVIOUS
    <3>5. ASSUME NEW k \in 1 .. 10 PROVE Step(g)[k] = g[k - 1] + w[k]
      <4>1. k \in 0 .. Len(w) /\ k # 0
        OBVIOUS
      <4> QED
        BY <4>1
    <3> HIDE DEF f, Step
    <3>6. /\ Step(f)[1] = f[0] + w[1] /\ Step(f)[2] = f[1] + w[2] /\ Step(f)[3] = f[2] + w[3]
          /\ Step(f)[4] = f[3] + w[4] /\ Step(f)[5] = f[4] + w[5] /\ Step(f)[6] = f[5] + w[6]
          /\ Step(f)[7] = f[6] + w[7] /\ Step(f)[8] = f[7] + w[8] /\ Step(f)[9] = f[8] + w[9]
          /\ Step(f)[10] = f[9] + w[10]
      BY <3>2, <3>5
    <3>7. /\ Step(f)[0] = f[0] /\ Step(f)[1] = f[1] /\ Step(f)[2] = f[2] /\ Step(f)[3] = f[3]
          /\ Step(f)[4] = f[4] /\ Step(f)[5] = f[5] /\ Step(f)[6] = f[6] /\ Step(f)[7] = f[7]
          /\ Step(f)[8] = f[8] /\ Step(f)[9] = f[9] /\ Step(f)[10] = f[10]
      BY <1>2, <3>1, <3>2, <3>3, <3>4, <3>6
    <3> QED
      BY <3>7
  <2>2. f = Step(f)
    BY <2>1
  <2> QED
    BY <2>2
<1>4. PICK s : s = Sums(w)
  OBVIOUS
<1>5. s = Step(s)
  BY <1>3, <1>4 DEF Sums
<1>6. s[0] = 0 /\ \A j \in Nat : j < 10 => s[j + 1] = s[j] + w[j + 1]
  <2>1. s[0] = 0
    BY <1>5
  <2>2. ASSUME NEW j \in Nat, j < 10 PROVE s[j + 1] = s[j] + w[j + 1]
    <3>1. j + 1 \in 0 .. Len(w) /\ j + 1 # 0 /\ (j + 1) - 1 = j
      BY <2>2
    <3> QED
      BY <1>5, <3>1
  <2> QED
    BY <2>1, <2>2
<1>7. /\ s[1] = w[1]
      /\ s[2] = s[1] + w[2] /\ s[3] = s[2] + w[3] /\ s[4] = s[3] + w[4] /\ s[5] = s[4] + w[5]
      /\ s[6] = s[5] + w[6] /\ s[7] = s[6] + w[7] /\ s[8] = s[7] + w[8] /\ s[9] = s[8] + w[9]
      /\ s[10] = s[9] + w[10]
  <2>1. s[0 + 1] = w[1]
    <3>1. s[0 + 1] = s[0] + w[0 + 1]
      BY <1>6
    <3> QED
      BY <1>1, <1>6, <3>1
  <2>2. /\ s[1 + 1] = s[1] + w[1 + 1] /\ s[2 + 1] = s[2] + w[2 + 1] /\ s[3 + 1] = s[3] + w[3 + 1]
        /\ s[4 + 1] = s[4] + w[4 + 1] /\ s[5 + 1] = s[5] + w[5 + 1] /\ s[6 + 1] = s[6] + w[6 + 1]
        /\ s[7 + 1] = s[7] + w[7 + 1] /\ s[8 + 1] = s[8] + w[8 + 1] /\ s[9 + 1] = s[9] + w[9 + 1]
    BY <1>6
  <2> QED
    BY <2>1, <2>2
<1> QED
  BY <1>1, <1>4, <1>7

\* The bytes of an IP header, and of a packet: that header, the UDP header, the payload.
IsIPHeader(v, t, c, src, dst) ==
    /\ v \in Seq(Octets) /\ Len(v) = 20
    /\ v[1] = 69 /\ v[2] = 0 /\ v[3] * 256 + v[4] = t
    /\ v[5] = 0 /\ v[6] = 0 /\ v[7] = 0 /\ v[8] = 0 /\ v[9] = 64 /\ v[10] = 17
    /\ v[11] * 256 + v[12] = c
    /\ src = <<v[13], v[14], v[15], v[16]>> /\ dst = <<v[17], v[18], v[19], v[20]>>

IsUDPHeader(v, sp, dp, l) ==
    /\ v \in Seq(Octets) /\ Len(v) = 8
    /\ v[1] * 256 + v[2] = sp /\ v[3] * 256 + v[4] = dp /\ v[5] * 256 + v[6] = l

\* BuildIPUDPPacket puts the fields of the IP header in their places.
LEMMA IPHeaderBytes ==
    ASSUME NEW t \in Nat, t < Word, NEW c \in Nat, c < Word,
           NEW src \in [1 .. 4 -> Octets], NEW dst \in [1 .. 4 -> Octets]
    PROVE  IsIPHeader(IPHeader(t, c, src, dst), t, c, src, dst)
<1>1. PICK t1, t2 \in Octets : PutUint16(t) = <<t1, t2>> /\ t1 * 256 + t2 = t
  BY TwoBytes
<1>2. PICK c1, c2 \in Octets : PutUint16(c) = <<c1, c2>> /\ c1 * 256 + c2 = c
  BY TwoBytes
<1>3. PICK s1, s2, s3, s4 \in Octets : src = <<s1, s2, s3, s4>>
  BY AddressBytes
<1>4. PICK d1, d2, d3, d4 \in Octets : dst = <<d1, d2, d3, d4>>
  BY AddressBytes
<1>5. PICK a, b, e, f, s, d : /\ a = <<69, 0>> /\ b = <<t1, t2>> /\ e = <<0, 0, 0, 0, 64, 17>>
                              /\ f = <<c1, c2>> /\ s = <<s1, s2, s3, s4>> /\ d = <<d1, d2, d3, d4>>
  OBVIOUS
<1>6. /\ a \in Seq(Octets) /\ Len(a) = 2 /\ a[1] = 69 /\ a[2] = 0
      /\ b \in Seq(Octets) /\ Len(b) = 2 /\ b[1] = t1 /\ b[2] = t2
      /\ e \in Seq(Octets) /\ Len(e) = 6 /\ e[1] = 0 /\ e[2] = 0 /\ e[3] = 0 /\ e[4] = 0
      /\ e[5] = 64 /\ e[6] = 17
      /\ f \in Seq(Octets) /\ Len(f) = 2 /\ f[1] = c1 /\ f[2] = c2
      /\ s \in Seq(Octets) /\ Len(s) = 4 /\ s[1] = s1 /\ s[2] = s2 /\ s[3] = s3 /\ s[4] = s4
      /\ d \in Seq(Octets) /\ Len(d) = 4 /\ d[1] = d1 /\ d[2] = d2 /\ d[3] = d3 /\ d[4] = d4
  <2>1. 0 \in Octets /\ 17 \in Octets /\ 64 \in Octets /\ 69 \in Octets
    BY DEF Octets
  <2> QED
    BY <1>5, <2>1
<1>7. PICK v1, v2, v3, v4, v5 : /\ v1 = a \o b /\ v2 = v1 \o e /\ v3 = v2 \o f
                                /\ v4 = v3 \o s /\ v5 = v4 \o d
  OBVIOUS
<1>8. JoinedTo(v1, a, 2, b, 2) /\ v1 \in Seq(Octets) /\ Len(v1) = 4
  <2>1. a \in Seq(Octets) /\ b \in Seq(Octets) /\ Len(a) = 2 /\ Len(b) = 2
    BY <1>6
  <2>2. PICK i, j : i = Len(a) /\ j = Len(b)
    OBVIOUS
  <2>3. JoinedTo(v1, a, i, b, j)
    BY <1>7, <2>1, <2>2, Joining
  <2>4. i = 2 /\ j = 2
    BY <2>1, <2>2
  <2>5. JoinedTo(v1, a, 2, b, 2)
    BY <2>3, <2>4
  <2> QED
    BY <2>5 DEF JoinedTo
<1>9. JoinedTo(v2, v1, 4, e, 6) /\ v2 \in Seq(Octets) /\ Len(v2) = 10
  <2>1. v1 \in Seq(Octets) /\ e \in Seq(Octets) /\ Len(v1) = 4 /\ Len(e) = 6
    BY <1>6, <1>8
  <2>2. PICK i, j : i = Len(v1) /\ j = Len(e)
    OBVIOUS
  <2>3. JoinedTo(v2, v1, i, e, j)
    BY <1>7, <2>1, <2>2, Joining
  <2>4. i = 4 /\ j = 6
    BY <2>1, <2>2
  <2>5. JoinedTo(v2, v1, 4, e, 6)
    BY <2>3, <2>4
  <2> QED
    BY <2>5 DEF JoinedTo
<1>10. JoinedTo(v3, v2, 10, f, 2) /\ v3 \in Seq(Octets) /\ Len(v3) = 12
  <2>1. v2 \in Seq(Octets) /\ f \in Seq(Octets) /\ Len(v2) = 10 /\ Len(f) = 2
    BY <1>6, <1>9
  <2>2. PICK i, j : i = Len(v2) /\ j = Len(f)
    OBVIOUS
  <2>3. JoinedTo(v3, v2, i, f, j)
    BY <1>7, <2>1, <2>2, Joining
  <2>4. i = 10 /\ j = 2
    BY <2>1, <2>2
  <2>5. JoinedTo(v3, v2, 10, f, 2)
    BY <2>3, <2>4
  <2> QED
    BY <2>5 DEF JoinedTo
<1>11. JoinedTo(v4, v3, 12, s, 4) /\ v4 \in Seq(Octets) /\ Len(v4) = 16
  <2>1. v3 \in Seq(Octets) /\ s \in Seq(Octets) /\ Len(v3) = 12 /\ Len(s) = 4
    BY <1>6, <1>10
  <2>2. PICK i, j : i = Len(v3) /\ j = Len(s)
    OBVIOUS
  <2>3. JoinedTo(v4, v3, i, s, j)
    BY <1>7, <2>1, <2>2, Joining
  <2>4. i = 12 /\ j = 4
    BY <2>1, <2>2
  <2>5. JoinedTo(v4, v3, 12, s, 4)
    BY <2>3, <2>4
  <2> QED
    BY <2>5 DEF JoinedTo
<1>12. JoinedTo(v5, v4, 16, d, 4) /\ v5 \in Seq(Octets) /\ Len(v5) = 20
  <2>1. v4 \in Seq(Octets) /\ d \in Seq(Octets) /\ Len(v4) = 16 /\ Len(d) = 4
    BY <1>6, <1>11
  <2>2. PICK i, j : i = Len(v4) /\ j = Len(d)
    OBVIOUS
  <2>3. JoinedTo(v5, v4, i, d, j)
    BY <1>7, <2>1, <2>2, Joining
  <2>4. i = 16 /\ j = 4
    BY <2>1, <2>2
  <2>5. JoinedTo(v5, v4, 16, d, 4)
    BY <2>3, <2>4
  <2> QED
    BY <2>5 DEF JoinedTo
<1>13. /\ \A i \in Nat : 1 <= i /\ i <= 16 => v5[i] = v4[i]
       /\ \A i \in Nat : 1 <= i /\ i <= 12 => v5[i] = v3[i]
       /\ \A i \in Nat : 1 <= i /\ i <= 10 => v5[i] = v2[i]
       /\ \A i \in Nat : 1 <= i /\ i <= 4 => v5[i] = v1[i]
  <2>1. \A i \in Nat : 1 <= i /\ i <= 16 => v5[i] = v4[i]
    BY <1>12 DEF JoinedTo
  <2>2. ASSUME NEW i \in Nat, 1 <= i, i <= 12 PROVE v5[i] = v3[i]
    <3>1. v5[i] = v4[i]
      BY <2>1, <2>2
    <3>2. v4[i] = v3[i]
      BY <1>11, <2>2 DEF JoinedTo
    <3> QED
      BY <3>1, <3>2
  <2>3. ASSUME NEW i \in Nat, 1 <= i, i <= 10 PROVE v5[i] = v2[i]
    <3>1. v5[i] = v3[i]
      BY <2>2, <2>3
    <3>2. v3[i] = v2[i]
      BY <1>10, <2>3 DEF JoinedTo
    <3> QED
      BY <3>1, <3>2
  <2>4. ASSUME NEW i \in Nat, 1 <= i, i <= 4 PROVE v5[i] = v1[i]
    <3>1. v5[i] = v2[i]
      BY <2>3, <2>4
    <3>2. v2[i] = v1[i]
      BY <1>9, <2>4 DEF JoinedTo
    <3> QED
      BY <3>1, <3>2
  <2> QED
    BY <2>1, <2>2, <2>3, <2>4
<1>14. /\ v5[1] = 69 /\ v5[2] = 0 /\ v5[3] = t1 /\ v5[4] = t2
       /\ v5[5] = 0 /\ v5[6] = 0 /\ v5[7] = 0 /\ v5[8] = 0 /\ v5[9] = 64 /\ v5[10] = 17
  <2>1. v1[1] = 69 /\ v1[2] = 0 /\ v1[3] = t1 /\ v1[4] = t2
    BY <1>6, <1>8 DEF JoinedTo
  <2>2. v2[5] = e[1] /\ v2[6] = e[2] /\ v2[7] = e[3] /\ v2[8] = e[4] /\ v2[9] = e[5] /\ v2[10] = e[6]
    <3>1. \A i \in Nat : 4 < i /\ i <= 10 => v2[i] = e[i - 4]
      BY <1>9 DEF JoinedTo
    <3>2. v2[5] = e[1] /\ v2[6] = e[2] /\ v2[7] = e[3]
      BY <3>1
    <3>3. v2[8] = e[4] /\ v2[9] = e[5] /\ v2[10] = e[6]
      BY <3>1
    <3> QED
      BY <3>2, <3>3
  <2>3. v5[1] = v1[1] /\ v5[2] = v1[2] /\ v5[3] = v1[3] /\ v5[4] = v1[4]
    BY <1>13
  <2>4. /\ v5[5] = v2[5] /\ v5[6] = v2[6] /\ v5[7] = v2[7] /\ v5[8] = v2[8]
        /\ v5[9] = v2[9] /\ v5[10] = v2[10]
    BY <1>13
  <2> QED
    BY <1>6, <2>1, <2>2, <2>3, <2>4
<1>15. v5[11] = c1 /\ v5[12] = c2
  <2>1. v3[11] = f[1] /\ v3[12] = f[2]
    BY <1>10 DEF JoinedTo
  <2>2. v5[11] = v3[11] /\ v5[12] = v3[12]
    BY <1>13
  <2> QED
    BY <1>6, <2>1, <2>2
<1>16. /\ v5[13] = s1 /\ v5[14] = s2 /\ v5[15] = s3 /\ v5[16] = s4
       /\ v5[17] = d1 /\ v5[18] = d2 /\ v5[19] = d3 /\ v5[20] = d4
  <2>1. v4[13] = s[1] /\ v4[14] = s[2] /\ v4[15] = s[3] /\ v4[16] = s[4]
    BY <1>11 DEF JoinedTo
  <2>2. v5[17] = d[1] /\ v5[18] = d[2] /\ v5[19] = d[3] /\ v5[20] = d[4]
    BY <1>12 DEF JoinedTo
  <2>3. v5[13] = v4[13] /\ v5[14] = v4[14] /\ v5[15] = v4[15] /\ v5[16] = v4[16]
    BY <1>13
  <2> QED
    BY <1>6, <2>1, <2>2, <2>3
<1>17. IPHeader(t, c, src, dst) = v5
  BY <1>1, <1>2, <1>3, <1>4, <1>5, <1>7 DEF IPHeader
<1>18. /\ v5[3] * 256 + v5[4] = t /\ v5[11] * 256 + v5[12] = c
       /\ src = <<v5[13], v5[14], v5[15], v5[16]>> /\ dst = <<v5[17], v5[18], v5[19], v5[20]>>
  BY <1>1, <1>2, <1>3, <1>4, <1>14, <1>15, <1>16
<1>19. IsIPHeader(v5, t, c, src, dst)
  BY <1>12, <1>14, <1>18 DEF IsIPHeader
<1> QED
  BY <1>17, <1>19

\* And those of the UDP header.
LEMMA UDPHeaderBytes ==
    ASSUME NEW sp \in Nat, sp < Word, NEW dp \in Nat, dp < Word, NEW l \in Nat, l < Word
    PROVE  IsUDPHeader(UDPHeader(sp, dp, l), sp, dp, l)
<1>1. PICK p1, p2 \in Octets : PutUint16(sp) = <<p1, p2>> /\ p1 * 256 + p2 = sp
  BY TwoBytes
<1>2. PICK q1, q2 \in Octets : PutUint16(dp) = <<q1, q2>> /\ q1 * 256 + q2 = dp
  BY TwoBytes
<1>3. PICK l1, l2 \in Octets : PutUint16(l) = <<l1, l2>> /\ l1 * 256 + l2 = l
  BY TwoBytes
<1>4. PICK a, b, e, f : a = <<p1, p2>> /\ b = <<q1, q2>> /\ e = <<l1, l2>> /\ f = <<0, 0>>
  OBVIOUS
<1>5. /\ a \in Seq(Octets) /\ Len(a) = 2 /\ a[1] = p1 /\ a[2] = p2
      /\ b \in Seq(Octets) /\ Len(b) = 2 /\ b[1] = q1 /\ b[2] = q2
      /\ e \in Seq(Octets) /\ Len(e) = 2 /\ e[1] = l1 /\ e[2] = l2
      /\ f \in Seq(Octets) /\ Len(f) = 2
  <2>1. 0 \in Octets
    BY DEF Octets
  <2> QED
    BY <1>4, <2>1
<1>6. PICK v1, v2, v3 : v1 = a \o b /\ v2 = v1 \o e /\ v3 = v2 \o f
  OBVIOUS
<1>7. JoinedTo(v1, a, 2, b, 2) /\ v1 \in Seq(Octets) /\ Len(v1) = 4
  <2>1. a \in Seq(Octets) /\ b \in Seq(Octets) /\ Len(a) = 2 /\ Len(b) = 2
    BY <1>5
  <2>2. PICK i, j : i = Len(a) /\ j = Len(b)
    OBVIOUS
  <2>3. JoinedTo(v1, a, i, b, j)
    BY <1>6, <2>1, <2>2, Joining
  <2>4. i = 2 /\ j = 2
    BY <2>1, <2>2
  <2>5. JoinedTo(v1, a, 2, b, 2)
    BY <2>3, <2>4
  <2> QED
    BY <2>5 DEF JoinedTo
<1>8. JoinedTo(v2, v1, 4, e, 2) /\ v2 \in Seq(Octets) /\ Len(v2) = 6
  <2>1. v1 \in Seq(Octets) /\ e \in Seq(Octets) /\ Len(v1) = 4 /\ Len(e) = 2
    BY <1>5, <1>7
  <2>2. PICK i, j : i = Len(v1) /\ j = Len(e)
    OBVIOUS
  <2>3. JoinedTo(v2, v1, i, e, j)
    BY <1>6, <2>1, <2>2, Joining
  <2>4. i = 4 /\ j = 2
    BY <2>1, <2>2
  <2>5. JoinedTo(v2, v1, 4, e, 2)
    BY <2>3, <2>4
  <2> QED
    BY <2>5 DEF JoinedTo
<1>9. JoinedTo(v3, v2, 6, f, 2) /\ v3 \in Seq(Octets) /\ Len(v3) = 8
  <2>1. v2 \in Seq(Octets) /\ f \in Seq(Octets) /\ Len(v2) = 6 /\ Len(f) = 2
    BY <1>5, <1>8
  <2>2. PICK i, j : i = Len(v2) /\ j = Len(f)
    OBVIOUS
  <2>3. JoinedTo(v3, v2, i, f, j)
    BY <1>6, <2>1, <2>2, Joining
  <2>4. i = 6 /\ j = 2
    BY <2>1, <2>2
  <2>5. JoinedTo(v3, v2, 6, f, 2)
    BY <2>3, <2>4
  <2> QED
    BY <2>5 DEF JoinedTo
<1>10. v3[1] = p1 /\ v3[2] = p2 /\ v3[3] = q1 /\ v3[4] = q2 /\ v3[5] = l1 /\ v3[6] = l2
  BY <1>5, <1>7, <1>8, <1>9 DEF JoinedTo
<1>11. UDPHeader(sp, dp, l) = v3
  BY <1>1, <1>2, <1>3, <1>4, <1>6 DEF UDPHeader
<1> QED
  BY <1>1, <1>2, <1>3, <1>9, <1>10, <1>11 DEF IsUDPHeader

\* The words of an IP header and their sum.
RestOfSum(v) == (v[1] * 256 + v[2]) + (v[3] * 256 + v[4]) + (v[5] * 256 + v[6])
                + (v[7] * 256 + v[8]) + (v[9] * 256 + v[10]) + (v[13] * 256 + v[14])
                + (v[15] * 256 + v[16]) + (v[17] * 256 + v[18]) + (v[19] * 256 + v[20])

\* Two bytes make a word.
LEMMA WordOf ==
    ASSUME NEW h \in Octets, NEW l \in Octets
    PROVE  h * 256 + l \in Nat /\ h * 256 + l < Word
BY DEF Octets, Word

\* The sum of a header's words is that of the checksum and the others.
LEMMA HeaderSum ==
    ASSUME NEW v \in Seq(Octets), Len(v) = 20
    PROVE  /\ SumOfWords(v) = RestOfSum(v) + (v[11] * 256 + v[12])
           /\ RestOfSum(v) \in Nat /\ RestOfSum(v) < 9 * Word
<1>1. \A i \in 1 .. 20 : v[i] \in Octets
  <2> SUFFICES ASSUME NEW i \in 1 .. 20 PROVE v[i] \in Octets
    OBVIOUS
  <2>1. i \in 1 .. Len(v)
    OBVIOUS
  <2> QED
    BY <2>1, ElementOfSeq
<1>2. PICK w : w = Words(v)
  OBVIOUS
<1>3. (Len(v) + 1) \div 2 = 10
  OBVIOUS
<1>4. DOMAIN w = 1 .. 10 /\ \A i \in 1 .. 10 : w[i] = v[2 * i - 1] * 256 + v[2 * i]
  BY <1>2, <1>3 DEF Words
<1>5. /\ w[1] = v[1] * 256 + v[2] /\ w[2] = v[3] * 256 + v[4] /\ w[3] = v[5] * 256 + v[6]
      /\ w[4] = v[7] * 256 + v[8] /\ w[5] = v[9] * 256 + v[10] /\ w[6] = v[11] * 256 + v[12]
      /\ w[7] = v[13] * 256 + v[14] /\ w[8] = v[15] * 256 + v[16] /\ w[9] = v[17] * 256 + v[18]
      /\ w[10] = v[19] * 256 + v[20]
  BY <1>4
<1>6. \A i \in 1 .. 10 : w[i] \in Nat /\ w[i] < Word
  <2> SUFFICES ASSUME NEW i \in 1 .. 10 PROVE w[i] \in Nat /\ w[i] < Word
    OBVIOUS
  <2>1. 2 * i - 1 \in 1 .. 20 /\ 2 * i \in 1 .. 20
    OBVIOUS
  <2>2. PICK h, l \in Octets : h = v[2 * i - 1] /\ l = v[2 * i]
    BY <1>1, <2>1
  <2>3. w[i] = h * 256 + l
    BY <1>4, <2>2
  <2> QED
    BY <2>3, WordOf
<1>7. w \in Seq(Nat) /\ Len(w) = 10
  <2>1. 10 \in Nat
    OBVIOUS
  <2>2. w = [i \in DOMAIN w |-> w[i]]
    BY <1>2 DEF Words
  <2>3. w \in [1 .. 10 -> Nat]
    <3>1. ASSUME NEW i \in DOMAIN w PROVE w[i] \in Nat
      <4>1. i \in 1 .. 10
        BY <1>4, <3>1
      <4> QED
        BY <1>6, <4>1
    <3>2. w \in [DOMAIN w -> Nat]
      BY <2>2, <3>1
    <3> QED
      BY <1>4, <3>2
  <2>4. PICK ten \in Nat : ten = 10
    BY <2>1
  <2>5. w \in [1 .. ten -> Nat] /\ DOMAIN w = 1 .. ten
    BY <1>4, <2>3, <2>4
  <2>6. w \in Seq(Nat)
    BY <2>5, SeqDef
  <2>7. Len(w) = ten
    BY <2>5, <2>6, LenProperties
  <2> QED
    BY <2>4, <2>6, <2>7
<1>8. SumOfWords(v) = w[1] + w[2] + w[3] + w[4] + w[5] + w[6] + w[7] + w[8] + w[9] + w[10]
  BY <1>2, <1>7, TenWords DEF SumOfWords
<1>9. PICK n1, n2, n3, n4, n5, n6, n7, n8, n9, n10 :
          /\ n1 = w[1] /\ n2 = w[2] /\ n3 = w[3] /\ n4 = w[4] /\ n5 = w[5] /\ n6 = w[6]
          /\ n7 = w[7] /\ n8 = w[8] /\ n9 = w[9] /\ n10 = w[10]
  OBVIOUS
<1>10. /\ n1 \in Nat /\ n2 \in Nat /\ n3 \in Nat /\ n4 \in Nat /\ n5 \in Nat /\ n6 \in Nat
       /\ n7 \in Nat /\ n8 \in Nat /\ n9 \in Nat /\ n10 \in Nat
       /\ n1 < Word /\ n2 < Word /\ n3 < Word /\ n4 < Word /\ n5 < Word
       /\ n7 < Word /\ n8 < Word /\ n9 < Word /\ n10 < Word
  BY <1>6, <1>9
<1>11. PICK r : r = RestOfSum(v)
  OBVIOUS
<1>12. r = n1 + n2 + n3 + n4 + n5 + n7 + n8 + n9 + n10 /\ v[11] * 256 + v[12] = n6
  BY <1>5, <1>9, <1>11 DEF RestOfSum
<1>13. r \in Nat /\ r < 9 * Word
  BY <1>10, <1>12 DEF Word
<1>14. SumOfWords(v) = n1 + n2 + n3 + n4 + n5 + n6 + n7 + n8 + n9 + n10
  BY <1>8, <1>9
<1>15. n1 + n2 + n3 + n4 + n5 + n6 + n7 + n8 + n9 + n10 = r + n6
  BY <1>10, <1>12
<1> QED
  BY <1>11, <1>12, <1>13, <1>14, <1>15

\* The checksum is a number of 16 bits that makes up for the sum.
LEMMA ChecksumOf ==
    ASSUME NEW src \in [1 .. 4 -> Octets], NEW dst \in [1 .. 4 -> Octets], NEW t \in Nat, t < Word,
           NEW c, c = Checksum(IPHeader(t, 0, src, dst))
    PROVE  /\ c \in Nat /\ c < Word
           /\ SumOfWords(IPHeader(t, c, src, dst)) % (Word - 1) = 0
<1>1. PICK v : v = IPHeader(t, 0, src, dst)
  OBVIOUS
<1>2. IsIPHeader(v, t, 0, src, dst)
  <2>1. 0 \in Nat /\ 0 < Word
    BY DEF Word
  <2> QED
    BY <1>1, <2>1, IPHeaderBytes
<1>3. PICK x : x = RestOfSum(v)
  OBVIOUS
<1>4. SumOfWords(v) = x /\ x \in Nat /\ x < 9 * Word
  <2>1. SumOfWords(v) = x + (v[11] * 256 + v[12]) /\ x \in Nat /\ x < 9 * Word
    BY <1>2, <1>3, HeaderSum DEF IsIPHeader
  <2>2. v[11] * 256 + v[12] = 0
    BY <1>2 DEF IsIPHeader
  <2> QED
    BY <2>1, <2>2
<1>5. PICK f : f = Folded[x]
  OBVIOUS
<1>6. f \in Nat /\ f < Word /\ Congruent(x, f)
  <2>1. x < 16 * Word
    BY <1>4 DEF Word
  <2> QED
    BY <1>4, <1>5, <2>1, Folding
<1>7. PICK q \in Nat : x = q * (Word - 1) + f
  BY <1>6 DEF Congruent
<1>8. c = (Word - 1) - f
  BY <1>1, <1>4, <1>5 DEF Checksum
<1>9. c \in Nat /\ c < Word
  BY <1>6, <1>8 DEF Word
<1>10. PICK u : u = IPHeader(t, c, src, dst)
  OBVIOUS
<1>11. IsIPHeader(u, t, c, src, dst)
  BY <1>9, <1>10, IPHeaderBytes
<1>12. RestOfSum(u) = x
  <2>1. /\ u[1] = v[1] /\ u[2] = v[2] /\ u[5] = v[5] /\ u[6] = v[6] /\ u[7] = v[7] /\ u[8] = v[8]
        /\ u[9] = v[9] /\ u[10] = v[10] /\ u[3] * 256 + u[4] = v[3] * 256 + v[4]
    BY <1>2, <1>11 DEF IsIPHeader
  <2>2. /\ u[13] = src[1] /\ u[14] = src[2] /\ u[15] = src[3] /\ u[16] = src[4]
        /\ u[17] = dst[1] /\ u[18] = dst[2] /\ u[19] = dst[3] /\ u[20] = dst[4]
    BY <1>11 DEF IsIPHeader
  <2>3. /\ v[13] = src[1] /\ v[14] = src[2] /\ v[15] = src[3] /\ v[16] = src[4]
        /\ v[17] = dst[1] /\ v[18] = dst[2] /\ v[19] = dst[3] /\ v[20] = dst[4]
    BY <1>2 DEF IsIPHeader
  <2> QED
    BY <1>3, <2>1, <2>2, <2>3 DEF RestOfSum
<1>13. SumOfWords(u) = x + c
  <2>1. SumOfWords(u) = RestOfSum(u) + (u[11] * 256 + u[12])
    BY <1>11, HeaderSum DEF IsIPHeader
  <2>2. u[11] * 256 + u[12] = c
    BY <1>11 DEF IsIPHeader
  <2> QED
    BY <1>12, <2>1, <2>2
<1>14. x + c = (q + 1) * (Word - 1)
  BY <1>7, <1>8, <1>6 DEF Word
<1>15. (x + c) % (Word - 1) = 0
  BY <1>14 DEF Word
<1> QED
  BY <1>9, <1>10, <1>13, <1>15

\* The bytes of a packet that was built: an IP header, a UDP header and n bytes of payload.
Built(v, a, b, p, n) ==
    /\ v \in Seq(Octets) /\ Len(v) = 28 + n
    /\ \A i \in Nat : 1 <= i /\ i <= 20 => v[i] = a[i]
    /\ \A i \in Nat : 20 < i /\ i <= 28 => v[i] = b[i - 20]
    /\ \A k \in Nat : 1 <= k /\ k <= n => v[28 + k] = p[k]

\* What BuildIPUDPPacket makes.
LEMMA Building ==
    ASSUME NEW src \in [1 .. 4 -> Octets], NEW dst \in [1 .. 4 -> Octets],
           NEW sp \in Nat, sp < Word, NEW dp \in Nat, dp < Word,
           NEW n \in Nat, 28 + n < Word, NEW p \in Seq(Octets), Len(p) = n,
           NEW v, v = BuildIPUDPPacket(src, dst, sp, dp, p)
    PROVE  \E a, b, c : /\ c \in Nat /\ c < Word
                        /\ a = IPHeader(28 + n, c, src, dst) /\ SumOfWords(a) % (Word - 1) = 0
                        /\ IsIPHeader(a, 28 + n, c, src, dst) /\ IsUDPHeader(b, sp, dp, 8 + n)
                        /\ Built(v, a, b, p, n)
<1>1. PICK t, l : t = 28 + n /\ l = 8 + n
  OBVIOUS
<1>2. t \in Nat /\ t < Word /\ l \in Nat /\ l < Word
  BY <1>1 DEF Word
<1>3. PICK c : c = Checksum(IPHeader(t, 0, src, dst))
  OBVIOUS
<1>4. PICK a, b : a = IPHeader(t, c, src, dst) /\ b = UDPHeader(sp, dp, l)
  OBVIOUS
<1>5. c \in Nat /\ c < Word /\ SumOfWords(a) % (Word - 1) = 0
  BY <1>2, <1>3, <1>4, ChecksumOf
<1>6. IsIPHeader(a, t, c, src, dst)
  BY <1>2, <1>4, <1>5, IPHeaderBytes
<1>7. IsUDPHeader(b, sp, dp, l)
  BY <1>2, <1>4, UDPHeaderBytes
<1>8. PICK u : u = a \o b
  OBVIOUS
<1>9. v = u \o p
  BY <1>1, <1>3, <1>4, <1>8 DEF BuildIPUDPPacket
<1>10. a \in Seq(Octets) /\ Len(a) = 20 /\ b \in Seq(Octets) /\ Len(b) = 8
  BY <1>6, <1>7 DEF IsIPHeader, IsUDPHeader
<1>11. JoinedTo(u, a, 20, b, 8) /\ u \in Seq(Octets) /\ Len(u) = 28
  <2>1. a \in Seq(Octets) /\ b \in Seq(Octets) /\ Len(a) = 20 /\ Len(b) = 8
    BY <1>10
  <2>2. PICK i, j : i = Len(a) /\ j = Len(b)
    OBVIOUS
  <2>3. JoinedTo(u, a, i, b, j)
    BY <1>8, <2>1, <2>2, Joining
  <2>4. i = 20 /\ j = 8
    BY <2>1, <2>2
  <2>5. JoinedTo(u, a, 20, b, 8)
    BY <2>3, <2>4
  <2> QED
    BY <2>5 DEF JoinedTo
<1>12. JoinedTo(v, u, 28, p, n) /\ v \in Seq(Octets) /\ Len(v) = 28 + n
  <2>1. u \in Seq(Octets) /\ p \in Seq(Octets) /\ Len(u) = 28 /\ Len(p) = n
    BY <1>11
  <2>2. PICK i, j : i = Len(u) /\ j = Len(p)
    OBVIOUS
  <2>3. JoinedTo(v, u, i, p, j)
    BY <1>9, <2>1, <2>2, Joining
  <2>4. i = 28 /\ j = n
    BY <2>1, <2>2
  <2>5. JoinedTo(v, u, 28, p, n)
    BY <2>3, <2>4
  <2> QED
    BY <2>5 DEF JoinedTo
<1>13. Built(v, a, b, p, n)
  <2>1. \A i \in Nat : 1 <= i /\ i <= 20 => v[i] = a[i]
    BY <1>11, <1>12 DEF JoinedTo
  <2>2. \A i \in Nat : 20 < i /\ i <= 28 => v[i] = b[i - 20]
    BY <1>11, <1>12 DEF JoinedTo
  <2>3. ASSUME NEW k \in Nat, 1 <= k, k <= n PROVE v[28 + k] = p[k]
    <3>1. 28 + k \in Nat /\ 28 < 28 + k /\ 28 + k <= 28 + n /\ (28 + k) - 28 = k
      BY <2>3
    <3> QED
      BY <1>12, <3>1 DEF JoinedTo
  <2> QED
    BY <1>12, <2>1, <2>2, <2>3 DEF Built
<1> QED
  BY <1>1, <1>4, <1>5, <1>6, <1>7, <1>13

\* What was built comes out again.
LEMMA Parsed ==
    ASSUME NEW src \in [1 .. 4 -> Octets], NEW dst \in [1 .. 4 -> Octets],
           NEW sp \in Nat, sp < Word, NEW dp \in Nat, dp < Word,
           NEW p \in Seq(Octets), 28 + Len(p) < Word,
           NEW v, v = BuildIPUDPPacket(src, dst, sp, dp, p)
    PROVE  /\ ParseIPUDPPacket(v) = [ok |-> TRUE, src |-> src, dst |-> dst, srcPort |-> sp,
                                     dstPort |-> dp, payload |-> p]
           /\ Uint16(v, 2) = Len(v)
           /\ SumOfWords(Slice(v, 0, 20)) % (Word - 1) = 0
<1>0. PICK n \in Nat : n = Len(p)
  BY LenProperties
<1>1. PICK a, b, c : /\ c \in Nat /\ c < Word
                     /\ a = IPHeader(28 + n, c, src, dst) /\ SumOfWords(a) % (Word - 1) = 0
                     /\ IsIPHeader(a, 28 + n, c, src, dst) /\ IsUDPHeader(b, sp, dp, 8 + n)
                     /\ Built(v, a, b, p, n)
  BY <1>0, Building
<1>2. /\ v[1] = 69 /\ v[10] = 17 /\ v[3] = a[3] /\ v[4] = a[4]
      /\ v[13] = a[13] /\ v[14] = a[14] /\ v[15] = a[15] /\ v[16] = a[16]
      /\ v[17] = a[17] /\ v[18] = a[18] /\ v[19] = a[19] /\ v[20] = a[20]
  <2>1. \A i \in Nat : 1 <= i /\ i <= 20 => v[i] = a[i]
    BY <1>1 DEF Built
  <2>2. a[1] = 69 /\ a[10] = 17
    BY <1>1 DEF IsIPHeader
  <2>3. /\ v[1] = a[1] /\ v[10] = a[10] /\ v[3] = a[3] /\ v[4] = a[4]
        /\ v[13] = a[13] /\ v[14] = a[14] /\ v[15] = a[15] /\ v[16] = a[16]
        /\ v[17] = a[17] /\ v[18] = a[18] /\ v[19] = a[19] /\ v[20] = a[20]
    BY ONLY <2>1
  <2> QED
    BY <2>2, <2>3
<1>3. /\ v[21] = b[1] /\ v[22] = b[2] /\ v[23] = b[3] /\ v[24] = b[4]
      /\ v[25] = b[5] /\ v[26] = b[6]
  BY <1>1 DEF Built
<1>4. Uint16(v, 20) = sp /\ Uint16(v, 22) = dp /\ Uint16(v, 24) = 8 + n
  <2>1. 20 + 1 = 21 /\ 20 + 2 = 22 /\ 22 + 1 = 23 /\ 22 + 2 = 24 /\ 24 + 1 = 25 /\ 24 + 2 = 26
    OBVIOUS
  <2>2. /\ Uint16(v, 20) = v[21] * 256 + v[22] /\ Uint16(v, 22) = v[23] * 256 + v[24]
        /\ Uint16(v, 24) = v[25] * 256 + v[26]
    BY <2>1 DEF Uint16
  <2>3. b[1] * 256 + b[2] = sp /\ b[3] * 256 + b[4] = dp /\ b[5] * 256 + b[6] = 8 + n
    BY <1>1 DEF IsUDPHeader
  <2> QED
    BY <1>3, <2>2, <2>3
<1>5. Uint16(v, 2) = 28 + n
  <2>1. a[3] * 256 + a[4] = 28 + n
    BY <1>1 DEF IsIPHeader
  <2> QED
    BY <1>2, <2>1 DEF Uint16
<1>6. v \in Seq(Octets) /\ Len(v) = 28 + n
  BY <1>1 DEF Built
<1>7. Slice(v, 12, 16) = src /\ Slice(v, 16, 20) = dst
  <2>1. 12 + 4 <= Len(v) /\ 16 + 4 <= Len(v)
    BY <1>6
  <2>2. /\ Slice(v, 12, 12 + 4) = <<v[12 + 1], v[12 + 2], v[12 + 3], v[12 + 4]>>
        /\ Slice(v, 16, 16 + 4) = <<v[16 + 1], v[16 + 2], v[16 + 3], v[16 + 4]>>
    BY <1>6, <2>1, FourOf
  <2>3. src = <<a[13], a[14], a[15], a[16]>> /\ dst = <<a[17], a[18], a[19], a[20]>>
    BY <1>1 DEF IsIPHeader
  <2> QED
    BY <1>2, <2>2, <2>3, SMTT(30)
<1>8. Slice(v, 28, 28 + n) = p
  <2>1. 28 + Len(p) <= Len(v)
    BY <1>0, <1>6
  <2>2. \A k \in Nat : 1 <= k /\ k <= Len(p) => v[28 + k] = p[k]
    BY <1>0, <1>1 DEF Built
  <2>3. Slice(v, 28, 28 + Len(p)) = p
    BY <1>6, <2>1, <2>2, RestOf
  <2> QED
    BY <1>0, <2>3
<1>9. Slice(v, 0, 20) = a
  <2>1. a \in Seq(Octets) /\ Len(a) = 20
    BY <1>1 DEF IsIPHeader
  <2>2. PICK i, m \in Nat : i = 0 /\ m = 20
    OBVIOUS
  <2>3. i + Len(a) <= Len(v) /\ i + Len(a) = m
    BY <1>6, <2>1, <2>2
  <2>4. ASSUME NEW k \in Nat, 1 <= k, k <= Len(a) PROVE v[i + k] = a[k]
    <3>1. v[k] = a[k]
      BY <1>1, <2>1, <2>4 DEF Built
    <3>2. i + k = k
      BY <2>2
    <3> QED
      BY <3>1, <3>2
  <2>5. Slice(v, i, i + Len(a)) = a
    BY <1>6, <2>1, <2>3, <2>4, RestOf
  <2> QED
    BY <2>2, <2>3, <2>5
<1>10. (v[1] % 16) * 4 = 20 /\ v[1] \div 16 = 4
  BY <1>2
<1>11. ~ \/ Len(v) < 28
         \/ v[1] \div 16 # 4
         \/ 20 < 20 \/ Len(v) < 20 + 8
         \/ v[10] # 17
         \/ 8 + n < 8 \/ 20 + (8 + n) > Len(v)
  BY <1>2, <1>6, <1>10
<1>12. ParseIPUDPPacket(v) = [ok |-> TRUE, src |-> src, dst |-> dst, srcPort |-> sp,
                              dstPort |-> dp, payload |-> p]
  <2>1. 20 + 4 = 24 /\ 20 + 2 = 22 /\ 20 + 8 = 28 /\ 20 + (8 + n) = 28 + n
    OBVIOUS
  <2> DEFINE Parse(ihl, l) ==
                 IF \/ Len(v) < 28
                    \/ v[1] \div 16 # 4
                    \/ ihl < 20 \/ Len(v) < ihl + 8
                    \/ v[10] # 17
                    \/ l < 8 \/ ihl + l > Len(v)
                 THEN Refused
                 ELSE [ok |-> TRUE, src |-> Slice(v, 12, 16), dst |-> Slice(v, 16, 20),
                       srcPort |-> Uint16(v, ihl), dstPort |-> Uint16(v, ihl + 2),
                       payload |-> Slice(v, ihl + 8, ihl + l)]
  <2>2. ParseIPUDPPacket(v) = Parse((v[1] % 16) * 4, Uint16(v, (v[1] % 16) * 4 + 4))
    BY DEF ParseIPUDPPacket
  <2>3. Parse(20, 8 + n) = [ok |-> TRUE, src |-> src, dst |-> dst, srcPort |-> sp,
                            dstPort |-> dp, payload |-> p]
    BY <1>4, <1>7, <1>8, <1>11, <2>1
  <2> HIDE DEF Parse
  <2>4. ParseIPUDPPacket(v) = Parse(20, Uint16(v, 24))
    BY <1>10, <2>1, <2>2
  <2> QED
    BY <1>4, <2>3, <2>4
<1> QED
  BY <1>1, <1>5, <1>6, <1>9, <1>12

\* The payloads of PacketsIntact.
LEMMA PayloadBytes ==
    ASSUME NEW n \in Nat
    PROVE  PayloadOf(n) \in Seq(Octets) /\ Len(PayloadOf(n)) = n
<1>1. PICK p : p = PayloadOf(n)
  OBVIOUS
<1>2. \A i \in 1 .. n : i % 256 \in Octets
  BY DEF Octets
<1>3. p \in [1 .. n -> Octets]
  BY <1>1, <1>2 DEF PayloadOf
<1>4. p \in Seq(Octets)
  BY <1>3, SeqDef
<1>5. DOMAIN p = 1 .. n
  BY <1>3
<1>6. Len(p) = n
  BY <1>4, <1>5, LenProperties
<1> QED
  BY <1>1, <1>4, <1>6

\* What is encoded of a captured packet is decoded again, and built for any broadcast
\* address it says the same.
LEMMA PacketSurvives ==
    ASSUME NEW h \in Headers, NEW p \in Seq(Octets), Len(p) \in PayloadSizes,
           NEW broadcast \in Addresses
    PROVE  /\ EncodeRelayPacket(h, p) \in Seq(Octets)
           /\ Len(EncodeRelayPacket(h, p)) = 18 + Len(p)
           /\ DecodeRelayPacket(EncodeRelayPacket(h, p)) = [ok |-> TRUE, h |-> h, payload |-> p]
           /\ ParseIPUDPPacket(BuildIPUDPPacket(h.src, broadcast, h.srcPort, h.dstPort, p)) =
                  [ok |-> TRUE, src |-> h.src, dst |-> broadcast,
                   srcPort |-> h.srcPort, dstPort |-> h.dstPort, payload |-> p]
           /\ Uint16(BuildIPUDPPacket(h.src, broadcast, h.srcPort, h.dstPort, p), 2) =
                  Len(BuildIPUDPPacket(h.src, broadcast, h.srcPort, h.dstPort, p))
<1>0. PICK data, v : /\ data = EncodeRelayPacket(h, p)
                     /\ v = BuildIPUDPPacket(h.src, broadcast, h.srcPort, h.dstPort, p)
  OBVIOUS
<1>1. PICK n \in Nat : n = Len(p) /\ 28 + n < Word /\ broadcast \in [1 .. 4 -> Octets]
  BY CodecAssumption
<1>2. /\ h.rule \in RuleNumbers /\ h.src \in Addresses /\ h.dst \in Addresses
      /\ h.srcPort \in Ports /\ h.dstPort \in Ports
      /\ h = [rule |-> h.rule, src |-> h.src, dst |-> h.dst, srcPort |-> h.srcPort,
              dstPort |-> h.dstPort]
  BY DEF Headers
<1>3. Relayable(h, n)
  <2>1. n < Word
    BY <1>1 DEF Word
  <2> QED
    BY <1>1, <1>2, <2>1, CodecAssumption DEF Relayable
<1>4. Relays(data, h, p, n)
  BY <1>0, <1>1, <1>3, Encoded
<1>5. DecodeRelayPacket(data) = [ok |-> TRUE, h |-> h, payload |-> p]
  BY <1>1, <1>2, <1>3, <1>4, Decoded
<1>7. /\ ParseIPUDPPacket(v) = [ok |-> TRUE, src |-> h.src, dst |-> broadcast, srcPort |-> h.srcPort,
                               dstPort |-> h.dstPort, payload |-> p]
      /\ Uint16(v, 2) = Len(v)
  <2>1. PICK src, sp, dp : src = h.src /\ sp = h.srcPort /\ dp = h.dstPort
    OBVIOUS
  <2>2. /\ src \in [1 .. 4 -> Octets] /\ sp \in Nat /\ sp < Word /\ dp \in Nat /\ dp < Word
        /\ 28 + Len(p) < Word
    BY <1>1, <1>3, <2>1 DEF Relayable
  <2>3. v = BuildIPUDPPacket(src, broadcast, sp, dp, p)
    BY <1>0, <2>1
  <2>4. /\ ParseIPUDPPacket(v) = [ok |-> TRUE, src |-> src, dst |-> broadcast, srcPort |-> sp,
                                 dstPort |-> dp, payload |-> p]
        /\ Uint16(v, 2) = Len(v)
    BY <1>1, <2>2, <2>3, Parsed
  <2> QED
    BY <2>1, <2>4
<1>8. data \in Seq(Octets) /\ Len(data) = 18 + Len(p)
  BY <1>1, <1>4 DEF Relays
<1> QED
  BY <1>0, <1>5, <1>7, <1>8

\* Every header that is built verifies.
THEOREM AllVerify == HeadersVerify
<1> SUFFICES ASSUME NEW src \in Addresses, NEW dst \in Addresses, NEW n \in PayloadSizes
             PROVE  SumOfWords(Slice(BuildIPUDPPacket(src, dst, 1, 1, PayloadOf(n)), 0, 20))
                        % (Word - 1) = 0
  BY DEF HeadersVerify
<1>1. n \in Nat /\ 28 + n < Word /\ src \in [1 .. 4 -> Octets] /\ dst \in [1 .. 4 -> Octets]
  BY CodecAssumption
<1>2. 1 \in Nat /\ 1 < Word
  BY DEF Word
<1> QED
  BY <1>1, <1>2, PayloadBytes, Parsed

-----------------------------------------------------------------------------
\* A sequence cut in two and joined again.
LEMMA CutAndJoined ==
    ASSUME NEW S, NEW e \in Seq(S), NEW k \in Nat, k <= Len(e)
    PROVE  SubSeq(e, 1, k) \o SubSeq(e, k + 1, Len(e)) = e
<1>1. PICK n \in Nat : n = Len(e)
  BY LenProperties
<1>2. PICK a, b : a = SubSeq(e, 1, k) /\ b = SubSeq(e, k + 1, n)
  OBVIOUS
<1>3. a \in Seq(S) /\ Len(a) = k /\ \A i \in 1 .. k : a[i] = e[i]
  BY <1>1, <1>2, SubSeqProperties
<1>4. b \in Seq(S) /\ Len(b) = n - k /\ \A i \in 1 .. n - k : b[i] = e[k + i]
  BY <1>1, <1>2, SubSeqProperties
<1>5. /\ a \o b \in Seq(S) /\ Len(a \o b) = n
      /\ \A i \in 1 .. n : (a \o b)[i] = IF i <= k THEN a[i] ELSE b[i - k]
  BY <1>1, <1>3, <1>4, ConcatProperties
<1>6. ASSUME NEW i \in 1 .. n PROVE (a \o b)[i] = e[i]
  <2>1. CASE i <= k
    <3>1. i \in 1 .. k
      BY <2>1
    <3> QED
      BY <1>3, <1>5, <2>1, <3>1
  <2>2. CASE i > k
    <3>1. i - k \in 1 .. n - k /\ k + (i - k) = i
      BY <1>1, <2>2
    <3>2. b[i - k] = e[i]
      BY <1>4, <3>1
    <3>3. ~(i <= k)
      BY <1>1, <2>2
    <3> QED
      BY <1>5, <3>2, <3>3
  <2>3. i <= k \/ i > k
    BY <1>1
  <2> QED
    BY <2>1, <2>2, <2>3
<1>7. a \o b = e
  BY <1>1, <1>5, <1>6, SeqEqual
<1> QED
  BY <1>1, <1>2, <1>7

\* The payload of a frame that was sent as a relay packet is what was encoded.
LEMMA PayloadIsRead ==
    ASSUME NEW m \in PacketMsgs, Carried(m) \in Seq(Octets), Len(Carried(m)) \in Nat,
           Len(Carried(m)) >= 18
    PROVE  PayloadRead(Whole(m)) = Carried(m)
<1>1. m \in Msgs /\ Size[m] = 2
  BY PacketAssumption
<1>2. \A i \in 1 .. 2 : Whole(m)[i + 1] = DataByte(m, i)
  BY <1>1, PayloadType
<1>3. Whole(m)[2] = DataByte(m, 1) /\ Whole(m)[3] = DataByte(m, 2)
  <2>1. 1 \in 1 .. 2 /\ 2 \in 1 .. 2 /\ 1 + 1 = 2 /\ 2 + 1 = 3
    OBVIOUS
  <2> QED
    BY <1>2, <2>1
<1>4. PICK e : e = Carried(m)
  OBVIOUS
<1>5. Run(DataByte(m, 1)) = SubSeq(e, 1, 18) /\ Run(DataByte(m, 2)) = SubSeq(e, 18 + 1, Len(e))
  BY <1>4 DEF Run, DataByte, RelayHeaderSize
<1>6. SubSeq(e, 1, 18) \o SubSeq(e, 18 + 1, Len(e)) = e
  BY <1>4, CutAndJoined
<1> QED
  BY <1>3, <1>4, <1>5, <1>6 DEF PayloadRead

(* A frame that arrives as a relay packet decodes to what was captured,    *)
(* and what is built of it says the same, whatever was captured and        *)
(* wherever Writes fail, as long as no two frames are mixed                *)
(* (RelayedPackets, RelayedIntact).                                        *)
THEOREM ArriveIntact == Spec => []RelayedIntact
<1>1. TypeOK /\ FrameInv /\ SentWhole => RelayedIntact
  <2>a. SUFFICES ASSUME TypeOK, FrameInv, SentWhole, ~mixed,
                        NEW i \in DOMAIN received, NEW m \in PacketMsgs,
                        received[i][1] = TypeByte(m), NEW data, data = PayloadRead(received[i]),
                        NEW r, r = DecodeRelayPacket(data)
                 PROVE  /\ 1 + Len(data) <= MaxFrameSize
                        /\ r = [ok |-> TRUE, h |-> Captured[m].h, payload |-> Captured[m].payload]
                        /\ \A broadcast \in Addresses :
                              SaysCaptured(BuildIPUDPPacket(r.h.src, broadcast, r.h.srcPort,
                                                            r.h.dstPort, r.payload), m, broadcast)
    BY DEF RelayedIntact
  <2>1. ReadInOrder
    BY <2>a DEF FrameInv
  <2>2. received \in Seq(Seq(Byte)) /\ sent \in Seq(Seq(Byte))
    BY <2>a DEF TypeOK
  <2>3. i \in 1 .. Len(received) /\ Len(received) \in Nat /\ Len(sent) \in Nat
    BY <2>2, LenProperties
  <2>4. received[i] = sent[i] /\ i \in 1 .. Len(sent)
    BY <2>1, <2>3 DEF ReadInOrder
  <2>5. PICK k \in Msgs : received[i] = Whole(k)
    BY <2>a, <2>4 DEF SentWhole
  <2>6. k = m
    <3>1. Whole(k)[1] = TypeByte(k)
      BY PayloadType
    <3> QED
      BY <2>a, <2>5, <3>1 DEF TypeByte
  <2>7. PICK h, p : h = Captured[m].h /\ p = Captured[m].payload
    OBVIOUS
  <2>8. h \in Headers /\ p \in Seq(Octets) /\ Len(p) \in PayloadSizes
    BY <2>7, PacketAssumption
  <2>9. PICK e : e = EncodeRelayPacket(h, p) /\ e = Carried(m)
    BY <2>7 DEF Carried
  <2>10. e \in Seq(Octets) /\ Len(e) = 18 + Len(p) /\ Len(p) \in Nat /\ 28 + Len(p) < Word
    <3>2. h.src \in Addresses
      BY <2>8 DEF Headers
    <3>3. e \in Seq(Octets) /\ Len(e) = 18 + Len(p)
      BY <2>8, <2>9, <3>2, PacketSurvives
    <3> QED
      BY <2>8, <3>3, CodecAssumption
  <2>11. data = e
    <3>1. Len(e) \in Nat /\ Len(e) >= 18
      BY <2>10
    <3>2. PayloadRead(Whole(m)) = e
      BY <2>9, <2>10, <3>1, PayloadIsRead
    <3> QED
      BY <2>a, <2>5, <2>6, <3>2
  <2>12. 1 + Len(data) <= MaxFrameSize
    BY <2>10, <2>11 DEF MaxFrameSize, Word
  <2>13. ASSUME NEW broadcast \in Addresses
         PROVE  /\ r = [ok |-> TRUE, h |-> h, payload |-> p]
                /\ SaysCaptured(BuildIPUDPPacket(r.h.src, broadcast, r.h.srcPort,
                                                 r.h.dstPort, r.payload), m, broadcast)
    <3>1. PICK v : v = BuildIPUDPPacket(h.src, broadcast, h.srcPort, h.dstPort, p)
      OBVIOUS
    <3>2. /\ DecodeRelayPacket(e) = [ok |-> TRUE, h |-> h, payload |-> p]
          /\ ParseIPUDPPacket(v) = [ok |-> TRUE, src |-> h.src, dst |-> broadcast,
                                    srcPort |-> h.srcPort, dstPort |-> h.dstPort, payload |-> p]
          /\ Uint16(v, 2) = Len(v)
      BY <2>8, <2>9, <3>1, PacketSurvives
    <3>4. r = [ok |-> TRUE, h |-> h, payload |-> p]
      BY <2>a, <2>11, <3>2
    <3>3. /\ r.h.src = h.src /\ r.h.srcPort = h.srcPort /\ r.h.dstPort = h.dstPort
          /\ r.payload = p
      BY <3>4
    <3> QED
      BY <2>7, <3>1, <3>2, <3>3, <3>4 DEF SaysCaptured
  <2>14. h.src \in Addresses
    BY <2>8 DEF Headers
  <2> QED
    BY <2>7, <2>12, <2>13, <2>14
<1> QED
  BY <1>1, TypeCorrect, BytesInOrder, WritersInOrder, PTL

\* And the header it is sent with verifies.
THEOREM ArriveVerified == Spec => []HeaderVerifies
<1>1. HeaderVerifies
  BY AllVerify DEF HeaderVerifies
<1> QED
  BY <1>1, PTL
=============================================================================
