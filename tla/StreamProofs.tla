---------------------------- MODULE StreamProofs ----------------------------
(***************************************************************************)
(* TLAPS proofs about Stream: for every content, chunk size and number of  *)
(* attempts, dropped connections and failed writes, a committed copy is    *)
(* the source's content, only a failed write can lead to DATA_LOSS, and    *)
(* the frames of a reconnect are refused only after a lingering handler.   *)
(***************************************************************************)
EXTENDS Stream, SequenceTheorems, TLAPS

-----------------------------------------------------------------------------
\* Arithmetic of chunks.

LEMMA Multiple ==
  ASSUME NEW c \in Nat \ {0}, NEW a \in Nat, a % c = 0
  PROVE  \E k \in Nat : a = k * c
  BY SMT

LEMMA MultipleIs ==
  ASSUME NEW c \in Nat \ {0}, NEW k \in Nat
  PROVE  k * c \in Nat /\ (k * c) % c = 0
  BY SMT

LEMMA Larger ==
  ASSUME NEW c \in Nat \ {0}, NEW k \in Nat, NEW m \in Nat, k * c < m * c
  PROVE  k + 1 <= m /\ (k + 1) * c <= m * c
  BY SMT

\* The next place of a chunk.
LEMMA NextPlace ==
  ASSUME NEW c \in Nat \ {0}, NEW a \in Nat, a % c = 0
  PROVE  (a + c) % c = 0
<1>1. PICK k \in Nat : a = k * c
  BY Multiple
<1>2. a + c = (k + 1) * c /\ k + 1 \in Nat
  BY <1>1, SMT
<1>3. ((k + 1) * c) % c = 0
  BY <1>2, MultipleIs
<1>4. QED
  BY <1>2, <1>3

LEMMA PlacesApart ==
  ASSUME NEW c \in Nat \ {0}, NEW a \in Nat, NEW b \in Nat, a % c = 0, b % c = 0, a < b
  PROVE  a + c <= b
<1>1. PICK k \in Nat : a = k * c
  BY Multiple
<1>2. PICK m \in Nat : b = m * c
  BY Multiple
<1>3. (k + 1) * c <= m * c
  BY <1>1, <1>2, Larger
<1>4. (k + 1) * c = a + c
  BY <1>1, SMT
<1>5. QED
  BY <1>2, <1>3, <1>4

-----------------------------------------------------------------------------
\* Chunks and messages.

LEMMA SourceBytes ==
  ASSUME source \in Contents
  PROVE  /\ source \in Seq({0, 1}) /\ Size \in Nat /\ Chunk \in Nat /\ Chunk > 0
         /\ \A i \in 1..Size : source[i] \in {0, 1}
  BY StreamAssumption DEF Size

LEMMA ChunkBytes ==
  ASSUME source \in Contents, NEW o \in Places
  PROVE  /\ o \in Nat /\ o < Size /\ o % Chunk = 0
         /\ Len(ChunkAt(source, o)) \in 1..Chunk /\ o + Len(ChunkAt(source, o)) <= Size
         /\ Len(ChunkAt(source, o)) < Chunk => o + Len(ChunkAt(source, o)) = Size
         /\ o + Chunk < Size => Len(ChunkAt(source, o)) = Chunk
         /\ ChunkAt(source, o) \in Seq({0, 1})
         /\ \A i \in 1..Len(ChunkAt(source, o)) : ChunkAt(source, o)[i] = source[o + i]
<1>1. /\ o \in Nat /\ o < Size /\ o % Chunk = 0 /\ source \in Seq({0, 1}) /\ Size \in Nat
      /\ Chunk \in Nat /\ Chunk > 0
  BY SourceBytes DEF Places
<1>2. PICK h \in Nat : h = IF o + Chunk < Size THEN o + Chunk ELSE Size
  BY <1>1
<1>3. ChunkAt(source, o) = SubSeq(source, o + 1, h)
  BY <1>2 DEF ChunkAt, Size
<1>4. h \in o + 1..Size /\ h <= o + Chunk
  BY <1>1, <1>2
<1>5. /\ Len(SubSeq(source, o + 1, h)) = h - o
      /\ SubSeq(source, o + 1, h) \in Seq({0, 1})
      /\ \A i \in 1..h - o : SubSeq(source, o + 1, h)[i] = source[o + i]
  BY <1>1, <1>4 DEF Size
<1>6. QED
  BY <1>1, <1>2, <1>3, <1>4, <1>5

LEMMA MessageKinds ==
  ASSUME NEW m \in Messages
  PROVE  /\ m.kind \in {"header", "eof", "cut", "frame"}
         /\ m.kind = "header" <=> m = Header
         /\ m.kind = "eof" <=> m = EOF
         /\ m.kind = "cut" <=> m = Cut
         /\ m.kind = "frame" => m.offset \in Places /\ m.data = ChunkAt(source, m.offset)
  BY DEF Messages, Header, EOF, Cut, Frame

\* What a frame says of the source.
LEMMA FrameBytes ==
  ASSUME source \in Contents, NEW m \in Messages, m.kind = "frame"
  PROVE  /\ m.offset \in Nat /\ m.offset < Size /\ m.offset % Chunk = 0
         /\ Len(m.data) \in 1..Chunk /\ m.offset + Len(m.data) <= Size
         /\ Len(m.data) < Chunk => m.offset + Len(m.data) = Size
         /\ m.data \in Seq({0, 1}) /\ m.data = ChunkAt(source, m.offset)
         /\ \A i \in 1..Len(m.data) : m.data[i] = source[m.offset + i]
<1>1. m.offset \in Places /\ m.data = ChunkAt(source, m.offset)
  BY MessageKinds
<1>2. QED
  BY <1>1, ChunkBytes

-----------------------------------------------------------------------------
\* Effects on the streams, message by message.

Others(a) == \A b \in Attempts : b # a => pipe'[b] = pipe[b]
Shifted(a) ==
  /\ Len(pipe'[a]) = Len(pipe[a]) - 1 /\ Len(pipe[a]) > 0
  /\ \A n \in 1..Len(pipe'[a]) : pipe'[a][n] = pipe[a][n + 1]
Extended(a, m) ==
  /\ Len(pipe'[a]) = Len(pipe[a]) + 1 /\ pipe'[a][Len(pipe[a]) + 1] = m
  /\ \A n \in 1..Len(pipe[a]) : pipe'[a][n] = pipe[a][n]

LEMMA Pipes ==
  ASSUME pipe \in [Attempts -> Seq(Messages)], NEW a \in Attempts
  PROVE  /\ pipe[a] \in Seq(Messages) /\ Len(pipe[a]) \in Nat
         /\ pipe[a] # <<>> <=> Len(pipe[a]) > 0
         /\ \A n \in 1..Len(pipe[a]) : pipe[a][n] \in Messages
         /\ Received(a) <=> Len(pipe[a]) > 0
         /\ Received(a) => Message(a) = pipe[a][1] /\ pipe[a][1] \in Messages
         /\ Opens(a) <=> Len(pipe[a]) > 0 /\ pipe[a][1] = Header
<1>1. pipe[a] \in Seq(Messages) /\ Len(pipe[a]) \in Nat
  OBVIOUS
<1>2. pipe[a] # <<>> <=> Len(pipe[a]) > 0
  BY <1>1
<1>3. QED
  BY <1>1, <1>2 DEF Received, Message, Opens

LEMMA ConsumeEffect ==
  ASSUME pipe \in [Attempts -> Seq(Messages)], NEW a \in Attempts, Received(a), Consume(a)
  PROVE  pipe' \in [Attempts -> Seq(Messages)] /\ Others(a) /\ Shifted(a)
<1>1. pipe[a] \in Seq(Messages) /\ pipe[a] # <<>> /\ Len(pipe[a]) > 0
  BY Pipes
<1>2. /\ Tail(pipe[a]) \in Seq(Messages) /\ Len(Tail(pipe[a])) = Len(pipe[a]) - 1
      /\ \A n \in 1..Len(Tail(pipe[a])) : Tail(pipe[a])[n] = pipe[a][n + 1]
  BY <1>1
<1>3. pipe'[a] = Tail(pipe[a])
  BY DEF Consume
<1>4. QED
  BY <1>1, <1>2, <1>3 DEF Consume, Others, Shifted

LEMMA AppendEffect ==
  ASSUME pipe \in [Attempts -> Seq(Messages)], NEW a \in Attempts, NEW m \in Messages,
         pipe' = [pipe EXCEPT ![a] = Append(@, m)]
  PROVE  pipe' \in [Attempts -> Seq(Messages)] /\ Others(a) /\ Extended(a, m)
<1>1. pipe[a] \in Seq(Messages)
  OBVIOUS
<1>2. /\ Append(pipe[a], m) \in Seq(Messages) /\ Len(Append(pipe[a], m)) = Len(pipe[a]) + 1
      /\ Append(pipe[a], m)[Len(pipe[a]) + 1] = m
      /\ \A n \in 1..Len(pipe[a]) : Append(pipe[a], m)[n] = pipe[a][n]
  BY <1>1
<1>3. pipe'[a] = Append(pipe[a], m)
  OBVIOUS
<1>4. QED
  BY <1>1, <1>2, <1>3 DEF Others, Extended

LEMMA ClearEffect ==
  ASSUME pipe \in [Attempts -> Seq(Messages)], NEW a \in Attempts, pipe' = [pipe EXCEPT ![a] = <<>>]
  PROVE  pipe' \in [Attempts -> Seq(Messages)] /\ Others(a) /\ pipe'[a] = <<>> /\ Len(pipe'[a]) = 0
  BY DEF Others

\* A stream of one message.
LEMMA SingleEffect ==
  ASSUME pipe \in [Attempts -> Seq(Messages)], NEW a \in Attempts, NEW m \in Messages,
         pipe' = [pipe EXCEPT ![a] = <<m>>]
  PROVE  /\ pipe' \in [Attempts -> Seq(Messages)] /\ Others(a)
         /\ Len(pipe'[a]) = 1 /\ pipe'[a][1] = m
  BY DEF Others

\* A stream cut after n messages.
LEMMA CutEffect ==
  ASSUME pipe \in [Attempts -> Seq(Messages)], NEW a \in Attempts, NEW n \in 0..Len(pipe[a]),
         pipe' = [pipe EXCEPT ![a] = Append(SubSeq(@, 1, n), Cut)]
  PROVE  /\ pipe' \in [Attempts -> Seq(Messages)] /\ Others(a)
         /\ Len(pipe'[a]) = n + 1 /\ pipe'[a][n + 1] = Cut
         /\ \A j \in 1..n : pipe'[a][j] = pipe[a][j]
<1>1. pipe[a] \in Seq(Messages) /\ n \in Nat /\ Cut \in Messages /\ Len(pipe[a]) \in Nat
  BY DEF Messages
<1>2. PICK s \in Seq(Messages) : s = SubSeq(pipe[a], 1, n) /\ Len(s) = n
                                 /\ \A j \in 1..n : s[j] = pipe[a][j]
  <2>1. SubSeq(pipe[a], 1, n) \in Seq(Messages) /\ Len(SubSeq(pipe[a], 1, n)) = n
    BY <1>1
  <2>2. \A j \in 1..n : SubSeq(pipe[a], 1, n)[j] = pipe[a][j]
    BY <1>1
  <2>3. QED
    BY <2>1, <2>2
<1>3. /\ Append(s, Cut) \in Seq(Messages) /\ Len(Append(s, Cut)) = n + 1
      /\ Append(s, Cut)[n + 1] = Cut /\ \A j \in 1..n : Append(s, Cut)[j] = s[j]
  BY <1>1, <1>2
<1>4. pipe'[a] = Append(s, Cut)
  BY <1>2
<1>5. QED
  BY <1>1, <1>2, <1>3, <1>4 DEF Others

LEMMA AnswerEffect ==
  ASSUME TypeOK, NEW a \in Attempts, NEW r \in {"ok", "busy", "bad", "error"}, Answer(a, r)
  PROVE  /\ reply' \in [Attempts -> {"none", "ok", "busy", "bad", "error", "unavailable"}]
         /\ reply'[a] = IF reply[a] = "none" THEN r ELSE reply[a]
         /\ \A b \in Attempts : b # a => reply'[b] = reply[b]
  BY DEF TypeOK, Answer

-----------------------------------------------------------------------------
\* Types, and the shape of what is sent.

LEMMA SameSource ==
  ASSUME UNCHANGED source
  PROVE  Size' = Size /\ Places' = Places /\ Messages' = Messages
  BY DEF Size, Places, Messages, ChunkAt

LEMMA ShapeInit == Init => TypeOK /\ ShapeInv
<1>1. SUFFICES ASSUME Init PROVE TypeOK /\ ShapeInv
  OBVIOUS
<1>2. Size \in Nat /\ Chunk \in Nat /\ Chunk > 0 /\ 0 % Chunk = 0
  BY <1>1, SourceBytes, StreamAssumption, MultipleIs DEF Init
<1>3. TypeOK
  <2>1. device \in [1..Size -> {0, 1}] /\ reply \in [Attempts -> {"none"}] /\ attempt \in Attempts
    BY <1>1, <1>2, StreamAssumption DEF Init, Zeros, Attempts
  <2>2. lingered \in BOOLEAN
    BY <1>1, Zenon DEF Init
  <2>3. QED
    BY <1>1, <1>2, <2>1, <2>2, StreamAssumption DEF Init, TypeOK, PCs
<1>4. ShapeInv
  BY <1>1, <1>2 DEF Init, ShapeInv
<1>5. QED
  BY <1>3, <1>4

\* The sender.
LEMMA SenderShape ==
  ASSUME TypeOK, ShapeInv, Sender
  PROVE  TypeOK' /\ ShapeInv' /\ UNCHANGED <<source, target, faults, streaming, reply>>
<1>0. UNCHANGED <<source, device, digest, nextOffset, drops, writeErrors, lingered, streaming, reply>>
  BY DEF Sender, QueryTransfer, ReadChunk, CloseStream, ReadReply, CommitTransfer, target, faults
<1>1. /\ Size' = Size /\ Messages' = Messages /\ Size \in Nat /\ Chunk \in Nat \ {0}
      /\ Header \in Messages /\ EOF \in Messages /\ attempt \in Attempts
      /\ pipe \in [Attempts -> Seq(Messages)] /\ pos \in Nat /\ pos % Chunk = 0
  BY <1>0, SameSource, SourceBytes, StreamAssumption DEF Messages, TypeOK, ShapeInv
<1>2. CASE QueryTransfer
  <2>1. pipe' \in [Attempts -> Seq(Messages)]
    BY <1>1, <1>2, SingleEffect DEF QueryTransfer
  <2>2. 0 % Chunk = 0
    BY <1>1, MultipleIs
  <2>3. offset' = nextOffset /\ pos' = 0 /\ pc' \in PCs /\ attempt' = attempt
    BY <1>2 DEF QueryTransfer, PCs
  <2>4. TypeOK'
    BY <1>0, <1>1, <2>3 DEF TypeOK
  <2>5. ShapeInv'
    BY <1>0, <1>1, <2>1, <2>2, <2>3 DEF TypeOK, ShapeInv
  <2>6. QED
    BY <1>0, <2>4, <2>5 DEF target, faults
<1>3. CASE ReadChunk
  <2>1. pos < Size /\ pos \in Places /\ UNCHANGED <<pc, attempt, offset>> /\ pos' = pos + Chunk
    BY <1>1, <1>3 DEF ReadChunk, Places
  <2>2. Frame(pos, ChunkAt(source, pos)) \in Messages
    BY <2>1 DEF Messages
  <2>3. pipe' \in [Attempts -> Seq(Messages)]
    BY <1>1, <1>3, <2>2, AppendEffect DEF ReadChunk
  <2>4. pos' % Chunk = 0
    <3>1. (pos + Chunk) % Chunk = 0
      BY <1>1, NextPlace, Zenon
    <3>2. QED
      BY <1>1, <2>1, <3>1, Zenon
  <2>5. TypeOK'
    BY <1>0, <1>1, <2>1 DEF TypeOK
  <2>6. ShapeInv'
    <3>1. pos' \in Nat
      BY <1>1, <2>1
    <3>2. QED
      BY <1>0, <1>1, <2>1, <2>3, <2>4, <3>1 DEF ShapeInv
  <2>7. QED
    BY <1>0, <2>5, <2>6 DEF target, faults
<1>4. CASE CloseStream
  <2>1. pipe' \in [Attempts -> Seq(Messages)]
    BY <1>1, <1>4, AppendEffect DEF CloseStream
  <2>2. UNCHANGED <<attempt, offset, pos>> /\ pc' \in PCs
    BY <1>4 DEF CloseStream, PCs
  <2>3. QED
    BY <1>0, <1>1, <2>1, <2>2 DEF TypeOK, ShapeInv, target, faults
<1>5. CASE ReadReply \/ CommitTransfer
  <2>1. UNCHANGED <<pipe, offset, pos>> /\ pc' \in PCs
    BY <1>5 DEF ReadReply, CommitTransfer, RetryOrGiveUp, PCs
  <2>2. attempt' \in Attempts
    BY <1>1, <1>5, StreamAssumption DEF ReadReply, CommitTransfer, RetryOrGiveUp, Attempts
  <2>3. QED
    BY <1>0, <1>1, <2>1, <2>2 DEF TypeOK, ShapeInv, target, faults
<1>6. QED
  BY <1>2, <1>3, <1>4, <1>5 DEF Sender

\* The connection.
LEMMA DropShape ==
  ASSUME TypeOK, ShapeInv, Drop
  PROVE  /\ TypeOK' /\ ShapeInv' /\ Others(attempt) /\ attempt \in Attempts
         /\ UNCHANGED <<source, target, writeErrors, pc, attempt, offset, pos>>
         /\ reply[attempt] = "none" /\ reply'[attempt] = "unavailable"
         /\ \A b \in Attempts : b # attempt => reply'[b] = reply[b]
         /\ \E n \in 0..Len(pipe[attempt]) :
              /\ Len(pipe'[attempt]) = n + 1 /\ pipe'[attempt][n + 1] = Cut
              /\ \A j \in 1..n : pipe'[attempt][j] = pipe[attempt][j]
              /\ \/ n = 0 /\ streaming' \in {0, streaming} \ {attempt} /\ UNCHANGED lingered
                 \/ UNCHANGED streaming /\ lingered' = TRUE
<1>1. /\ UNCHANGED <<source, device, digest, nextOffset, writeErrors, pc, attempt, offset, pos>>
      /\ reply[attempt] = "none" /\ reply' = [reply EXCEPT ![attempt] = "unavailable"]
      /\ drops' = drops + 1 /\ drops < MaxDrops
  BY DEF Drop, target
<1>2. /\ Size' = Size /\ Messages' = Messages /\ Size \in Nat /\ attempt \in Attempts
      /\ pipe \in [Attempts -> Seq(Messages)] /\ Len(pipe[attempt]) \in Nat /\ Cut \in Messages
      /\ streaming \in 0..PushAttempts /\ attempt > 0
  <2>1. PushAttempts \in Nat
    BY StreamAssumption
  <2>2. attempt \in Attempts /\ attempt > 0 /\ streaming \in 0..PushAttempts
    BY <2>1 DEF TypeOK, Attempts
  <2>3. QED
    BY <1>1, <2>2, SameSource, SourceBytes DEF Messages, TypeOK, ShapeInv
<1>3. PICK n \in 0..Len(pipe[attempt]) :
        /\ pipe' \in [Attempts -> Seq(Messages)] /\ Others(attempt)
        /\ Len(pipe'[attempt]) = n + 1 /\ pipe'[attempt][n + 1] = Cut
        /\ \A j \in 1..n : pipe'[attempt][j] = pipe[attempt][j]
        /\ \/ n = 0 /\ streaming' \in {0, streaming} \ {attempt} /\ UNCHANGED lingered
           \/ UNCHANGED streaming /\ lingered' = TRUE
  <2>1. CASE /\ pipe' = [pipe EXCEPT ![attempt] = <<Cut>>] /\ UNCHANGED lingered
             /\ streaming' = IF streaming = attempt THEN 0 ELSE streaming
    <3>1. /\ pipe' \in [Attempts -> Seq(Messages)] /\ Others(attempt)
          /\ Len(pipe'[attempt]) = 1 /\ pipe'[attempt][1] = Cut
      BY <1>2, <2>1, SingleEffect
    <3>2. streaming' \in {0, streaming} \ {attempt}
      BY <1>2, <2>1
    <3>3. 0 \in 0..Len(pipe[attempt]) /\ 0 + 1 = 1 /\ \A j \in 1..0 : FALSE
      BY <1>2
    <3>4. QED
      BY <2>1, <3>1, <3>2, <3>3
  <2>2. ASSUME NEW n \in 0..Len(pipe[attempt]), lingered' = TRUE, UNCHANGED streaming,
               pipe' = [pipe EXCEPT ![attempt] = Append(SubSeq(@, 1, n), Cut)]
        PROVE  /\ pipe' \in [Attempts -> Seq(Messages)] /\ Others(attempt)
               /\ Len(pipe'[attempt]) = n + 1 /\ pipe'[attempt][n + 1] = Cut
               /\ \A j \in 1..n : pipe'[attempt][j] = pipe[attempt][j]
    BY <1>2, <2>2, CutEffect
  <2>3. QED
    BY <2>1, <2>2 DEF Drop
<1>4. /\ reply' \in [Attempts -> {"none", "ok", "busy", "bad", "error", "unavailable"}]
      /\ reply'[attempt] = "unavailable"
      /\ \A b \in Attempts : b # attempt => reply'[b] = reply[b]
  BY <1>1, <1>2 DEF TypeOK
<1>5. lingered' \in BOOLEAN
  BY <1>3, Zenon DEF TypeOK
<1>6. streaming' \in 0..PushAttempts
  BY <1>2, <1>3, StreamAssumption
<1>7. drops' \in 0..MaxDrops
  BY <1>1, StreamAssumption DEF TypeOK
<1>8. TypeOK'
  BY <1>1, <1>2, <1>4, <1>5, <1>6, <1>7 DEF TypeOK
<1>9. ShapeInv'
  BY <1>1, <1>2, <1>3 DEF ShapeInv
<1>10. QED
  BY <1>1, <1>2, <1>3, <1>4, <1>8, <1>9 DEF target

\* A frame at the head of a stream, accepted or not.
LEMMA HeadFrame ==
  ASSUME TypeOK, ShapeInv, NEW a \in Attempts, Received(a), Message(a).kind = "frame"
  PROVE  /\ Message(a) = pipe[a][1] /\ Len(pipe[a]) > 0 /\ Message(a) \in Messages
         /\ Message(a).offset \in Nat /\ Message(a).offset < Size /\ Message(a).offset % Chunk = 0
         /\ Len(Message(a).data) \in 1..Chunk /\ Message(a).offset + Len(Message(a).data) <= Size
         /\ Len(Message(a).data) < Chunk => Message(a).offset + Len(Message(a).data) = Size
         /\ Message(a).data \in Seq({0, 1}) /\ Message(a).data = ChunkAt(source, Message(a).offset)
         /\ \A i \in 1..Len(Message(a).data) :
              Message(a).data[i] = source[Message(a).offset + i]
<1>1. Message(a) = pipe[a][1] /\ Len(pipe[a]) > 0 /\ Message(a) \in Messages
  BY Pipes DEF ShapeInv
<1>2. QED
  BY <1>1, FrameBytes DEF TypeOK

LEMMA WrittenBytes ==
  ASSUME TypeOK, ShapeInv, NEW a \in Attempts, Received(a), Message(a).kind = "frame"
  PROVE  /\ Written(Message(a)) \in [1..Size -> {0, 1}]
         /\ \A i \in 1..Size : Written(Message(a))[i] = IF Covers(Message(a), i)
                                                        THEN source[i] ELSE device[i]
<1>1. PICK f : f = Message(a)
  OBVIOUS
<1>2. /\ f.kind = "frame" /\ f.offset \in Nat /\ Len(f.data) \in Nat
      /\ \A i \in 1..Len(f.data) : f.data[i] = source[f.offset + i]
      /\ Size \in Nat /\ \A i \in 1..Size : source[i] \in {0, 1}
      /\ device \in [1..Size -> {0, 1}]
  <2>1. /\ f.kind = "frame" /\ f.offset \in Nat /\ Len(f.data) \in 1..Chunk
        /\ \A i \in 1..Len(f.data) : f.data[i] = source[f.offset + i]
    BY <1>1, HeadFrame
  <2>2. Chunk \in Nat /\ Size \in Nat /\ \A i \in 1..Size : source[i] \in {0, 1}
    BY SourceBytes DEF TypeOK
  <2>3. QED
    BY <2>1, <2>2 DEF TypeOK
<1>3. ASSUME NEW i \in 1..Size
      PROVE  /\ Written(f)[i] = IF Covers(f, i) THEN source[i] ELSE device[i]
             /\ Written(f)[i] \in {0, 1}
  <2>1. CASE Covers(f, i)
    <3>1. i - f.offset \in 1..Len(f.data) /\ f.offset + (i - f.offset) = i
      BY <1>2, <2>1 DEF Covers
    <3>2. f.data[i - f.offset] = source[i]
      BY <1>2, <3>1
    <3>3. QED
      BY <1>2, <2>1, <3>2 DEF Written, Covers
  <2>2. CASE ~Covers(f, i)
    BY <1>2, <2>2 DEF Written, Covers
  <2>3. QED
    BY <2>1, <2>2
<1>4. Written(f) \in [1..Size -> {0, 1}]
  BY <1>3 DEF Written
<1>5. QED
  BY <1>1, <1>3, <1>4

\* An accepted frame moves the offset to its end.
LEMMA AcceptedFrame ==
  ASSUME TypeOK, ShapeInv, NEW a \in Attempts, Received(a), Message(a).kind = "frame",
         Valid(Message(a)), NEW n, n = Message(a).offset + Len(Message(a).data)
  PROVE  /\ n \in 0..Size /\ nextOffset < n /\ Message(a).offset < n /\ nextOffset <= Message(a).offset
         /\ n % Chunk = 0 \/ n = Size
<1>1. PICK o \in Nat, l \in Nat : /\ o = Message(a).offset /\ l = Len(Message(a).data) /\ n = o + l
                                  /\ l \in 1..Chunk /\ o + l <= Size /\ (l < Chunk => o + l = Size)
                                  /\ o % Chunk = 0
  <2>1. Chunk \in Nat
    BY StreamAssumption
  <2>2. QED
    BY <2>1, HeadFrame
<1>2. nextOffset <= o /\ nextOffset \in Nat /\ Size \in Nat /\ Chunk \in Nat \ {0}
  BY <1>1, SourceBytes, StreamAssumption DEF Valid, TypeOK
<1>3. n % Chunk = 0 \/ n = Size
  <2>1. (o + Chunk) % Chunk = 0
    BY <1>1, <1>2, NextPlace, Zenon
  <2>2. l = Chunk \/ n = Size
    BY <1>1, <1>2
  <2>3. QED
    BY <1>1, <2>1, <2>2, Zenon
<1>4. n \in 0..Size /\ nextOffset < n /\ o < n
  BY <1>1, <1>2
<1>5. QED
  BY <1>1, <1>2, <1>3, <1>4

\* The handlers.
LEMMA HandlerShape ==
  ASSUME TypeOK, ShapeInv, NEW a \in Attempts, Handler(a)
  PROVE  /\ TypeOK' /\ ShapeInv' /\ Others(a) /\ nextOffset <= nextOffset'
         /\ UNCHANGED <<source, pc, attempt, offset, pos, drops, lingered>>
         /\ \A b \in Attempts : b # a => reply'[b] = reply[b]
         /\ reply'[a] \in {reply[a], "ok", "busy", "bad", "error"}
         /\ reply[a] # "none" => reply'[a] = reply[a]
         /\ \A b \in Attempts : b # a /\ streaming' = b => streaming = b
<1> DEFINE Replies == {"none", "ok", "busy", "bad", "error", "unavailable"}
<1>1. /\ UNCHANGED <<source, pc, attempt, offset, pos, drops, lingered>>
      /\ \/ UNCHANGED writeErrors
         \/ writeErrors < MaxWriteErrors /\ writeErrors' = writeErrors + 1
  BY DEF Handler, Attach, WriteFrame, WriteFails, RefuseFrame, ReceiveEOF, Detach, faults
<1>2. /\ Size' = Size /\ Messages' = Messages /\ Size \in Nat /\ Chunk \in Nat \ {0}
      /\ pipe \in [Attempts -> Seq(Messages)] /\ reply \in [Attempts -> Replies]
      /\ PushAttempts \in Nat /\ nextOffset \in Nat
  BY <1>1, SameSource, SourceBytes, StreamAssumption DEF TypeOK, ShapeInv
<1>3. writeErrors' \in 0..MaxWriteErrors
  BY <1>1, StreamAssumption DEF TypeOK
<1>4. pipe' \in [Attempts -> Seq(Messages)] /\ Others(a)
  <2>1. CASE Consume(a) /\ Received(a)
    BY <1>2, <2>1, ConsumeEffect
  <2>2. CASE pipe' = [pipe EXCEPT ![a] = <<>>]
    BY <1>2, <2>2, ClearEffect
  <2>3. CASE UNCHANGED pipe
    BY <1>2, <2>3 DEF Others
  <2>4. QED
    BY <2>1, <2>2, <2>3 DEF Handler, Attach, WriteFrame, WriteFails, RefuseFrame, ReceiveEOF, Detach
<1>5. /\ reply' \in [Attempts -> Replies]
      /\ \A b \in Attempts : b # a => reply'[b] = reply[b]
      /\ reply'[a] \in {reply[a], "ok", "busy", "bad", "error"}
      /\ reply[a] # "none" => reply'[a] = reply[a]
  <2>1. ASSUME NEW r \in {"ok", "busy", "bad", "error"}, Answer(a, r)
        PROVE  /\ reply' \in [Attempts -> Replies]
               /\ \A b \in Attempts : b # a => reply'[b] = reply[b]
               /\ reply'[a] \in {reply[a], "ok", "busy", "bad", "error"}
               /\ reply[a] # "none" => reply'[a] = reply[a]
    BY <2>1, AnswerEffect
  <2>2. UNCHANGED reply \/ \E r \in {"ok", "busy", "bad", "error"} : Answer(a, r)
    BY DEF Handler, Attach, WriteFrame, WriteFails, RefuseFrame, ReceiveEOF, Detach
  <2>3. QED
    BY <1>2, <2>1, <2>2
<1>6. streaming' \in 0..PushAttempts /\ \A b \in Attempts : b # a /\ streaming' = b => streaming = b
  <2>1. streaming' \in {0, a, streaming}
    BY DEF Handler, Attach, WriteFrame, WriteFails, RefuseFrame, ReceiveEOF, Detach
  <2>2. QED
    BY <1>2, <2>1 DEF TypeOK, Attempts
<1>7. /\ nextOffset' \in 0..Size /\ nextOffset <= nextOffset'
      /\ nextOffset' % Chunk = 0 \/ nextOffset' = Size
  <2>1. CASE UNCHANGED nextOffset
    BY <1>2, <2>1 DEF TypeOK, ShapeInv
  <2>2. CASE WriteFrame(a)
    <3>1. PICK n : n = Message(a).offset + Len(Message(a).data)
      OBVIOUS
    <3>2. nextOffset' = n /\ n \in 0..Size /\ nextOffset < n /\ (n % Chunk = 0 \/ n = Size)
      BY <2>2, <3>1, AcceptedFrame DEF WriteFrame
    <3>3. nextOffset <= nextOffset'
      BY <1>2, <3>2
    <3>4. QED
      BY <3>2, <3>3, Zenon
  <2>3. QED
    BY <2>1, <2>2 DEF Handler, Attach, WriteFails, RefuseFrame, ReceiveEOF, Detach, target
<1>8. device' \in [1..Size -> {0, 1}]
  BY WrittenBytes DEF Handler, Attach, WriteFrame, WriteFails, RefuseFrame, ReceiveEOF, Detach, target,
     TypeOK
<1>9. TypeOK'
  BY <1>1, <1>2, <1>3, <1>5, <1>6, <1>7, <1>8 DEF TypeOK
<1>10. ShapeInv'
  <2>1. offset <= nextOffset'
    BY <1>2, <1>7 DEF ShapeInv, TypeOK
  <2>2. QED
    BY <1>1, <1>2, <1>4, <1>7, <2>1 DEF ShapeInv
<1>11. QED
  BY <1>1, <1>4, <1>5, <1>6, <1>7, <1>9, <1>10

-----------------------------------------------------------------------------
\* The order of the streams.

\* What a step of the sender does to its own stream.
LEMMA QueryEffect ==
  ASSUME TypeOK, ShapeInv, QueryTransfer
  PROVE  /\ pc = "query" /\ pc' = "send" /\ pos' = 0 /\ offset' = nextOffset /\ UNCHANGED attempt
         /\ Others(attempt) /\ Len(pipe'[attempt]) = 1 /\ pipe'[attempt][1] = Header
  BY SingleEffect DEF TypeOK, ShapeInv, Messages, QueryTransfer

LEMMA ChunkEffect ==
  ASSUME TypeOK, ShapeInv, ReadChunk
  PROVE  /\ pc = "send" /\ reply[attempt] = "none" /\ pos \in Places /\ pos' = pos + Chunk
         /\ UNCHANGED <<pc, attempt, offset>>
         /\ Frame(pos, ChunkAt(source, pos)) \in Messages
         /\ \/ /\ Transmits(pos, ChunkAt(source, pos))
               /\ Others(attempt) /\ Extended(attempt, Frame(pos, ChunkAt(source, pos)))
            \/ ~Transmits(pos, ChunkAt(source, pos)) /\ UNCHANGED pipe
<1>1. pos \in Places
  BY SourceBytes DEF TypeOK, ShapeInv, ReadChunk, Places
<1>2. Frame(pos, ChunkAt(source, pos)) \in Messages
  BY <1>1 DEF Messages
<1>3. \/ /\ Transmits(pos, ChunkAt(source, pos))
         /\ Others(attempt) /\ Extended(attempt, Frame(pos, ChunkAt(source, pos)))
      \/ ~Transmits(pos, ChunkAt(source, pos)) /\ UNCHANGED pipe
  BY <1>2, AppendEffect DEF TypeOK, ShapeInv, ReadChunk
<1>4. QED
  BY <1>1, <1>2, <1>3 DEF ReadChunk

LEMMA CloseEffect ==
  ASSUME TypeOK, ShapeInv, CloseStream
  PROVE  /\ pc = "send" /\ pc' = "close" /\ pos >= Size /\ UNCHANGED <<attempt, offset, pos>>
         /\ Others(attempt) /\ Extended(attempt, EOF)
  BY AppendEffect DEF TypeOK, ShapeInv, Messages, CloseStream

LEMMA ReplyEffect ==
  ASSUME TypeOK, ReadReply
  PROVE  /\ pc \in {"send", "close"} /\ UNCHANGED <<pipe, offset, pos>>
         /\ \/ pc' = "commit" /\ reply[attempt] = "ok" /\ UNCHANGED attempt
            \/ pc' = "giveup" /\ UNCHANGED attempt
            \/ /\ pc' = "query" /\ attempt' = attempt + 1 /\ attempt' \in Attempts
               /\ reply[attempt] \in {"busy", "error", "unavailable"}
<1>1. PushAttempts \in Nat /\ attempt \in 1..PushAttempts
  BY StreamAssumption DEF TypeOK, Attempts
<1>2. QED
  BY <1>1 DEF ReadReply, RetryOrGiveUp, Attempts

\* What a handler leaves of its stream: no header, and nothing new.
LEMMA HandlerLeaves ==
  ASSUME TypeOK, ShapeInv, OrderInv, NEW a \in Attempts, Handler(a)
  PROVE  /\ ~Fresh(a)
         /\ \A n \in 1..Len(pipe'[a]) :
              /\ pipe'[a][n] # Header
              /\ \E k \in 1..Len(pipe[a]) : pipe'[a][n] = pipe[a][k]
         /\ ~Opens(a)'
<1>1. /\ Len(pipe[a]) \in Nat /\ (pipe[a] # <<>> <=> Len(pipe[a]) > 0)
      /\ pipe' \in [Attempts -> Seq(Messages')]
  BY Pipes, HandlerShape DEF ShapeInv
<1>2. ~Fresh(a)
  BY DEF Handler, Attach, WriteFrame, WriteFails, RefuseFrame, ReceiveEOF, Detach, Received, Fresh
<1>3. \A n \in 1..Len(pipe'[a]) :
        /\ pipe'[a][n] # Header
        /\ \E k \in 1..Len(pipe[a]) : pipe'[a][n] = pipe[a][k]
  <2>1. CASE Consume(a) /\ Received(a)
    <3>1. Shifted(a)
      BY <2>1, ConsumeEffect DEF ShapeInv
    <3>2. SUFFICES ASSUME NEW n \in 1..Len(pipe'[a])
                   PROVE  /\ pipe'[a][n] # Header
                          /\ \E k \in 1..Len(pipe[a]) : pipe'[a][n] = pipe[a][k]
      OBVIOUS
    <3>3. pipe'[a][n] = pipe[a][n + 1] /\ n + 1 \in 1..Len(pipe[a]) /\ n + 1 # 1
      BY <1>1, <3>1, <3>2 DEF Shifted
    <3>4. QED
      BY <3>3 DEF OrderInv
  <2>2. CASE pipe' = [pipe EXCEPT ![a] = <<>>]
    BY <2>2, ClearEffect DEF ShapeInv
  <2>3. CASE UNCHANGED pipe /\ ~Received(a)
    <3>1. Len(pipe'[a]) = 0
      BY <1>1, <2>3 DEF Received
    <3>2. QED
      BY <3>1
  <2>4. QED
    BY <2>1, <2>2, <2>3 DEF Handler, Attach, WriteFrame, WriteFails, RefuseFrame, ReceiveEOF, Detach
<1>4. ~Opens(a)'
  <2>1. ASSUME Opens(a)' PROVE FALSE
    <3>1. pipe'[a] \in Seq(Messages') /\ pipe'[a] # <<>> /\ pipe'[a][1] = Header
      BY <1>1, <2>1 DEF Opens, Header
    <3>2. 1 \in 1..Len(pipe'[a])
      BY <3>1
    <3>3. QED
      BY <1>3, <3>1, <3>2
  <2>2. QED
    BY <2>1
<1>5. QED
  BY <1>2, <1>3, <1>4

\* A step about the latest stream leaves the later ones fresh.
LEMMA LaterFresh ==
  ASSUME TypeOK, OrderInv, Others(attempt), \A b \in Attempts : b # attempt => reply'[b] = reply[b],
         \A b \in Attempts : b # attempt /\ streaming' = b => streaming = b
  PROVE  \A a \in Attempts : a > attempt => Fresh(a)'
<1>1. SUFFICES ASSUME NEW a \in Attempts, a > attempt PROVE Fresh(a)'
  OBVIOUS
<1>2. a # attempt
  BY <1>1, StreamAssumption DEF TypeOK, Attempts
<1>3. pipe'[a] = pipe[a] /\ reply'[a] = reply[a] /\ (streaming' = a => streaming = a)
  BY <1>1, <1>2 DEF Others
<1>4. Fresh(a)
  BY <1>1 DEF OrderInv
<1>5. QED
  BY <1>3, <1>4 DEF Fresh

LEMMA OrderInit == Init => OrderInv
<1>1. SUFFICES ASSUME Init PROVE OrderInv
  OBVIOUS
<1>2. \A a \in Attempts : pipe[a] = <<>> /\ reply[a] = "none" /\ Len(pipe[a]) = 0 /\ streaming # a
  BY <1>1 DEF Init, Attempts
<1>3. pc = "query"
  BY <1>1 DEF Init
<1>4. QED
  BY <1>2, <1>3 DEF OrderInv, Fresh

LEMMA SenderOrder ==
  ASSUME TypeOK, ShapeInv, OrderInv, Sender
  PROVE  OrderInv'
<1>1. /\ UNCHANGED <<streaming, reply>> /\ attempt \in Attempts /\ attempt \in Nat
      /\ Len(pipe[attempt]) \in Nat
  BY SenderShape, Pipes, StreamAssumption DEF TypeOK, ShapeInv, Attempts
<1>2. CASE QueryTransfer
  <2>1. /\ Fresh(attempt) /\ pc' = "send" /\ UNCHANGED attempt /\ Others(attempt)
        /\ Len(pipe'[attempt]) = 1 /\ pipe'[attempt][1] = Header
    BY <1>1, <1>2, QueryEffect DEF OrderInv
  <2>2. \A a \in Attempts : a > attempt => Fresh(a)'
    BY <1>1, <2>1, LaterFresh
  <2>3. \A a \in Attempts : \A n \in 1..Len(pipe'[a]) : pipe'[a][n] = Header => n = 1 /\ streaming' # a
    BY <1>1, <2>1 DEF OrderInv, Fresh, Others
  <2>4. Header # EOF /\ reply'[attempt] = "none"
    BY <1>1, <2>1 DEF Header, EOF, Fresh
  <2>5. QED
    BY <2>1, <2>2, <2>3, <2>4 DEF OrderInv, Holds, Header
<1>3. CASE ReadChunk
  <2>1. /\ pc = "send" /\ reply[attempt] = "none" /\ UNCHANGED <<pc, attempt>> /\ Others(attempt)
        /\ UNCHANGED pipe \/ Extended(attempt, Frame(pos, ChunkAt(source, pos)))
    BY <1>3, ChunkEffect DEF Others
  <2>2. \A a \in Attempts : a > attempt => Fresh(a)'
    BY <1>1, <2>1, LaterFresh
  <2>3. Frame(pos, ChunkAt(source, pos)) # Header /\ Frame(pos, ChunkAt(source, pos)) # EOF
    BY DEF Frame, Header, EOF
  <2>4. \A n \in 1..Len(pipe'[attempt]) :
           \/ n \in 1..Len(pipe[attempt]) /\ pipe'[attempt][n] = pipe[attempt][n]
           \/ pipe'[attempt][n] = Frame(pos, ChunkAt(source, pos))
    BY <1>1, <2>1 DEF Extended
  <2>5. \A a \in Attempts : \A n \in 1..Len(pipe'[a]) : pipe'[a][n] = Header => n = 1 /\ streaming' # a
    BY <1>1, <2>1, <2>3, <2>4 DEF OrderInv, Others
  <2>6. \A n \in 1..Len(pipe'[attempt]) : pipe'[attempt][n] # EOF
    BY <2>1, <2>3, <2>4 DEF OrderInv, Holds
  <2>7. QED
    BY <1>1, <2>1, <2>2, <2>5, <2>6 DEF OrderInv, Holds, Header, EOF
<1>4. CASE CloseStream
  <2>1. /\ pc' = "close" /\ UNCHANGED attempt /\ Others(attempt) /\ Extended(attempt, EOF)
    BY <1>4, CloseEffect
  <2>2. \A a \in Attempts : a > attempt => Fresh(a)'
    BY <1>1, <2>1, LaterFresh
  <2>3. Header # EOF
    BY DEF Header, EOF
  <2>4. \A a \in Attempts : \A n \in 1..Len(pipe'[a]) : pipe'[a][n] = Header => n = 1 /\ streaming' # a
    <3>1. \A n \in 1..Len(pipe'[attempt]) : pipe'[attempt][n] # EOF =>
            n \in 1..Len(pipe[attempt]) /\ pipe'[attempt][n] = pipe[attempt][n]
      BY <1>1, <2>1 DEF Extended
    <3>2. \A a \in Attempts : \A n \in 1..Len(pipe'[a]) : pipe'[a][n] = Header =>
            n \in 1..Len(pipe[a]) /\ pipe[a][n] = Header
      BY <2>1, <2>3, <3>1 DEF Others
    <3>3. QED
      BY <1>1, <3>2 DEF OrderInv
  <2>5. QED
    BY <2>1, <2>2, <2>4 DEF OrderInv, Header
<1>5. CASE ReadReply
  <2>1. /\ UNCHANGED pipe /\ pc' \in {"commit", "giveup", "query"}
        /\ attempt' \in {attempt, attempt + 1} /\ (pc' = "query" => attempt' = attempt + 1)
    BY <1>5, ReplyEffect
  <2>2. \A a \in Attempts : Fresh(a)' <=> Fresh(a)
    BY <1>1, <2>1 DEF Fresh
  <2>3. \A a \in Attempts : a \in Nat
    BY StreamAssumption DEF Attempts
  <2>4. \A a \in Attempts : a > attempt' \/ (a = attempt' /\ pc' = "query") => Fresh(a)'
    <3>1. \A a \in Attempts : a > attempt => Fresh(a)
      BY DEF OrderInv
    <3>2. \A a \in Attempts : a > attempt' \/ (a = attempt' /\ pc' = "query") => a > attempt \/ a > attempt'
      BY <1>1, <2>1, <2>3
    <3>3. \A a \in Attempts : a > attempt' => a > attempt
      BY <1>1, <2>1, <2>3
    <3>4. QED
      BY <2>2, <3>1, <3>2, <3>3
  <2>5. QED
    BY <1>1, <2>1, <2>4 DEF OrderInv, Header
<1>6. CASE CommitTransfer
  <2>1. UNCHANGED <<pipe, attempt>> /\ pc' \in {"done", "dataloss"} /\ pc = "commit"
    BY <1>6 DEF CommitTransfer
  <2>2. QED
    BY <1>1, <2>1 DEF OrderInv, Fresh, Header
<1>7. QED
  BY <1>2, <1>3, <1>4, <1>5, <1>6 DEF Sender

LEMMA DropOrder ==
  ASSUME TypeOK, ShapeInv, OrderInv, Drop
  PROVE  OrderInv'
<1>1. PICK n \in 0..Len(pipe[attempt]) :
        /\ Len(pipe'[attempt]) = n + 1 /\ pipe'[attempt][n + 1] = Cut
        /\ \A j \in 1..n : pipe'[attempt][j] = pipe[attempt][j]
        /\ streaming' \in {0, streaming}
  BY DropShape
<1>2. /\ Others(attempt) /\ attempt \in Attempts /\ attempt \in Nat /\ UNCHANGED <<pc, attempt>>
      /\ reply'[attempt] = "unavailable" /\ \A b \in Attempts : b # attempt => reply'[b] = reply[b]
      /\ Len(pipe[attempt]) \in Nat /\ pc \in {"send", "close"}
  <2>1. attempt \in Attempts /\ attempt \in Nat
    BY StreamAssumption DEF TypeOK, Attempts
  <2>2. Len(pipe[attempt]) \in Nat
    BY <2>1, Pipes DEF ShapeInv
  <2>3. pc \in {"send", "close"}
    BY DEF Drop
  <2>4. QED
    BY <2>1, <2>2, <2>3, DropShape
<1>3. \A a \in Attempts : a \in Nat /\ a # 0
  BY StreamAssumption DEF Attempts
<1>4. \A a \in Attempts : a > attempt => Fresh(a)'
  BY <1>1, <1>2, <1>3, LaterFresh
<1>5. Cut # Header /\ Cut # EOF
  BY DEF Cut, Header, EOF
<1>6. \A a \in Attempts : \A j \in 1..Len(pipe'[a]) : pipe'[a][j] = Header => j = 1 /\ streaming' # a
  <2>1. \A j \in 1..Len(pipe'[attempt]) : pipe'[attempt][j] # Cut =>
          j \in 1..Len(pipe[attempt]) /\ pipe'[attempt][j] = pipe[attempt][j]
    BY <1>1, <1>2
  <2>2. \A a \in Attempts : streaming' = a => streaming = a
    BY <1>1, <1>3
  <2>3. \A a \in Attempts : \A j \in 1..Len(pipe'[a]) : pipe'[a][j] = Header =>
          j \in 1..Len(pipe[a]) /\ pipe[a][j] = Header
    BY <1>2, <1>5, <2>1 DEF Others
  <2>4. QED
    BY <2>2, <2>3 DEF OrderInv
<1>7. pc = "send" => \A j \in 1..Len(pipe'[attempt]) : pipe'[attempt][j] # EOF
  BY <1>1, <1>2, <1>5 DEF OrderInv, Holds
<1>8. \E j \in 1..Len(pipe'[attempt]) : pipe'[attempt][j] = Cut
  BY <1>1, <1>2
<1>9. QED
  BY <1>2, <1>4, <1>6, <1>7, <1>8 DEF OrderInv, Holds, Header, EOF, Cut

\* A cut stays in the stream until a handler reaches it.
LEMMA CutKept ==
  ASSUME TypeOK, ShapeInv, NEW a \in Attempts, Received(a), Message(a) # Cut, Consume(a), Holds(a, Cut)
  PROVE  Holds(a, Cut)'
<1>1. PICK k \in 1..Len(pipe[a]) : pipe[a][k] = Cut
  BY DEF Holds
<1>2. Shifted(a) /\ Len(pipe[a]) \in Nat /\ Message(a) = pipe[a][1]
  BY ConsumeEffect, Pipes DEF ShapeInv
<1>3. k - 1 \in 1..Len(pipe'[a]) /\ pipe'[a][k - 1] = Cut
  <2>1. k # 1
    BY <1>1, <1>2
  <2>2. k - 1 \in 1..Len(pipe'[a]) /\ (k - 1) + 1 = k
    BY <1>1, <1>2, <2>1 DEF Shifted
  <2>3. QED
    BY <1>1, <1>2, <2>2 DEF Shifted
<1>4. QED
  BY <1>3 DEF Holds, Cut

LEMMA HandlerOrder ==
  ASSUME TypeOK, ShapeInv, OrderInv, NEW a \in Attempts, Handler(a)
  PROVE  OrderInv'
<1>1. /\ Others(a) /\ UNCHANGED <<pc, attempt>>
      /\ \A b \in Attempts : b # a => reply'[b] = reply[b] /\ (streaming' = b => streaming = b)
      /\ reply[a] # "none" => reply'[a] = reply[a]
      /\ reply'[a] \in {reply[a], "ok", "busy", "bad", "error"}
  BY HandlerShape
<1>2. /\ ~Fresh(a) /\ ~Opens(a)'
      /\ \A n \in 1..Len(pipe'[a]) :
           pipe'[a][n] # Header /\ \E k \in 1..Len(pipe[a]) : pipe'[a][n] = pipe[a][k]
  BY HandlerLeaves
<1>3. \A b \in Attempts : Fresh(b) => Fresh(b)'
  BY <1>1, <1>2 DEF Fresh, Others
<1>4. \A b \in Attempts : b > attempt' \/ (b = attempt' /\ pc' = "query") => Fresh(b)'
  BY <1>1, <1>3 DEF OrderInv
<1>5. \A b \in Attempts : \A n \in 1..Len(pipe'[b]) : pipe'[b][n] = Header => n = 1 /\ streaming' # b
  BY <1>1, <1>2 DEF OrderInv, Others
<1>6. ASSUME pc = "send"
      PROVE  /\ reply'[attempt] # "ok" /\ ~Holds(attempt, EOF)'
             /\ reply'[attempt] # "none" => ~Live(attempt)' \/ Holds(attempt, Cut)'
  <2>1. attempt \in Attempts /\ UNCHANGED attempt /\ EOF' = EOF /\ Cut' = Cut /\ Header' = Header
    BY <1>1 DEF TypeOK, EOF, Cut, Header
  <2>2. CASE a # attempt
    <3>1. pipe'[attempt] = pipe[attempt] /\ reply'[attempt] = reply[attempt]
      BY <1>1, <2>1, <2>2 DEF Others
    <3>2. Live(attempt)' => Live(attempt)
      BY <1>1, <2>1, <2>2, <3>1 DEF Live, Opens
    <3>3. /\ Holds(attempt, EOF)' <=> Holds(attempt, EOF)
          /\ Holds(attempt, Cut)' <=> Holds(attempt, Cut)
      BY <2>1, <3>1 DEF Holds
    <3>4. QED
      BY <1>6, <3>1, <3>2, <3>3 DEF OrderInv
  <2>3. CASE a = attempt
    <3>1. reply[a] # "ok" /\ ~Holds(a, EOF) /\ (reply[a] # "none" => ~Live(a) \/ Holds(a, Cut))
      BY <1>6, <2>3 DEF OrderInv
    <3>2. ~Holds(a, EOF)'
      BY <1>2, <2>1, <3>1 DEF Holds
    <3>3. reply'[a] # "ok" /\ (reply'[a] # "none" => ~Live(a)' \/ Holds(a, Cut)')
      <4>1. CASE streaming' # a /\ reply'[a] # "ok"
        BY <1>2, <4>1 DEF Live
      <4>2. CASE Attach(a)
        <5>1. Opens(a) /\ streaming # a
          BY <4>2, Pipes DEF Attach, OrderInv, ShapeInv
        <5>2. CASE UNCHANGED reply
          <6>1. reply[a] # "none" => Holds(a, Cut)'
            BY <3>1, <4>2, <5>1, CutKept DEF Attach, Live, Header, Cut
          <6>2. QED
            BY <3>1, <5>2, <6>1
        <5>3. CASE UNCHANGED streaming /\ Answer(a, "busy")
          BY <3>1, <4>1, <5>1, <5>3, AnswerEffect
        <5>4. QED
          BY <4>2, <5>2, <5>3 DEF Attach
      <4>3. CASE WriteFrame(a)
        <5>1. reply[a] # "none" => Holds(a, Cut)'
          BY <3>1, <4>3, CutKept DEF WriteFrame, Live, Cut
        <5>2. QED
          BY <3>1, <4>3, <5>1 DEF WriteFrame
      <4>4. CASE WriteFails(a) \/ RefuseFrame(a)
        <5>1. streaming' # a
          BY <4>4, StreamAssumption DEF WriteFails, RefuseFrame, Attempts
        <5>2. QED
          BY <3>1, <4>1, <4>4, <5>1, AnswerEffect DEF WriteFails, RefuseFrame
      <4>5. CASE ReceiveEOF(a)
        <5>1. Len(pipe[a]) \in Nat /\ Len(pipe[a]) > 0 /\ pipe[a][1] = EOF
          BY <4>5, Pipes DEF ReceiveEOF, ShapeInv
        <5>2. QED
          BY <3>1, <5>1 DEF Holds
      <4>6. CASE Detach(a)
        BY <3>1, <4>1, <4>6, StreamAssumption DEF Detach, Attempts
      <4>7. QED
        BY <4>2, <4>3, <4>4, <4>5, <4>6 DEF Handler
    <3>4. attempt' = a
      BY <2>1, <2>3
    <3>5. QED
      BY <2>3, <3>2, <3>3, <3>4 DEF Holds, Live, Opens
  <2>4. QED
    BY <2>2, <2>3
<1>7. QED
  BY <1>1, <1>4, <1>5, <1>6 DEF OrderInv, Header, EOF, Cut, Holds, Live, Opens

-----------------------------------------------------------------------------
\* What the streams carry.

LEMMA CarriesLater ==
  ASSUME TypeOK, NEW s, NEW n, NEW lo \in Nat, NEW lo2 \in Nat, lo <= lo2, NEW hi,
         Carries(s, n, lo, hi)
  PROVE  Carries(s, n, lo2, hi)
<1>1. Size \in Nat
  BY SourceBytes DEF TypeOK
<1>2. \A i \in 1..Size : lo2 < i => lo < i
  BY <1>1
<1>3. QED
  BY <1>2 DEF Carries

LEMMA CompleteLater ==
  ASSUME TypeOK, NEW s, NEW lo \in Nat, NEW lo2 \in Nat, lo <= lo2, Complete(s, lo)
  PROVE  Complete(s, lo2)
  BY CarriesLater DEF Complete

\* The first n messages of s, then one more.
LEMMA CompletePrefix ==
  ASSUME TypeOK, NEW s \in Seq(Messages), NEW t \in Seq(Messages), NEW lo \in Nat, Complete(s, lo),
         NEW n \in 0..Len(s), Len(t) = n + 1, \A j \in 1..n : t[j] = s[j],
         (\A j \in 1..n : s[j] # Cut) => Carries(s, n, lo, Reach(t[n + 1]))
  PROVE  Complete(t, lo)
<1>1. SUFFICES ASSUME NEW k \in 1..Len(t), \A j \in 1..k - 1 : t[j] # Cut
               PROVE  Carries(t, k - 1, lo, Reach(t[k]))
  BY DEF Complete
<1>2. Len(s) \in Nat /\ n \in Nat /\ k \in Nat /\ k <= n + 1 /\ 1..k - 1 \subseteq 1..n
  OBVIOUS
<1>3. \A j \in 1..k - 1 : t[j] = s[j] /\ s[j] # Cut
  BY <1>1, <1>2
<1>4. Carries(s, k - 1, lo, Reach(t[k]))
  <2>1. CASE k = n + 1
    <3>1. k - 1 = n
      BY <1>2, <2>1
    <3>2. QED
      BY <1>3, <2>1, <3>1
  <2>2. CASE k # n + 1
    <3>1. k \in 1..Len(s) /\ t[k] = s[k]
      BY <1>1, <1>2, <2>2
    <3>2. QED
      BY <1>3, <3>1 DEF Complete
  <2>3. QED
    BY <2>1, <2>2
<1>5. QED
  BY <1>3, <1>4 DEF Carries

LEMMA CompleteAppend ==
  ASSUME TypeOK, NEW s \in Seq(Messages), NEW t \in Seq(Messages), NEW lo \in Nat, Complete(s, lo),
         NEW m, Len(t) = Len(s) + 1, t[Len(s) + 1] = m, \A j \in 1..Len(s) : t[j] = s[j],
         (\A j \in 1..Len(s) : s[j] # Cut) => Carries(s, Len(s), lo, Reach(m))
  PROVE  Complete(t, lo)
<1>1. Len(s) \in 0..Len(s)
  OBVIOUS
<1>2. QED
  BY <1>1, CompletePrefix

\* All but the first message of s, once the first is behind the offset.
LEMMA CarriesTail ==
  ASSUME TypeOK, NEW s \in Seq(Messages), NEW t, NEW lo \in Nat, NEW lo2 \in Nat, lo <= lo2,
         NEW n \in Nat, NEW hi, \A j \in 1..n : t[j] = s[j + 1],
         \A i \in 1..Size : Covers(s[1], i) => i <= lo2, Carries(s, n + 1, lo, hi)
  PROVE  Carries(t, n, lo2, hi)
<1>1. SUFFICES ASSUME NEW i \in 1..Size, lo2 < i, i <= hi, source[i] # 0
               PROVE  \E j \in 1..n : Covers(t[j], i)
  BY DEF Carries
<1>2. i \in Nat /\ lo < i
  BY <1>1, SourceBytes DEF TypeOK
<1>3. PICK k \in 1..n + 1 : Covers(s[k], i)
  BY <1>1, <1>2 DEF Carries
<1>4. k # 1
  BY <1>1, <1>2, <1>3
<1>5. k - 1 \in 1..n /\ (k - 1) + 1 = k
  BY <1>3, <1>4
<1>6. t[k - 1] = s[k]
  BY <1>5
<1>7. QED
  BY <1>3, <1>5, <1>6

LEMMA CompleteTail ==
  ASSUME TypeOK, NEW s \in Seq(Messages), NEW t \in Seq(Messages), NEW lo \in Nat, NEW lo2 \in Nat,
         lo <= lo2, Complete(s, lo), Len(s) > 0, Len(t) = Len(s) - 1, s[1] # Cut,
         \A j \in 1..Len(t) : t[j] = s[j + 1], \A i \in 1..Size : Covers(s[1], i) => i <= lo2
  PROVE  Complete(t, lo2)
<1>1. SUFFICES ASSUME NEW k \in 1..Len(t), \A j \in 1..k - 1 : t[j] # Cut
               PROVE  Carries(t, k - 1, lo2, Reach(t[k]))
  BY DEF Complete
<1>2. /\ Len(s) \in Nat /\ k \in Nat /\ k + 1 \in 1..Len(s) /\ k - 1 \in Nat /\ (k - 1) + 1 = k
      /\ (k + 1) - 1 = k
  OBVIOUS
<1>3. t[k] = s[k + 1] /\ \A j \in 1..k - 1 : t[j] = s[j + 1]
  BY <1>1, <1>2
<1>4. \A j \in 1..(k + 1) - 1 : s[j] # Cut
  <2>1. SUFFICES ASSUME NEW j \in 1..k, j # 1 PROVE s[j] # Cut
    BY <1>2
  <2>2. j - 1 \in 1..k - 1 /\ (j - 1) + 1 = j
    BY <1>2, <2>1
  <2>3. QED
    BY <1>1, <1>3, <2>2
<1>5. Carries(s, (k + 1) - 1, lo, Reach(s[k + 1]))
  BY <1>2, <1>4 DEF Complete
<1>6. Carries(s, (k - 1) + 1, lo, Reach(t[k]))
  BY <1>2, <1>3, <1>5
<1>7. QED
  BY <1>2, <1>3, <1>6, CarriesTail

LEMMA CarriedNow ==
  ASSUME UNCHANGED source,
         \A a \in Attempts : Live(a)' => Complete(pipe'[a], nextOffset'),
         pc' = "send" /\ reply'[attempt'] = "none" =>
           Carries(pipe'[attempt'], Len(pipe'[attempt']), nextOffset', pos'),
         pc' \in {"commit", "done", "dataloss"} \/ (\E a \in Attempts : reply'[a] = "ok") =>
           OnlyZerosAfter(nextOffset')
  PROVE  CarriedInv'
<1>1. \A a \in Attempts : Live(a)' => Complete(pipe[a], nextOffset)'
  BY DEF Complete, Carries, Reach, Size, Covers, Cut
<1>2. (pc = "send" /\ reply[attempt] = "none" =>
           Carries(pipe[attempt], Len(pipe[attempt]), nextOffset, pos))'
  BY DEF Carries, Size, Covers
<1>3. OnlyZerosAfter(nextOffset') => OnlyZerosAfter(nextOffset)'
  BY DEF OnlyZerosAfter, Size
<1>4. QED
  BY <1>1, <1>2, <1>3 DEF CarriedInv

\* A message that covers nothing.
LEMMA Bare ==
  ASSUME NEW m \in {Header, EOF, Cut}, NEW i
  PROVE  ~Covers(m, i) /\ (m # EOF => Reach(m) = 0) /\ (m = EOF => Reach(m) = Size)
  BY DEF Covers, Reach, Header, EOF, Cut

LEMMA NothingTo ==
  ASSUME TypeOK, NEW s, NEW n, NEW lo
  PROVE  Carries(s, n, lo, 0)
  BY SourceBytes DEF Carries, TypeOK

LEMMA CarriedInit == ASSUME TypeOK, Init PROVE CarriedInv
<1>1. \A a \in Attempts : pipe[a] = <<>> /\ reply[a] = "none" /\ streaming # a
  BY DEF Init, Attempts
<1>2. pc = "query"
  BY DEF Init
<1>3. QED
  BY <1>1, <1>2 DEF CarriedInv, Live, Opens

\* ReadDevice sends what is not zero from the queried offset on.
LEMMA ChunkCarried ==
  ASSUME TypeOK, ShapeInv, CarriedInv, ReadChunk
  PROVE  Carries(pipe'[attempt], Len(pipe'[attempt]), nextOffset, pos')
<1>1. PICK m : m = Frame(pos, ChunkAt(source, pos))
  OBVIOUS
<1>2. /\ pc = "send" /\ reply[attempt] = "none" /\ pos \in Places /\ pos' = pos + Chunk
      /\ \/ Transmits(pos, ChunkAt(source, pos)) /\ Extended(attempt, m)
         \/ ~Transmits(pos, ChunkAt(source, pos)) /\ UNCHANGED pipe
  BY <1>1, ChunkEffect
<1>3. /\ pos \in Nat /\ pos < Size /\ pos % Chunk = 0 /\ Size \in Nat /\ Chunk \in Nat \ {0}
      /\ Len(ChunkAt(source, pos)) \in Nat
      /\ Len(ChunkAt(source, pos)) < Chunk => pos + Len(ChunkAt(source, pos)) = Size
      /\ \A i \in 1..Len(ChunkAt(source, pos)) : ChunkAt(source, pos)[i] = source[pos + i]
      /\ ChunkAt(source, pos) \in Seq({0, 1})
      /\ nextOffset \in Nat /\ offset \in Nat /\ attempt \in Attempts /\ offset <= nextOffset
  <2>1. Size \in Nat /\ Chunk \in Nat \ {0} /\ attempt \in Attempts
    BY SourceBytes, StreamAssumption DEF TypeOK
  <2>2. nextOffset \in Nat /\ offset \in Nat /\ offset <= nextOffset
    BY <2>1 DEF TypeOK, ShapeInv
  <2>3. Len(ChunkAt(source, pos)) \in 1..Chunk
    BY <1>2, ChunkBytes DEF TypeOK
  <2>4. /\ pos \in Nat /\ pos < Size /\ pos % Chunk = 0
        /\ Len(ChunkAt(source, pos)) < Chunk => pos + Len(ChunkAt(source, pos)) = Size
        /\ \A i \in 1..Len(ChunkAt(source, pos)) : ChunkAt(source, pos)[i] = source[pos + i]
        /\ ChunkAt(source, pos) \in Seq({0, 1})
    BY <1>2, ChunkBytes DEF TypeOK
  <2>5. Len(ChunkAt(source, pos)) \in Nat
    BY <2>1, <2>3
  <2>6. QED
    BY <2>1, <2>2, <2>4, <2>5
<1>4. Carries(pipe[attempt], Len(pipe[attempt]), nextOffset, pos) /\ Len(pipe[attempt]) \in Nat
  BY <1>2, <1>3, Pipes DEF CarriedInv, ShapeInv
<1>5. SUFFICES ASSUME NEW i \in 1..Size, nextOffset < i, i <= pos + Chunk, source[i] # 0
               PROVE  \E j \in 1..Len(pipe'[attempt]) : Covers(pipe'[attempt][j], i)
  BY <1>2 DEF Carries
<1>6. CASE i <= pos
  <2>1. PICK j \in 1..Len(pipe[attempt]) : Covers(pipe[attempt][j], i)
    BY <1>4, <1>5, <1>6 DEF Carries
  <2>2. j \in 1..Len(pipe'[attempt]) /\ pipe'[attempt][j] = pipe[attempt][j]
    BY <1>2, <1>4, <2>1 DEF Extended
  <2>3. QED
    BY <2>1, <2>2
<1>7. CASE ~(i <= pos)
  <2>1. i \in Nat /\ pos < i /\ i - pos \in 1..Len(ChunkAt(source, pos)) /\ pos + (i - pos) = i
    BY <1>3, <1>5, <1>7
  <2>2. ~IsZero(ChunkAt(source, pos))
    <3>1. ChunkAt(source, pos)[i - pos] = source[i]
      BY <1>3, <2>1
    <3>2. i - pos \in DOMAIN ChunkAt(source, pos)
      BY <1>3, <2>1
    <3>3. QED
      BY <1>5, <3>1, <3>2 DEF IsZero
  <2>3. pos >= offset
    <3>1. SUFFICES ASSUME pos < offset PROVE FALSE
      BY <1>3
    <3>2. CASE offset = Size
      BY <1>3, <1>5, <3>2
    <3>3. CASE offset % Chunk = 0
      <4>1. pos + Chunk <= offset
        BY <1>3, <3>1, <3>3, PlacesApart
      <4>2. QED
        BY <1>3, <1>5, <4>1
    <3>4. QED
      BY <3>2, <3>3 DEF ShapeInv
  <2>4. Extended(attempt, m)
    BY <1>2, <2>2, <2>3 DEF Transmits
  <2>5. Covers(m, i)
    BY <1>1, <1>3, <2>1 DEF Covers, Frame
  <2>6. QED
    BY <1>4, <2>4, <2>5 DEF Extended
<1>8. QED
  BY <1>6, <1>7

LEMMA SenderCarried ==
  ASSUME TypeOK, ShapeInv, OrderInv, CarriedInv, Sender
  PROVE  CarriedInv'
<1>1. /\ UNCHANGED <<source, nextOffset, streaming, reply>> /\ attempt \in Attempts
      /\ nextOffset \in Nat /\ Len(pipe[attempt]) \in Nat /\ pipe[attempt] \in Seq(Messages)
      /\ pipe' \in [Attempts -> Seq(Messages)] /\ pipe \in [Attempts -> Seq(Messages)]
  <2>1. UNCHANGED <<source, nextOffset, streaming, reply>> /\ attempt \in Attempts
    BY SenderShape, SameSource DEF TypeOK, target
  <2>2. nextOffset \in Nat
    BY SourceBytes DEF TypeOK
  <2>3. pipe' \in [Attempts -> Seq(Messages)] /\ pipe \in [Attempts -> Seq(Messages)]
    <3>1. ShapeInv' /\ UNCHANGED source
      BY SenderShape
    <3>2. Messages' = Messages
      BY <3>1, SameSource
    <3>3. QED
      BY <3>1, <3>2 DEF ShapeInv
  <2>4. Len(pipe[attempt]) \in Nat /\ pipe[attempt] \in Seq(Messages)
    BY <2>1, <2>3
  <2>5. QED
    BY <2>1, <2>2, <2>3, <2>4
<1>2. \A a \in Attempts : pipe'[a] = pipe[a] /\ Live(a)' => Complete(pipe'[a], nextOffset')
  BY <1>1 DEF CarriedInv, Live, Opens, Header
<1>3. ASSUME NEW m \in Messages, m # Header, Extended(attempt, m), Live(attempt)', UNCHANGED attempt
      PROVE  Live(attempt)
  <2>1. Len(pipe[attempt]) > 0 => pipe'[attempt][1] = pipe[attempt][1]
    BY <1>1, <1>3 DEF Extended
  <2>2. Len(pipe[attempt]) = 0 => pipe'[attempt][1] = m
    BY <1>1, <1>3 DEF Extended
  <2>3. pipe[attempt] # <<>> <=> Len(pipe[attempt]) > 0
    BY <1>1, Pipes
  <2>4. QED
    BY <1>1, <1>3, <2>1, <2>2, <2>3 DEF Live, Opens, Header, Sender
<1>4. CASE QueryTransfer
  <2>1. /\ pc' = "send" /\ pos' = 0 /\ UNCHANGED attempt /\ Others(attempt) /\ pc = "query"
        /\ Len(pipe'[attempt]) = 1 /\ pipe'[attempt][1] = Header
    BY <1>4, QueryEffect
  <2>2. Complete(pipe'[attempt], nextOffset')
    <3>1. \A n \in 1..Len(pipe'[attempt]) : Reach(pipe'[attempt][n]) = 0
      BY <2>1 DEF Reach, Header
    <3>2. QED
      BY <3>1, NothingTo DEF Complete
  <2>3. \A a \in Attempts : Live(a)' => Complete(pipe'[a], nextOffset')
    BY <1>2, <2>1, <2>2 DEF Others
  <2>4. Carries(pipe'[attempt'], Len(pipe'[attempt']), nextOffset', pos')
    BY <2>1, NothingTo
  <2>5. QED
    BY <1>1, <2>1, <2>3, <2>4, CarriedNow DEF CarriedInv
<1>5. CASE ReadChunk
  <2>1. PICK m : m = Frame(pos, ChunkAt(source, pos))
    OBVIOUS
  <2>2. /\ pc = "send" /\ reply[attempt] = "none" /\ UNCHANGED <<pc, attempt>> /\ m \in Messages
        /\ \/ Others(attempt) /\ Extended(attempt, m)
           \/ UNCHANGED pipe
    BY <1>5, <2>1, ChunkEffect
  <2>3. CASE Others(attempt) /\ Extended(attempt, m)
    <3>1. m # Header /\ Reach(m) = pos
      BY <2>1 DEF Frame, Header, Reach
    <3>2. Carries(pipe[attempt], Len(pipe[attempt]), nextOffset, Reach(m))
      BY <2>2, <3>1 DEF CarriedInv
    <3>3. Live(attempt)' => Complete(pipe'[attempt], nextOffset')
      <4>1. SUFFICES ASSUME Complete(pipe[attempt], nextOffset)
                     PROVE  Complete(pipe'[attempt], nextOffset)
        BY <1>1, <1>3, <2>2, <2>3, <3>1 DEF CarriedInv
      <4>2. QED
        BY <1>1, <2>3, <3>2, <4>1, CompleteAppend DEF Extended
    <3>4. \A a \in Attempts : Live(a)' => Complete(pipe'[a], nextOffset')
      BY <1>2, <2>2, <2>3, <3>3 DEF Others
    <3>5. QED
      BY <1>1, <1>5, <2>2, <3>4, ChunkCarried, CarriedNow DEF CarriedInv
  <2>4. CASE UNCHANGED pipe
    BY <1>1, <1>2, <1>5, <2>2, <2>4, ChunkCarried, CarriedNow DEF CarriedInv
  <2>5. QED
    BY <2>2, <2>3, <2>4
<1>6. CASE CloseStream
  <2>1. /\ pc = "send" /\ pc' = "close" /\ pos >= Size /\ UNCHANGED attempt
        /\ Others(attempt) /\ Extended(attempt, EOF)
    BY <1>6, CloseEffect
  <2>2. EOF \in Messages /\ EOF # Header /\ Reach(EOF) = Size
    BY Bare DEF Messages, EOF, Header
  <2>3. ASSUME Live(attempt)', \A j \in 1..Len(pipe[attempt]) : pipe[attempt][j] # Cut
        PROVE  Carries(pipe[attempt], Len(pipe[attempt]), nextOffset, Reach(EOF))
    <3>1. reply[attempt] = "none"
      BY <1>3, <2>1, <2>2, <2>3 DEF OrderInv, Holds
    <3>2. Carries(pipe[attempt], Len(pipe[attempt]), nextOffset, pos)
      BY <2>1, <3>1 DEF CarriedInv
    <3>3. Size \in Nat /\ pos \in Nat
      BY SourceBytes DEF TypeOK, ShapeInv
    <3>4. \A i \in 1..Size : i <= pos
      BY <2>1, <3>3
    <3>5. QED
      BY <2>2, <3>2, <3>4 DEF Carries
  <2>4. Live(attempt)' => Complete(pipe'[attempt], nextOffset')
    <3>1. SUFFICES ASSUME Live(attempt)', Complete(pipe[attempt], nextOffset)
                   PROVE  Complete(pipe'[attempt], nextOffset)
      BY <1>1, <1>3, <2>1, <2>2 DEF CarriedInv
    <3>2. QED
      BY <1>1, <2>1, <2>3, <3>1, CompleteAppend DEF Extended
  <2>5. \A a \in Attempts : Live(a)' => Complete(pipe'[a], nextOffset')
    BY <1>2, <2>1, <2>4 DEF Others
  <2>6. QED
    BY <1>1, <2>1, <2>5, CarriedNow DEF CarriedInv
<1>7. CASE ReadReply
  <2>1. /\ UNCHANGED pipe /\ pc' \in {"commit", "giveup", "query"}
        /\ pc' = "commit" => reply[attempt] = "ok"
    BY <1>7, ReplyEffect
  <2>2. QED
    BY <1>1, <1>2, <2>1, CarriedNow DEF CarriedInv
<1>8. CASE CommitTransfer
  <2>1. UNCHANGED <<pipe, attempt>> /\ pc' \in {"done", "dataloss"} /\ pc = "commit"
    BY <1>8 DEF CommitTransfer
  <2>2. QED
    BY <1>1, <1>2, <2>1, CarriedNow DEF CarriedInv
<1>9. QED
  BY <1>4, <1>5, <1>6, <1>7, <1>8 DEF Sender

LEMMA DropCarried ==
  ASSUME TypeOK, ShapeInv, CarriedInv, Drop
  PROVE  CarriedInv'
<1>1. PICK n \in 0..Len(pipe[attempt]) :
        /\ Len(pipe'[attempt]) = n + 1 /\ pipe'[attempt][n + 1] = Cut
        /\ \A j \in 1..n : pipe'[attempt][j] = pipe[attempt][j]
        /\ streaming' \in {0, streaming}
  BY DropShape
<1>2. /\ Others(attempt) /\ attempt \in Attempts /\ UNCHANGED <<source, nextOffset, pc, attempt>>
      /\ reply'[attempt] = "unavailable" /\ \A b \in Attempts : b # attempt => reply'[b] = reply[b]
      /\ pc \in {"send", "close"} /\ ShapeInv'
  BY DropShape DEF Drop, target
<1>3. /\ Len(pipe[attempt]) \in Nat /\ pipe[attempt] \in Seq(Messages) /\ nextOffset \in Nat
      /\ pipe' \in [Attempts -> Seq(Messages)]
      /\ pipe[attempt] # <<>> <=> Len(pipe[attempt]) > 0
  BY <1>2, Pipes, SameSource, SourceBytes DEF ShapeInv, TypeOK
<1>4. \A a \in Attempts : streaming' = a => streaming = a
  BY <1>1, StreamAssumption DEF Attempts
<1>5. \A a \in Attempts : a # attempt /\ Live(a)' => Complete(pipe'[a], nextOffset')
  BY <1>2, <1>4 DEF CarriedInv, Live, Opens, Header, Others
<1>6. Live(attempt)' => Complete(pipe'[attempt], nextOffset')
  <2>1. ASSUME Live(attempt)' PROVE Live(attempt)
    <3>1. CASE streaming' = attempt
      BY <1>2, <1>4, <3>1 DEF Live
    <3>2. CASE pipe'[attempt][1] = Header
      <4>1. n # 0
        BY <1>1, <3>2 DEF Cut, Header
      <4>2. 1 \in 1..n
        BY <1>1, <1>3, <4>1
      <4>3. pipe[attempt][1] = Header /\ Len(pipe[attempt]) > 0
        BY <1>1, <1>3, <3>2, <4>1, <4>2
      <4>4. QED
        BY <1>3, <4>3 DEF Live, Opens
    <3>3. QED
      BY <1>2, <2>1, <3>1, <3>2 DEF Live, Opens, Header
  <2>2. Carries(pipe[attempt], n, nextOffset, Reach(Cut))
    BY NothingTo DEF Reach, Cut
  <2>3. SUFFICES ASSUME Complete(pipe[attempt], nextOffset)
                 PROVE  Complete(pipe'[attempt], nextOffset)
    BY <1>2, <2>1 DEF CarriedInv
  <2>4. QED
    BY <1>1, <1>2, <1>3, <2>2, <2>3, CompletePrefix
<1>7. \A a \in Attempts : reply'[a] = "ok" => reply[a] = "ok"
  BY <1>2
<1>8. \A a \in Attempts : Live(a)' => Complete(pipe'[a], nextOffset')
  BY <1>2, <1>5, <1>6
<1>9. QED
  BY <1>2, <1>7, <1>8, CarriedNow DEF CarriedInv

\* The message a handler takes covers nothing after the offset it leaves.
LEMMA TakenIsBehind ==
  ASSUME TypeOK, ShapeInv, NEW a \in Attempts, Received(a),
         WriteFrame(a) \/ (Message(a) \in {Header, EOF, Cut})
  PROVE  \A i \in 1..Size : Covers(Message(a), i) => i <= nextOffset'
<1>1. CASE Message(a) \in {Header, EOF, Cut}
  BY <1>1, Bare
<1>2. CASE WriteFrame(a)
  BY <1>2 DEF WriteFrame, Covers
<1>3. QED
  BY <1>1, <1>2

LEMMA HandlerCarried ==
  ASSUME TypeOK, ShapeInv, OrderInv, CarriedInv, NEW a \in Attempts, Handler(a)
  PROVE  CarriedInv'
<1>1. /\ Others(a) /\ UNCHANGED <<source, pc, attempt, pos>> /\ nextOffset <= nextOffset'
      /\ \A b \in Attempts : b # a => reply'[b] = reply[b] /\ (streaming' = b => streaming = b)
      /\ reply[a] # "none" => reply'[a] = reply[a]
      /\ reply'[a] \in {reply[a], "ok", "busy", "bad", "error"}
      /\ TypeOK' /\ ShapeInv' /\ ~Opens(a)'
  BY HandlerShape, HandlerLeaves
<1>2. /\ Len(pipe[a]) \in Nat /\ pipe[a] \in Seq(Messages) /\ pipe'[a] \in Seq(Messages)
      /\ nextOffset \in Nat /\ nextOffset' \in Nat /\ attempt \in Attempts /\ a # 0
  <2>1. Messages' = Messages /\ Size' = Size /\ Size \in Nat
    BY <1>1, SameSource, SourceBytes DEF TypeOK
  <2>2. nextOffset \in Nat /\ nextOffset' \in Nat /\ attempt \in Attempts /\ a # 0
    BY <1>1, <2>1, StreamAssumption DEF TypeOK, Attempts
  <2>3. QED
    BY <1>1, <2>1, <2>2, Pipes DEF ShapeInv
<1>3. \A b \in Attempts : b # a /\ Live(b)' => Complete(pipe'[b], nextOffset')
  <2>1. SUFFICES ASSUME NEW b \in Attempts, b # a, Live(b)' PROVE Complete(pipe'[b], nextOffset')
    OBVIOUS
  <2>2. pipe'[b] = pipe[b] /\ Live(b)
    BY <1>1, <2>1 DEF Others, Live, Opens, Header
  <2>3. Complete(pipe[b], nextOffset)
    BY <2>2 DEF CarriedInv
  <2>4. QED
    BY <1>1, <1>2, <2>2, <2>3, CompleteLater
<1>4. ASSUME Received(a), Consume(a), \A i \in 1..Size : Covers(Message(a), i) => i <= nextOffset'
      PROVE  /\ Live(a) /\ Message(a) # Cut => Complete(pipe'[a], nextOffset')
             /\ a = attempt /\ pc = "send" /\ reply[attempt] = "none" =>
                  Carries(pipe'[attempt], Len(pipe'[attempt]), nextOffset', pos')
  <2>1. Shifted(a) /\ Message(a) = pipe[a][1] /\ Len(pipe[a]) > 0
    BY <1>4, ConsumeEffect, Pipes DEF ShapeInv
  <2>2. /\ Len(pipe'[a]) = Len(pipe[a]) - 1 /\ \A j \in 1..Len(pipe'[a]) : pipe'[a][j] = pipe[a][j + 1]
        /\ \A i \in 1..Size : Covers(pipe[a][1], i) => i <= nextOffset'
    BY <1>4, <2>1 DEF Shifted
  <2>3. Live(a) /\ Message(a) # Cut => Complete(pipe'[a], nextOffset')
    <3>1. SUFFICES ASSUME Complete(pipe[a], nextOffset), pipe[a][1] # Cut
                   PROVE  Complete(pipe'[a], nextOffset')
      BY <2>1 DEF CarriedInv
    <3>2. QED
      BY <1>1, <1>2, <2>1, <2>2, <3>1, CompleteTail
  <2>4. ASSUME a = attempt, pc = "send", reply[attempt] = "none"
        PROVE  Carries(pipe'[attempt], Len(pipe'[attempt]), nextOffset', pos')
    <3>1. Carries(pipe[a], Len(pipe[a]), nextOffset, pos)
      BY <2>4 DEF CarriedInv
    <3>2. Len(pipe'[a]) \in Nat /\ Len(pipe'[a]) + 1 = Len(pipe[a])
      BY <1>2, <2>2
    <3>3. Carries(pipe[a], Len(pipe'[a]) + 1, nextOffset, pos)
      BY <3>1, <3>2
    <3>4. Carries(pipe'[a], Len(pipe'[a]), nextOffset', pos)
      BY <1>1, <1>2, <2>2, <3>2, <3>3, CarriesTail
    <3>5. QED
      BY <1>1, <2>4, <3>4
  <2>5. QED
    BY <2>3, <2>4
<1>5. OnlyZerosAfter(nextOffset) => OnlyZerosAfter(nextOffset')
  <2>1. \A i \in 1..Size : nextOffset' < i => nextOffset < i
    BY <1>1, <1>2, SourceBytes DEF TypeOK
  <2>2. QED
    BY <2>1 DEF OnlyZerosAfter
<1>6. ASSUME attempt # a, pc = "send", reply'[attempt] = "none"
      PROVE  Carries(pipe'[attempt], Len(pipe'[attempt]), nextOffset', pos')
  <2>1. pipe'[attempt] = pipe[attempt] /\ reply[attempt] = "none"
    BY <1>1, <1>2, <1>6 DEF Others
  <2>2. Carries(pipe[attempt], Len(pipe[attempt]), nextOffset, pos)
    BY <1>6, <2>1 DEF CarriedInv
  <2>3. QED
    BY <1>1, <1>2, <2>1, <2>2, CarriesLater
<1>7. \/ (\E b \in Attempts : reply[b] = "ok")
      \/ \A b \in Attempts : reply'[b] # "ok"
      \/ OnlyZerosAfter(nextOffset')
  <2>1. CASE ReceiveEOF(a)
    <3>1. Live(a) /\ Len(pipe[a]) > 0 /\ pipe[a][1] = EOF
      BY <2>1, Pipes DEF ReceiveEOF, Live, ShapeInv
    <3>2. 1 \in 1..Len(pipe[a]) /\ \A j \in 1..1 - 1 : FALSE
      BY <1>2, <3>1
    <3>3. Carries(pipe[a], 1 - 1, nextOffset, Reach(EOF))
      BY <3>1, <3>2 DEF CarriedInv, Complete
    <3>4. OnlyZerosAfter(nextOffset)
      <4>1. Size \in Nat /\ Reach(EOF) = Size
        BY SourceBytes DEF TypeOK, Reach, EOF
      <4>2. QED
        BY <3>2, <3>3, <4>1 DEF Carries, OnlyZerosAfter
    <3>5. QED
      BY <1>5, <3>4
  <2>2. CASE ~ReceiveEOF(a)
    <3>1. UNCHANGED reply \/ \E r \in {"busy", "bad", "error"} : Answer(a, r)
      BY <2>2 DEF Handler, Attach, WriteFrame, WriteFails, RefuseFrame, Detach
    <3>2. reply'[a] = "ok" => reply[a] = "ok"
      BY <3>1, AnswerEffect
    <3>3. QED
      BY <1>1, <3>2
  <2>3. QED
    BY <2>1, <2>2
<1>8. /\ Live(a)' => Complete(pipe'[a], nextOffset')
      /\ a = attempt /\ pc = "send" /\ reply'[attempt] = "none" =>
           Carries(pipe'[attempt], Len(pipe'[attempt]), nextOffset', pos')
  <2>1. reply'[a] = "none" => reply[a] = "none"
    BY <1>1
  <2>2. Live(a)' => streaming' = a
    BY <1>1 DEF Live
  <2>3. CASE Attach(a)
    <3>1. Received(a) /\ Consume(a) /\ Message(a) = Header /\ Header # Cut /\ Opens(a) /\ streaming # a
      BY <2>3, Pipes DEF Attach, Header, Cut, ShapeInv, OrderInv
    <3>2. \A i \in 1..Size : Covers(Message(a), i) => i <= nextOffset'
      BY <3>1, TakenIsBehind
    <3>3. QED
      BY <1>4, <2>1, <3>1, <3>2 DEF Live
  <2>4. CASE WriteFrame(a)
    <3>1. Received(a) /\ Consume(a) /\ Message(a) # Cut /\ streaming = a
      BY <2>4 DEF WriteFrame, Cut
    <3>2. \A i \in 1..Size : Covers(Message(a), i) => i <= nextOffset'
      BY <2>4, <3>1, TakenIsBehind
    <3>3. QED
      BY <1>4, <2>1, <3>1, <3>2 DEF Live
  <2>5. CASE ReceiveEOF(a)
    <3>1. Received(a) /\ Consume(a) /\ Message(a) = EOF /\ EOF # Cut /\ streaming = a
      BY <2>5 DEF ReceiveEOF, Cut, EOF
    <3>2. \A i \in 1..Size : Covers(Message(a), i) => i <= nextOffset'
      BY <3>1, TakenIsBehind
    <3>3. QED
      BY <1>4, <2>1, <3>1, <3>2 DEF Live
  <2>6. CASE WriteFails(a) \/ RefuseFrame(a)
    <3>1. streaming' = 0 /\ (Answer(a, "error") \/ Answer(a, "bad"))
      BY <2>6 DEF WriteFails, RefuseFrame
    <3>2. reply'[a] # "none"
      BY <3>1, AnswerEffect
    <3>3. QED
      BY <1>2, <2>2, <3>1, <3>2
  <2>7. CASE Detach(a)
    <3>1. streaming' = 0 /\ UNCHANGED reply
      BY <2>7 DEF Detach
    <3>2. CASE Received(a) /\ Message(a) = Cut /\ Consume(a)
      BY <1>2, <1>4, <2>1, <2>2, <3>1, <3>2, TakenIsBehind
    <3>3. CASE reply[a] # "none"
      BY <1>2, <2>2, <3>1, <3>3
    <3>4. QED
      BY <2>7, <3>2, <3>3 DEF Detach
  <2>8. QED
    BY <2>3, <2>4, <2>5, <2>6, <2>7 DEF Handler
<1>9. \A b \in Attempts : Live(b)' => Complete(pipe'[b], nextOffset')
  BY <1>3, <1>8
<1>10. QED
  BY <1>1, <1>5, <1>6, <1>7, <1>8, <1>9, CarriedNow DEF CarriedInv

-----------------------------------------------------------------------------
\* The device.

\* All that a stream skips is zero.
LEMMA SkipsZeros ==
  ASSUME TypeOK, ShapeInv, CarriedInv, NEW a \in Attempts, streaming = a, Received(a),
         Message(a).kind = "frame"
  PROVE  \A i \in 1..Size : nextOffset < i /\ i <= Message(a).offset => source[i] = 0
<1>1. Live(a) /\ Len(pipe[a]) \in Nat /\ Len(pipe[a]) > 0 /\ Message(a) = pipe[a][1]
  BY Pipes DEF Live, ShapeInv
<1>2. 1 \in 1..Len(pipe[a]) /\ \A j \in 1..1 - 1 : FALSE
  BY <1>1
<1>3. Carries(pipe[a], 1 - 1, nextOffset, Reach(pipe[a][1]))
  BY <1>1, <1>2 DEF CarriedInv, Complete
<1>4. Reach(pipe[a][1]) = Message(a).offset
  BY <1>1 DEF Reach
<1>5. QED
  BY <1>2, <1>3, <1>4 DEF Carries

LEMMA BytesInit == ASSUME TypeOK, Init PROVE BytesInv
<1>1. Size \in Nat /\ \A i \in 1..Size : device[i] = 0
  BY SourceBytes DEF Init, Zeros
<1>2. nextOffset = 0
  BY DEF Init
<1>3. QED
  BY <1>1, <1>2 DEF BytesInv, OffsetHonest

LEMMA BytesStep ==
  ASSUME TypeOK, ShapeInv, CarriedInv, BytesInv, [Next]_vars
  PROVE  BytesInv'
<1>1. UNCHANGED source
  BY DEF Next, Sender, QueryTransfer, ReadChunk, CloseStream, ReadReply, CommitTransfer, Drop,
     Handler, Attach, WriteFrame, WriteFails, RefuseFrame, ReceiveEOF, Detach, vars
<1>2. Size' = Size /\ Size \in Nat /\ nextOffset \in 0..Size
  BY <1>1, SameSource, SourceBytes DEF TypeOK
<1>3. CASE UNCHANGED <<device, nextOffset>>
  BY <1>1, <1>2, <1>3 DEF BytesInv, OffsetHonest
<1>4. ASSUME NEW a \in Attempts, WriteFrame(a) \/ WriteFails(a)
      PROVE  BytesInv'
  <2>1. streaming = a /\ Received(a) /\ Message(a).kind = "frame" /\ Valid(Message(a))
    BY <1>4 DEF WriteFrame, WriteFails
  <2>2. PICK o \in Nat, l \in Nat : o = Message(a).offset /\ l = Len(Message(a).data) /\ o + l <= Size
    <3>1. Chunk \in Nat
      BY StreamAssumption
    <3>2. QED
      BY <2>1, <3>1, HeadFrame
  <2>3. \A i \in 1..Size : nextOffset < i /\ i <= o => source[i] = 0
    BY <2>1, <2>2, SkipsZeros
  <2>4. \A i \in 1..Size : Written(Message(a))[i] = IF Covers(Message(a), i) THEN source[i] ELSE device[i]
    BY <2>1, WrittenBytes
  <2>5. \A i \in 1..Size : Covers(Message(a), i) <=> o < i /\ i <= o + l
    BY <2>1, <2>2 DEF Covers
  <2>6. CASE WriteFrame(a)
    <3>1. device' = Written(Message(a)) /\ nextOffset' = o + l
      BY <2>2, <2>6 DEF WriteFrame
    <3>2. ASSUME NEW i \in 1..Size PROVE device'[i] \in {0, source[i]}
      BY <2>4, <3>1, <3>2 DEF BytesInv
    <3>3. ASSUME NEW i \in 1..o + l PROVE device'[i] = source[i]
      <4>1. i \in 1..Size
        BY <1>2, <2>2, <3>3
      <4>2. CASE o < i
        BY <2>4, <2>5, <3>1, <3>3, <4>1, <4>2
      <4>3. CASE ~(o < i)
        <5>1. i <= nextOffset => i \in 1..nextOffset
          BY <1>2, <4>1
        <5>2. device[i] = source[i]
          BY <1>2, <2>2, <2>3, <4>1, <4>3, <5>1 DEF BytesInv, OffsetHonest
        <5>3. QED
          BY <2>4, <3>1, <4>1, <5>2
      <4>4. QED
        BY <4>2, <4>3
    <3>4. QED
      BY <1>1, <1>2, <3>1, <3>2, <3>3 DEF BytesInv, OffsetHonest
  <2>7. CASE WriteFails(a)
    <3>1. device' \in {device, Written(Message(a))} /\ nextOffset' = nextOffset
      BY <2>7 DEF WriteFails
    <3>2. \A i \in 1..Size : device'[i] \in {device[i], source[i]}
      BY <2>4, <3>1
    <3>3. \A i \in 1..nextOffset : i \in 1..Size
      BY <1>2
    <3>4. QED
      BY <1>1, <1>2, <3>1, <3>2, <3>3 DEF BytesInv, OffsetHonest
  <2>8. QED
    BY <1>4, <2>6, <2>7
<1>5. QED
  BY <1>3, <1>4
     DEF Next, Sender, QueryTransfer, ReadChunk, CloseStream, ReadReply, CommitTransfer, Drop,
         Handler, Attach, RefuseFrame, ReceiveEOF, Detach, vars, target

-----------------------------------------------------------------------------
\* The digest.

Count(o) == (o + Chunk - 1) \div Chunk
Prefix(n) == [k \in 1..n |-> ChunkAt(source, (k - 1) * Chunk)]

LEMMA Quotient ==
  ASSUME NEW c \in Nat \ {0}, NEW k \in Nat, NEW r \in 0..c - 1
  PROVE  (k * c + r) \div c = k
  BY SMT

LEMMA Division ==
  ASSUME NEW c \in Nat \ {0}, NEW a \in Nat
  PROVE  a \div c \in Nat /\ \E r \in 0..c - 1 : a = (a \div c) * c + r
<1>1. a = c * (a \div c) + (a % c) /\ a % c \in 0..c - 1 /\ a \div c \in Nat
  BY SMT
<1>2. PICK q \in Nat, r \in 0..c - 1 : q = a \div c /\ a = c * q + r
  BY <1>1
<1>3. c * q = q * c
  BY SMT
<1>4. QED
  BY <1>2, <1>3

LEMMA CountPlace ==
  ASSUME NEW n \in Nat PROVE Count(n * Chunk) = n
<1>1. Chunk \in Nat \ {0} /\ n * Chunk \in Nat
  BY StreamAssumption, MultipleIs
<1>2. Chunk - 1 \in 0..Chunk - 1 /\ n * Chunk + Chunk - 1 = n * Chunk + (Chunk - 1)
  BY <1>1
<1>3. (n * Chunk + (Chunk - 1)) \div Chunk = n
  BY <1>1, <1>2, Quotient
<1>4. QED
  BY <1>2, <1>3 DEF Count

LEMMA CountFrame ==
  ASSUME NEW m \in Nat, NEW l \in 1..Chunk PROVE Count(m * Chunk + l) = m + 1
<1>1. Chunk \in Nat \ {0} /\ m * Chunk \in Nat /\ m + 1 \in Nat
  BY StreamAssumption, MultipleIs
<1>2. (m + 1) * Chunk = m * Chunk + Chunk
  BY <1>1, SMT
<1>3. l - 1 \in 0..Chunk - 1 /\ m * Chunk + l + Chunk - 1 = (m + 1) * Chunk + (l - 1)
  BY <1>1, <1>2
<1>4. ((m + 1) * Chunk + (l - 1)) \div Chunk = m + 1
  BY <1>1, <1>3, Quotient
<1>5. QED
  BY <1>3, <1>4 DEF Count

\* The chunks up to hi, and how many of them come after place n * Chunk.
LEMMA CountUpTo ==
  ASSUME NEW hi \in Nat
  PROVE  /\ Count(hi) \in Nat /\ hi <= Count(hi) * Chunk /\ Count(hi) * Chunk < hi + Chunk
         /\ Count(hi) * Chunk \in Nat
<1>1. Chunk \in Nat \ {0} /\ hi + Chunk - 1 \in Nat
  BY StreamAssumption
<1>2. PICK q \in Nat, r \in 0..Chunk - 1 : q = Count(hi) /\ hi + Chunk - 1 = q * Chunk + r
  BY <1>1, Division DEF Count
<1>3. q * Chunk \in Nat
  BY <1>1, MultipleIs
<1>4. hi <= q * Chunk /\ q * Chunk < hi + Chunk
  BY <1>1, <1>2, <1>3
<1>5. QED
  BY <1>2, <1>3, <1>4

LEMMA CountAfter ==
  ASSUME NEW hi \in Nat, NEW n \in Nat, n * Chunk < hi
  PROVE  n < Count(hi) /\ (hi - n * Chunk + Chunk - 1) \div Chunk = Count(hi) - n
<1>1. Chunk \in Nat \ {0} /\ n * Chunk \in Nat
  BY StreamAssumption, MultipleIs
<1>2. PICK q \in Nat : q = Count(hi) /\ hi <= q * Chunk /\ q * Chunk < hi + Chunk /\ q * Chunk \in Nat
  BY CountUpTo
<1>3. n < q
  <2>1. n * Chunk < q * Chunk
    BY <1>1, <1>2
  <2>2. QED
    BY <1>1, <2>1, Larger
<1>4. q - n \in Nat /\ (q - n) * Chunk = q * Chunk - n * Chunk
  BY <1>1, <1>3, SMT
<1>5. PICK r \in 0..Chunk - 1 : r = hi + Chunk - 1 - q * Chunk
  BY <1>1, <1>2
<1>6. hi - n * Chunk + Chunk - 1 = (q - n) * Chunk + r
  BY <1>1, <1>2, <1>4, <1>5
<1>7. ((q - n) * Chunk + r) \div Chunk = q - n
  BY <1>1, <1>4, <1>6, Quotient
<1>8. QED
  BY <1>2, <1>3, <1>6, <1>7

LEMMA ZeroChunk ==
  ASSUME source \in Contents, NEW p \in Places, NEW l, l = Len(ChunkAt(source, p)),
         \A i \in p + 1..p + l : source[i] = 0
  PROVE  ChunkAt(source, p) = Zeros(l)
<1>1. /\ p \in Nat /\ l \in 1..Chunk /\ Chunk \in Nat /\ ChunkAt(source, p) \in Seq({0, 1})
      /\ \A i \in 1..l : ChunkAt(source, p)[i] = source[p + i]
  BY ChunkBytes, SourceBytes
<1>2. \A i \in 1..l : ChunkAt(source, p)[i] = 0
  BY <1>1
<1>3. ChunkAt(source, p) = [i \in 1..l |-> ChunkAt(source, p)[i]]
  BY <1>1
<1>4. QED
  BY <1>2, <1>3 DEF Zeros

\* A run of zeros is digested as ReadDevice digests its chunks.
LEMMA ZeroRun ==
  ASSUME source \in Contents, NEW n \in Nat, NEW hi \in 0..Size, n * Chunk < hi,
         hi % Chunk = 0 \/ hi = Size, \A i \in 1..Size : n * Chunk < i /\ i <= hi => source[i] = 0
  PROVE  ZeroChunks(n * Chunk, hi) =
           [i \in 1..Count(hi) - n |-> ChunkAt(source, (n + i - 1) * Chunk)]
<1>1. Chunk \in Nat \ {0} /\ Size \in Nat /\ hi \in Nat /\ n * Chunk \in Nat
  BY SourceBytes, StreamAssumption, MultipleIs
<1>2. PICK q \in Nat : /\ q = Count(hi) /\ hi <= q * Chunk /\ q * Chunk < hi + Chunk
                       /\ n < q /\ (hi - n * Chunk + Chunk - 1) \div Chunk = q - n
                       /\ q * Chunk \in Nat
  BY <1>1, CountUpTo, CountAfter
<1>3. ZeroChunks(n * Chunk, hi) =
        [i \in 1..q - n |-> Zeros(Min2(Chunk, Size - (n * Chunk + (i - 1) * Chunk)))]
  BY <1>1, <1>2 DEF ZeroChunks
<1>4. ASSUME NEW i \in 1..q - n
      PROVE  Zeros(Min2(Chunk, Size - (n * Chunk + (i - 1) * Chunk))) =
               ChunkAt(source, (n + i - 1) * Chunk)
  <2>1. PICK k \in Nat : k = n + i - 1 /\ k + 1 <= q /\ n <= k
    BY <1>2
  <2>2. PICK p \in Nat : p = k * Chunk /\ p % Chunk = 0
    BY <1>1, MultipleIs
  <2>3. p = n * Chunk + (i - 1) * Chunk
    BY <1>1, <2>1, <2>2, SMT
  <2>4. n * Chunk <= p /\ (k + 1) * Chunk <= q * Chunk /\ (k + 1) * Chunk = p + Chunk
    <3>1. n * Chunk <= p
      BY <1>1, <2>1, <2>2, SMT
    <3>2. (k + 1) * Chunk <= q * Chunk
      BY <1>1, <2>1, SMT
    <3>3. (k + 1) * Chunk = p + Chunk
      BY <1>1, <2>2, SMT
    <3>4. QED
      BY <3>1, <3>2, <3>3
  <2>5. p < hi /\ p < Size
    BY <1>1, <1>2, <2>2, <2>4
  <2>6. p \in Places
    BY <1>1, <2>2, <2>5 DEF Places
  <2>7. PICK l \in 1..Chunk : /\ l = Len(ChunkAt(source, p)) /\ p + l <= Size
                              /\ l < Chunk => p + l = Size
    BY <2>6, ChunkBytes
  <2>8. p + l <= hi
    <3>1. CASE hi = Size
      BY <2>7, <3>1
    <3>2. CASE hi % Chunk = 0
      <4>1. p + Chunk <= hi
        BY <1>1, <2>2, <2>5, <3>2, PlacesApart
      <4>2. QED
        BY <1>1, <2>2, <2>7, <4>1
    <3>3. QED
      BY <3>1, <3>2
  <2>9. ChunkAt(source, p) = Zeros(l)
    <3>1. \A j \in p + 1..p + l : j \in 1..Size /\ n * Chunk < j /\ j <= hi
      BY <1>1, <2>2, <2>4, <2>7, <2>8
    <3>2. \A j \in p + 1..p + l : source[j] = 0
      BY <3>1
    <3>3. QED
      BY <2>6, <2>7, <3>2, ZeroChunk
  <2>10. Min2(Chunk, Size - p) = l
    BY <1>1, <2>2, <2>7 DEF Min2
  <2>11. QED
    BY <2>1, <2>2, <2>3, <2>9, <2>10
<1>5. QED
  BY <1>2, <1>3, <1>4

LEMMA FunctionIsSeq ==
  ASSUME NEW S, NEW n \in Nat, NEW f \in [1..n -> S]
  PROVE  f \in Seq(S) /\ Len(f) = n
  OBVIOUS

\* The digest of n chunks and the next ones make the digest of q chunks.
LEMMA Joined ==
  ASSUME NEW n \in Nat, NEW q \in Nat, n <= q
  PROVE  Prefix(n) \o [i \in 1..q - n |-> ChunkAt(source, (n + i - 1) * Chunk)] = Prefix(q)
<1> DEFINE At(k) == ChunkAt(source, (k - 1) * Chunk)
           S == {At(k) : k \in 1..q}
<1>1. PICK s : s = [i \in 1..q - n |-> ChunkAt(source, (n + i - 1) * Chunk)]
  OBVIOUS
<1>2. PICK r \in Nat : r = q - n /\ n + r = q /\ 1..n \subseteq 1..q /\ \A i \in 1..r : n + i \in 1..q
  OBVIOUS
<1>3. s \in Seq(S) /\ Len(s) = r /\ \A i \in 1..r : s[i] = At(n + i)
  <2>1. \A i \in 1..r : s[i] = At(n + i) /\ s[i] \in S
    BY <1>1, <1>2
  <2>2. s \in [1..r -> S]
    BY <1>1, <1>2, <2>1
  <2> HIDE DEF At, S
  <2>3. QED
    BY <2>1, <2>2, FunctionIsSeq
<1>4. ASSUME NEW m \in 0..q
      PROVE  Prefix(m) \in Seq(S) /\ Len(Prefix(m)) = m /\ \A k \in 1..m : Prefix(m)[k] = At(k)
  <2>1. m \in Nat /\ \A k \in 1..m : k \in 1..q /\ Prefix(m)[k] = At(k)
    BY DEF Prefix
  <2>2. Prefix(m) \in [1..m -> S]
    BY <2>1 DEF Prefix
  <2> HIDE DEF At, S
  <2>3. QED
    BY <2>1, <2>2, FunctionIsSeq
<1> HIDE DEF At, S
<1>5. /\ Prefix(n) \in Seq(S) /\ Len(Prefix(n)) = n /\ \A k \in 1..n : Prefix(n)[k] = At(k)
      /\ Prefix(q) \in Seq(S) /\ Len(Prefix(q)) = q /\ \A k \in 1..q : Prefix(q)[k] = At(k)
  BY <1>4
<1>6. PICK t : t = Prefix(n) \o s
  OBVIOUS
<1>7. /\ t \in Seq(S) /\ Len(t) = q
      /\ \A k \in 1..q : t[k] = IF k <= n THEN Prefix(n)[k] ELSE s[k - n]
  <2>1. /\ t \in Seq(S) /\ Len(t) = Len(Prefix(n)) + Len(s)
        /\ \A k \in 1..Len(Prefix(n)) + Len(s) :
             t[k] = IF k <= Len(Prefix(n)) THEN Prefix(n)[k] ELSE s[k - Len(Prefix(n))]
    BY <1>3, <1>5, <1>6, ConcatProperties
  <2>2. QED
    BY <1>2, <1>3, <1>5, <2>1
<1>8. ASSUME NEW k \in 1..q PROVE t[k] = Prefix(q)[k]
  <2>1. CASE k <= n
    BY <1>5, <1>7, <2>1
  <2>2. CASE ~(k <= n)
    <3>1. k - n \in 1..r /\ n + (k - n) = k
      BY <1>2, <2>2
    <3>2. t[k] = s[k - n] /\ s[k - n] = At(n + (k - n))
      BY <1>3, <1>7, <2>2, <3>1
    <3>3. QED
      BY <1>5, <3>1, <3>2
  <2>3. QED
    BY <2>1, <2>2
<1>9. t = Prefix(q)
  BY <1>5, <1>7, <1>8, SeqEqual
<1>10. QED
  BY <1>1, <1>6, <1>9

LEMMA NothingJoined ==
  ASSUME NEW n \in Nat
  PROVE  Prefix(n) \o <<>> = Prefix(n)
<1>1. PICK S : S = {Prefix(n)[k] : k \in 1..n}
  OBVIOUS
<1>2. Prefix(n) \in [1..n -> S]
  BY <1>1 DEF Prefix
<1>3. Prefix(n) \in Seq(S)
  BY <1>2, FunctionIsSeq
<1>4. QED
  BY <1>3, ConcatEmptySeq

\* Digesting a skipped range of zeros is digesting the source's chunks in it.
LEMMA GapDigest ==
  ASSUME source \in Contents, NEW lo \in 0..Size, NEW hi \in 0..Size, lo <= hi,
         lo % Chunk = 0 \/ lo = Size, hi % Chunk = 0 \/ hi = Size,
         \A i \in 1..Size : lo < i /\ i <= hi => source[i] = 0
  PROVE  Prefix(Count(lo)) \o ZeroChunks(lo, hi) = Prefix(Count(hi))
<1>1. Chunk \in Nat \ {0} /\ Size \in Nat /\ lo \in Nat /\ hi \in Nat
  BY SourceBytes, StreamAssumption
<1>2. Count(lo) \in Nat /\ Count(hi) \in Nat
  BY <1>1, CountUpTo
<1>3. CASE lo = hi
  <2>1. ZeroChunks(lo, hi) = [i \in 1..0 |-> Zeros(Min2(Chunk, Size - (lo + (i - 1) * Chunk)))]
    BY <1>1, <1>3 DEF ZeroChunks
  <2>2. ZeroChunks(lo, hi) = <<>>
    BY <2>1
  <2>3. QED
    BY <1>2, <1>3, <2>2, NothingJoined
<1>4. CASE lo < hi
  <2>1. lo % Chunk = 0
    BY <1>1, <1>4
  <2>2. PICK n \in Nat : lo = n * Chunk
    BY <1>1, <2>1, Multiple
  <2>3. Count(lo) = n /\ n < Count(hi)
    BY <1>1, <1>4, <2>2, CountPlace, CountAfter
  <2>4. ZeroChunks(lo, hi) = [i \in 1..Count(hi) - n |-> ChunkAt(source, (n + i - 1) * Chunk)]
    BY <1>1, <1>4, <2>2, ZeroRun
  <2>5. n <= Count(hi)
    BY <1>2, <2>3
  <2>6. QED
    BY <1>2, <2>3, <2>4, <2>5, Joined
<1>5. QED
  BY <1>1, <1>3, <1>4

\* A frame is digested as ReadDevice digested the source up to its end.
LEMMA FrameDigest ==
  ASSUME TypeOK, ShapeInv, CarriedInv, DigestInv, writeErrors = 0, NEW a \in Attempts, streaming = a,
         Received(a), Message(a).kind = "frame", Valid(Message(a))
  PROVE  Digested(Message(a)) = Prefix(Count(Message(a).offset + Len(Message(a).data)))
<1>1. PICK o \in Nat : /\ o = Message(a).offset /\ o < Size /\ o % Chunk = 0 /\ nextOffset <= o
                       /\ Message(a).data = ChunkAt(source, o)
  BY HeadFrame, AcceptedFrame
<1>2. PICK l \in 1..Chunk : l = Len(Message(a).data)
  BY HeadFrame
<1>3. Chunk \in Nat \ {0} /\ Size \in Nat /\ source \in Contents /\ nextOffset \in 0..Size
      /\ (nextOffset % Chunk = 0 \/ nextOffset = Size)
  BY SourceBytes, StreamAssumption DEF TypeOK, ShapeInv
<1>4. PICK m \in Nat : o = m * Chunk
  BY <1>1, <1>3, Multiple
<1>5. Count(o) = m /\ Count(o + l) = m + 1
  BY <1>2, <1>4, CountPlace, CountFrame
<1>6. \A i \in 1..Size : nextOffset < i /\ i <= o => source[i] = 0
  BY <1>1, SkipsZeros
<1>7. digest = Prefix(Count(nextOffset))
  BY DEF DigestInv, Prefix, Count
<1>8. digest \o ZeroChunks(nextOffset, o) = Prefix(m)
  <2>1. o \in 0..Size
    BY <1>1, <1>3
  <2>2. Prefix(Count(nextOffset)) \o ZeroChunks(nextOffset, o) = Prefix(Count(o))
    BY <1>1, <1>3, <1>6, <2>1, GapDigest
  <2>3. QED
    BY <1>5, <1>7, <2>2
<1>9. <<Message(a).data>> = [i \in 1..(m + 1) - m |-> ChunkAt(source, (m + i - 1) * Chunk)]
  <2>1. (m + 1) - m = 1 /\ m + 1 - 1 = m
    OBVIOUS
  <2>2. \A i \in 1..1 : i = 1
    OBVIOUS
  <2>3. \A i \in 1..1 : ChunkAt(source, (m + i - 1) * Chunk) = Message(a).data
    BY <1>1, <1>4, <2>1, <2>2
  <2>4. QED
    BY <2>1, <2>3
<1>10. m + 1 \in Nat /\ m <= m + 1
  OBVIOUS
<1>11. Prefix(m) \o <<Message(a).data>> = Prefix(m + 1)
  BY <1>9, <1>10, Joined
<1>12. QED
  BY <1>1, <1>2, <1>5, <1>8, <1>11 DEF Digested

LEMMA DigestInit == ASSUME TypeOK, Init PROVE DigestInv
<1>1. Count(0) = 0
  <2>1. 0 * Chunk = 0
    BY SourceBytes DEF TypeOK
  <2>2. QED
    BY <2>1, CountPlace
<1>2. [k \in 1..0 |-> ChunkAt(source, (k - 1) * Chunk)] = <<>>
  OBVIOUS
<1>3. QED
  BY <1>1, <1>2 DEF Init, DigestInv, Count

LEMMA DigestStep ==
  ASSUME TypeOK, ShapeInv, CarriedInv, DigestInv, [Next]_vars
  PROVE  DigestInv'
<1> USE DEF target, faults
<1>1. ASSUME UNCHANGED <<source, digest, nextOffset, writeErrors>> PROVE DigestInv'
  BY <1>1 DEF DigestInv, ChunkAt
<1>2. CASE Sender
  BY <1>1, <1>2, SenderShape
<1>3. CASE Drop
  BY <1>1, <1>3, DropShape
<1>4. ASSUME NEW a \in Attempts, Handler(a) PROVE DigestInv'
  <2>1. CASE WriteFrame(a)
    <3>1. SUFFICES ASSUME writeErrors = 0
                   PROVE  digest' = [k \in 1..((nextOffset' + Chunk - 1) \div Chunk) |->
                                       ChunkAt(source', (k - 1) * Chunk)]
      BY <2>1 DEF DigestInv, WriteFrame, ChunkAt
    <3>2. /\ streaming = a /\ Received(a) /\ Message(a).kind = "frame" /\ Valid(Message(a))
          /\ digest' = Digested(Message(a)) /\ source' = source
          /\ nextOffset' = Message(a).offset + Len(Message(a).data)
      BY <2>1 DEF WriteFrame
    <3>3. digest' = Prefix(Count(nextOffset'))
      BY <3>1, <3>2, FrameDigest
    <3>4. QED
      BY <3>2, <3>3 DEF Prefix, Count
  <2>2. CASE WriteFails(a)
    <3>1. writeErrors \in Nat /\ writeErrors' = writeErrors + 1
      BY <2>2 DEF WriteFails, TypeOK
    <3>2. writeErrors' # 0
      BY <3>1
    <3>3. QED
      BY <3>2 DEF DigestInv
  <2>3. CASE Attach(a) \/ RefuseFrame(a) \/ ReceiveEOF(a) \/ Detach(a)
    BY <1>1, <2>3 DEF Attach, RefuseFrame, ReceiveEOF, Detach
  <2>4. QED
    BY <1>4, <2>1, <2>2, <2>3 DEF Handler
<1>5. CASE UNCHANGED vars
  BY <1>1, <1>5 DEF vars
<1>6. QED
  BY <1>2, <1>3, <1>4, <1>5 DEF Next

\* Where every write went through, Commit computes the source's digest.
LEMMA DigestsAgree ==
  ASSUME TypeOK, ShapeInv, CarriedInv, DigestInv, pc = "commit", writeErrors = 0
  PROVE  Matches
<1>1. /\ source \in Contents /\ nextOffset \in 0..Size /\ Size \in Nat
      /\ (nextOffset % Chunk = 0 \/ nextOffset = Size)
  BY SourceBytes DEF TypeOK, ShapeInv
<1>2. \A i \in 1..Size : nextOffset < i /\ i <= Size => source[i] = 0
  BY DEF CarriedInv, OnlyZerosAfter
<1>3. digest = Prefix(Count(nextOffset))
  BY DEF DigestInv, Prefix, Count
<1>4. Size \in 0..Size /\ nextOffset <= Size
  BY <1>1
<1>5. digest \o ZeroChunks(nextOffset, Size) = Prefix(Count(Size))
  BY <1>1, <1>2, <1>3, <1>4, GapDigest
<1>6. DigestOf(source).chunks = Prefix(Count(Size))
  BY DEF DigestOf, Prefix, Count, Size
<1>7. SessionDigest = [chunks |-> Prefix(Count(Size)), size |-> Size]
  BY <1>5 DEF SessionDigest
<1>8. DigestOf(source) = [chunks |-> Prefix(Count(Size)), size |-> Size]
  BY DEF DigestOf, Prefix, Count, Size
<1>9. QED
  BY <1>7, <1>8 DEF Matches

LEMMA LossStep ==
  ASSUME TypeOK, ShapeInv, CarriedInv, DigestInv, NoFalseLoss, [Next]_vars
  PROVE  NoFalseLoss'
<1> USE DEF target, faults
<1>1. writeErrors \in Nat
  BY DEF TypeOK
<1>2. CASE Sender
  <2>1. writeErrors' = writeErrors
    BY <1>2, SenderShape
  <2>2. CASE CommitTransfer
    <3>1. CASE writeErrors = 0
      <4>1. Matches
        BY <2>2, <3>1, DigestsAgree DEF CommitTransfer
      <4>2. QED
        BY <2>2, <4>1 DEF CommitTransfer, NoFalseLoss
    <3>2. CASE writeErrors > 0
      BY <2>1, <3>2 DEF NoFalseLoss
    <3>3. QED
      BY <1>1, <3>1, <3>2
  <2>3. CASE QueryTransfer \/ ReadChunk \/ CloseStream
    BY <2>3 DEF QueryTransfer, ReadChunk, CloseStream, NoFalseLoss
  <2>4. CASE ReadReply
    BY <2>4, ReplyEffect DEF NoFalseLoss
  <2>5. QED
    BY <1>2, <2>2, <2>3, <2>4 DEF Sender
<1>3. CASE Drop
  BY <1>3, DropShape DEF NoFalseLoss
<1>4. ASSUME NEW a \in Attempts, Handler(a) PROVE NoFalseLoss'
  <2>1. pc' = pc
    BY <1>4, HandlerShape
  <2>2. writeErrors' = writeErrors \/ writeErrors' = writeErrors + 1
    BY <1>4 DEF Handler, Attach, WriteFrame, WriteFails, RefuseFrame, ReceiveEOF, Detach
  <2>3. QED
    BY <1>1, <2>1, <2>2 DEF NoFalseLoss
<1>5. CASE UNCHANGED vars
  BY <1>5 DEF vars, NoFalseLoss
<1>6. QED
  BY <1>2, <1>3, <1>4, <1>5 DEF Next

\* The parts of SteadyInv: who reads, and how stream s lies after byte lo and up
\* to byte top.
OneReader ==
  /\ \A a \in Attempts : reply[a] # "bad" /\ (Opens(a) => a = attempt /\ reply[a] = "none")
  /\ streaming = 0 \/ (streaming = attempt /\ reply[attempt] \in {"none", "ok"})
InOrder(s, lo) ==
  \A n \in 1..Len(s) : s[n].kind = "frame" =>
    lo <= s[n].offset /\ \A m \in 1..n - 1 : EndsBy(s[m], s[n].offset)
Within(s, top) == \A n \in 1..Len(s) : EndsBy(s[n], top)
Ahead == pc = "send" => nextOffset <= offset \/ nextOffset <= pos
Steady ==
  /\ OneReader /\ InOrder(pipe[attempt], nextOffset)
  /\ pc = "send" => Within(pipe[attempt], pos)
  /\ Ahead

LEMMA SteadyParts == SteadyInv <=> (~lingered => Steady)
  BY Zenon DEF SteadyInv, Steady, OneReader, InOrder, Within, Ahead, EndsBy

LEMMA SteadyInit == ASSUME TypeOK, Init PROVE SteadyInv
<1>1. attempt \in Attempts /\ \A a \in Attempts : pipe[a] = <<>> /\ reply[a] = "none"
  BY DEF Init, TypeOK
<1>2. Len(pipe[attempt]) = 0
  BY <1>1
<1>3. OneReader
  BY <1>1 DEF Init, OneReader, Opens
<1>4. InOrder(pipe[attempt], nextOffset) /\ Within(pipe[attempt], pos)
  BY <1>2 DEF InOrder, Within
<1>5. Ahead
  BY DEF Init, Ahead
<1>6. QED
  BY <1>3, <1>4, <1>5, SteadyParts DEF Steady

LEMMA Unframed ==
  ASSUME NEW s, NEW lo, NEW top, Len(s) = 0 \/ (Len(s) = 1 /\ s[1].kind # "frame")
  PROVE  InOrder(s, lo) /\ Within(s, top)
<1>1. \A n \in 1..Len(s) : s[n].kind # "frame"
  OBVIOUS
<1>2. QED
  BY <1>1 DEF InOrder, Within, EndsBy

\* The sender adds a frame at the end of its stream.
LEMMA SteadyChunk ==
  ASSUME TypeOK, ShapeInv, Steady, ReadChunk
  PROVE  InOrder(pipe'[attempt], nextOffset) /\ Within(pipe'[attempt], pos')
<1>1. /\ pc = "send" /\ pos \in Places /\ pos' = pos + Chunk
      /\ \/ /\ Transmits(pos, ChunkAt(source, pos))
            /\ Extended(attempt, Frame(pos, ChunkAt(source, pos)))
         \/ UNCHANGED pipe
      /\ Frame(pos, ChunkAt(source, pos)) \in Messages
  BY ChunkEffect
<1>2. /\ pos \in Nat /\ Chunk \in Nat /\ nextOffset \in Nat /\ offset \in Nat
      /\ source \in Contents /\ attempt \in Attempts
  BY <1>1, ChunkBytes, SourceBytes DEF TypeOK
<1>3. /\ Len(pipe[attempt]) \in Nat
      /\ \A n \in 1..Len(pipe[attempt]) : pipe[attempt][n] \in Messages
  BY <1>2, Pipes DEF ShapeInv
<1>4. \A n \in 1..Len(pipe[attempt]) : pipe[attempt][n].kind = "frame" =>
         /\ pipe[attempt][n].offset \in Nat /\ Len(pipe[attempt][n].data) \in Nat
         /\ pipe[attempt][n].offset + Len(pipe[attempt][n].data) <= pos
  <2>1. ASSUME NEW n \in 1..Len(pipe[attempt]), pipe[attempt][n].kind = "frame"
        PROVE  /\ pipe[attempt][n].offset \in Nat /\ Len(pipe[attempt][n].data) \in Nat
               /\ pipe[attempt][n].offset + Len(pipe[attempt][n].data) <= pos
    <3>1. pipe[attempt][n].offset \in Nat /\ Len(pipe[attempt][n].data) \in 1..Chunk
      BY <1>2, <1>3, <2>1, FrameBytes
    <3>2. QED
      BY <1>1, <1>2, <2>1, <3>1 DEF Steady, Within, EndsBy
  <2>2. QED
    BY <2>1
<1>5. \A n \in 1..Len(pipe[attempt]) : EndsBy(pipe[attempt][n], pos) /\ EndsBy(pipe[attempt][n], pos')
  BY <1>1, <1>2, <1>4 DEF EndsBy
<1>6. CASE UNCHANGED pipe
  BY <1>5, <1>6 DEF Steady, Within
<1>7. CASE Transmits(pos, ChunkAt(source, pos)) /\ Extended(attempt, Frame(pos, ChunkAt(source, pos)))
  <2>1. PICK f : f = Frame(pos, ChunkAt(source, pos))
    OBVIOUS
  <2>2. f.kind = "frame" /\ f.offset = pos /\ f.data = ChunkAt(source, pos)
    BY <2>1 DEF Frame
  <2>3. Len(f.data) \in 1..Chunk
    BY <1>1, <1>2, <2>2, ChunkBytes
  <2>4. EndsBy(f, pos')
    BY <1>1, <1>2, <2>2, <2>3 DEF EndsBy
  <2>5. nextOffset <= pos
    <3>1. pos >= offset
      BY <1>7 DEF Transmits
    <3>2. QED
      BY <1>1, <1>2, <3>1 DEF Steady, Ahead
  <2>6. PICK k \in Nat : k = Len(pipe[attempt])
    BY <1>3
  <2>7. /\ Len(pipe'[attempt]) = k + 1 /\ pipe'[attempt][k + 1] = f
        /\ \A n \in 1..k : pipe'[attempt][n] = pipe[attempt][n]
    BY <1>7, <2>1, <2>6 DEF Extended
  <2>8. Within(pipe'[attempt], pos')
    BY <1>5, <2>4, <2>6, <2>7 DEF Within
  <2>9. ASSUME NEW n \in 1..k + 1, pipe'[attempt][n].kind = "frame"
        PROVE  /\ nextOffset <= pipe'[attempt][n].offset
               /\ \A m \in 1..n - 1 : EndsBy(pipe'[attempt][m], pipe'[attempt][n].offset)
    <3>1. CASE n = k + 1
      <4>1. \A m \in 1..k : EndsBy(pipe'[attempt][m], pos)
        BY <1>5, <2>6, <2>7
      <4>2. QED
        BY <2>2, <2>5, <2>7, <3>1, <4>1
    <3>2. CASE n \in 1..k
      <4>1. \A m \in 1..n - 1 : m \in 1..k
        BY <3>2
      <4>2. QED
        BY <2>6, <2>7, <2>9, <3>2, <4>1 DEF Steady, InOrder
    <3>3. QED
      BY <3>1, <3>2
  <2>10. QED
    BY <2>7, <2>8, <2>9 DEF InOrder
<1>8. QED
  BY <1>1, <1>6, <1>7

LEMMA SteadySender ==
  ASSUME TypeOK, ShapeInv, OrderInv, Steady, Sender
  PROVE  Steady'
<1>1. /\ UNCHANGED <<source, nextOffset, streaming, reply>> /\ ShapeInv' /\ TypeOK'
  BY SenderShape DEF target
<1>2. attempt \in Attempts /\ attempt \in Nat /\ Len(pipe[attempt]) \in Nat
  BY Pipes, StreamAssumption DEF TypeOK, ShapeInv, Attempts
<1>3. ASSUME UNCHANGED attempt, Others(attempt), Opens(attempt)' => reply[attempt] = "none"
      PROVE  OneReader'
  <2>1. \A b \in Attempts : b # attempt => (Opens(b)' <=> Opens(b))
    BY <1>3 DEF Opens, Others, Header
  <2>2. QED
    BY <1>1, <1>3, <2>1 DEF OneReader, Steady
<1>4. CASE QueryTransfer
  <2>1. /\ pc = "query" /\ pc' = "send" /\ pos' = 0 /\ offset' = nextOffset /\ UNCHANGED attempt
        /\ Others(attempt) /\ Len(pipe'[attempt]) = 1 /\ pipe'[attempt][1] = Header
    BY <1>4, QueryEffect
  <2>2. reply[attempt] = "none"
    BY <1>2, <2>1 DEF OrderInv, Fresh
  <2>3. OneReader'
    BY <1>3, <2>1, <2>2
  <2>4. pipe'[attempt][1].kind # "frame"
    BY <2>1 DEF Header
  <2>5. \A lo, top : InOrder(pipe'[attempt], lo) /\ Within(pipe'[attempt], top)
    BY <2>1, <2>4, Unframed
  <2>6. nextOffset' <= offset'
    BY <1>1, <2>1 DEF TypeOK
  <2>7. QED
    BY <1>1, <2>1, <2>3, <2>5, <2>6 DEF Steady, Ahead, InOrder, Within, EndsBy
<1>5. CASE ReadChunk
  <2>1. /\ pc = "send" /\ reply[attempt] = "none" /\ pos' = pos + Chunk /\ UNCHANGED <<pc, attempt, offset>>
        /\ pos \in Nat /\ Chunk \in Nat /\ nextOffset \in Nat
    BY <1>5, ChunkEffect, ChunkBytes, SourceBytes DEF TypeOK
  <2>2. Others(attempt)
    BY <1>5, ChunkEffect DEF Others
  <2>3. InOrder(pipe'[attempt], nextOffset) /\ Within(pipe'[attempt], pos')
    BY <1>5, SteadyChunk
  <2>4. OneReader'
    BY <1>3, <2>1, <2>2
  <2>5. nextOffset' <= offset' \/ nextOffset' <= pos'
    BY <1>1, <2>1 DEF Steady, Ahead, TypeOK
  <2>6. QED
    BY <1>1, <2>1, <2>3, <2>4, <2>5 DEF Steady, Ahead, InOrder, Within, EndsBy
<1>6. CASE CloseStream
  <2>1. /\ pc' = "close" /\ UNCHANGED attempt /\ Others(attempt) /\ Extended(attempt, EOF)
        /\ pc = "send"
    BY <1>6, CloseEffect
  <2>2. PICK k \in Nat : k = Len(pipe[attempt])
    BY <1>2
  <2>3. /\ Len(pipe'[attempt]) = k + 1 /\ pipe'[attempt][k + 1] = EOF /\ EOF.kind # "frame"
        /\ EOF # Header /\ \A n \in 1..k : pipe'[attempt][n] = pipe[attempt][n]
    BY <2>1, <2>2 DEF Extended, EOF, Header
  <2>4. Opens(attempt)' => Opens(attempt)
    <3>1. CASE k = 0
      BY <2>1, <2>3, <3>1 DEF Opens, Header
    <3>2. CASE k > 0
      BY <2>1, <2>2, <2>3, <3>2, <1>2, Pipes DEF Opens, Header, ShapeInv
    <3>3. QED
      BY <3>1, <3>2
  <2>5. OneReader'
    BY <1>2, <1>3, <2>1, <2>4 DEF Steady, OneReader
  <2>6. ASSUME NEW n \in 1..k + 1, pipe'[attempt][n].kind = "frame"
        PROVE  /\ nextOffset <= pipe'[attempt][n].offset
               /\ \A m \in 1..n - 1 : EndsBy(pipe'[attempt][m], pipe'[attempt][n].offset)
    <3>1. n \in 1..k /\ \A m \in 1..n - 1 : m \in 1..k
      BY <2>3, <2>6
    <3>2. QED
      BY <2>2, <2>3, <2>6, <3>1 DEF Steady, InOrder
  <2>7. InOrder(pipe'[attempt], nextOffset)
    BY <2>3, <2>6 DEF InOrder
  <2>8. QED
    BY <1>1, <2>1, <2>5, <2>7 DEF Steady, Ahead, InOrder, EndsBy
<1>7. CASE ReadReply
  <2>1. UNCHANGED pipe /\ pc' # "send"
    BY <1>7, ReplyEffect
  <2>2. CASE UNCHANGED attempt
    <3>1. Opens(attempt)' <=> Opens(attempt)
      BY <2>1, <2>2 DEF Opens, Header
    <3>2. OneReader'
      BY <1>2, <1>3, <2>1, <2>2, <3>1 DEF Steady, OneReader, Others
    <3>3. QED
      BY <1>1, <2>1, <2>2, <3>2 DEF Steady, Ahead, InOrder, EndsBy
  <2>3. CASE /\ attempt' = attempt + 1 /\ attempt' \in Attempts
             /\ reply[attempt] \in {"busy", "error", "unavailable"}
    <3>1. attempt' > attempt
      BY <1>2, <2>3
    <3>2. pipe[attempt'] = <<>>
      BY <2>3, <3>1 DEF OrderInv, Fresh
    <3>3. Len(pipe'[attempt']) = 0
      BY <2>1, <3>2
    <3>4. streaming' = 0
      BY <1>1, <2>3 DEF Steady, OneReader
    <3>5. \A b \in Attempts : ~Opens(b)
      BY <2>3 DEF Steady, OneReader
    <3>6. \A b \in Attempts : ~Opens(b)' /\ reply'[b] # "bad"
      BY <1>1, <2>1, <3>5 DEF Opens, Steady, OneReader, Header
    <3>7. OneReader'
      BY <3>4, <3>6 DEF OneReader
    <3>8. InOrder(pipe'[attempt'], nextOffset')
      BY <3>3, Unframed
    <3>9. QED
      BY <2>1, <3>7, <3>8 DEF Steady, Ahead, InOrder, EndsBy
  <2>4. QED
    BY <1>7, <2>2, <2>3, ReplyEffect
<1>8. CASE CommitTransfer
  <2>1. UNCHANGED <<pipe, attempt>> /\ pc' # "send"
    BY <1>8 DEF CommitTransfer
  <2>2. Opens(attempt)' <=> Opens(attempt)
    BY <2>1 DEF Opens, Header
  <2>3. OneReader'
    BY <1>2, <1>3, <2>1, <2>2 DEF Steady, OneReader, Others
  <2>4. QED
    BY <1>1, <2>1, <2>3 DEF Steady, Ahead, InOrder, EndsBy
<1>9. QED
  BY <1>4, <1>5, <1>6, <1>7, <1>8 DEF Sender

\* A handler that notices the drop at once leaves nobody on the stream.
LEMMA SteadyDrop ==
  ASSUME TypeOK, ShapeInv, Steady, Drop, UNCHANGED lingered, lingered' # TRUE
  PROVE  Steady'
<1>1. /\ attempt \in Attempts /\ Others(attempt) /\ UNCHANGED <<source, nextOffset, pc, attempt, offset, pos>>
      /\ reply'[attempt] = "unavailable"
      /\ \A b \in Attempts : b # attempt => reply'[b] = reply[b]
  BY DropShape DEF target
<1>2. PICK n \in 0..Len(pipe[attempt]) :
        /\ Len(pipe'[attempt]) = n + 1 /\ pipe'[attempt][n + 1] = Cut
        /\ \/ n = 0 /\ streaming' \in {0, streaming} \ {attempt} /\ UNCHANGED lingered
           \/ UNCHANGED streaming /\ lingered' = TRUE
  BY DropShape
<1>3. n = 0 /\ streaming' \in {0, streaming} \ {attempt}
  BY <1>2
<1>4. Len(pipe'[attempt]) = 1 /\ pipe'[attempt][1] = Cut /\ Cut.kind # "frame" /\ Cut # Header
  BY <1>2, <1>3 DEF Cut, Header
<1>5. streaming' = 0
  BY <1>3 DEF Steady, OneReader
<1>6. \A b \in Attempts : ~Opens(b)'
  <2>1. ~Opens(attempt)'
    BY <1>1, <1>4 DEF Opens, Header
  <2>2. \A b \in Attempts : b # attempt => (Opens(b)' <=> Opens(b))
    BY <1>1 DEF Opens, Others, Header
  <2>3. QED
    BY <1>1, <2>1, <2>2 DEF Steady, OneReader
<1>7. OneReader'
  BY <1>1, <1>5, <1>6 DEF Steady, OneReader
<1>8. \A lo, top : InOrder(pipe'[attempt], lo) /\ Within(pipe'[attempt], top)
  BY <1>4, Unframed
<1>9. QED
  BY <1>1, <1>7, <1>8 DEF Steady, Ahead, InOrder, Within, EndsBy

LEMMA SteadyTail ==
  ASSUME NEW s, NEW t, NEW k \in Nat, Len(s) = k + 1, Len(t) = k, \A n \in 1..k : t[n] = s[n + 1],
         NEW lo, InOrder(s, lo), NEW lo2,
         lo2 = lo \/ (s[1].kind = "frame" /\ lo2 = s[1].offset + Len(s[1].data))
  PROVE  InOrder(t, lo2) /\ \A top : Within(s, top) => Within(t, top)
<1>1. \A n \in 1..k : n + 1 \in 1..k + 1
  OBVIOUS
<1>2. \A top : Within(s, top) => Within(t, top)
  BY <1>1 DEF Within
<1>3. ASSUME NEW n \in 1..k, t[n].kind = "frame"
      PROVE  lo2 <= t[n].offset /\ \A m \in 1..n - 1 : EndsBy(t[m], t[n].offset)
  <2>1. s[n + 1].kind = "frame" /\ t[n] = s[n + 1] /\ n + 1 \in 1..k + 1
    BY <1>1, <1>3
  <2>2. lo <= s[n + 1].offset /\ \A m \in 1..(n + 1) - 1 : EndsBy(s[m], s[n + 1].offset)
    BY <2>1 DEF InOrder
  <2>3. 1 \in 1..(n + 1) - 1 /\ \A m \in 1..n - 1 : m + 1 \in 1..(n + 1) - 1 /\ m \in 1..k
    OBVIOUS
  <2>4. \A m \in 1..n - 1 : EndsBy(t[m], t[n].offset)
    BY <2>1, <2>2, <2>3
  <2>5. EndsBy(s[1], s[n + 1].offset)
    BY <2>2, <2>3
  <2>6. lo2 <= s[n + 1].offset
    BY <2>2, <2>5 DEF EndsBy
  <2>7. QED
    BY <2>1, <2>4, <2>6
<1>4. QED
  BY <1>2, <1>3 DEF InOrder

\* The one handler that reads takes the frames of its stream in order, and none
\* of them lies before the offset: it refuses none.
LEMMA SteadyHandler ==
  ASSUME TypeOK, ShapeInv, OrderInv, Steady, NEW a \in Attempts, Handler(a)
  PROVE  Steady'
<1> USE DEF target
<1>1. /\ Others(a) /\ UNCHANGED <<source, pc, attempt, offset, pos>>
      /\ \A b \in Attempts : b # a => reply'[b] = reply[b]
      /\ reply[a] # "none" => reply'[a] = reply[a]
      /\ a # 0 /\ Len(pipe[a]) \in Nat
  BY HandlerShape, Pipes, StreamAssumption DEF ShapeInv, Attempts
<1>2. ~Opens(a)'
  BY HandlerLeaves
<1>3. ASSUME Attach(a)
      PROVE  a = attempt /\ reply[a] = "none" /\ streaming = 0 /\ streaming' = a /\ UNCHANGED reply
  <2>1. Opens(a) /\ Len(pipe[a]) > 0 /\ pipe[a][1] = Header
    BY <1>3, Pipes DEF Attach, ShapeInv
  <2>2. streaming # a
    BY <1>1, <2>1 DEF OrderInv
  <2>3. a = attempt /\ reply[a] = "none"
    BY <2>1 DEF Steady, OneReader
  <2>4. streaming = 0
    BY <2>2, <2>3 DEF Steady, OneReader
  <2>5. QED
    BY <1>3, <2>3, <2>4 DEF Attach
<1>4. ASSUME ~Attach(a)
      PROVE  streaming = a /\ a = attempt /\ reply[a] \in {"none", "ok"}
  <2>1. streaming = a
    BY <1>4 DEF Handler, WriteFrame, WriteFails, RefuseFrame, ReceiveEOF, Detach
  <2>2. QED
    BY <1>1, <2>1 DEF Steady, OneReader
<1>5. a = attempt
  BY <1>3, <1>4
<1>6. ~RefuseFrame(a)
  <2>1. SUFFICES ASSUME RefuseFrame(a) PROVE FALSE
    OBVIOUS
  <2>2. Received(a) /\ Message(a).kind = "frame" /\ ~Valid(Message(a))
    BY <2>1 DEF RefuseFrame
  <2>3. /\ Message(a) = pipe[a][1] /\ Len(pipe[a]) > 0
        /\ Message(a).offset \in Nat /\ Message(a).offset < Size /\ Message(a).offset % Chunk = 0
        /\ Len(Message(a).data) \in 1..Chunk /\ Message(a).offset + Len(Message(a).data) <= Size
        /\ Len(Message(a).data) < Chunk => Message(a).offset + Len(Message(a).data) = Size
    BY <2>2, HeadFrame
  <2>4. 1 \in 1..Len(pipe[a])
    BY <1>1, <2>3
  <2>5. nextOffset <= Message(a).offset /\ nextOffset \in Nat
    BY <1>5, <2>2, <2>3, <2>4 DEF Steady, InOrder, TypeOK
  <2>6. Message(a).offset >= nextOffset
    BY <2>3, <2>5
  <2>7. QED
    BY <2>2, <2>3, <2>6, Zenon DEF Valid
<1>7. OneReader'
  <2>1. \A b \in Attempts : Opens(b)' => Opens(b) /\ b # a
    BY <1>1, <1>2 DEF Opens, Others, Header
  <2>2. \A b \in Attempts : ~Opens(b)'
    BY <1>5, <2>1 DEF Steady, OneReader
  <2>3. \A b \in Attempts : b # a => reply'[b] # "bad"
    BY <1>1 DEF Steady, OneReader
  <2>4. reply'[a] # "bad" /\ (streaming' = 0 \/ (streaming' = a /\ reply'[a] \in {"none", "ok"}))
    <3>1. CASE Attach(a)
      BY <1>3, <3>1
    <3>2. CASE ~Attach(a) /\ WriteFrame(a)
      BY <1>4, <3>2 DEF WriteFrame
    <3>3. CASE ~Attach(a) /\ WriteFails(a)
      <4>1. streaming' = 0 /\ Answer(a, "error")
        BY <3>3 DEF WriteFails
      <4>2. QED
        BY <1>4, <3>3, <4>1, AnswerEffect
    <3>4. CASE ~Attach(a) /\ ReceiveEOF(a)
      <4>1. UNCHANGED streaming /\ Answer(a, "ok")
        BY <3>4 DEF ReceiveEOF
      <4>2. QED
        BY <1>4, <3>4, <4>1, AnswerEffect
    <3>5. CASE ~Attach(a) /\ Detach(a)
      BY <1>4, <3>5 DEF Detach
    <3>6. QED
      BY <1>6, <3>1, <3>2, <3>3, <3>4, <3>5 DEF Handler
  <2>5. QED
    BY <1>1, <1>5, <2>2, <2>3, <2>4 DEF OneReader
<1>8. PICK s : s = pipe[attempt]
  OBVIOUS
<1>9. PICK t : t = pipe'[attempt]
  OBVIOUS
<1>10. /\ InOrder(t, nextOffset') /\ (pc = "send" => Within(t, pos))
       /\ pc = "send" => nextOffset' <= offset \/ nextOffset' <= pos
  <2>1. InOrder(s, nextOffset) /\ (pc = "send" => Within(s, pos)) /\ Ahead
    BY <1>8 DEF Steady
  <2>2. CASE UNCHANGED nextOffset /\ t = s
    BY <2>1, <2>2 DEF Ahead
  <2>3. CASE UNCHANGED nextOffset /\ Len(t) = 0
    <3>1. InOrder(t, nextOffset') /\ Within(t, pos)
      BY <2>3, Unframed
    <3>2. QED
      BY <2>1, <2>3, <3>1 DEF Ahead
  <2>4. CASE Received(a) /\ Consume(a) /\ (UNCHANGED nextOffset \/ WriteFrame(a))
    <3>1. Shifted(a)
      BY <2>4, ConsumeEffect DEF ShapeInv
    <3>2. PICK k \in Nat : /\ Len(s) = k + 1 /\ Len(t) = k /\ \A n \in 1..k : t[n] = s[n + 1]
      <4>1. PICK k \in Nat : k = Len(s) - 1
        BY <1>1, <1>5, <1>8, <3>1 DEF Shifted
      <4>2. QED
        BY <1>1, <1>5, <1>8, <1>9, <3>1, <4>1 DEF Shifted
    <3>3. nextOffset' = nextOffset \/
            (/\ s[1].kind = "frame" /\ nextOffset' = s[1].offset + Len(s[1].data)
             /\ WriteFrame(a))
      <4>1. CASE WriteFrame(a)
        BY <1>5, <1>8, <4>1, HeadFrame DEF WriteFrame
      <4>2. QED
        BY <2>4, <4>1
    <3>4. InOrder(t, nextOffset') /\ \A top : Within(s, top) => Within(t, top)
      BY <2>1, <3>2, <3>3, SteadyTail
    <3>5. ASSUME pc = "send" PROVE nextOffset' <= offset \/ nextOffset' <= pos
      <4>1. 1 \in 1..Len(s)
        BY <3>2
      <4>2. EndsBy(s[1], pos)
        BY <2>1, <3>5, <4>1 DEF Within
      <4>3. QED
        BY <2>1, <3>3, <3>5, <4>2 DEF EndsBy, Ahead
    <3>6. QED
      BY <2>1, <3>4, <3>5
  <2>5. CASE Attach(a) \/ ReceiveEOF(a) \/ WriteFrame(a)
    BY <2>4, <2>5 DEF Attach, ReceiveEOF, WriteFrame
  <2>6. CASE WriteFails(a)
    <3>1. pipe' = [pipe EXCEPT ![a] = <<>>] /\ UNCHANGED nextOffset
      BY <2>6 DEF WriteFails
    <3>2. Len(t) = 0
      BY <1>5, <1>9, <3>1, ClearEffect DEF ShapeInv
    <3>3. QED
      BY <2>3, <3>1, <3>2
  <2>7. CASE Detach(a)
    <3>1. UNCHANGED nextOffset /\ ((Received(a) /\ Consume(a)) \/ UNCHANGED pipe)
      BY <2>7 DEF Detach
    <3>2. QED
      BY <1>8, <1>9, <2>2, <2>4, <3>1
  <2>8. QED
    BY <1>6, <2>5, <2>6, <2>7 DEF Handler
<1>11. QED
  BY <1>1, <1>7, <1>9, <1>10 DEF Steady, Ahead, InOrder, Within, EndsBy

LEMMA SteadyStep ==
  ASSUME TypeOK, ShapeInv, OrderInv, SteadyInv, [Next]_vars
  PROVE  SteadyInv'
<1>1. SUFFICES ASSUME ~lingered' PROVE Steady'
  BY SteadyParts, PTL
<1>2. CASE Sender
  <2>1. ~lingered
    BY <1>1, <1>2, SenderShape, Zenon DEF faults
  <2>2. QED
    BY <1>2, <2>1, SteadyParts, SteadySender
<1>3. CASE Drop
  <2>1. UNCHANGED lingered /\ lingered' # TRUE
    BY <1>1, <1>3, Zenon DEF Drop
  <2>2. ~lingered
    BY <1>1, <2>1, Zenon
  <2>3. QED
    BY <1>3, <2>1, <2>2, SteadyParts, SteadyDrop
<1>4. ASSUME NEW a \in Attempts, Handler(a) PROVE Steady'
  <2>1. ~lingered
    BY <1>1, <1>4, HandlerShape, Zenon
  <2>2. QED
    BY <1>4, <2>1, SteadyParts, SteadyHandler
<1>5. CASE UNCHANGED vars
  <2>1. ~lingered
    BY <1>1, <1>5, Zenon DEF vars, faults
  <2>2. Steady
    BY <2>1, SteadyParts
  <2>3. QED
    BY <1>5, <2>2 DEF vars, Steady, OneReader, InOrder, Within, Ahead, EndsBy, Opens, Header, Attempts
<1>6. QED
  BY <1>2, <1>3, <1>4, <1>5 DEF Next

-----------------------------------------------------------------------------
LEMMA StreamInit == Init => StreamInv
<1>1. SUFFICES ASSUME Init PROVE StreamInv
  OBVIOUS
<1>2. TypeOK /\ ShapeInv /\ OrderInv
  BY <1>1, ShapeInit, OrderInit
<1>3. CarriedInv /\ BytesInv /\ DigestInv /\ SteadyInv
  BY <1>1, <1>2, CarriedInit, BytesInit, DigestInit, SteadyInit
<1>4. NoFalseLoss
  BY <1>1 DEF Init, NoFalseLoss
<1>5. QED
  BY <1>2, <1>3, <1>4 DEF StreamInv

LEMMA StreamStutter ==
  ASSUME TypeOK, ShapeInv, OrderInv, CarriedInv, UNCHANGED vars
  PROVE  TypeOK' /\ ShapeInv' /\ OrderInv' /\ CarriedInv'
<1>1. UNCHANGED <<source, device, digest, nextOffset, streaming, pipe, reply, pc, attempt,
                  offset, pos, drops, writeErrors, lingered>>
  BY DEF vars, faults
<1>2. TypeOK'
  BY <1>1 DEF TypeOK, Size
<1>3. ShapeInv'
  BY <1>1, SameSource DEF ShapeInv, Size
<1>4. OrderInv'
  BY <1>1 DEF OrderInv, Fresh, Holds, Live, Opens, Header, EOF, Cut
<1>5. CarriedInv'
  <2>1. \A a \in Attempts : Live(a)' => Complete(pipe'[a], nextOffset')
    BY <1>1 DEF Live, Opens, CarriedInv, Header
  <2>2. QED
    BY <1>1, <2>1, CarriedNow DEF CarriedInv
<1>6. QED
  BY <1>2, <1>3, <1>4, <1>5

LEMMA StreamStep == StreamInv /\ [Next]_vars => StreamInv'
<1>1. SUFFICES ASSUME StreamInv, [Next]_vars PROVE StreamInv'
  OBVIOUS
<1>2. /\ TypeOK /\ ShapeInv /\ OrderInv /\ CarriedInv /\ BytesInv /\ DigestInv /\ SteadyInv
      /\ NoFalseLoss
  BY <1>1 DEF StreamInv
<1>3. TypeOK' /\ ShapeInv' /\ OrderInv' /\ CarriedInv'
  <2>1. CASE Sender
    BY <1>2, <2>1, SenderShape, SenderOrder, SenderCarried
  <2>2. CASE Drop
    BY <1>2, <2>2, DropShape, DropOrder, DropCarried
  <2>3. ASSUME NEW a \in Attempts, Handler(a) PROVE TypeOK' /\ ShapeInv' /\ OrderInv' /\ CarriedInv'
    BY <1>2, <2>3, HandlerShape, HandlerOrder, HandlerCarried
  <2>4. CASE UNCHANGED vars
    BY <1>2, <2>4, StreamStutter
  <2>5. QED
    BY <1>1, <2>1, <2>2, <2>3, <2>4 DEF Next
<1>4. BytesInv' /\ DigestInv' /\ SteadyInv' /\ NoFalseLoss'
  BY <1>1, <1>2, BytesStep, DigestStep, SteadyStep, LossStep
<1>5. QED
  BY <1>3, <1>4 DEF StreamInv

\* The streams, the bytes, the offset and the digest agree at every moment: for
\* every content and chunk size, and for any number of attempts, of dropped
\* connections and of failed writes (streamOnce, Receive, Write).
THEOREM StreamInvariant == Spec => []StreamInv
  BY StreamInit, StreamStep, PTL DEF Spec

\* A committed copy is the source's content, byte for byte, and the offset
\* QueryTransfer answers covers only what is on the device.
THEOREM CopyIsExact == Spec => []Integrity
<1>1. StreamInv => Integrity
  <2>1. SUFFICES ASSUME StreamInv PROVE Integrity
    OBVIOUS
  <2>2. TypeOK /\ CarriedInv /\ BytesInv
    BY <2>1 DEF StreamInv
  <2>3. ASSUME pc = "done" PROVE device = source
    <3>1. OnlyZerosAfter(nextOffset)
      BY <2>2, <2>3 DEF CarriedInv
    <3>2. /\ source \in Seq({0, 1}) /\ Size \in Nat /\ device \in [1..Size -> {0, 1}]
          /\ nextOffset \in 0..Size
      BY <2>2, SourceBytes DEF TypeOK
    <3>3. ASSUME NEW i \in 1..Size PROVE device[i] = source[i]
      <4>1. CASE i <= nextOffset
        BY <2>2, <3>2, <4>1 DEF BytesInv, OffsetHonest
      <4>2. CASE nextOffset < i
        BY <2>2, <3>1, <4>2 DEF BytesInv, OnlyZerosAfter
      <4>3. QED
        BY <3>2, <4>1, <4>2
    <3>4. source \in [1..Size -> {0, 1}]
      BY <3>2 DEF Size
    <3>5. QED
      BY <3>2, <3>3, <3>4
  <2>4. QED
    BY <2>2, <2>3 DEF Integrity, BytesInv
<1>2. QED
  BY <1>1, StreamInvariant, PTL

\* Commit answers DATA_LOSS only after a write of the target's device failed.
THEOREM OnlyWritesLose == Spec => []NoFalseLoss
<1>1. StreamInv => NoFalseLoss
  BY DEF StreamInv
<1>2. QED
  BY <1>1, StreamInvariant, PTL

\* The target refuses no frame of a source that continues at the queried offset,
\* unless the handler of a dropped stream read on.
THEOREM ReconnectContinues == Spec => []Continues
<1>1. StreamInv => Continues
  <2>1. SUFFICES ASSUME SteadyInv PROVE Continues
    BY DEF StreamInv
  <2>2. ~lingered => \A a \in Attempts : reply[a] # "bad"
    BY <2>1, SteadyParts, Zenon DEF Steady, OneReader
  <2>3. QED
    BY <2>2, Zenon DEF Continues
<1>2. QED
  BY <1>1, StreamInvariant, PTL
=============================================================================
