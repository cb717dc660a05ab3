------------------------------- MODULE Stream -------------------------------
(***************************************************************************)
(* The data path of one transfer: the source reads its device in chunks,   *)
(* sends the non-zero ones, reconnects at the queried offset after a drop, *)
(* and commits with the digest of what it read; the target validates,      *)
(* digests and writes the frames.  Sources: streamVolume and streamOnce in *)
(* internal/api/push.go, Receive in internal/api/api.go, Write and Commit  *)
(* in internal/storage/transfers.go, reader.go and digest.go.              *)
(*                                                                         *)
(* A byte is 0 or 1.  The digest is the sequence of chunks and the size it *)
(* was computed from: sha256 is taken to be injective.                     *)
(***************************************************************************)
EXTENDS Naturals, Sequences

CONSTANTS
  Chunk,         \* TransferChunkBytes
  Contents,      \* the contents the source's device may have
  PushAttempts,  \* pushAttempts of push.go
  MaxDrops,      \* bound: dropped connections
  MaxWriteErrors \* bound: failed writes of the target's device

ASSUME StreamAssumption ==
  /\ Chunk \in Nat \ {0} /\ Contents \subseteq Seq({0, 1}) /\ PushAttempts \in Nat \ {0}
  /\ MaxDrops \in Nat /\ MaxWriteErrors \in Nat

VARIABLES
  source,      \* the bytes of the source's device
  device,      \* the bytes of the target's device
  digest,      \* the chunks added to the session's DigestBuilder
  nextOffset,  \* session.nextOffset
  streaming,   \* the attempt whose stream holds the slot, 0 if none
  pipe,        \* pipe[a]: messages of attempt a's stream not yet received
  reply,       \* reply[a]: how attempt a's stream ended for the source
  pc,          \* where the source's goroutine is
  attempt,     \* its loop counter
  offset,      \* the queried offset
  pos,         \* how far ReadDevice has read
  drops, writeErrors,
  lingered     \* history: a handler read on after its connection dropped

target == <<device, digest, nextOffset>>
faults == <<drops, writeErrors, lingered>>
vars == <<source, device, digest, nextOffset, streaming, pipe, reply, pc, attempt,
          offset, pos, faults>>

Attempts == 1..PushAttempts
Size == Len(source)

Header == [kind |-> "header"]
EOF == [kind |-> "eof"]
Cut == [kind |-> "cut"]
Frame(o, data) == [kind |-> "frame", offset |-> o, data |-> data]

\* Chunk of the bytes at offset o; the last one may be short.
ChunkAt(bytes, o) ==
  SubSeq(bytes, o + 1, IF o + Chunk < Len(bytes) THEN o + Chunk ELSE Len(bytes))

Zeros(n) == [i \in 1..n |-> 0]
IsZero(chunk) == \A i \in DOMAIN chunk : chunk[i] = 0

Min2(x, y) == IF x < y THEN x ELSE y

\* Chunks from offset lo up to hi as AddZeroChunk adds them.
ZeroChunks(lo, hi) ==
  LET count == IF hi <= lo THEN 0 ELSE (hi - lo + Chunk - 1) \div Chunk
  IN [i \in 1..count |-> Zeros(Min2(Chunk, Size - (lo + (i - 1) * Chunk)))]

\* What ReadDevice digests: every chunk in order, then the size.
DigestOf(bytes) ==
  [chunks |-> [i \in 1..((Len(bytes) + Chunk - 1) \div Chunk) |->
                 ChunkAt(bytes, (i - 1) * Chunk)],
   size |-> Len(bytes)]

\* What Commit compares it with: gaps up to the size count as zeros.
SessionDigest ==
  [chunks |-> digest \o ZeroChunks(nextOffset, Size), size |-> Size]

PCs == {"query", "send", "close", "commit", "done", "giveup", "dataloss"}

\* Type of the state.
TypeOK ==
  /\ source \in Contents
  /\ device \in [1..Size -> {0, 1}]
  /\ nextOffset \in 0..Size
  /\ streaming \in 0..PushAttempts
  /\ reply \in [Attempts -> {"none", "ok", "busy", "bad", "error", "unavailable"}]
  /\ pc \in PCs /\ attempt \in Attempts
  /\ offset \in 0..Size
  /\ drops \in 0..MaxDrops /\ writeErrors \in 0..MaxWriteErrors /\ lingered \in BOOLEAN

\* PrepareReceive created the target's volume with the source's size; an
\* unwritten thin volume reads as zeros.
Init ==
  /\ source \in Contents
  /\ device = Zeros(Size) /\ digest = <<>> /\ nextOffset = 0
  /\ streaming = 0
  /\ pipe = [a \in Attempts |-> <<>>]
  /\ reply = [a \in Attempts |-> "none"]
  /\ pc = "query" /\ attempt = 1 /\ offset = 0 /\ pos = 0
  /\ drops = 0 /\ writeErrors = 0 /\ lingered = FALSE

-----------------------------------------------------------------------------
\* The source.

\* streamOnce asks for the offset, opens the stream and sends the header.
QueryTransfer ==
  /\ pc = "query"
  /\ offset' = nextOffset
  /\ pos' = 0
  /\ pipe' = [pipe EXCEPT ![attempt] = <<Header>>]
  /\ pc' = "send"
  /\ UNCHANGED <<source, target, streaming, reply, attempt, faults>>

\* Mutant of Transmits: a reconnect sends from the beginning.
TransmitsAll(o, chunk) == ~IsZero(chunk)

\* ReadDevice visits the chunk at pos: zero chunks are skipped, and so are the
\* frames before the queried offset.
Transmits(o, chunk) == ~IsZero(chunk) /\ o >= offset

ReadChunk ==
  /\ pc = "send" /\ pos < Size /\ reply[attempt] = "none"
  /\ pipe' = IF Transmits(pos, ChunkAt(source, pos))
             THEN [pipe EXCEPT ![attempt] = Append(@, Frame(pos, ChunkAt(source, pos)))]
             ELSE pipe
  /\ pos' = pos + Chunk
  /\ UNCHANGED <<source, target, streaming, reply, pc, attempt, offset, faults>>

CloseStream ==
  /\ pc = "send" /\ pos >= Size
  /\ pipe' = [pipe EXCEPT ![attempt] = Append(@, EOF)]
  /\ pc' = "close"
  /\ UNCHANGED <<source, target, streaming, reply, attempt, offset, pos, faults>>

\* The next attempt, or the end of a failed push.
RetryOrGiveUp ==
  IF attempt < PushAttempts THEN attempt' = attempt + 1 /\ pc' = "query"
  ELSE pc' = "giveup" /\ UNCHANGED attempt

\* The source learns how the stream ended; definitivePushError takes a bad
\* frame for final, an attach that found the slot taken is tried again.
ReadReply ==
  /\ pc \in {"send", "close"} /\ reply[attempt] # "none"
  /\ \/ reply[attempt] = "ok" /\ pc' = "commit" /\ UNCHANGED attempt
     \/ reply[attempt] = "bad" /\ pc' = "giveup" /\ UNCHANGED attempt
     \/ reply[attempt] \in {"busy", "error", "unavailable"} /\ RetryOrGiveUp
  /\ UNCHANGED <<source, target, streaming, pipe, reply, offset, pos, faults>>

\* The connection drops.  The handler notices at once, or it lingers: it keeps
\* the slot and still reads what its transport has buffered.
Drop ==
  /\ pc \in {"send", "close"} /\ reply[attempt] = "none" /\ drops < MaxDrops
  /\ drops' = drops + 1
  /\ reply' = [reply EXCEPT ![attempt] = "unavailable"]
  /\ \/ /\ pipe' = [pipe EXCEPT ![attempt] = <<Cut>>]
        /\ streaming' = IF streaming = attempt THEN 0 ELSE streaming
        /\ UNCHANGED lingered
     \/ /\ lingered' = TRUE
        /\ \E n \in 0..Len(pipe[attempt]) :
             pipe' = [pipe EXCEPT ![attempt] = Append(SubSeq(@, 1, n), Cut)]
        /\ UNCHANGED streaming
  /\ UNCHANGED <<source, target, pc, attempt, offset, pos, writeErrors>>

-----------------------------------------------------------------------------
\* The Receive handler of attempt a's stream.

Received(a) == pipe[a] # <<>>
Message(a) == Head(pipe[a])
Consume(a) == pipe' = [pipe EXCEPT ![a] = Tail(@)]

\* The handler answers, unless the source has already seen the drop.
Answer(a, r) == reply' = IF reply[a] = "none" THEN [reply EXCEPT ![a] = r] ELSE reply

\* Attach claims the only stream slot.
Attach(a) ==
  /\ Received(a) /\ Message(a) = Header
  /\ Consume(a)
  /\ \/ streaming = 0 /\ streaming' = a /\ UNCHANGED reply
     \/ streaming # 0 /\ Answer(a, "busy") /\ UNCHANGED streaming
  /\ UNCHANGED <<source, target, pc, attempt, offset, pos, faults>>

\* The checks at the head of Write.
Valid(f) ==
  /\ f.offset % Chunk = 0
  /\ f.offset >= nextOffset
  /\ f.offset + Len(f.data) <= Size
  /\ Len(f.data) \in 1..Chunk
  /\ Len(f.data) < Chunk => f.offset + Len(f.data) = Size

\* Mutant of Digested: the skipped range is not digested.
DigestedNoGap(f) == digest \o <<f.data>>

\* The chunks a frame adds to the digest: the skipped range as zeros, its own.
Digested(f) == digest \o ZeroChunks(nextOffset, f.offset) \o <<f.data>>

\* WriteAt on the device.
Written(f) ==
  [i \in 1..Size |-> IF i > f.offset /\ i <= f.offset + Len(f.data)
                     THEN f.data[i - f.offset] ELSE device[i]]

\* Write accepts a frame: digest first, then the device, then the offset.
WriteFrame(a) ==
  /\ streaming = a /\ Received(a) /\ Message(a).kind = "frame" /\ Valid(Message(a))
  /\ Consume(a)
  /\ digest' = Digested(Message(a))
  /\ device' = Written(Message(a))
  /\ nextOffset' = Message(a).offset + Len(Message(a).data)
  /\ UNCHANGED <<source, streaming, reply, pc, attempt, offset, pos, faults>>

\* Mutant of WriteFails: the offset advances although the write failed.
WriteFailsAdvances(a) ==
  /\ streaming = a /\ Received(a) /\ Message(a).kind = "frame" /\ Valid(Message(a))
  /\ writeErrors < MaxWriteErrors /\ writeErrors' = writeErrors + 1
  /\ pipe' = [pipe EXCEPT ![a] = <<>>]
  /\ digest' = Digested(Message(a))
  /\ device' \in {device, Written(Message(a))}
  /\ nextOffset' = Message(a).offset + Len(Message(a).data)
  /\ Answer(a, "error")
  /\ streaming' = 0
  /\ UNCHANGED <<source, pc, attempt, offset, pos, drops, lingered>>

\* WriteAt fails, with or without having written: the stream ends in an error
\* after the digest has taken the chunk.
WriteFails(a) ==
  /\ streaming = a /\ Received(a) /\ Message(a).kind = "frame" /\ Valid(Message(a))
  /\ writeErrors < MaxWriteErrors /\ writeErrors' = writeErrors + 1
  /\ pipe' = [pipe EXCEPT ![a] = <<>>]
  /\ digest' = Digested(Message(a))
  /\ device' \in {device, Written(Message(a))}
  /\ Answer(a, "error")
  /\ streaming' = 0
  /\ UNCHANGED <<source, nextOffset, pc, attempt, offset, pos, drops, lingered>>

\* A frame that fails the checks ends the stream.
RefuseFrame(a) ==
  /\ streaming = a /\ Received(a) /\ Message(a).kind = "frame" /\ ~Valid(Message(a))
  /\ pipe' = [pipe EXCEPT ![a] = <<>>]
  /\ Answer(a, "bad")
  /\ streaming' = 0
  /\ UNCHANGED <<source, target, pc, attempt, offset, pos, faults>>

\* The end of the stream is answered before the deferred Detach runs.
ReceiveEOF(a) ==
  /\ streaming = a /\ Received(a) /\ Message(a) = EOF
  /\ Consume(a)
  /\ Answer(a, "ok")
  /\ UNCHANGED <<source, target, streaming, pc, attempt, offset, pos, faults>>

\* Mutant of Detach: the stream slot is not released.
DetachKeepsSlot(a) ==
  /\ streaming = a /\ Received(a) /\ Message(a) = Cut /\ Consume(a)
  /\ UNCHANGED <<source, target, streaming, reply, pc, attempt, offset, pos, faults>>

\* Detach, after the answer or when the handler reaches the cut.
Detach(a) ==
  /\ streaming = a
  /\ \/ Received(a) /\ Message(a) = Cut /\ Consume(a)
     \/ ~Received(a) /\ reply[a] # "none" /\ UNCHANGED pipe
  /\ streaming' = 0
  /\ UNCHANGED <<source, target, reply, pc, attempt, offset, pos, faults>>

-----------------------------------------------------------------------------
\* Commit: refused as long as the stream is attached (commitPush asks again),
\* then decided by the digest.
Matches == SessionDigest = DigestOf(source)

CommitTransfer ==
  /\ pc = "commit" /\ streaming = 0
  /\ pc' = IF Matches THEN "done" ELSE "dataloss"
  /\ UNCHANGED <<source, target, streaming, pipe, reply, attempt, offset, pos, faults>>

Handler(a) ==
  \/ Attach(a) \/ WriteFrame(a) \/ WriteFails(a) \/ RefuseFrame(a)
  \/ ReceiveEOF(a) \/ Detach(a)

Sender == QueryTransfer \/ ReadChunk \/ CloseStream \/ ReadReply \/ CommitTransfer

Next == Sender \/ Drop \/ \E a \in Attempts : Handler(a)

Spec == Init /\ [][Next]_vars

\* Both goroutines run on.
FairSpec == Spec /\ WF_vars(Sender) /\ \A a \in Attempts : WF_vars(Handler(a))

-----------------------------------------------------------------------------
\* Properties.

\* The offset QueryTransfer answers is honest: what lies before it is on the
\* device as the source has it.
OffsetHonest == \A i \in 1..nextOffset : device[i] = source[i]

\* A committed copy is the source's content, byte for byte: whatever was
\* skipped, dropped, resumed or failed, no digest match hides a difference and
\* no offset covers what is not written.
Integrity == TypeOK /\ OffsetHonest /\ (pc = "done" => device = source)

\* A transfer whose device took every write is never refused with DATA_LOSS
\* ("independent of which chunks were transmitted", transfer.proto): not after
\* any number of dropped and resumed streams.
NoFalseLoss == pc = "dataloss" => writeErrors > 0

\* "a reconnect continues at the queried offset" (transfer.proto): the target
\* does not refuse the frames of a source that does so, unless the handler of a
\* dropped stream moved the offset on after it was queried.
Continues == (\E a \in Attempts : reply[a] = "bad") => lingered

\* A reconnect after a failed write continues as well: a copy that is complete
\* is not refused.
LossIsReal == pc = "dataloss" => device # source

\* The push of the content ends.
StreamEnds == <>(pc \in {"done", "giveup", "dataloss"})
-----------------------------------------------------------------------------
\* The inductive invariant behind Integrity, NoFalseLoss and Continues.

\* A stream carries chunks of the source, whole and at their places, and all
\* offsets are those of chunks.
Places == {o \in 0..Size : o < Size /\ o % Chunk = 0}
Messages == {Header, EOF, Cut} \cup {Frame(o, ChunkAt(source, o)) : o \in Places}
ShapeInv ==
  /\ pipe \in [Attempts -> Seq(Messages)]
  /\ pos \in Nat /\ pos % Chunk = 0
  /\ nextOffset % Chunk = 0 \/ nextOffset = Size
  /\ offset <= nextOffset /\ (offset % Chunk = 0 \/ offset = Size)

\* A handler reads stream a, or may come to.
Opens(a) == pipe[a] # <<>> /\ pipe[a][1] = Header
Live(a) == streaming = a \/ Opens(a)

\* Streams follow each other, and after a failure nobody reads to the end of one.
Fresh(a) == pipe[a] = <<>> /\ reply[a] = "none" /\ streaming # a
Holds(a, m) == \E n \in 1..Len(pipe[a]) : pipe[a][n] = m
OrderInv ==
  /\ \A a \in Attempts : a > attempt \/ (a = attempt /\ pc = "query") => Fresh(a)
  /\ \A a \in Attempts : \A n \in 1..Len(pipe[a]) : pipe[a][n] = Header => n = 1 /\ streaming # a
  /\ pc = "send" => reply[attempt] # "ok" /\ ~Holds(attempt, EOF)
  /\ pc = "send" /\ reply[attempt] # "none" => ~Live(attempt) \/ Holds(attempt, Cut)

\* What is not zero after byte lo and up to byte hi is carried by one of the
\* first n messages of stream s.
Covers(m, i) == m.kind = "frame" /\ m.offset < i /\ i <= m.offset + Len(m.data)
Carries(s, n, lo, hi) ==
  \A i \in 1..Size : lo < i /\ i <= hi /\ source[i] # 0 => \E j \in 1..n : Covers(s[j], i)

\* How far a handler is in the content when it reads message m, and that it then
\* has been sent all of it after byte lo.
Reach(m) == IF m.kind = "frame" THEN m.offset ELSE IF m.kind = "eof" THEN Size ELSE 0
Complete(s, lo) ==
  \A n \in 1..Len(s) : (\A j \in 1..n - 1 : s[j] # Cut) => Carries(s, n - 1, lo, Reach(s[n]))

OnlyZerosAfter(lo) == \A i \in 1..Size : lo < i => source[i] = 0
CarriedInv ==
  /\ \A a \in Attempts : Live(a) => Complete(pipe[a], nextOffset)
  /\ pc = "send" /\ reply[attempt] = "none" =>
       Carries(pipe[attempt], Len(pipe[attempt]), nextOffset, pos)
  /\ pc \in {"commit", "done", "dataloss"} \/ (\E a \in Attempts : reply[a] = "ok") =>
       OnlyZerosAfter(nextOffset)

\* A failed write leaves the source's bytes or none.
BytesInv == OffsetHonest /\ \A i \in 1..Size : device[i] \in {0, source[i]}

\* Without one, the digest is that of the source up to the offset.
DigestInv ==
  writeErrors = 0 =>
    digest = [k \in 1..((nextOffset + Chunk - 1) \div Chunk) |-> ChunkAt(source, (k - 1) * Chunk)]

\* Without a lingering handler, only the latest stream is read, in its order.
EndsBy(m, o) == m.kind = "frame" => m.offset + Len(m.data) <= o
SteadyInv ==
  ~lingered =>
    /\ \A a \in Attempts : reply[a] # "bad" /\ (Opens(a) => a = attempt /\ reply[a] = "none")
    /\ streaming = 0 \/ (streaming = attempt /\ reply[attempt] \in {"none", "ok"})
    /\ \A n \in 1..Len(pipe[attempt]) : pipe[attempt][n].kind = "frame" =>
         /\ nextOffset <= pipe[attempt][n].offset
         /\ \A m \in 1..n - 1 : EndsBy(pipe[attempt][m], pipe[attempt][n].offset)
         /\ pc = "send" => EndsBy(pipe[attempt][n], pos)
    /\ pc = "send" => nextOffset <= offset \/ nextOffset <= pos

StreamInv == /\ TypeOK /\ ShapeInv /\ OrderInv /\ CarriedInv /\ BytesInv /\ DigestInv /\ SteadyInv
             /\ NoFalseLoss
=============================================================================
