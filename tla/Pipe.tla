--------------------------------- MODULE Pipe ---------------------------------
(***************************************************************************)
(* The pipe of tg-easy-fs (src/ch6/tg-easy-fs/src/pipe.rs): a ring buffer  *)
(* with head, tail and a three-valued status, read and written by          *)
(* PipeReader::read and PipeWriter::write, and the write-end handles whose *)
(* last drop makes all_write_ends_closed true.  Handles are duplicated by  *)
(* fork copying the fd table and dropped by close.                         *)
(*                                                                         *)
(* Each call runs under the buffer's spin mutex inside a system call, and  *)
(* the kernel is not preempted, so each call is one atomic step.  The      *)
(* reader is a user loop that retries on -2 and stops after EOF.  PipeFds  *)
(* composes the pipe with the processes whose fd tables hold its ends.    *)
(***************************************************************************)
EXTENDS Naturals, Sequences, FiniteSetsExt

CONSTANTS RING_BUFFER_SIZE,  \* 32 in the code; small here
          MaxLen,            \* largest user buffer length of one call
          MaxBytes,          \* bound on the bytes written over a behaviour
          MaxWriters         \* bound on live write-end handles

VARIABLES arr, head, tail, status,  \* PipeRingBuffer
          writers,  \* strong references to the Arc<PipeWriter>
          written,  \* ghost: bytes written so far (byte i carries value i)
          eof       \* ghost: the reader has seen read return 0

vars == <<arr, head, tail, status, writers, written, eof>>

Idx == 0 .. RING_BUFFER_SIZE - 1
Lens == 1 .. MaxLen
Ring == [arr : [Idx -> Nat], head : Idx, tail : Idx,
         status : {"Full", "Empty", "Normal"}]
rb == [arr |-> arr, head |-> head, tail |-> tail, status |-> status]

\* PipeRingBuffer::write_byte.
WriteByte(r, b) ==
  LET t == (r.tail + 1) % RING_BUFFER_SIZE
  IN [arr |-> [r.arr EXCEPT ![r.tail] = b], head |-> r.head, tail |-> t,
      status |-> IF t = r.head THEN "Full" ELSE "Normal"]

\* Mutant: head advances without wrapping at the end of the array.
ReadByteNoWrap(r) ==
  LET h == r.head + 1
  IN [r EXCEPT !.head = h, !.status = IF h = r.tail THEN "Empty" ELSE "Normal"]

\* PipeRingBuffer::read_byte (the byte itself goes to the user buffer).
ReadByte(r) ==
  LET h == (r.head + 1) % RING_BUFFER_SIZE
  IN [r EXCEPT !.head = h, !.status = IF h = r.tail THEN "Empty" ELSE "Normal"]

\* Mutant: the head==tail test for an empty buffer without the status.
AvailableReadNoStatus(r) ==
  IF r.tail >= r.head THEN r.tail - r.head
  ELSE r.tail + RING_BUFFER_SIZE - r.head

\* PipeRingBuffer::available_read.
AvailableRead(r) ==
  IF r.status = "Empty" THEN 0
  ELSE IF r.tail > r.head THEN r.tail - r.head
  ELSE r.tail + RING_BUFFER_SIZE - r.head

\* PipeRingBuffer::available_write.
AvailableWrite(r) ==
  IF r.status = "Full" THEN 0 ELSE RING_BUFFER_SIZE - AvailableRead(r)

\* The loops of write and read: k calls of write_byte / read_byte.
RECURSIVE WriteBytes(_, _, _)
WriteBytes(r, k, b) == IF k = 0 THEN r ELSE WriteBytes(WriteByte(r, b), k - 1, b + 1)
RECURSIVE ReadBytes(_, _)
ReadBytes(r, k) == IF k = 0 THEN r ELSE ReadBytes(ReadByte(r), k - 1)

SetRing(r) == arr' = r.arr /\ head' = r.head /\ tail' = r.tail /\ status' = r.status

\* PipeWriter::write(buf): -2 when available_write is 0, else copy bytes
\* until the buffer or the available space runs out.
Write(n) ==
  /\ writers > 0
  /\ \/ /\ AvailableWrite(rb) = 0
        /\ UNCHANGED vars
     \/ LET k == Min({n, AvailableWrite(rb)})
        IN /\ k > 0
           /\ written + k <= MaxBytes
           /\ SetRing(WriteBytes(rb, k, written))
           /\ written' = written + k
           /\ UNCHANGED <<writers, eof>>

\* Mutant: an empty pipe always reports -2, never EOF.
ReadNoEof(n) ==
  /\ ~eof
  /\ \/ /\ AvailableRead(rb) = 0
        /\ UNCHANGED vars
     \/ /\ AvailableRead(rb) > 0
        /\ SetRing(ReadBytes(rb, Min({n, AvailableRead(rb)})))
        /\ UNCHANGED <<writers, written, eof>>

\* PipeReader::read(buf): with nothing to read, 0 (EOF) when every write
\* end is closed (the Weak upgrade fails), else -2; otherwise copy bytes
\* until the buffer or the available data runs out.
Read(n) ==
  /\ ~eof
  /\ \/ /\ AvailableRead(rb) = 0
        /\ eof' = (writers = 0)
        /\ UNCHANGED <<arr, head, tail, status, writers, written>>
     \/ /\ AvailableRead(rb) > 0
        /\ SetRing(ReadBytes(rb, Min({n, AvailableRead(rb)})))
        /\ UNCHANGED <<writers, written, eof>>

\* fork copies the fd table, cloning the Arc<PipeWriter> of a write fd.
DupWriter ==
  /\ writers > 0 /\ writers < MaxWriters
  /\ writers' = writers + 1
  /\ UNCHANGED <<arr, head, tail, status, written, eof>>

\* close(fd) on a write fd takes the slot and drops its Arc.
CloseWriter ==
  /\ writers > 0
  /\ writers' = writers - 1
  /\ UNCHANGED <<arr, head, tail, status, written, eof>>

\* make_pipe: an empty ring buffer and one write-end handle.
MakePipe ==
  /\ arr' = [i \in Idx |-> 0]
  /\ head' = 0 /\ tail' = 0 /\ status' = "Empty"
  /\ writers' = 1 /\ written' = 0 /\ eof' = FALSE

(***************************************************************************)
(* Properties.                                                             *)
(***************************************************************************)

TypeOK ==
  /\ rb \in Ring
  /\ writers \in 0 .. MaxWriters
  /\ written \in 0 .. MaxBytes
  /\ eof \in BOOLEAN

\* The bytes in the ring, oldest first, as available_read counts them.
Contents == [i \in 1 .. AvailableRead(rb) |-> arr[(head + i - 1) % RING_BUFFER_SIZE]]

=============================================================================
