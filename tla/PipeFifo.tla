------------------------------- MODULE PipeFifo -------------------------------
(***************************************************************************)
(* What a pipe promises (spec.md 4 "Pipe" and 8.9): a bounded FIFO of      *)
(* bytes.  write appends as many of its bytes as fit, or reports -2 when   *)
(* nothing fits; read removes up to its length from the front, and on an   *)
(* empty pipe reports -2 while a writer exists and 0 (EOF) once none does. *)
(* Byte number i of the stream carries the value i, so any loss, reorder   *)
(* or duplication is visible in q.                                         *)
(***************************************************************************)
EXTENDS Naturals, Sequences, FiniteSetsExt

CONSTANTS Cap,        \* capacity of the buffer
          MaxLen,     \* largest user buffer length of one call
          MaxBytes,   \* bound on the bytes written over a behaviour
          MaxWriters  \* bound on live write-end handles

VARIABLES q,        \* bytes written and not yet read, oldest first
          written,  \* bytes written so far
          writers,  \* live handles of the write end
          eof       \* a read has returned 0

Lens == 1 .. MaxLen

AWrite(n) ==
  /\ writers > 0 /\ Len(q) < Cap
  /\ LET k == Min({n, Cap - Len(q)})
     IN /\ written + k <= MaxBytes
        /\ q' = q \o [i \in 1 .. k |-> written + i - 1]
        /\ written' = written + k
  /\ UNCHANGED <<writers, eof>>

ARead(n) ==
  /\ ~eof
  /\ \/ /\ q # <<>>
        /\ q' = SubSeq(q, Min({n, Len(q)}) + 1, Len(q))
        /\ UNCHANGED eof
     \/ /\ q = <<>>
        /\ eof' = (writers = 0)
        /\ UNCHANGED q
  /\ UNCHANGED <<written, writers>>

ADup == writers > 0 /\ writers < MaxWriters /\ writers' = writers + 1
        /\ UNCHANGED <<q, written, eof>>

AClose == writers > 0 /\ writers' = writers - 1 /\ UNCHANGED <<q, written, eof>>

AInit == q = <<>> /\ written = 0 /\ writers = 1 /\ eof = FALSE

ANext == (\E n \in Lens : AWrite(n) \/ ARead(n)) \/ ADup \/ AClose

ASpec == AInit /\ [][ANext]_<<q, written, writers, eof>>

=============================================================================
