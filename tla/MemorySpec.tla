------------------------------ MODULE MemorySpec ------------------------------
(***************************************************************************)
(* What the memory system calls promise (spec.md 4.3 sbrk and 4.5 mmap/    *)
(* munmap), stated over byte ranges: the heap is [HeapBottom, brk) and its *)
(* pages are those that intersect it; sbrk maps or unmaps the pages the    *)
(* break crosses and returns the old break; mmap fails when the address is *)
(* not page-aligned, prot is not a non-empty subset of R, W, X, or a page  *)
(* of [addr, addr + len) is mapped, and otherwise maps those pages;        *)
(* munmap fails unless every page of the range is mapped, and unmaps them. *)
(* A page reads as zero when it is mapped; trace reads a byte of a        *)
(* readable page and writes one of a writable page.  Mapping a page that   *)
(* is already valid panics the kernel (spec.md 4.2), which stops it.  ret  *)
(* is the value the last call returned, call the call and its arguments,   *)
(* count the calls made of each kind.                                      *)
(***************************************************************************)
EXTENDS Naturals, Integers, Bitwise

CONSTANTS PS, Pages, HeapBottom, NoMap, URW,
          InitMapped,                  \* the ELF image and the user stack
          Deltas, Addrs, Lens, Prots,  \* arguments user code passes
          TraceAddrs, Datas,
          Ids, BigId, MaxCalls,        \* call kinds, an id >= 512, the bound
          UserTop                      \* end of the user address range

VARIABLES mapped,  \* page -> permission set, or NoMap
          brk,     \* the program break
          ret,     \* result of the last call
          call,    \* that call and its arguments
          panicked,\* the kernel panicked
          bytes,   \* address -> the byte user code reads there
          count    \* calls made of each kind

avars == <<mapped, brk, ret, call, panicked, bytes, count>>

\* Pages that intersect the byte range [lo, hi).
PagesOf(lo, hi) == {p \in Pages : p * PS < hi /\ lo < (p + 1) * PS}

HeapPages(b) == PagesOf(HeapBottom, b)

\* The bytes of the pages ps read as zero; the others keep their value.
Zeroed(ps) == [a \in DOMAIN bytes |->
                 IF PagesOf(a, a + 1) \subseteq ps THEN 0 ELSE bytes[a]]

\* R, W, X for prot bits 0, 1, 2.
Bit == [R |-> 1, W |-> 2, X |-> 4]
Perms(prot) == {f \in DOMAIN Bit : (prot & Bit[f]) # 0}

\* The byte at a lies in a mapped page that grants f.
Grants(a, f) == \E p \in PagesOf(a, a + 1) : mapped[p] # NoMap /\ f \in mapped[p]

ASbrk(d) ==
  \/ /\ brk + d < HeapBottom
     /\ ret' = -1 /\ UNCHANGED <<mapped, brk, panicked, bytes>>
  \/ /\ brk + d >= HeapBottom
     /\ brk' = brk + d
     /\ ret' = brk
     /\ LET grown == HeapPages(brk + d) \ HeapPages(brk)
            shrunk == HeapPages(brk) \ HeapPages(brk + d)
        IN \/ /\ \E p \in grown : mapped[p] # NoMap
              /\ panicked' = TRUE /\ UNCHANGED <<mapped, bytes>>
           \/ /\ \A p \in grown : mapped[p] = NoMap
              /\ mapped' = [p \in Pages |->
                             IF p \in grown THEN URW
                             ELSE IF p \in shrunk THEN NoMap
                             ELSE mapped[p]]
              /\ bytes' = Zeroed(grown \cup shrunk)
              /\ UNCHANGED panicked

AMmap(addr, len, prot) ==
  /\ UNCHANGED <<brk, panicked>>
  /\ \/ /\ \/ addr % PS # 0
           \/ prot \notin 1 .. 7
           \/ len > 0 /\ \E p \in PagesOf(addr, addr + len) : mapped[p] # NoMap
        /\ ret' = -1 /\ UNCHANGED <<mapped, bytes>>
     \/ /\ addr % PS = 0 /\ prot \in 1 .. 7
        /\ \A p \in PagesOf(addr, addr + len) : mapped[p] = NoMap
        /\ ret' = 0
        /\ mapped' = [p \in Pages |->
                       IF p \in PagesOf(addr, addr + len) THEN Perms(prot) ELSE mapped[p]]
        /\ bytes' = Zeroed(PagesOf(addr, addr + len))

AMunmap(addr, len) ==
  /\ UNCHANGED <<brk, panicked>>
  /\ \/ /\ \/ addr % PS # 0
           \/ \E p \in PagesOf(addr, addr + len) : mapped[p] = NoMap
        /\ ret' = -1 /\ UNCHANGED <<mapped, bytes>>
     \/ /\ addr % PS = 0
        /\ \A p \in PagesOf(addr, addr + len) : mapped[p] # NoMap
        /\ ret' = 0
        /\ mapped' = [p \in Pages |->
                       IF p \in PagesOf(addr, addr + len) THEN NoMap ELSE mapped[p]]
        /\ bytes' = Zeroed(PagesOf(addr, addr + len))

\* trace: request 0 reads a byte user code may read, 1 writes the low
\* eight bits of data where user code may write, 2 reports how many calls
\* of a kind were made, this one included; anything else returns -1.
ATraceRead(a) ==
  /\ UNCHANGED <<mapped, brk, panicked, bytes>>
  /\ ret' = IF a < UserTop /\ Grants(a, "R") THEN bytes[a] ELSE -1

ATraceWrite(a, x) ==
  /\ UNCHANGED <<mapped, brk, panicked>>
  /\ \/ a < UserTop /\ Grants(a, "W") /\ ret' = 0 /\ bytes' = [bytes EXCEPT ![a] = x % 256]
     \/ ~(a < UserTop /\ Grants(a, "W")) /\ ret' = -1 /\ UNCHANGED bytes

ATraceCount(id) ==
  /\ UNCHANGED <<mapped, brk, panicked, bytes>>
  /\ ret' = IF id \in Ids THEN count'[id] ELSE -1

ATraceOther ==
  UNCHANGED <<mapped, brk, panicked, bytes>> /\ ret' = -1

AInit == mapped = InitMapped /\ brk = HeapBottom /\ ret = 0 /\ call = <<"none">>
         /\ panicked = FALSE /\ bytes = [a \in 0 .. UserTop - 1 |-> 0]
         /\ count = [i \in Ids |-> 0]

\* Each call of a kind in Ids is counted, at most MaxCalls times.
ACount(id) ==
  \/ id \notin Ids /\ UNCHANGED count
  \/ id \in Ids /\ count[id] < MaxCalls /\ count' = [count EXCEPT ![id] = @ + 1]

ANext ==
  /\ ~panicked
  /\ \/ \E d \in Deltas : call' = <<"sbrk", d>> /\ ACount("sbrk") /\ ASbrk(d)
     \/ \E a \in Addrs, l \in Lens, pr \in Prots :
          call' = <<"mmap", a, l, pr>> /\ ACount("mmap") /\ AMmap(a, l, pr)
     \/ \E a \in Addrs, l \in Lens :
          call' = <<"munmap", a, l>> /\ ACount("munmap") /\ AMunmap(a, l)
     \/ \E a \in TraceAddrs :
          call' = <<"trace", 0, a, 0>> /\ ACount("trace") /\ ATraceRead(a)
     \/ \E a \in TraceAddrs, x \in Datas :
          call' = <<"trace", 1, a, x>> /\ ACount("trace") /\ ATraceWrite(a, x)
     \/ \E id \in Ids \cup {BigId} :
          call' = <<"trace", 2, id, 0>> /\ ACount("trace") /\ ATraceCount(id)
     \/ call' = <<"trace", 3, 0, 0>> /\ ACount("trace") /\ ATraceOther

ASpec == AInit /\ [][ANext]_avars

====
