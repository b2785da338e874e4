-------------------------------- MODULE Memory --------------------------------
(***************************************************************************)
(* The memory system calls of one chapter-4 process: sbrk through          *)
(* Process::change_program_brk (src/ch4/src/process.rs), and mmap, munmap  *)
(* and trace (src/ch4/src/main.rs), over the page-table entries of its     *)
(* address space and the bytes of the pages they map.  The loop counts    *)
(* every system call in syscall_count before it dispatches it.  Addresses *)
(* are in bytes, a page is PS bytes; the ELF image and the user stack are *)
(* mapped at load.                                                         *)
(*                                                                         *)
(* AddressSpace::map, unmap and translate belong to tg-kernel-vm, which is *)
(* not in this repository.  They are modelled from spec.md 3: map writes   *)
(* a fresh zeroed page for each VPN of a range, unmap clears the           *)
(* entries, translate(va, flags) finds a valid entry holding the flags.    *)
(***************************************************************************)
EXTENDS Naturals, Integers, Bitwise

CONSTANTS PS,          \* PAGE_SIZE, 1 << 12 in the code; small here
          NPages,      \* pages of the modelled address space
          HeapBottom,  \* page-aligned end of the highest ELF segment
          MaxBrk,      \* bound on the break user code asks for
          Deltas,      \* sbrk arguments
          Addrs, Lens, \* mmap and munmap arguments
          Prots,       \* mmap prot arguments
          TraceAddrs,  \* trace addresses; NPages * PS stands for 1 << 38
          Datas,       \* trace write data
          Ids,         \* call ids whose syscall_count entry is kept
          MaxCalls     \* bound on each kept syscall_count entry

BigId == "big"                              \* a syscall id of 512 or more
UserTop == NPages * PS                      \* 1 << 38: the Sv39 user range

Pages == 0 .. NPages - 1
NoMap == {}             \* an entry without V: no permissions at all
URW == {"R", "W"}       \* build_flags("U_WRV")
StackPage == NPages - 1

VARIABLES pte,  \* page -> permissions of its valid leaf entry, NoMap if none
          brk,  \* Process.program_brk
          ret,  \* the value the last system call returned
          call, \* the id and arguments of that call, as the trap context holds them
          panicked, \* the kernel panicked and stopped
          mem,  \* page -> its bytes, meaningful while the page is mapped
          count \* Process.syscall_count

vars == <<pte, brk, ret, call, panicked, mem, count>>

\* VAddr::floor and VAddr::ceil: the VPN at or below, at or above, a byte.
Floor(a) == a \div PS
Ceil(a) == (a + PS - 1) \div PS

ZeroPage == [o \in 0 .. PS - 1 |-> 0]

\* AddressSpace::map over the VPN range lo .. hi - 1 (spec.md 4.2): a
\* fresh valid entry for every page, and a panic if one is already valid.
Map(lo, hi, perms) ==
  \/ /\ \E p \in lo .. hi - 1 : pte[p] # NoMap
     /\ panicked' = TRUE /\ UNCHANGED <<pte, mem>>
  \/ /\ \A p \in lo .. hi - 1 : pte[p] = NoMap
     /\ pte' = [p \in Pages |-> IF p \in lo .. hi - 1 THEN perms ELSE pte[p]]
     /\ mem' = [p \in Pages |-> IF p \in lo .. hi - 1 THEN ZeroPage ELSE mem[p]]
     /\ UNCHANGED panicked

\* AddressSpace::unmap: the entries of lo .. hi - 1 are cleared and their
\* frames freed.
Unmap(lo, hi) ==
  /\ pte' = [p \in Pages |-> IF p \in lo .. hi - 1 THEN NoMap ELSE pte[p]]
  /\ UNCHANGED <<panicked, mem>>

\* translate(va, flags): the entry of va's page is valid and holds flags.
Translate(va, flags) == pte[Floor(va)] # NoMap /\ flags \subseteq pte[Floor(va)]

\* translate(va, build_flags("__V")) is Some.
Translates(va) == Translate(va, {})

\* The flag string of mmap: U, then X, W, R from prot bits 2, 1, 0, then V.
ProtFlags(prot) ==
  (IF (prot & 1) # 0 THEN {"R"} ELSE {}) \cup (IF (prot & 2) # 0 THEN {"W"} ELSE {})
    \cup (IF (prot & 4) # 0 THEN {"X"} ELSE {})

(***************************************************************************)
(* sbrk (process.rs 166-195, main.rs 513-523).                              *)
(***************************************************************************)

\* Mutant: the heap_bottom check is dropped; the break may fall below it.
ChangeProgramBrkNoBottom(size) ==
  LET new == brk + size
  IN /\ IF size > 0 /\ Ceil(new) > Ceil(brk) THEN Map(Ceil(brk), Ceil(new), URW)
        ELSE IF size < 0 /\ Ceil(brk) > Ceil(new) THEN Unmap(Ceil(new), Ceil(brk))
        ELSE UNCHANGED <<pte, panicked, mem>>
     /\ brk' = new /\ ret' = brk

\* Mutant: the new break is rounded down instead of up.
ChangeProgramBrkFloor(size) ==
  LET new == brk + size
  IN \/ /\ new < HeapBottom
        /\ ret' = -1 /\ UNCHANGED <<pte, brk, panicked, mem>>
     \/ /\ new >= HeapBottom
        /\ IF size > 0 /\ Floor(new) > Ceil(brk) THEN Map(Ceil(brk), Floor(new), URW)
           ELSE IF size < 0 /\ Ceil(brk) > Floor(new) THEN Unmap(Floor(new), Ceil(brk))
           ELSE UNCHANGED <<pte, panicked, mem>>
        /\ brk' = new /\ ret' = brk

\* change_program_brk(size): None (-1) below the heap bottom; growing maps
\* the pages from ceil(old) to ceil(new), shrinking unmaps them from
\* ceil(new) to ceil(old); the break moves and the old one is returned.
ChangeProgramBrk(size) ==
  LET new == brk + size
  IN \/ /\ new < HeapBottom
        /\ ret' = -1 /\ UNCHANGED <<pte, brk, panicked, mem>>
     \/ /\ new >= HeapBottom
        /\ IF size > 0 /\ Ceil(new) > Ceil(brk) THEN Map(Ceil(brk), Ceil(new), URW)
           ELSE IF size < 0 /\ Ceil(brk) > Ceil(new) THEN Unmap(Ceil(new), Ceil(brk))
           ELSE UNCHANGED <<pte, panicked, mem>>
        /\ brk' = new /\ ret' = brk

SysSbrk(size) ==
  /\ brk + size <= MaxBrk
  /\ ChangeProgramBrk(size)

(***************************************************************************)
(* mmap and munmap (main.rs 642-760).                                       *)
(***************************************************************************)

\* page_count = (len + PAGE_SIZE - 1) / PAGE_SIZE.
PageCount(len) == (len + PS - 1) \div PS

\* mmap(addr, len, prot): -1 for an unaligned addr or a prot with bits
\* beyond 0-2 or none; 0 for len 0; -1 if translate finds any of the
\* page_count pages mapped; else map floor(addr) .. ceil(addr + count * PS).
SysMmap(addr, len, prot) ==
  /\ UNCHANGED brk
  /\ \/ /\ \/ addr % PS # 0
           \/ (prot & 7) # prot \/ prot = 0
        /\ ret' = -1 /\ UNCHANGED <<pte, panicked, mem>>
     \/ /\ addr % PS = 0 /\ (prot & 7) = prot /\ prot # 0 /\ len = 0
        /\ ret' = 0 /\ UNCHANGED <<pte, panicked, mem>>
     \/ /\ addr % PS = 0 /\ (prot & 7) = prot /\ prot # 0 /\ len > 0
        /\ LET n == PageCount(len)
           IN \/ /\ \E i \in 0 .. n - 1 : Translates(addr + i * PS)
                 /\ ret' = -1 /\ UNCHANGED <<pte, panicked, mem>>
              \/ /\ \A i \in 0 .. n - 1 : ~Translates(addr + i * PS)
                 /\ Map(Floor(addr), Ceil(addr + n * PS), ProtFlags(prot))
                 /\ ret' = 0

\* Mutant: the mapped-check loop stops one page short.
SysMunmapShortCheck(addr, len) ==
  /\ UNCHANGED brk
  /\ \/ /\ addr % PS # 0
        /\ ret' = -1 /\ UNCHANGED <<pte, panicked, mem>>
     \/ /\ addr % PS = 0 /\ len = 0
        /\ ret' = 0 /\ UNCHANGED <<pte, panicked, mem>>
     \/ /\ addr % PS = 0 /\ len > 0
        /\ LET n == PageCount(len)
           IN \/ /\ \E i \in 0 .. n - 2 : ~Translates(addr + i * PS)
                 /\ ret' = -1 /\ UNCHANGED <<pte, panicked, mem>>
              \/ /\ \A i \in 0 .. n - 2 : Translates(addr + i * PS)
                 /\ Unmap(Floor(addr), Ceil(addr + n * PS))
                 /\ ret' = 0

\* munmap(addr, len): -1 for an unaligned addr; 0 for len 0; -1 unless
\* every one of the page_count pages translates; else unmap them.
SysMunmap(addr, len) ==
  /\ UNCHANGED brk
  /\ \/ /\ addr % PS # 0
        /\ ret' = -1 /\ UNCHANGED <<pte, panicked, mem>>
     \/ /\ addr % PS = 0 /\ len = 0
        /\ ret' = 0 /\ UNCHANGED <<pte, panicked, mem>>
     \/ /\ addr % PS = 0 /\ len > 0
        /\ LET n == PageCount(len)
           IN \/ /\ \E i \in 0 .. n - 1 : ~Translates(addr + i * PS)
                 /\ ret' = -1 /\ UNCHANGED <<pte, panicked, mem>>
              \/ /\ \A i \in 0 .. n - 1 : Translates(addr + i * PS)
                 /\ Unmap(Floor(addr), Ceil(addr + n * PS))
                 /\ ret' = 0

(***************************************************************************)
(* trace (main.rs 570-636).                                                 *)
(***************************************************************************)

\* Mutant: the read request checks for W instead of R.
SysTraceReadWritable(req, id, data) ==
  /\ UNCHANGED <<pte, brk, panicked>>
  /\ \/ /\ req \in {0, 1} /\ ~(id < UserTop /\ Translate(id, {"W"}))
        /\ ret' = -1 /\ UNCHANGED mem
     \/ /\ req = 0 /\ id < UserTop /\ Translate(id, {"W"})
        /\ ret' = mem[Floor(id)][id % PS] /\ UNCHANGED mem
     \/ /\ req = 1 /\ id < UserTop /\ Translate(id, {"W"})
        /\ mem' = [mem EXCEPT ![Floor(id)][id % PS] = data % 256]
        /\ ret' = 0
     \/ /\ req = 2
        /\ ret' = IF id = BigId THEN -1 ELSE count'[id]
        /\ UNCHANGED mem
     \/ /\ req \notin 0 .. 2 /\ ret' = -1 /\ UNCHANGED mem

\* Translate's flags for each request: "R_V" to read, "W_V" to write.
TraceFlags(req) == IF req = 0 THEN {"R"} ELSE {"W"}

\* trace(request, id, data): 0 reads the byte at address id if its page is
\* readable, 1 stores data as u8 there if it is writable, both -1 at or
\* above 1 << 38 or when translate fails; 2 returns syscall_count[id],
\* this call included, or -1 for id >= 512; any other request is -1.
SysTrace(req, id, data) ==
  /\ UNCHANGED <<pte, brk, panicked>>
  /\ \/ /\ req \in {0, 1} /\ ~(id < UserTop /\ Translate(id, TraceFlags(req)))
        /\ ret' = -1 /\ UNCHANGED mem
     \/ /\ req = 0 /\ id < UserTop /\ Translate(id, TraceFlags(req))
        /\ ret' = mem[Floor(id)][id % PS] /\ UNCHANGED mem
     \/ /\ req = 1 /\ id < UserTop /\ Translate(id, TraceFlags(req))
        /\ mem' = [mem EXCEPT ![Floor(id)][id % PS] = data % 256]
        /\ ret' = 0
     \/ /\ req = 2
        /\ ret' = IF id = BigId THEN -1 ELSE count'[id]
        /\ UNCHANGED mem
     \/ /\ req \notin 0 .. 2 /\ ret' = -1 /\ UNCHANGED mem

\* Process::from_elf: the ELF image below the heap (read and execute) and
\* the user stack at the top (read and write); the break at the bottom.
InitPte == [p \in Pages |-> IF p * PS < HeapBottom THEN {"R", "X"}
                           ELSE IF p = StackPage THEN URW ELSE NoMap]

Init ==
  /\ pte = InitPte
  /\ brk = HeapBottom
  /\ ret = 0
  /\ call = <<"none">>
  /\ panicked = FALSE
  /\ mem = [p \in Pages |-> ZeroPage]
  /\ count = [i \in Ids |-> 0]

\* Arguments keep every range inside the modelled pages.
Fits(addr, len) == addr + PageCount(len) * PS <= NPages * PS

\* The loop adds one to syscall_count[id] before it dispatches a call;
\* each count is bounded by MaxCalls.
Counted(id) ==
  \/ id \notin Ids /\ UNCHANGED count
  \/ /\ id \in Ids /\ count[id] < MaxCalls
     /\ count' = [count EXCEPT ![id] = @ + 1]

\* A panic stops the kernel: no further system call is served.
Next ==
  /\ ~panicked
  /\ \/ \E d \in Deltas : Counted("sbrk") /\ SysSbrk(d) /\ call' = <<"sbrk", d>>
     \/ \E a \in Addrs, l \in Lens, pr \in Prots :
          /\ Fits(a, l) /\ Counted("mmap") /\ SysMmap(a, l, pr)
          /\ call' = <<"mmap", a, l, pr>>
     \/ \E a \in Addrs, l \in Lens :
          /\ Fits(a, l) /\ Counted("munmap") /\ SysMunmap(a, l)
          /\ call' = <<"munmap", a, l>>
     \/ \E a \in TraceAddrs :
          Counted("trace") /\ SysTrace(0, a, 0) /\ call' = <<"trace", 0, a, 0>>
     \/ \E a \in TraceAddrs, x \in Datas :
          Counted("trace") /\ SysTrace(1, a, x) /\ call' = <<"trace", 1, a, x>>
     \/ \E id \in Ids \cup {BigId} :
          Counted("trace") /\ SysTrace(2, id, 0) /\ call' = <<"trace", 2, id, 0>>
     \/ Counted("trace") /\ SysTrace(3, 0, 0) /\ call' = <<"trace", 3, 0, 0>>

Spec == Init /\ [][Next]_vars

(***************************************************************************)
(* Properties.                                                             *)
(***************************************************************************)

TypeOK ==
  /\ pte \in [Pages -> SUBSET {"R", "W", "X"}]
  /\ brk \in HeapBottom .. MaxBrk
  /\ ret \in Int
  /\ panicked \in BOOLEAN
  /\ mem \in [Pages -> [0 .. PS - 1 -> 0 .. 255]]
  /\ count \in [Ids -> 0 .. MaxCalls]

\* spec.md 7: a system call that user code can make with any arguments
\* returns an error or succeeds; only a broken kernel invariant panics.
\* sbrk grows the heap by mapping the pages above the break, which an
\* earlier mmap may already have taken.
NoKernelPanic == ~panicked

\* The bytes user code sees: those of mapped pages; an unmapped byte reads
\* as the zero a later map would give it.
Bytes == [a \in 0 .. UserTop - 1 |->
            IF pte[Floor(a)] = NoMap THEN 0 ELSE mem[Floor(a)][a % PS]]

Abs == INSTANCE MemorySpec WITH mapped <- pte, bytes <- Bytes, InitMapped <- InitPte

\* The page arithmetic of change_program_brk, mmap, munmap and trace (ceil
\* and floor of VPNs, page_count rounding, the per-page translate checks,
\* the byte within a page) implements the byte-range semantics of spec.md:
\* every call maps, unmaps, reads, writes and returns what MemorySpec says,
\* and a byte reads back the last value written since its page was mapped.
MemoryRefinesSpec == Abs!ASpec

====
