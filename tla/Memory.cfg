\* Pages of 2 bytes: the ELF image in page 0, the heap from byte 2, the
\* stack in page 4.  Unaligned and aligned addresses, lengths that are
\* zero, within one page and across a page boundary, valid and invalid
\* prot, and sbrk steps that stay inside, cross and end on page edges.
\* trace reads and writes a byte of page 2 (mapped by sbrk or by mmap)
\* and the first address past the user range; it writes 257, whose
\* low byte is 1.  syscall_count is kept for trace, made at most twice;
\* sbrk, mmap and munmap are bounded by MaxBrk and the pages.
CONSTANTS
  PS = 2
  NPages = 5
  HeapBottom = 2
  MaxBrk = 8
  Deltas <- MCDeltas
  Addrs = {1, 2, 4, 6}
  Lens = {0, 1, 3}
  Prots = {0, 3, 5, 8}
  TraceAddrs = {4, 10}
  Datas = {257}
  Ids = {"trace"}
  MaxCalls = 2
SPECIFICATION Spec
INVARIANT TypeOK
PROPERTY MemoryRefinesSpec
\* A kernel panic stops the machine, so a panicked state has no successor.
CHECK_DEADLOCK FALSE
