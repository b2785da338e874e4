-------------------------------- MODULE EasyFs --------------------------------
(***************************************************************************)
(* The chapter-6 file system as one process sees it: the single root       *)
(* directory and inode layer of tg-easy-fs (src/ch6/tg-easy-fs/src/vfs.rs, *)
(* file.rs), the FSManager of src/ch6/src/fs.rs, and the open, close,      *)
(* read, write, linkat and unlinkat system calls of src/ch6/src/main.rs    *)
(* over the fd tables of initproc and of one child, which initproc forks  *)
(* (copying its table) or spawns, and reaps with wait; exec and spawn     *)
(* load their image from the file system.                                  *)
(*                                                                         *)
(* File contents are abstracted to their size in units of one write; an   *)
(* inode's identity is made visible by a generation number that create    *)
(* bumps.  The inode bitmap (efs.rs, not in this repository) is modelled   *)
(* from spec.md 4.6: alloc takes the lowest clear bit.  Every system call  *)
(* runs under the global fs lock in a non-preemptible kernel, so each is   *)
(* one atomic step.                                                        *)
(***************************************************************************)
EXTENDS Naturals, Sequences, FiniteSets, FiniteSetsExt

CONSTANTS Names,      \* file names user programs pass
          InitName,   \* a file present in the image at boot
          MaxInode,   \* inodes 0 .. MaxInode; 0 is the root directory
          MaxSize,    \* bound on a file's size, in write units
          MaxFds,     \* bound on the fd table's length (it never shrinks)
          MaxGen,     \* bound on inode creations
          OpenModes,  \* OpenFlags values passed to open, as sets of flag names
          BadFd       \* whether read and write are called with fd = len

ASSUME InitName \in Names

InitProc == 0      \* the process from_elf loads at boot
ChildProc == 1     \* the one child process of the model
Procs == {InitProc, ChildProc}

Inodes == 0 .. MaxInode
Root == 0
NoIno == -1
NoFd == [ino |-> NoIno, read |-> FALSE, write |-> FALSE, off |-> 0, gen |-> 0]

VARIABLES dir,       \* root directory: sequence of DirEntry [name, ino]
          used,      \* inode bitmap: allocated inodes
          size,      \* size of each inode, in write units
          fds,       \* Process.fd_table of each process: FileHandle records,
                     \* NoFd for None
          child,     \* ChildProc in the PManager: "none", "alive" or "zombie"
          gen,       \* ghost: generation of each inode, bumped by create
          panicked   \* a kernel panic stopped the machine

vars == <<dir, used, size, fds, child, gen, panicked>>

(***************************************************************************)
(* Inode and directory layer (vfs.rs).                                     *)
(***************************************************************************)

\* Inode::find_inode_id: the inode of the first entry with this name.
FindInodeId(name) ==
  LET hits == {i \in 1 .. Len(dir) : dir[i].name = name}
  IN IF hits = {} THEN NoIno ELSE dir[Min(hits)].ino

\* Inode::count_links: entries of directory d naming the inode.
CountLinks(d, ino) == Cardinality({i \in 1 .. Len(d) : d[i].ino = ino})

\* EasyFileSystem::alloc_inode: the lowest clear bit (spec.md 4.6).
AllocInode == Min(Inodes \ used)

\* Inode::create: allocate and initialise an inode, append its entry.
Create(name) ==
  LET ino == AllocInode
  IN /\ used' = used \cup {ino}
     /\ size' = [size EXCEPT ![ino] = 0]
     /\ gen' = [gen EXCEPT ![ino] = @ + 1]
     /\ dir' = Append(dir, [name |-> name, ino |-> ino])

\* Inode::clear: release every data block of the inode.
Clear(ino) == size' = [size EXCEPT ![ino] = 0]

\* Inode::increase_size: nothing when the new size is smaller, else grow.
IncreaseSize(ino, new) == size' = [size EXCEPT ![ino] = IF new < @ THEN @ ELSE new]

\* Inode::write_at(offset, buf) of one write unit: grow to cover it.
WriteAt(ino, off) == IncreaseSize(ino, off + 1)

\* Inode::link: Err when the name exists, else append an entry for ino.
InodeLink(name, ino) ==
  /\ FindInodeId(name) = NoIno
  /\ dir' = Append(dir, [name |-> name, ino |-> ino])

\* Inode::unlink's directory update: the first entry with the name is
\* removed and the later ones shift forward.
RemoveEntry(d, name) ==
  LET idx == Min({i \in 1 .. Len(d) : d[i].name = name})
  IN SubSeq(d, 1, idx - 1) \o SubSeq(d, idx + 1, Len(d))

\* Mutant: the links are counted before the entry is removed.
InodeUnlinkCountFirst(name) ==
  LET ino == FindInodeId(name)
  IN /\ ino # NoIno
     /\ dir' = RemoveEntry(dir, name)
     /\ IF CountLinks(dir, ino) = 0
          THEN Clear(ino) /\ used' = used \ {ino}
          ELSE UNCHANGED <<size, used>>

\* Inode::unlink: Err for a missing name; else remove its entry, and when
\* count_links of its inode is then 0, clear the inode's data and
\* deallocate the inode.  Open handles are not consulted.
InodeUnlink(name) ==
  LET ino == FindInodeId(name)
  IN /\ ino # NoIno
     /\ dir' = RemoveEntry(dir, name)
     /\ IF CountLinks(dir', ino) = 0
          THEN Clear(ino) /\ used' = used \ {ino}
          ELSE UNCHANGED <<size, used>>

(***************************************************************************)
(* FileHandle, OpenFlags and FSManager (file.rs, fs.rs).                   *)
(***************************************************************************)

\* OpenFlags::read_write: RDONLY (empty) reads, WRONLY writes, else both.
ReadWrite(fl) ==
  IF fl = {} THEN <<TRUE, FALSE>>
  ELSE IF "WRONLY" \in fl THEN <<FALSE, TRUE>> ELSE <<TRUE, TRUE>>

\* FileHandle::new: offset 0; the ghost gen records which file it opened.
Handle(ino, fl) ==
  [ino |-> ino, read |-> ReadWrite(fl)[1], write |-> ReadWrite(fl)[2],
   off |-> 0, gen |-> gen'[ino]]

\* FileSystem::open: CREATE clears an existing file or creates a missing
\* one; otherwise the file must exist, and TRUNC clears it.
FsOpen(name, fl) ==
  LET ino == FindInodeId(name)
  IN \/ /\ "CREATE" \in fl /\ ino # NoIno
        /\ Clear(ino)
        /\ UNCHANGED <<dir, used, gen>>
     \/ /\ "CREATE" \in fl /\ ino = NoIno
        /\ used # Inodes
        /\ gen[AllocInode] < MaxGen
        /\ Create(name)
     \/ /\ "CREATE" \notin fl /\ ino # NoIno
        /\ IF "TRUNC" \in fl THEN Clear(ino) ELSE UNCHANGED size
        /\ UNCHANGED <<dir, used, gen>>

\* The inode the handle of FsOpen addresses.
OpenedIno(name) ==
  IF FindInodeId(name) # NoIno THEN FindInodeId(name) ELSE AllocInode

\* FileSystem::link: -1 when the source is missing, else Inode::link.
FsLink(src, dst) ==
  /\ FindInodeId(src) # NoIno
  /\ InodeLink(dst, FindInodeId(src))

\* FileHandle::write of one unit: -1 without an inode, else write_at at
\* the offset and advance it.
FileWrite(p, fd) ==
  LET h == fds[p][fd + 1]
  IN /\ h.ino # NoIno
     /\ h.off + 1 <= MaxSize
     /\ WriteAt(h.ino, h.off)
     /\ fds' = [fds EXCEPT ![p][fd + 1].off = h.off + 1]

\* Mutant: read moves the offset by n even past the end of the file.
FileReadNoClamp(p, fd, n) ==
  LET h == fds[p][fd + 1]
  IN /\ h.ino # NoIno
     /\ fds' = [fds EXCEPT ![p][fd + 1].off = h.off + n]

\* FileHandle::read of a buffer of n units: read_at returns what lies
\* between the offset and the end; the offset advances by it.  Reading
\* at the end returns 0 and changes nothing (a stuttering step).
FileRead(p, fd, n) ==
  LET h == fds[p][fd + 1]
      k == IF h.off < size[h.ino] THEN Min({n, size[h.ino] - h.off}) ELSE 0
  IN /\ h.ino # NoIno
     /\ k > 0
     /\ fds' = [fds EXCEPT ![p][fd + 1].off = h.off + k]

(***************************************************************************)
(* System calls (src/ch6/src/main.rs), made by a live process p.           *)
(***************************************************************************)

\* PManager holds p and p has not exited.
Live(p) == ~panicked /\ (p = InitProc \/ child = "alive")

\* open(path, flags): FS.open, and the handle is pushed at fd_table.len().
SysOpen(p, name, fl) ==
  /\ Live(p) /\ Len(fds[p]) < MaxFds
  /\ FsOpen(name, fl)
  /\ fds' = [fds EXCEPT ![p] = Append(@, Handle(OpenedIno(name), fl))]
  /\ UNCHANGED <<child, panicked>>

\* close(fd): -1 for an fd past the table or an empty slot, else take it.
SysClose(p, fd) ==
  /\ Live(p)
  /\ fd < Len(fds[p]) /\ fds[p][fd + 1] # NoFd
  /\ fds' = [fds EXCEPT ![p][fd + 1] = NoFd]
  /\ UNCHANGED <<dir, used, size, child, gen, panicked>>

\* The fd_table[fd] index of read and write: an fd past the table panics.
IndexPanics(p, fd) ==
  /\ fd = Len(fds[p])
  /\ panicked' = TRUE
  /\ UNCHANGED <<dir, used, size, fds, child, gen>>

\* write(fd, buf, 1): fd 1 and 2 go to the console; else fd_table[fd],
\* and -1 for an empty slot or a handle that is not writable.
SysWrite(p, fd) ==
  /\ Live(p)
  /\ fd \notin {1, 2}
  /\ \/ BadFd /\ IndexPanics(p, fd)
     \/ /\ fd < Len(fds[p]) /\ fds[p][fd + 1].write
        /\ FileWrite(p, fd)
        /\ UNCHANGED <<dir, used, child, gen, panicked>>

\* read(fd, buf, n): fd 0 is the console; else fd_table[fd], and -1 for
\* an empty slot or a handle that is not readable.
SysRead(p, fd, n) ==
  /\ Live(p)
  /\ fd # 0
  /\ \/ BadFd /\ IndexPanics(p, fd)
     \/ /\ fd < Len(fds[p]) /\ fds[p][fd + 1].read
        /\ FileRead(p, fd, n)
        /\ UNCHANGED <<dir, used, size, child, gen, panicked>>

\* linkat(old, new): -1 when the names are equal, else FS.link.
SysLinkat(p, old, new) ==
  /\ Live(p)
  /\ old # new
  /\ FsLink(old, new)
  /\ UNCHANGED <<used, size, fds, child, gen, panicked>>

\* unlinkat(path): FS.unlink, which is Inode::unlink on the root.
SysUnlinkat(p, name) ==
  /\ Live(p)
  /\ InodeUnlink(name)
  /\ UNCHANGED <<fds, child, gen, panicked>>

\* The stdio placeholders (FileHandle::empty) from_elf gives a new process.
StdioTable ==
  <<[NoFd EXCEPT !.read = TRUE], [NoFd EXCEPT !.write = TRUE],
    [NoFd EXCEPT !.write = TRUE]>>

\* Loading an image that FS.open(name, RDONLY) found: read_all, then
\* ElfFile::new(..).unwrap() and from_elf(..).unwrap().  An empty file is
\* no ELF and panics; what a non-empty file holds is not modelled, so it
\* may load or panic.
LoadsImage(name) == size[FindInodeId(name)] > 0
LoadPanics ==
  /\ panicked' = TRUE
  /\ UNCHANGED <<dir, used, size, fds, child, gen>>

\* The model's bound: initproc has at most one child at a time.
ChildSlotFree == child = "none"

\* fork: Process::fork clones each fd_table slot, a FileHandle with its own
\* offset on the same inode; PManager::add makes the child ready.
SysFork(p) ==
  /\ Live(p) /\ p = InitProc /\ ChildSlotFree
  /\ fds' = [fds EXCEPT ![ChildProc] = fds[p]]
  /\ child' = "alive"
  /\ UNCHANGED <<dir, used, size, gen, panicked>>

\* exec(path): -1 when FS.open finds no such file; else the image is loaded
\* and replaces the address space and context, keeping the fd table.
SysExec(p, name) ==
  /\ Live(p)
  /\ FindInodeId(name) # NoIno
  /\ \/ LoadsImage(name) /\ UNCHANGED vars
     \/ LoadPanics

\* spawn(path): -1 when FS.open finds no such file; else from_elf builds a
\* child with the stdio table, and PManager::add makes it ready.
SysSpawn(p, name) ==
  /\ Live(p) /\ p = InitProc /\ ChildSlotFree
  /\ FindInodeId(name) # NoIno
  /\ \/ /\ LoadsImage(name)
        /\ fds' = [fds EXCEPT ![ChildProc] = StdioTable]
        /\ child' = "alive"
        /\ UNCHANGED <<dir, used, size, gen, panicked>>
     \/ LoadPanics

\* exit(code), or a trap that make_current_exited(-3) ends: the child waits
\* as a zombie, with its fd table, to be reaped (spec.md 3).
SysExit(p) ==
  /\ Live(p) /\ p = ChildProc
  /\ child' = "zombie"
  /\ UNCHANGED <<dir, used, size, fds, gen, panicked>>

\* wait(-1): PManager::wait reaps an exited child, dropping the process and
\* its fd table; -1 while the child runs.
SysWait(p) ==
  /\ Live(p) /\ p = InitProc
  /\ child = "zombie"
  /\ child' = "none"
  /\ fds' = [fds EXCEPT ![ChildProc] = <<>>]
  /\ UNCHANGED <<dir, used, size, gen, panicked>>

\* The image holds InitName at inode 1; Process::from_elf gives initproc
\* the stdio placeholders, and initproc is the only process.
Init ==
  /\ dir = <<[name |-> InitName, ino |-> 1]>>
  /\ used = {Root, 1}
  /\ size = [i \in Inodes |-> IF i = 1 THEN 1 ELSE 0]
  /\ fds = [p \in Procs |-> IF p = InitProc THEN StdioTable ELSE <<>>]
  /\ child = "none"
  /\ gen = [i \in Inodes |-> IF i = 1 THEN 1 ELSE 0]
  /\ panicked = FALSE

FdIds == 0 .. MaxFds

Next ==
  \E p \in Procs :
    \/ \E name \in Names, fl \in OpenModes : SysOpen(p, name, fl)
    \/ \E fd \in FdIds : SysClose(p, fd) \/ SysWrite(p, fd) \/ SysRead(p, fd, 1)
    \/ \E old, new \in Names : SysLinkat(p, old, new)
    \/ \E name \in Names : SysUnlinkat(p, name) \/ SysExec(p, name)
                           \/ SysSpawn(p, name)
    \/ SysFork(p) \/ SysExit(p) \/ SysWait(p)

Spec == Init /\ [][Next]_vars

\* The state as the calls can tell it apart.  A handle's ghost gen is only
\* written (by Handle), and a stdio slot, open or closed, is never read:
\* read of fd 0 and write of fd 1 and 2 go to the console, and the other
\* directions find the flag FALSE either way.  Only close reads whether a
\* stdio slot is open, and its step changes nothing else.  States that
\* differ only there have the same successors up to it, so a run whose
\* properties do not read them may identify them.
FsView ==
  LET Seen(h, i) == IF i <= 3 THEN NoFd ELSE [h EXCEPT !.gen = 0]
  IN <<dir, used, size, child, gen, panicked,
       [p \in Procs |-> [i \in DOMAIN fds[p] |-> Seen(fds[p][i], i)]]>>

(***************************************************************************)
(* Properties.                                                             *)
(***************************************************************************)

TypeOK ==
  /\ dir \in Seq([name : Names, ino : Inodes])
  /\ used \subseteq Inodes /\ Root \in used
  /\ size \in [Inodes -> 0 .. MaxSize]
  /\ fds \in [Procs -> Seq([ino : Inodes \cup {NoIno}, read : BOOLEAN,
                            write : BOOLEAN, off : 0 .. MaxSize, gen : 0 .. MaxGen])]
  /\ child \in {"none", "alive", "zombie"}
  /\ gen \in [Inodes -> 0 .. MaxGen]

\* spec.md 8.4, the directory side: every entry names an allocated file
\* inode, every allocated file inode is named by at least one entry (else
\* unlink should have freed it), and no name appears twice - across any
\* sequence of open(CREATE), linkat and unlinkat.
DirConsistent ==
  /\ \A i \in 1 .. Len(dir) : dir[i].ino \in used \ {Root}
  /\ \A ino \in used \ {Root} : CountLinks(dir, ino) >= 1
  /\ \A i, j \in 1 .. Len(dir) : dir[i].name = dir[j].name => i = j

\* spec.md 4.6: unlink frees an inode only if nobody else references it.
\* An open handle keeps addressing the file it opened: its inode is never
\* handed to a newly created file while the handle is open.
HandleKeepsItsFile ==
  \A p \in Procs : \A i \in 1 .. Len(fds[p]) :
    LET h == fds[p][i]
    IN h.ino # NoIno /\ h.ino \in used => gen[h.ino] = h.gen

=============================================================================
