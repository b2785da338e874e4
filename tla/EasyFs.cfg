\* Two names, one of them in the image; file inodes 1 and 2, so that an
\* unlinked inode is freed and reused; initproc and one child, forked or
\* spawned, each with one fd beyond stdio; read and write are also tried on
\* the fd one past the table.
CONSTANTS
  Names = {"a", "b"}
  InitName = "a"
  MaxInode = 2
  MaxSize = 2
  MaxFds = 4
  MaxGen = 2
  OpenModes = {{}, {"WRONLY"}, {"CREATE", "RDWR"}, {"TRUNC", "RDWR"}}
  BadFd = TRUE
SPECIFICATION Spec
VIEW FsView
INVARIANT TypeOK
INVARIANT DirConsistent
\* A panic, the fd-table bound and the size bound end behaviours.
CHECK_DEADLOCK FALSE
