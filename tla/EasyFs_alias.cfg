\* An open fd after its file is unlinked and a new file created.
CONSTANTS
  Names = {"a", "b"}
  InitName = "a"
  MaxInode = 2
  MaxSize = 2
  MaxFds = 6
  MaxGen = 2
  OpenModes = {{}, {"WRONLY"}, {"CREATE", "RDWR"}, {"TRUNC", "RDWR"}}
  BadFd = TRUE
SPECIFICATION Spec
INVARIANT HandleKeepsItsFile
CHECK_DEADLOCK FALSE
