\* Two processes remove and make files.
CONSTANTS
  p1 = p1
  p2 = p2
  Procs = {p1, p2}
  NInodes = 3
  Names = {"a", "b"}
  Paths <- MCPaths
  Links <- MCLinks
  Disks <- MCOneFile
  Ops = {"mknod", "unlink"}
  NFILE = 1
  NOFILE = 1
  MaxCalls = 3
SYMMETRY Symmetry
SPECIFICATION Safe
INVARIANT UnlinkedFreed
