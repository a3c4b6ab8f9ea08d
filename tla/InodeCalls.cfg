\* Two processes make up to three calls on an empty disk and on a nested one.
CONSTANTS
  p1 = p1
  p2 = p2
  Procs = {p1, p2}
  NInodes = 5
  Names = {"a", "b"}
  Paths <- MCPaths
  Links <- MCLinks
  Disks <- MCDisks
  Ops = {"create", "open", "openw", "mkdir", "mknod", "link", "unlink", "chdir"}
  NFILE = 1
  NOFILE = 2
  MaxCalls = 3
SYMMETRY Symmetry
SPECIFICATION Safe
INVARIANTS RefExact RefsLive LinkCount NoLockCycle
PROPERTIES NamesStable LinksBalanced
