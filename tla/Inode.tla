-------------------------------- MODULE Inode -------------------------------
(***************************************************************************)
(* Inodes, directories, path names and open files: the inode table and     *)
(* directories of kernel/fs.c, the file system calls of sysfile.c and the  *)
(* file table of file.c.                                                   *)
(*                                                                         *)
(* A step runs from one sleep lock, or one section under icache.lock, to   *)
(* the next.  A call that locks an inode and unlocks it again without      *)
(* waiting for anything in between does so in one step; only create and    *)
(* unlink hold one inode while they lock another.  The table's entry of an *)
(* inode is found by its number.  Blocks and contents of files are in      *)
(* FileData, transactions in Log; "." and ".." are not walked.             *)
(***************************************************************************)
EXTENDS Integers, FiniteSets, Sequences

CONSTANTS Procs,
          NInodes,   \* inodes 1..NInodes of the disk; 1 is the root directory
          Names,     \* names in directories
          Paths,     \* paths given to calls: sequences of names, "/" first if absolute
          Links,     \* pairs of paths given to link
          Ops,       \* calls the programs make
          Disks,     \* initial disks: dinode and dir
          NFILE, NOFILE,
          MaxCalls   \* bound: calls made

VARIABLES dinode,    \* on disk: type, nlink
          inode,     \* in the table: ref, lock, valid, type, nlink
          dir,       \* contents of directories: inode number or 0 of each name
          ftable,    \* open files: ref, ip
          proc,      \* per process: call, place, path, inodes in use, cwd, ofile
          calls

vars == <<dinode, inode, dir, ftable, proc, calls>>

Inodes == 1..NInodes
Root == 1
None == 0
Files == 1..NFILE
FDs == 1..NOFILE
Types == {"free", "dir", "file", "dev"}
Dinode == [type : Types, nlink : Nat]
InodeStruct ==
  [ref : Nat, lock : Procs \cup {None}, valid : BOOLEAN, type : Types, nlink : Nat]
FileStruct == [ref : Nat, ip : Inodes \cup {None}]
SysCalls == {"create", "open", "openw", "mkdir", "mknod", "link", "unlink", "chdir"}
Places == {"idle", "walk", "found", "parent", "fail", "exists", "new", "open", "made", "child", "bad", "unlinked"}
\* A call has two references to put at most.
Puts == {<<>>} \cup {<<a>> : a \in Inodes} \cup {<<a, b>> : a, b \in Inodes}
\* link goes on as link2 when it has the old path.
ProcStruct ==
  [op : SysCalls \cup {"none", "link2"}, pc : Places, path : Seq(Names),
   new : {args[2] : args \in Links} \cup {<<>>},
   ip : Inodes \cup {None}, dp : Inodes \cup {None}, old : Inodes \cup {None}, cwd : Inodes,
   puts : Puts, freeing : BOOLEAN, ofile : [FDs -> Files \cup {None}]]
NoInode == [ref |-> 0, lock |-> None, valid |-> FALSE, type |-> "free", nlink |-> 0]
NoEntries == [n \in Names |-> None]
Rel(path) == IF path # <<>> /\ Head(path) = "/" THEN Tail(path) ELSE path
Least(S) == CHOOSE i \in S : \A j \in S : i <= j

\* A disk as mkfs or an earlier run of the system left it: each inode has the
\* links its names and its subdirectories account for, the root one more, and
\* the directories are a tree.
Subdirs(node, entry, i) == {n \in Names : entry[i][n] # None /\ node[entry[i][n]].type = "dir"}
Entries(entry, i) == {e \in Inodes \X Names : entry[e[1]][e[2]] = i}
Tree(node, entry, rank) ==
  \A d \in Inodes, n \in Names :
    entry[d][n] # None /\ node[entry[d][n]].type = "dir" => rank[d] < rank[entry[d][n]]
Sound(node, entry) ==
  /\ node \in [Inodes -> Dinode] /\ entry \in [Inodes -> [Names -> Inodes \cup {None}]]
  /\ node[Root].type = "dir"
  /\ \A i \in Inodes :
       /\ node[i].type # "dir" => entry[i] = NoEntries
       /\ Entries(entry, i) # {} => node[i].type # "free"
       /\ node[i].type = "dir" => Cardinality(Entries(entry, i)) <= 1
       /\ node[i].nlink >= Cardinality(Entries(entry, i)) + Cardinality(Subdirs(node, entry, i))
                          + (IF i = Root THEN 1 ELSE 0)
  /\ \E rank \in [Inodes -> 0..NInodes] : Tree(node, entry, rank)

ASSUME InodeAssumption ==
  /\ IsFiniteSet(Procs) /\ None \notin Procs /\ IsFiniteSet(Names)
  /\ NInodes \in Nat \ {0} /\ NFILE \in Nat /\ NOFILE \in Nat
  /\ Ops \subseteq SysCalls
  /\ \A args \in Links \cup (Paths \X {<<>>}) : Rel(args[1]) \in Seq(Names) /\ Rel(args[2]) \in Seq(Names)
  /\ \A disk \in Disks : Sound(disk.dinode, disk.dir)

\* One of the disks; the processes have the root as their cwd.
Init ==
  /\ \E disk \in Disks : dinode = disk.dinode /\ dir = disk.dir
  /\ inode = [i \in Inodes |-> IF i = Root
                THEN [NoInode EXCEPT !.ref = Cardinality(Procs)] ELSE NoInode]
  /\ ftable = [f \in Files |-> [ref |-> 0, ip |-> None]]
  /\ proc = [p \in Procs |-> [op |-> "none", pc |-> "idle", path |-> <<>>, new |-> <<>>, ip |-> None,
                              dp |-> None, old |-> None, puts |-> <<>>, freeing |-> FALSE,
                              cwd |-> Root, ofile |-> [fd \in FDs |-> None]]]
  /\ calls = 0

-----------------------------------------------------------------------------
(* The inode table, as functions of its value t.                           *)
iget(t, i) == [t EXCEPT ![i] = IF t[i].ref = 0 THEN [NoInode EXCEPT !.ref = 1]
                               ELSE [t[i] EXCEPT !.ref = @ + 1]]

\* ilock reads the inode from disk unless it is valid.
ilock(t, i, p) ==
  [t EXCEPT ![i] = [IF t[i].valid THEN t[i]
                    ELSE [t[i] EXCEPT !.valid = TRUE, !.type = dinode[i].type,
                                      !.nlink = dinode[i].nlink]
                    EXCEPT !.lock = p]]

iunlock(t, i) == [t EXCEPT ![i].lock = None]
AddLinks(t, i, n) == [t EXCEPT ![i].nlink = @ + n]
\* iupdate of a set of inodes whose fields the call has changed.
iupdate(t, S) ==
  [i \in Inodes |-> IF i \in S THEN [type |-> t[i].type, nlink |-> t[i].nlink] ELSE dinode[i]]

\* Directories hold one entry for each name.
dirlookup(d, n) == dir[d][n]
dirlink(d, n, i) == [dir EXCEPT ![d][n] = i]

Unlocked(i) == inode[i].lock = None
\* The process is at a place and has no reference left to put.
At(p, l) == proc[p].pc = l /\ proc[p].puts = <<>>
Step(p, r) == proc' = [proc EXCEPT ![p] = r] /\ UNCHANGED calls
Done(r) == [r EXCEPT !.op = "none", !.pc = "idle", !.path = <<>>, !.new = <<>>, !.ip = None, !.dp = None, !.old = None]
Put(r, s) == [r EXCEPT !.puts = s]
Failed(p, s) == [proc[p] EXCEPT !.pc = "fail", !.ip = None, !.dp = None, !.puts = s]

-----------------------------------------------------------------------------
(* iput of the first reference a call has yet to put.                      *)
LastRef(i) == inode[i].ref = 1 /\ inode[i].valid /\ inode[i].nlink = 0
Dropped(i) == IF inode[i].ref = 1 THEN NoInode ELSE [inode[i] EXCEPT !.ref = @ - 1]

\* The last reference to an inode without links: its lock is taken, icache.lock
\* given up.
iputLast(p) ==
  /\ proc[p].puts # <<>> /\ ~proc[p].freeing
  /\ LET i == Head(proc[p].puts)
     IN /\ LastRef(i)
        /\ inode' = [inode EXCEPT ![i].lock = p]
        /\ Step(p, [proc[p] EXCEPT !.freeing = TRUE])
  /\ UNCHANGED <<dinode, dir, ftable>>

\* itrunc, type = 0, iupdate.
iputFree(p) ==
  /\ proc[p].freeing
  /\ LET i == Head(proc[p].puts)
     IN /\ inode[i].lock = p /\ inode[i].type # "free"
        /\ inode' = [inode EXCEPT ![i].type = "free"]
        /\ dinode' = iupdate(inode', {i})
        /\ dir' = [dir EXCEPT ![i] = NoEntries]
  /\ UNCHANGED <<ftable, proc, calls>>

\* Mutant of iputInvalid: the entry stays valid.
iputInvalidNot(p) ==
  /\ proc[p].freeing
  /\ LET i == Head(proc[p].puts)
     IN /\ inode[i].lock = p /\ inode[i].type = "free"
        /\ inode' = [inode EXCEPT ![i].lock = None]
  /\ UNCHANGED <<dinode, dir, ftable, proc, calls>>

\* valid = 0, releasesleep.
iputInvalid(p) ==
  /\ proc[p].freeing
  /\ LET i == Head(proc[p].puts)
     IN /\ inode[i].lock = p /\ inode[i].type = "free"
        /\ inode' = [inode EXCEPT ![i].valid = FALSE, ![i].lock = None]
  /\ UNCHANGED <<dinode, dir, ftable, proc, calls>>

\* ref--, after the inode was freed or at once.
iput(p) ==
  /\ proc[p].puts # <<>>
  /\ LET i == Head(proc[p].puts)
     IN /\ IF proc[p].freeing THEN inode[i].lock # p ELSE ~LastRef(i)
        /\ inode' = [inode EXCEPT ![i] = Dropped(i)]
        /\ Step(p, [proc[p] EXCEPT !.puts = Tail(@), !.freeing = FALSE])
  /\ UNCHANGED <<dinode, dir, ftable>>

-----------------------------------------------------------------------------
(* Entering a call, and namex: namei ends at "found", nameiparent at       *)
(* "parent" with the last name left in path, a failure at "fail".          *)
Parental(op) == op \in {"create", "mkdir", "mknod", "unlink", "link2"}

Start(p, path) == IF path # <<>> /\ Head(path) = "/" THEN Root ELSE proc[p].cwd

Call(p) ==
  /\ proc[p].pc = "idle" /\ proc[p].puts = <<>> /\ calls < MaxCalls
  /\ \E op \in Ops, args \in Links \cup (Paths \X {<<>>}) :
       LET path == args[1] IN
       /\ op = "link" <=> args \in Links
       /\ inode' = iget(inode, Start(p, path))
       /\ proc' = [proc EXCEPT ![p].op = op, ![p].pc = "walk", ![p].path = Rel(path),
                               ![p].new = args[2], ![p].ip = Start(p, path)]
  /\ calls' = calls + 1
  /\ UNCHANGED <<dinode, dir, ftable>>

\* One component: lock the directory, look the name up, take a reference to
\* what it names, unlock and put the directory.
namex(p) ==
  /\ At(p, "walk") /\ proc[p].path # <<>> /\ Unlocked(proc[p].ip)
  /\ LET i == proc[p].ip
         t == ilock(inode, i, None)
         e == dirlookup(i, Head(proc[p].path))
     IN IF t[i].type # "dir"
        THEN inode' = t /\ Step(p, Failed(p, <<i>>))
        ELSE IF Parental(proc[p].op) /\ Len(proc[p].path) = 1
        THEN inode' = t /\ Step(p, [proc[p] EXCEPT !.pc = "parent", !.dp = i, !.ip = None])
        ELSE IF e = None
        THEN inode' = t /\ Step(p, Failed(p, <<i>>))
        ELSE /\ inode' = iget(t, e)
             /\ Step(p, [proc[p] EXCEPT !.puts = <<i>>, !.ip = e, !.path = Tail(@)])
  /\ UNCHANGED <<dinode, dir, ftable>>

\* The path is used up: nameiparent puts the inode and fails, namei has it.
namexEnd(p) ==
  /\ At(p, "walk") /\ proc[p].path = <<>>
  /\ Step(p, IF Parental(proc[p].op)
             THEN Failed(p, <<proc[p].ip>>)
             ELSE [proc[p] EXCEPT !.pc = "found"])
  /\ UNCHANGED <<dinode, inode, dir, ftable>>

\* A call that fails returns; link first takes back the link it counted.
Fail(p) ==
  /\ At(p, "fail") /\ proc[p].op # "link2"
  /\ Step(p, Done(proc[p]))
  /\ UNCHANGED <<dinode, inode, dir, ftable>>

-----------------------------------------------------------------------------
(* create, with ialloc and dirlink.                                        *)
Name(p) == Head(proc[p].path)
NewType(op) == CASE op = "mkdir" -> "dir" [] op = "mknod" -> "dev" [] OTHER -> "file"
Creates(p) == proc[p].op \in {"create", "mkdir", "mknod"}
FreeInodes == {i \in Inodes : dinode[i].type = "free"}

createExists(p) ==
  /\ At(p, "parent") /\ Creates(p) /\ Unlocked(proc[p].dp)
  /\ LET d == proc[p].dp
         e == dirlookup(d, Name(p))
     IN /\ e # None
        /\ inode' = iget(ilock(inode, d, None), e)
        /\ Step(p, [proc[p] EXCEPT !.pc = "exists", !.ip = e, !.dp = None, !.puts = <<d>>])
  /\ UNCHANGED <<dinode, dir, ftable>>

\* The existing inode is locked and opened, or the call fails.
createOpen(p) ==
  /\ At(p, "exists") /\ Unlocked(proc[p].ip)
  /\ LET i == proc[p].ip
         t == ilock(inode, i, p)
     IN IF proc[p].op = "create" /\ t[i].type \in {"file", "dev"}
        THEN inode' = t /\ Step(p, [proc[p] EXCEPT !.pc = "open"])
        ELSE inode' = iunlock(t, i) /\ Step(p, Failed(p, <<i>>))
  /\ UNCHANGED <<dinode, dir, ftable>>

\* Mutant of ialloc: the directory is unlocked before the name is entered.
iallocUnlocked(p) ==
  /\ At(p, "parent") /\ Creates(p) /\ Unlocked(proc[p].dp) /\ FreeInodes # {}
  /\ LET d == proc[p].dp
         i == Least(FreeInodes)
     IN /\ dirlookup(d, Name(p)) = None
        /\ dinode' = [dinode EXCEPT ![i] = [type |-> NewType(proc[p].op), nlink |-> 0]]
        /\ inode' = iget(ilock(inode, d, None), i)
        /\ Step(p, [proc[p] EXCEPT !.pc = "new", !.ip = i])
  /\ UNCHANGED <<dir, ftable>>

\* The name is new: ialloc claims the first free inode on disk.
ialloc(p) ==
  /\ At(p, "parent") /\ Creates(p) /\ Unlocked(proc[p].dp) /\ FreeInodes # {}
  /\ LET d == proc[p].dp
         i == Least(FreeInodes)
     IN /\ dirlookup(d, Name(p)) = None
        /\ dinode' = [dinode EXCEPT ![i] = [type |-> NewType(proc[p].op), nlink |-> 0]]
        /\ inode' = iget(ilock(inode, d, p), i)
        /\ Step(p, [proc[p] EXCEPT !.pc = "new", !.ip = i])
  /\ UNCHANGED <<dir, ftable>>

\* The new inode is locked, which waits for an iput that is still freeing the
\* same number; then it gets its link and its name, and the directory is put.
createNew(p) ==
  /\ At(p, "new") /\ Unlocked(proc[p].ip)
  /\ LET i == proc[p].ip
         d == proc[p].dp
         isdir == NewType(proc[p].op) = "dir"
         t == AddLinks([ilock(inode, i, p) EXCEPT ![i].nlink = 1], d, IF isdir THEN 1 ELSE 0)
     IN /\ inode' = iunlock(t, d)
        /\ dinode' = iupdate(t, {i, d})
        /\ dir' = dirlink(d, Name(p), i)
        /\ Step(p, [proc[p] EXCEPT !.pc = IF proc[p].op = "create" THEN "open" ELSE "made",
                                   !.dp = None, !.puts = <<d>>])
  /\ UNCHANGED ftable

\* mkdir and mknod put the inode that create returned.
MadeNode(p) ==
  /\ At(p, "made")
  /\ inode' = iunlock(inode, proc[p].ip)
  /\ Step(p, Put(Done(proc[p]), <<proc[p].ip>>))
  /\ UNCHANGED <<dinode, dir, ftable>>

-----------------------------------------------------------------------------
(* open, dup and close.                                                    *)
FreeFiles == {f \in Files : ftable[f].ref = 0}
FreeFDs(p) == {fd \in FDs : proc[p].ofile[fd] = None}

\* open without O_CREATE: a directory may only be opened for reading.
openFound(p) ==
  /\ At(p, "found") /\ proc[p].op \in {"open", "openw"} /\ Unlocked(proc[p].ip)
  /\ LET i == proc[p].ip
         t == ilock(inode, i, p)
     IN IF t[i].type = "dir" /\ proc[p].op = "openw"
        THEN inode' = iunlock(t, i) /\ Step(p, Failed(p, <<i>>))
        ELSE inode' = t /\ Step(p, [proc[p] EXCEPT !.pc = "open"])
  /\ UNCHANGED <<dinode, dir, ftable>>

\* filealloc and fdalloc, or the inode is put: there is no file or descriptor
\* left, or the device's major number is out of range.
sys_open(p) ==
  /\ At(p, "open")
  /\ inode' = iunlock(inode, proc[p].ip)
  /\ \/ /\ FreeFiles = {} \/ FreeFDs(p) = {} \/ inode[proc[p].ip].type = "dev"
        /\ Step(p, Failed(p, <<proc[p].ip>>)) /\ UNCHANGED ftable
     \/ /\ FreeFiles # {} /\ FreeFDs(p) # {}
        /\ LET f == Least(FreeFiles)
           IN /\ ftable' = [ftable EXCEPT ![f] = [ref |-> 1, ip |-> proc[p].ip]]
              /\ Step(p, [Done(proc[p]) EXCEPT !.ofile[Least(FreeFDs(p))] = f])
  /\ UNCHANGED <<dinode, dir>>

\* Mutant of sys_dup: the file's count is not raised.
sys_dupUncounted(p) ==
  /\ At(p, "idle") /\ FreeFDs(p) # {}
  /\ \E fd \in FDs \ FreeFDs(p) :
       Step(p, [proc[p] EXCEPT !.ofile[Least(FreeFDs(p))] = proc[p].ofile[fd]])
  /\ UNCHANGED <<dinode, inode, dir, ftable>>

sys_dup(p) ==
  /\ At(p, "idle") /\ FreeFDs(p) # {}
  /\ \E fd \in FDs \ FreeFDs(p) :
       /\ ftable' = [ftable EXCEPT ![proc[p].ofile[fd]].ref = @ + 1]
       /\ Step(p, [proc[p] EXCEPT !.ofile[Least(FreeFDs(p))] = proc[p].ofile[fd]])
  /\ UNCHANGED <<dinode, inode, dir>>

\* close and fileclose: the last reference to the file puts its inode.
fileclose(p) ==
  /\ At(p, "idle")
  /\ \E fd \in FDs \ FreeFDs(p) :
       LET f == proc[p].ofile[fd]
           r == [proc[p] EXCEPT !.ofile[fd] = None]
       IN IF ftable[f].ref > 1
          THEN ftable' = [ftable EXCEPT ![f].ref = @ - 1] /\ Step(p, r)
          ELSE /\ ftable' = [ftable EXCEPT ![f] = [ref |-> 0, ip |-> None]]
               /\ Step(p, Put(r, <<ftable[f].ip>>))
  /\ UNCHANGED <<dinode, inode, dir>>

-----------------------------------------------------------------------------
(* link, unlink and chdir.                                                 *)

\* Mutant of linkFound: the inode stays locked while the new path is walked.
linkFoundLocked(p) ==
  /\ At(p, "found") /\ proc[p].op = "link" /\ Unlocked(proc[p].ip)
  /\ LET i == proc[p].ip
         t == ilock(inode, i, p)
     IN /\ t[i].type # "dir"
        /\ inode' = iget(AddLinks(t, i, 1), Start(p, proc[p].new))
        /\ dinode' = iupdate(inode', {i})
        /\ Step(p, [proc[p] EXCEPT !.op = "link2", !.pc = "walk", !.old = i, !.new = <<>>,
                                   !.ip = Start(p, proc[p].new), !.path = Rel(proc[p].new)])
  /\ UNCHANGED <<dir, ftable>>

\* The old path: a file gets one more link, then the new path is walked.
linkFound(p) ==
  /\ At(p, "found") /\ proc[p].op = "link" /\ Unlocked(proc[p].ip)
  /\ LET i == proc[p].ip
         t == ilock(inode, i, None)
     IN IF t[i].type = "dir"
        THEN /\ inode' = t /\ UNCHANGED dinode
             /\ Step(p, Failed(p, <<i>>))
        ELSE /\ inode' = iget(AddLinks(t, i, 1), Start(p, proc[p].new))
             /\ dinode' = iupdate(inode', {i})
             /\ Step(p, [proc[p] EXCEPT !.op = "link2", !.pc = "walk", !.old = i, !.new = <<>>,
                                        !.ip = Start(p, proc[p].new), !.path = Rel(proc[p].new)])
  /\ UNCHANGED <<dir, ftable>>

\* dirlink in the new path's directory, unless the name is there.
linkParent(p) ==
  /\ At(p, "parent") /\ proc[p].op = "link2" /\ Unlocked(proc[p].dp)
  /\ LET d == proc[p].dp
     IN /\ inode' = ilock(inode, d, None)
        /\ IF dirlookup(d, Name(p)) # None
           THEN Step(p, Failed(p, <<d>>)) /\ UNCHANGED dir
           ELSE /\ dir' = dirlink(d, Name(p), proc[p].old)
                /\ Step(p, Put(Done(proc[p]), <<d, proc[p].old>>))
  /\ UNCHANGED <<dinode, ftable>>

\* Mutant of linkBad: the link stays counted.
linkBadCounted(p) ==
  /\ At(p, "fail") /\ proc[p].op = "link2" /\ Unlocked(proc[p].old)
  /\ inode' = ilock(inode, proc[p].old, None)
  /\ Step(p, Put(Done(proc[p]), <<proc[p].old>>))
  /\ UNCHANGED <<dinode, dir, ftable>>

linkBad(p) ==
  /\ At(p, "fail") /\ proc[p].op = "link2" /\ Unlocked(proc[p].old)
  /\ LET i == proc[p].old
     IN /\ inode' = [ilock(inode, i, None) EXCEPT ![i].nlink = @ - 1]
        /\ dinode' = iupdate(inode', {i})
        /\ Step(p, Put(Done(proc[p]), <<i>>))
  /\ UNCHANGED <<dir, ftable>>

\* unlink locks the directory and looks the name up ...
unlinkParent(p) ==
  /\ At(p, "parent") /\ proc[p].op = "unlink" /\ Unlocked(proc[p].dp)
  /\ LET d == proc[p].dp
         e == dirlookup(d, Name(p))
     IN IF e = None
        THEN /\ inode' = ilock(inode, d, None)
             /\ Step(p, Failed(p, <<d>>))
        ELSE /\ inode' = iget(ilock(inode, d, p), e)
             /\ Step(p, [proc[p] EXCEPT !.pc = "child", !.ip = e])
  /\ UNCHANGED <<dinode, dir, ftable>>

isdirempty(i) == dir[i] = NoEntries

\* ... then, with the directory still locked, the inode it names, and panics if
\* that has no links: a directory that is not empty is put and stays, else the
\* entry is erased and the directory put.
unlinkChild(p) ==
  /\ At(p, "child") /\ Unlocked(proc[p].ip)
  /\ LET i == proc[p].ip
         d == proc[p].dp
         t == ilock(inode, i, p)
         u == iunlock([t EXCEPT ![d].nlink = IF t[i].type = "dir" THEN @ - 1 ELSE @], d)
     IN /\ t[i].nlink >= 1
        /\ IF t[i].type = "dir" /\ ~isdirempty(i)
           THEN /\ inode' = iunlock(t, i) /\ UNCHANGED <<dinode, dir>>
                /\ Step(p, [proc[p] EXCEPT !.pc = "bad", !.ip = None, !.puts = <<i>>])
           ELSE /\ inode' = u /\ dinode' = iupdate(u, {d})
                /\ dir' = [dir EXCEPT ![d][Name(p)] = None]
                /\ Step(p, [proc[p] EXCEPT !.pc = "unlinked", !.dp = None, !.puts = <<d>>])
  /\ UNCHANGED ftable

\* The directory is put after what is in it.
unlinkBad(p) ==
  /\ At(p, "bad")
  /\ inode' = iunlock(inode, proc[p].dp)
  /\ Step(p, Failed(p, <<proc[p].dp>>))
  /\ UNCHANGED <<dinode, dir, ftable>>

\* Mutant of unlinkDone: two links are taken off.
unlinkDoneTwice(p) ==
  /\ At(p, "unlinked")
  /\ LET i == proc[p].ip
         t == [inode EXCEPT ![i].nlink = @ - 2]
     IN /\ inode' = iunlock(t, i) /\ dinode' = iupdate(t, {i})
        /\ Step(p, Put(Done(proc[p]), <<i>>))
  /\ UNCHANGED <<dir, ftable>>

unlinkDone(p) ==
  /\ At(p, "unlinked")
  /\ LET i == proc[p].ip
         t == [inode EXCEPT ![i].nlink = @ - 1]
     IN /\ inode' = iunlock(t, i) /\ dinode' = iupdate(t, {i})
        /\ Step(p, Put(Done(proc[p]), <<i>>))
  /\ UNCHANGED <<dir, ftable>>

sys_chdir(p) ==
  /\ At(p, "found") /\ proc[p].op = "chdir" /\ Unlocked(proc[p].ip)
  /\ LET i == proc[p].ip
     IN /\ inode' = ilock(inode, i, None)
        /\ Step(p, IF inode'[i].type # "dir" THEN Failed(p, <<i>>)
                   ELSE [Put(Done(proc[p]), <<proc[p].cwd>>) EXCEPT !.cwd = i])
  /\ UNCHANGED <<dinode, dir, ftable>>

-----------------------------------------------------------------------------
Syscall(p) ==
  \/ namex(p) \/ namexEnd(p) \/ Fail(p)
  \/ createExists(p) \/ createOpen(p) \/ ialloc(p) \/ createNew(p) \/ MadeNode(p)
  \/ openFound(p) \/ sys_open(p)
  \/ linkFound(p) \/ linkParent(p) \/ linkBad(p)
  \/ unlinkParent(p) \/ unlinkChild(p) \/ unlinkBad(p) \/ unlinkDone(p) \/ sys_chdir(p)
  \/ iputLast(p) \/ iputFree(p) \/ iputInvalid(p) \/ iput(p)

Next ==
  \/ \E p \in Procs : Syscall(p) \/ Call(p) \/ sys_dup(p) \/ fileclose(p)
  \/ calls = MaxCalls /\ (\A p \in Procs : At(p, "idle")) /\ UNCHANGED vars

Safe == Init /\ [][Next]_vars

-----------------------------------------------------------------------------
\* The references of a process: the inodes of its call, its cwd, and those it has
\* yet to put, of which there are two at most.
Slots == {"ip", "dp", "old", "cwd", "first", "last"}
FirstPut(s) == IF Len(s) = 2 THEN s[1] ELSE None
LastPut(s) == IF s = <<>> THEN None ELSE s[Len(s)]
Ref(p, x) ==
  CASE x = "ip" -> proc[p].ip [] x = "dp" -> proc[p].dp [] x = "old" -> proc[p].old
    [] x = "cwd" -> proc[p].cwd
    [] x = "first" -> FirstPut(proc[p].puts) [] x = "last" -> LastPut(proc[p].puts)

Refs(i) == {u \in Procs \X Slots : Ref(u[1], u[2]) = i}
OpenFiles(i) == {f \in Files : ftable[f].ip = i}
Descriptors(f) == {u \in Procs \X FDs : proc[u[1]].ofile[u[2]] = f}

\* Every variable has the shape the code gives it.
TypeOK ==
  /\ dinode \in [Inodes -> Dinode] /\ inode \in [Inodes -> InodeStruct]
  /\ dir \in [Inodes -> [Names -> Inodes \cup {None}]]
  /\ ftable \in [Files -> FileStruct]
  /\ proc \in [Procs -> ProcStruct]

\* Every reference is counted: an inode's by the calls, working directories and
\* open files that have it, a file's by the descriptors that name it.  (With the
\* types of all variables.)
RefExact ==
  /\ TypeOK
  /\ \A i \in Inodes : inode[i].ref = Cardinality(Refs(i)) + Cardinality(OpenFiles(i))
  /\ \A f \in Files : ftable[f].ref = Cardinality(Descriptors(f))

\* An inode that a call, a working directory or an open file refers to is
\* allocated when its lock is free, so ilock's panic "no type" cannot happen: not when another
\* process removes the name, and not when an iput frees the number just as
\* ialloc gives it out again.
RefsLive ==
  \A i \in {j \in Inodes : Unlocked(j)} :
    \/ \E p \in Procs : i \in {proc[p].ip, proc[p].dp, proc[p].old, proc[p].cwd}
    \/ \E f \in Files : ftable[f].ip = i
    => (IF inode[i].valid THEN inode[i].type ELSE dinode[i].type) # "free"

\* Links counted but not in a directory yet, or no longer: link, unlink.
Linking(i) == {p \in Procs : proc[p].old = i}
Unlinking(i) == {p \in Procs : proc[p].pc = "unlinked" /\ proc[p].ip = i}

\* The links an inode should have: its names, with those that link and unlink
\* are about to enter or have just erased, and a directory one more for each
\* directory in it, the root still one more.
Claims(i) ==
  Cardinality(Entries(dir, i)) + Cardinality(Linking(i)) + Cardinality(Unlinking(i))
  + Cardinality(Subdirs(dinode, dir, i)) + (IF i = Root THEN 1 ELSE 0)

NamesCounted ==
  \A i \in Inodes :
    /\ dinode[i].type # "free" => dinode[i].nlink >= Claims(i)
    /\ Entries(dir, i) # {} => dinode[i].type # "free"
    /\ dinode[i].type = "dir" => Cardinality(Entries(dir, i)) <= 1

\* An inode has at least the links that names and calls claim, so no unlink frees
\* what another name still shows, nor the root.  A directory has one name at most,
\* so that directories stay a tree through links and removals of their parents.
\* And unlink's panic "nlink < 1" cannot happen, whatever other calls do between
\* the lookup of the name and the lock on the inode.
LinkCount ==
  /\ NamesCounted
  /\ \A p \in Procs : proc[p].pc = "child" =>
       LET i == proc[p].ip
       IN (IF inode[i].valid THEN inode[i].nlink ELSE dinode[i].nlink) >= 1

\* Nor has an inode links that nothing claims: link takes back the one it counted
\* when it cannot enter the name, unlink those of the entry it erased.  Only names
\* in a directory that is freed with them are lost: those that create or link
\* entered after unlink had found it empty.
LinksBalanced ==
  [][\A i \in Inodes :
       /\ dinode[i].type # "free" /\ dinode'[i].type # "free"
       /\ \A d \in Inodes, n \in Names : dir[d][n] = i => dinode'[d].type # "free"
       => dinode'[i].nlink - Claims(i)' = dinode[i].nlink - Claims(i)]_vars

\* What a name shows changes only by unlink, never by a second create or link
\* that looked the name up before the first entered it.
NamesStable ==
  [][\A i \in Inodes, n \in Names : dir[i][n] # None => dir'[i][n] \in {dir[i][n], None}]_vars

\* The inode whose lock a process needs for its next step.
Waits(p) ==
  LET r == proc[p] IN
  IF r.puts # <<>> THEN None
  ELSE CASE r.pc \in {"walk", "exists", "new", "found", "child"} -> r.ip
         [] r.pc = "parent" -> r.dp
         [] r.pc = "fail" -> r.old
         [] OTHER -> None

\* No set of processes in which each waits for an inode that one of them has
\* locked: create and unlink lock a directory before what is in it.
NoLockCycle ==
  \A S \in SUBSET Procs :
    S # {} => \E p \in S : Waits(p) = None \/ inode[Waits(p)].lock \notin S

\* An inode without links that nobody refers to has been freed on disk, as the
\* comment on iput promises of the last reference.
UnlinkedFreed ==
  \A i \in Inodes : dinode[i].type # "free" /\ dinode[i].nlink = 0 => inode[i].ref > 0
=============================================================================
