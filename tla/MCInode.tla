------------------------------ MODULE MCInode -------------------------------
(* Paths and disks for Inode: names in the working directory, one level    *)
(* down and from the root; an empty disk, and one with /a/b and its second *)
(* name /b.                                                                *)
EXTENDS Inode, TLC

MCPaths == {<<"a">>, <<"b">>, <<"a", "b">>, <<"/", "a">>}
MCLinks == {<<<<"a">>, <<"b">>>>, <<<<"b">>, <<"a", "b">>>>}

Node(t, n) == [type |-> t, nlink |-> n]
Free == Node("free", 0)
Dir(a, b) == [NoEntries EXCEPT !["a"] = a, !["b"] = b]

Empty ==
  [dinode |-> [i \in Inodes |-> IF i = Root THEN Node("dir", 1) ELSE Free],
   dir |-> [i \in Inodes |-> NoEntries]]
Nested ==
  [dinode |-> [i \in Inodes |-> CASE i = 1 -> Node("dir", 2) [] i = 2 -> Node("dir", 1)
                                 [] i = 3 -> Node("file", 2) [] OTHER -> Free],
   dir |-> [i \in Inodes |-> CASE i = 1 -> Dir(2, 3) [] i = 2 -> Dir(0, 3)
                              [] OTHER -> NoEntries]]
MCDisks == {Empty, Nested}

\* One file, /a.
MCOneFile ==
  {[dinode |-> [i \in Inodes |-> CASE i = 1 -> Node("dir", 1) [] i = 2 -> Node("file", 1)
                                  [] OTHER -> Free],
    dir |-> [i \in Inodes |-> IF i = Root THEN Dir(2, 0) ELSE NoEntries]]}

Symmetry == Permutations(Procs)
=============================================================================
