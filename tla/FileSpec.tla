------------------------------ MODULE FileSpec ------------------------------
(***************************************************************************)
(* What files promise: a file is a sequence of bytes, an open file has an  *)
(* offset into one.  A write puts its bytes at the offset and moves it, a  *)
(* read returns the bytes there and moves it, truncation empties the file. *)
(* A write cut short by a bad address may also have changed bytes of the   *)
(* file behind those it reports, fewer than a block of them; these are     *)
(* loose: they may become what they were again.                            *)
(***************************************************************************)
EXTENDS Naturals, Sequences

CONSTANTS Inodes, Files, InodeOf, Procs, BlockSize, MaxSize,
          Initial   \* contents

VARIABLES content,  \* of each inode
          loose,    \* of each inode: positions and the bytes they may go back to
          off,      \* of each open file
          got       \* what each process's last read returned

specvars == <<content, loose, off, got>>

\* d written over s from position o.
Over(s, o, d) ==
  [k \in 1..(IF o + Len(d) > Len(s) THEN o + Len(d) ELSE Len(s)) |->
     IF k > o /\ k <= o + Len(d) THEN d[k - o] ELSE s[k]]

SpecInit ==
  /\ content = Initial /\ loose = [i \in Inodes |-> {}]
  /\ off = [f \in Files |-> 0] /\ got = [p \in Procs |-> <<>>]

\* n bytes of p are written and reported, x more inside the file are not.
SpecWrite(p, f) ==
  \E n \in 0..MaxSize :
    LET i == InodeOf[f]
        end == off[f] + n
    IN /\ off' = [off EXCEPT ![f] = end] /\ UNCHANGED got
       /\ \E x \in 0..(BlockSize - 1) :
            LET s == content[i]
                y == IF end + x <= Len(s) THEN x ELSE IF end > Len(s) THEN 0 ELSE Len(s) - end
            IN /\ off[f] <= Len(s)
               /\ content' = [content EXCEPT ![i] = Over(s, off[f], [k \in 1..(n + y) |-> p])]
               /\ \A j \in Inodes \ {i} : loose'[j] = loose[j]
               /\ \A e \in loose'[i] :
                    \/ e \in loose[i] /\ e[1] \notin (off[f] + 1)..end
                    \/ e[1] \in (end + 1)..(end + y) /\ e[2] = s[e[1]]

\* The next n bytes, as far as there are any.
SpecRead(p, f) ==
  LET s == content[InodeOf[f]]
      left == IF off[f] > Len(s) THEN 0 ELSE Len(s) - off[f]
  IN \E n \in 0..left :
       /\ off' = [off EXCEPT ![f] = @ + n]
       /\ got' = [got EXCEPT ![p] = SubSeq(s, off[f] + 1, off[f] + n)]
       /\ UNCHANGED <<content, loose>>

SpecTruncate(i) ==
  /\ UNCHANGED <<off, got>>
  /\ content' = [content EXCEPT ![i] = <<>>] /\ loose' = [loose EXCEPT ![i] = {}]

\* Some loose bytes of a file go back.
SpecRevert(i) ==
  /\ UNCHANGED <<off, got>>
  /\ \E L \in SUBSET loose[i] :
       /\ content' = [content EXCEPT ![i] =
                        [k \in 1..Len(@) |-> IF \E e \in L : e[1] = k
                                             THEN (CHOOSE e \in L : e[1] = k)[2] ELSE @[k]]]
       /\ loose' = [loose EXCEPT ![i] = @ \ L]

SpecNext ==
  \/ \E i \in Inodes : SpecTruncate(i) \/ SpecRevert(i)
  \/ \E p \in Procs, f \in Files : SpecWrite(p, f) \/ SpecRead(p, f)
=============================================================================
