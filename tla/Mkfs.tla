-------------------------------- MODULE Mkfs --------------------------------
(***************************************************************************)
(* mkfs/mkfs.c: the disk that the kernel boots from, with the root         *)
(* directory and the files given to mkfs.  The image s has the inodes, the *)
(* entries and the blocks of Inode, and freeinode and freeblock, the next  *)
(* ones to give out; block 1 is the first after the nmeta meta blocks.     *)
(***************************************************************************)
EXTENDS Inode

Empty ==
  [inode |-> [i \in Inum |-> Dinode("free", 0)], dir |-> [i \in Inum |-> NoEntries],
   blk |-> [b \in Block |-> Zeroed], freeinode |-> 1, freeblock |-> 1]

ialloc(s, type) ==
  [s EXCEPT !.inode[s.freeinode] = Dinode(type, 1), !.freeinode = @ + 1]

(* One round of iappend(): the block fbn of inode i is there, and written. *)
TakeAddr(s, i, n) ==
  IF s.inode[i].addrs[n] # 0 THEN s
  ELSE [s EXCEPT !.inode[i].addrs[n] = s.freeblock, !.freeblock = @ + 1]

AppendDirect(s, i, fbn) ==
  LET t == TakeAddr(s, i, fbn)
  IN [t EXCEPT !.blk[t.inode[i].addrs[fbn]] = Data]

AppendIndirect(s, i, fbn) ==
  LET t == TakeAddr(s, i, NDIRECT)
      ind == t.inode[i].addrs[NDIRECT]
      old == t.blk[ind][fbn - NDIRECT]
  IN IF old # 0 THEN [t EXCEPT !.blk[old] = Data]
     ELSE [t EXCEPT !.blk[ind][fbn - NDIRECT] = t.freeblock, !.blk[t.freeblock] = Data,
                    !.freeblock = @ + 1]

iappend(s, i, n) ==
  LET off == s.inode[i].size
      round(t, fbn) == IF fbn < NDIRECT THEN AppendDirect(t, i, fbn) ELSE AppendIndirect(t, i, fbn)
      t == FoldLeft(round, s, [k \in 1 .. LastBlock(off, n) - FirstBlock(off) + 1 |->
                                 FirstBlock(off) + k - 1])
  IN IF n = 0 THEN s ELSE [t EXCEPT !.inode[i].size = off + n]

(* An entry of the root, all of whose entries fit in one block. *)
Entry(s, name, inum) == [AppendDirect(s, ROOTINO, 0) EXCEPT !.dir[ROOTINO][name] = inum]

AddFile(s, file) ==
  iappend(Entry(ialloc(s, "file"), file.name, s.freeinode), s.freeinode, file.size)

balloc(used) == 1 .. used - 1     \* the bitmap: everything handed out so far

mkfs(files) ==
  LET root == ialloc(Empty, "dir")
      s == FoldLeft(AddFile, Entry(Entry(root, ".", ROOTINO), "..", ROOTINO), files)
  IN [inode |-> [s.inode EXCEPT ![ROOTINO].size = BSIZE], dir |-> s.dir,
      map |-> balloc(s.freeblock), blk |-> s.blk]
=============================================================================
