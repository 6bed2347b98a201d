------------------------------- MODULE Inode -------------------------------
(***************************************************************************)
(* fs.c below the path names: the block bitmap, the inodes on disk, their  *)
(* contents, and the inode cache.  The operations are functions of the     *)
(* file system's state f:                                                  *)
(*   f.inode[i]  struct dinode i on disk, as the log has it                *)
(*   f.dir[i]    the entries in the data blocks of directory i             *)
(*   f.map       the blocks marked in use in the bitmap                    *)
(*   f.blk[b]    the contents of block b, read as block addresses          *)
(*   f.ic[i]     the cache entry of inode i: ref, valid, the holder of its *)
(*               lock, and ip, the copy of the inode                       *)
(*   f.panic     "no", or why the code called panic(): "full" when a table *)
(*               or the disk is full, "bad" when it met a wrong value      *)
(* What a function does happens while the caller holds the lock of the     *)
(* inode.  A directory's entries fit in one block.                         *)
(***************************************************************************)
EXTENDS Integers, FiniteSets, SequencesExt

CONSTANTS NINODES,     \* sb.ninodes: inode numbers are 1 .. NINODES - 1
          NBLOCK,      \* data blocks are 1 .. NBLOCK
          NINODE,      \* entries of the inode cache
          NDIRECT, NINDIRECT, BSIZE,
          Name,        \* file names, without "." and ".."
          None         \* no process

Inum == 1 .. NINODES - 1
Block == 1 .. NBLOCK
ROOTINO == 1
MAXFILE == NDIRECT + NINDIRECT
DirName == Name \cup {".", ".."}

ASSUME InodeAssumption ==
  /\ {NINODES, NBLOCK, NINODE, NDIRECT, NINDIRECT, BSIZE} \subseteq Nat \ {0}
  /\ {".", ".."} \cap Name = {}

NoAddrs == [n \in 0 .. NDIRECT |-> 0]
NoEntries == [n \in DirName |-> 0]
Zeroed == [j \in 0 .. NINDIRECT - 1 |-> 0]
Data == [j \in 0 .. NINDIRECT - 1 |-> 1]      \* what a user may write
Dinode(type, nlink) ==
  [type |-> type, nlink |-> nlink, size |-> 0, addrs |-> NoAddrs]
NotCached == [ref |-> 0, valid |-> FALSE, lock |-> None, ip |-> Dinode("free", 0)]
-----------------------------------------------------------------------------
(* Blocks. *)
FreeBlock(f) == IF Block \subseteq f.map THEN 0 ELSE Min(Block \ f.map)

BallocDirty(f) ==   \* without bzero()
  IF FreeBlock(f) = 0 THEN [f EXCEPT !.panic = "full"]
  ELSE [f EXCEPT !.map = @ \cup {FreeBlock(f)}]

Balloc(f) ==
  IF FreeBlock(f) = 0 THEN [f EXCEPT !.panic = "full"]
  ELSE [f EXCEPT !.map = @ \cup {FreeBlock(f)}, !.blk[FreeBlock(f)] = Zeroed]

Bfree(f, B) ==
  IF B \subseteq f.map THEN [f EXCEPT !.map = @ \ B] ELSE [f EXCEPT !.panic = "bad"]
-----------------------------------------------------------------------------
(* Inodes: the copy in the cache is written through to the disk. *)
Iupdate(f, i) == [f EXCEPT !.inode[i] = f.ic[i].ip]

Idup(f, i) == [f EXCEPT !.ic[i].ref = @ + 1]

Iget(f, i) ==
  IF f.ic[i].ref > 0 THEN Idup(f, i)
  ELSE IF Cardinality({j \in Inum : f.ic[j].ref > 0}) = NINODE
       THEN [f EXCEPT !.panic = "full"]
       ELSE [f EXCEPT !.ic[i] = [NotCached EXCEPT !.ref = 1]]

FreeInode(f) ==
  LET S == {i \in Inum : f.inode[i].type = "free"}
  IN IF S = {} THEN 0 ELSE Min(S)

Ialloc(f, type) ==
  IF FreeInode(f) = 0 THEN [f EXCEPT !.panic = "full"]
  ELSE Iget([f EXCEPT !.inode[FreeInode(f)] = Dinode(type, 0)], FreeInode(f))

Unlocked(f, i) == f.ic[i].lock = None

Ilock(f, i, p) ==
  LET ip == IF f.ic[i].valid THEN f.ic[i].ip ELSE f.inode[i]
  IN [f EXCEPT !.ic[i] = [@ EXCEPT !.lock = p, !.valid = TRUE, !.ip = ip],
               !.panic = IF f.ic[i].ref < 1 \/ (~f.ic[i].valid /\ ip.type = "free")
                         THEN "bad" ELSE @]

Iunlock(f, i) == [f EXCEPT !.ic[i].lock = None]

Idrop(f, i) == [f EXCEPT !.ic[i].ref = @ - 1]
-----------------------------------------------------------------------------
(* Contents: bmap() allocates the block bn of inode i if there is none. *)
Addr(f, i, bn) ==
  IF bn < NDIRECT THEN f.ic[i].ip.addrs[bn]
  ELSE f.blk[f.ic[i].ip.addrs[NDIRECT]][bn - NDIRECT]

MapDirect(f, i, n) ==
  IF f.ic[i].ip.addrs[n] # 0 THEN f
  ELSE [Balloc(f) EXCEPT !.ic[i].ip.addrs[n] = FreeBlock(f)]

MapIndirect(f, i, bn) ==
  IF f.panic # "no" \/ Addr(f, i, bn) # 0 THEN f
  ELSE [Balloc(f) EXCEPT
          !.blk[f.ic[i].ip.addrs[NDIRECT]][bn - NDIRECT] = FreeBlock(f)]

Bmap(f, i, bn) ==
  IF bn < NDIRECT THEN MapDirect(f, i, bn)
  ELSE IF bn < MAXFILE THEN MapIndirect(MapDirect(f, i, NDIRECT), i, bn)
  ELSE [f EXCEPT !.panic = "bad"]

BmapAll(f, i, first, last) ==
  FoldLeft(LAMBDA g, bn : Bmap(g, i, bn), f,
           [k \in 1 .. last - first + 1 |-> first + k - 1])

(* The blocks that an inode owns. *)
IndirectOf(f, ip) ==
  IF ip.addrs[NDIRECT] = 0 THEN {}
  ELSE {f.blk[ip.addrs[NDIRECT]][j] : j \in 0 .. NINDIRECT - 1}

Owned(f, ip) ==
  ({ip.addrs[n] : n \in 0 .. NDIRECT} \cup IndirectOf(f, ip)) \ {0}

Itrunc(f, i) ==
  Iupdate([Bfree(f, Owned(f, f.ic[i].ip)) EXCEPT
             !.ic[i].ip.addrs = NoAddrs, !.ic[i].ip.size = 0,
             !.dir[i] = NoEntries], i)

(* A copy of n bytes at off, of which only the first k blocks succeed:     *)
(* where it stops, and the last block it maps, the failing one included.   *)
FirstBlock(off) == off \div BSIZE
LastBlock(off, n) == (off + n - 1) \div BSIZE

CopyEnd(off, n, k) ==
  IF FirstBlock(off) + k > LastBlock(off, n) THEN off + n
  ELSE IF k = 0 THEN off ELSE (FirstBlock(off) + k) * BSIZE

MapCopied(f, i, off, n, k) ==
  IF n = 0 THEN f ELSE BmapAll(f, i, FirstBlock(off), Min({LastBlock(off, n), FirstBlock(off) + k}))

ReadLen(ip, off, n) == IF off > ip.size THEN 0 ELSE Min({n, ip.size - off})

Readi(f, i, off, n, k) == MapCopied(f, i, off, ReadLen(f.ic[i].ip, off, n), k)
ReadiEnd(f, i, off, n, k) == CopyEnd(off, ReadLen(f.ic[i].ip, off, n), k)

WriteiOK(f, i, off, n) == off <= f.ic[i].ip.size /\ off + n <= MAXFILE * BSIZE

Copied(g, i, off, end) ==
  [b \in Block |->
     IF end > off /\ \E bn \in FirstBlock(off) .. FirstBlock(end - 1) : b = Addr(g, i, bn)
     THEN Data ELSE g.blk[b]]

WriteiWhole(f, i, off, n, k) ==   \* the size grows by n, whatever was copied
  LET g == MapCopied(f, i, off, n, k)
  IN IF g.panic # "no" THEN g
     ELSE Iupdate([g EXCEPT !.blk = Copied(g, i, off, CopyEnd(off, n, k)),
                            !.ic[i].ip.size = Max({@, off + n})], i)

(* writei() with n > 0: the size grows to what was copied. *)
Writei(f, i, off, n, k) ==
  LET g == MapCopied(f, i, off, n, k)
      end == CopyEnd(off, n, k)
  IN IF g.panic # "no" THEN g
     ELSE Iupdate([g EXCEPT !.blk = Copied(g, i, off, end),
                            !.ic[i].ip.size = Max({@, end})], i)
-----------------------------------------------------------------------------
(* Directories. *)
Dirlookup(f, dp, name) == f.dir[dp][name]

DirWrite(f, dp, name, inum) ==   \* writei() of one entry
  LET g == Bmap(f, dp, 0)
  IN IF g.panic # "no" THEN g
     ELSE Iupdate([g EXCEPT !.dir[dp][name] = inum, !.ic[dp].ip.size = BSIZE,
                            !.blk[g.ic[dp].ip.addrs[0]] = Data], dp)

Dirlink(f, dp, name, inum) ==   \* its callers panic when the name is there
  IF Dirlookup(f, dp, name) # 0 THEN [f EXCEPT !.panic = "bad"]
  ELSE DirWrite(f, dp, name, inum)

Isdirempty(f, dp) == \A n \in Name : f.dir[dp][n] = 0
=============================================================================
