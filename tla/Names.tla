------------------------------- MODULE Names -------------------------------
(***************************************************************************)
(* The system calls on path names and open inodes: namex() of fs.c, and    *)
(* open, mkdir, mknod, link, unlink, chdir, close, fstat, read and write   *)
(* of sysfile.c and file.c, by several processes at once.                  *)
(*                                                                         *)
(* A step runs from one point where the process can wait, or touches the   *)
(* reference counts, to the next.  The disk changes inside transactions;   *)
(* the log (module Log) makes the changes of all the calls in progress     *)
(* durable together when the last of them ends, and a crash goes back to   *)
(* the last such point.                                                    *)
(***************************************************************************)
EXTENDS Inode

CONSTANTS Proc,
          Calls,         \* the system calls that processes make
          Starts,        \* where to start: a disk, the inode each process has open
                         \* or 0, and the current directory of each
          MaxWrite,      \* bytes of one transaction of filewrite()
          MaxCalls,      \* bound: calls made
          MaxCrash       \* bound: crashes

VARIABLES
  fs,         \* the file system: see Inode
  durable,    \* its disk part after the last commit
  st,         \* where each process is: see Idle
  cwd,        \* p->cwd
  file,       \* the one open file of each process, struct file
  calls, crashes,
  dirty       \* an entry was made in a directory that had been removed

vars == <<fs, durable, st, cwd, file, calls, crashes, dirty>>

(* pc; the call; in a transaction; what is left of the path; ip or dp of   *)
(* namex(), w; the inode the call is about, c; the argument of iput(), x,  *)
(* and where iput() returns to, ret; what is left to write, n.             *)
Idle == [pc |-> "user", call |-> [op |-> "none"], tx |-> FALSE, rest |-> << >>,
         w |-> 0, c |-> 0, x |-> 0, ret |-> "end", n |-> 0]
NoFile == [ip |-> 0, off |-> 0, writable |-> FALSE]

Disk(f) == [inode |-> f.inode, dir |-> f.dir, map |-> f.map, blk |-> f.blk]

Boot(d) ==   \* nothing cached; every process starts in "/"
  [inode |-> d.inode, dir |-> d.dir, map |-> d.map, blk |-> d.blk, panic |-> "no",
   ic |-> [i \in Inum |-> IF i = ROOTINO THEN [NotCached EXCEPT !.ref = Cardinality(Proc)]
                          ELSE NotCached]]

Restart ==
  /\ st' = [p \in Proc |-> Idle]
  /\ cwd' = [p \in Proc |-> ROOTINO]
  /\ file' = [p \in Proc |-> NoFile]

GetRead(f, p, i) == IF i = 0 THEN f ELSE Iunlock(Ilock(Iget(f, i), i, p), i)

Init ==
  /\ \E start \in Starts :
       LET moved == {p \in Proc : start.cwd[p] # ROOTINO}
           opened == FoldSet(LAMBDA p, f : GetRead(f, p, start.open[p]), Boot(start.disk), Proc)
       IN /\ durable = start.disk
          /\ fs = FoldSet(LAMBDA p, f : Idrop(GetRead(f, p, start.cwd[p]), ROOTINO), opened, moved)
          /\ file = [p \in Proc |-> [ip |-> start.open[p], off |-> 0,
                                     writable |-> start.open[p] # 0]]
          /\ cwd = start.cwd
  /\ st = [p \in Proc |-> Idle]
  /\ calls = 0 /\ crashes = 0 /\ dirty = FALSE
-----------------------------------------------------------------------------
(* Process p goes on as s with file system g, unless it called panic(). *)
To(p, g, s) ==
  IF g.panic = "no" THEN fs' = g /\ st' = [st EXCEPT ![p] = s]
  ELSE fs' = [fs EXCEPT !.panic = g.panic] /\ UNCHANGED st

At(p, label) == st[p].pc = label /\ fs.panic = "no"
Same == UNCHANGED <<durable, calls, crashes>>
Still == Same /\ UNCHANGED <<cwd, file, dirty>>

(* iput() of the inode in one of the fields of s, then on to ret. *)
PutW(s, ret) == [s EXCEPT !.x = s.w, !.w = 0, !.pc = "put", !.ret = ret]
PutC(s, ret) == [s EXCEPT !.x = s.c, !.c = 0, !.pc = "put", !.ret = ret]

(* nameiparent() is wanted, and not namei(). *)
Parent(s) == s.call.op \in {"create", "unlink"} \/ (s.call.op = "link" /\ s.c # 0)

(* namex() returned 0. *)
Failed(s) == IF s.call.op = "link" /\ s.c # 0 THEN "bad" ELSE "end"

(* A path is a sequence of names and slashes.  skipelem() takes the first  *)
(* name and the slashes around it, when there is a name.                   *)
NoSlashes(path) ==
  LET named == {k \in DOMAIN path : path[k] # "/"}
  IN IF named = {} THEN << >> ELSE SubSeq(path, Min(named), Len(path))

skipelem(path) ==
  LET s == NoSlashes(path) IN [name |-> Head(s), rest |-> NoSlashes(Tail(s))]

Elem(s) == skipelem(s.rest).name

(* The loop of namex() with w the inode so far. *)
Loop(s) ==
  IF NoSlashes(s.rest) # << >> THEN [s EXCEPT !.pc = "walk"]
  ELSE IF Parent(s) THEN PutW(s, Failed(s))
  ELSE [s EXCEPT !.pc = "found", !.c = s.w, !.w = 0]

Start(p, path) == IF path # << >> /\ Head(path) = "/" THEN ROOTINO ELSE cwd[p]
Namex(p, s, path) == Loop([s EXCEPT !.rest = path, !.w = Start(p, path)])

(* begin_op() and the first iget() or idup() of namex(); close() takes the *)
(* descriptor away first.                                                  *)
Call(p) ==
  /\ At(p, "user") /\ calls < MaxCalls
  /\ calls' = calls + 1
  /\ \E c \in Calls :
       LET s == [Idle EXCEPT !.call = c, !.tx = TRUE]
       IN \/ /\ c.op \notin {"read", "stat", "write", "close"}
             /\ To(p, Iget(fs, Start(p, c.path)), Namex(p, s, c.path))
             /\ UNCHANGED file
          \/ /\ c.op = "close" /\ file[p] # NoFile
             /\ To(p, fs, PutC([s EXCEPT !.c = file[p].ip], "end"))
             /\ file' = [file EXCEPT ![p] = NoFile]
          \/ /\ c.op \in {"read", "stat"} /\ file[p] # NoFile
             /\ To(p, fs, [s EXCEPT !.pc = c.op, !.tx = FALSE])
             /\ UNCHANGED file
          \/ /\ c.op = "write" /\ file[p].writable
             /\ To(p, fs, [s EXCEPT !.pc = "begin", !.tx = FALSE, !.n = c.n])
             /\ UNCHANGED file
  /\ UNCHANGED <<durable, cwd, crashes, dirty>>

(* One round of namex(): ilock(), dirlookup(), iunlock(). *)
Walk(p) ==
  /\ At(p, "walk") /\ Unlocked(fs, st[p].w)
  /\ LET s == st[p]
         f == Ilock(fs, s.w, p)
         next == Dirlookup(f, s.w, Elem(s))
     IN IF f.panic # "no" THEN To(p, f, s)
        ELSE IF f.ic[s.w].ip.type # "dir" THEN To(p, Iunlock(f, s.w), PutW(s, Failed(s)))
        ELSE IF Parent(s) /\ skipelem(s.rest).rest = << >>
             THEN To(p, Iunlock(f, s.w), [s EXCEPT !.pc = "found"])
        ELSE IF next = 0 THEN To(p, Iunlock(f, s.w), PutW(s, Failed(s)))
        ELSE To(p, Iunlock(Iget(f, next), s.w),
                [PutW(s, "loop") EXCEPT !.w = next, !.rest = skipelem(@).rest])
  /\ Still
-----------------------------------------------------------------------------
(* iput(): the test and the last ref-- are under icache.lock. *)
Returned(s) ==
  LET t == [s EXCEPT !.x = 0, !.ret = "end"]
  IN CASE s.ret = "loop" -> Loop(t)
       [] s.ret = "putc" -> PutC(t, "end")
       [] OTHER -> [t EXCEPT !.pc = s.ret]

UnusedShared(f, i) == f.ic[i].valid /\ f.ic[i].ip.nlink = 0   \* whatever ip->ref is
Unused(f, i) == f.ic[i].ref = 1 /\ f.ic[i].valid /\ f.ic[i].ip.nlink = 0

Put(p) ==
  /\ At(p, "put") /\ ~Unused(fs, st[p].x)
  /\ To(p, Idrop(fs, st[p].x), Returned(st[p]))
  /\ Still

PutTest(p) ==
  /\ At(p, "put") /\ Unused(fs, st[p].x) /\ Unlocked(fs, st[p].x)
  /\ To(p, [fs EXCEPT !.ic[st[p].x].lock = p], [st[p] EXCEPT !.pc = "free"])
  /\ Still

PutFreeValid(p) ==   \* leaves ip->valid set
  /\ At(p, "free")
  /\ LET x == st[p].x
         f == Itrunc(fs, x)
     IN To(p, Iunlock(Iupdate([f EXCEPT !.ic[x].ip.type = "free"], x), x),
           [st[p] EXCEPT !.pc = "drop"])
  /\ Still

PutFree(p) ==
  /\ At(p, "free")
  /\ LET x == st[p].x
         f == Itrunc(fs, x)
         g == Iupdate([f EXCEPT !.ic[x].ip.type = "free"], x)
     IN To(p, Iunlock([g EXCEPT !.ic[x].valid = FALSE], x), [st[p] EXCEPT !.pc = "drop"])
  /\ Still

PutDrop(p) ==
  /\ At(p, "drop")
  /\ To(p, Idrop(fs, st[p].x), Returned(st[p]))
  /\ Still
-----------------------------------------------------------------------------
(* sys_open() from the type test on, the inode c being locked. *)
Opened(p, f, s) ==
  LET c == s.c
      type == f.ic[c].ip.type
      ok == type # "nodevice" /\ file[p] = NoFile
      g == IF ok /\ "trunc" \in s.call.omode /\ type = "file" THEN Itrunc(f, c) ELSE f
  IN /\ To(p, Iunlock(g, c), IF ok THEN [s EXCEPT !.pc = "end", !.c = 0] ELSE PutC(s, "end"))
     /\ file' = IF ok /\ g.panic = "no"
                THEN [file EXCEPT ![p] = [ip |-> c, off |-> 0,
                                          writable |-> "write" \in s.call.omode]]
                ELSE file

Open(p) ==
  /\ At(p, "found") /\ st[p].call.op = "open" /\ Unlocked(fs, st[p].c)
  /\ LET s == st[p]
         f == Ilock(fs, s.c, p)
     IN IF f.panic # "no" THEN To(p, f, s) /\ UNCHANGED file
        ELSE IF f.ic[s.c].ip.type = "dir" /\ s.call.omode # {}
             THEN To(p, Iunlock(f, s.c), PutC(s, "end")) /\ UNCHANGED file
        ELSE Opened(p, f, s)
  /\ Same /\ UNCHANGED <<cwd, dirty>>

(* create(): the parent w stays locked while there is a new inode c. *)
Create(p) ==
  /\ At(p, "found") /\ st[p].call.op = "create" /\ Unlocked(fs, st[p].w)
  /\ LET s == st[p]
         f == Ilock(fs, s.w, p)
         old == Dirlookup(f, s.w, Elem(s))
     IN IF f.panic # "no" THEN To(p, f, s)
        ELSE IF old # 0 THEN To(p, Iunlock(Iget(f, old), s.w), [PutW(s, "old") EXCEPT !.c = old])
        ELSE To(p, Ialloc(f, s.call.type), [s EXCEPT !.pc = "fresh", !.c = FreeInode(f)])
  /\ Still

CreateOld(p) ==
  /\ At(p, "old") /\ Unlocked(fs, st[p].c)
  /\ LET s == st[p]
         f == Ilock(fs, s.c, p)
     IN IF f.panic # "no" THEN To(p, f, s) /\ UNCHANGED file
        ELSE IF s.call.type = "file" /\ f.ic[s.c].ip.type # "dir" THEN Opened(p, f, s)
        ELSE To(p, Iunlock(f, s.c), PutC(s, "end")) /\ UNCHANGED file
  /\ Same /\ UNCHANGED <<cwd, dirty>>

Dots(f, c, dp) ==   \* dp->nlink++ for ".."; no link for "."
  LET g == Iupdate([f EXCEPT !.ic[dp].ip.nlink = @ + 1], dp)
  IN Dirlink(Dirlink(g, c, ".", c), c, "..", dp)

Fresh(p) ==
  /\ At(p, "fresh") /\ Unlocked(fs, st[p].c)
  /\ LET s == st[p]
         locked == Ilock(fs, s.c, p)
         f == Iupdate([locked EXCEPT !.ic[s.c].ip.nlink = 1], s.c)
         g == IF s.call.type = "dir" THEN Dots(f, s.c, s.w) ELSE f
         h == Dirlink(g, s.w, Elem(s), s.c)
     IN /\ To(p, Iunlock(h, s.w), PutW(s, "made"))
        /\ dirty' = (dirty \/ fs.ic[s.w].ip.nlink = 0)
  /\ Same /\ UNCHANGED <<cwd, file>>

(* Back from create() with c locked: open() goes on, mkdir() and mknod()   *)
(* put the inode.                                                          *)
Made(p) ==
  /\ At(p, "made")
  /\ IF st[p].call.type = "file" THEN Opened(p, fs, st[p])
     ELSE To(p, Iunlock(fs, st[p].c), PutC(st[p], "end")) /\ UNCHANGED file
  /\ Same /\ UNCHANGED <<cwd, dirty>>

(* p->cwd changes after end_op() in the code; no other process reads it. *)
Chdir(p) ==
  /\ At(p, "found") /\ st[p].call.op = "chdir" /\ Unlocked(fs, st[p].c)
  /\ LET s == st[p]
         f == Ilock(fs, s.c, p)
     IN IF f.panic # "no" THEN To(p, f, s) /\ UNCHANGED cwd
        ELSE IF f.ic[s.c].ip.type # "dir"
             THEN To(p, Iunlock(f, s.c), PutC(s, "end")) /\ UNCHANGED cwd
        ELSE /\ To(p, Iunlock(f, s.c), PutC([s EXCEPT !.c = cwd[p]], "end"))
             /\ cwd' = [cwd EXCEPT ![p] = s.c]
  /\ Same /\ UNCHANGED <<file, dirty>>
-----------------------------------------------------------------------------
(* sys_link(): count the new link first, then make the entry. *)
LinkOldLazy(p) ==   \* without iupdate()
  /\ At(p, "found") /\ st[p].call.op = "link" /\ st[p].w = 0 /\ Unlocked(fs, st[p].c)
  /\ LET s == st[p]
         f == Ilock(fs, s.c, p)
         g == [f EXCEPT !.ic[s.c].ip.nlink = @ + 1]
     IN IF f.panic # "no" THEN To(p, f, s)
        ELSE IF f.ic[s.c].ip.type = "dir" THEN To(p, Iunlock(f, s.c), PutC(s, "end"))
        ELSE To(p, Iget(Iunlock(g, s.c), Start(p, s.call.new)), Namex(p, s, s.call.new))
  /\ Still

LinkOld(p) ==
  /\ At(p, "found") /\ st[p].call.op = "link" /\ st[p].w = 0 /\ Unlocked(fs, st[p].c)
  /\ LET s == st[p]
         f == Ilock(fs, s.c, p)
         g == Iupdate([f EXCEPT !.ic[s.c].ip.nlink = @ + 1], s.c)
     IN IF f.panic # "no" THEN To(p, f, s)
        ELSE IF f.ic[s.c].ip.type = "dir" THEN To(p, Iunlock(f, s.c), PutC(s, "end"))
        ELSE To(p, Iget(Iunlock(g, s.c), Start(p, s.call.new)), Namex(p, s, s.call.new))
  /\ Still

Link(p) ==
  /\ At(p, "found") /\ st[p].call.op = "link" /\ st[p].w # 0 /\ Unlocked(fs, st[p].w)
  /\ LET s == st[p]
         f == Ilock(fs, s.w, p)
         old == Dirlookup(f, s.w, Elem(s))
     IN IF f.panic # "no" THEN To(p, f, s) /\ UNCHANGED dirty
        ELSE IF old # 0   \* dirlink() gets the other inode and puts it
             THEN /\ To(p, Idrop(Iget(Iunlock(f, s.w), old), old), PutW(s, "bad"))
                  /\ UNCHANGED dirty
        ELSE /\ To(p, Iunlock(Dirlink(f, s.w, Elem(s), s.c), s.w), PutW(s, "putc"))
             /\ dirty' = (dirty \/ f.ic[s.w].ip.nlink = 0)
  /\ Same /\ UNCHANGED <<cwd, file>>

LinkBadKeeps(p) ==   \* without iput()
  /\ At(p, "bad") /\ Unlocked(fs, st[p].c)
  /\ LET s == st[p]
         f == Ilock(fs, s.c, p)
     IN To(p, Iunlock(Iupdate([f EXCEPT !.ic[s.c].ip.nlink = @ - 1], s.c), s.c),
           [s EXCEPT !.pc = "end"])
  /\ Still

LinkBad(p) ==
  /\ At(p, "bad") /\ Unlocked(fs, st[p].c)
  /\ LET s == st[p]
         f == Ilock(fs, s.c, p)
     IN To(p, Iunlock(Iupdate([f EXCEPT !.ic[s.c].ip.nlink = @ - 1], s.c), s.c), PutC(s, "end"))
  /\ Still

(* sys_unlink(): the parent w is locked, then the inode c. *)
Unlink(p) ==
  /\ At(p, "found") /\ st[p].call.op = "unlink" /\ Unlocked(fs, st[p].w)
  /\ LET s == st[p]
         f == Ilock(fs, s.w, p)
         name == Elem(s)
         ip == Dirlookup(f, s.w, name)
     IN IF f.panic # "no" THEN To(p, f, s)
        ELSE IF name \in {".", ".."} \/ ip = 0 THEN To(p, Iunlock(f, s.w), PutW(s, "end"))
        ELSE To(p, Iget(f, ip), [s EXCEPT !.pc = "unlink", !.c = ip])
  /\ Still

UnlinkEntry(p) ==
  /\ At(p, "unlink") /\ Unlocked(fs, st[p].c)
  /\ LET s == st[p]
         f == Ilock(fs, s.c, p)
         isdir == f.ic[s.c].ip.type = "dir"
         g == DirWrite(f, s.w, Elem(s), 0)
         h == IF isdir THEN Iupdate([g EXCEPT !.ic[s.w].ip.nlink = @ - 1], s.w) ELSE g
     IN IF f.panic # "no" THEN To(p, f, s)
        ELSE IF f.ic[s.c].ip.nlink < 1 THEN To(p, [f EXCEPT !.panic = "bad"], s)
        ELSE IF isdir /\ ~Isdirempty(f, s.c) THEN To(p, Iunlock(f, s.c), PutC(s, "unlinkbad"))
        ELSE To(p, Iunlock(h, s.w), PutW(s, "unlinked"))
  /\ Still

UnlinkBad(p) ==
  /\ At(p, "unlinkbad")
  /\ To(p, Iunlock(fs, st[p].w), PutW(st[p], "end"))
  /\ Still

Unlinked(p) ==
  /\ At(p, "unlinked")
  /\ LET s == st[p]
     IN To(p, Iunlock(Iupdate([fs EXCEPT !.ic[s.c].ip.nlink = @ - 1], s.c), s.c), PutC(s, "end"))
  /\ Still
-----------------------------------------------------------------------------
(* filestat() *)
Stat(p) ==
  /\ At(p, "stat") /\ Unlocked(fs, file[p].ip)
  /\ To(p, Iunlock(Ilock(fs, file[p].ip, p), file[p].ip), Idle)
  /\ Still

(* fileread() and one transaction of filewrite(): k blocks can be copied   *)
(* from or to the user.                                                    *)
Read(p) ==
  /\ At(p, "read") /\ Unlocked(fs, file[p].ip)
  /\ \E k \in 0 .. MAXFILE :
       LET i == file[p].ip
           f == Ilock(fs, i, p)
           off == file[p].off
           n == st[p].call.n
       IN /\ To(p, Iunlock(Readi(f, i, off, n, k), i), Idle)
          /\ file' = [file EXCEPT ![p].off = ReadiEnd(f, i, off, n, k)]
  /\ Same /\ UNCHANGED <<cwd, dirty>>

Begin(p) ==
  /\ At(p, "begin")
  /\ To(p, fs, [st[p] EXCEPT !.pc = "write", !.tx = TRUE])
  /\ Still

(* writei() returns n1 also when it copied less: f->off advances by n1. *)
Write(p) ==
  /\ At(p, "write") /\ Unlocked(fs, file[p].ip)
  /\ \E k \in 0 .. MAXFILE :
       LET i == file[p].ip
           f == Ilock(fs, i, p)
           off == file[p].off
           n1 == Min({st[p].n, MaxWrite})
           s == [st[p] EXCEPT !.pc = "end"]
       IN IF WriteiOK(f, i, off, n1)
          THEN /\ To(p, Iunlock(Writei(f, i, off, n1, k), i), [s EXCEPT !.n = @ - n1])
               /\ file' = [file EXCEPT ![p].off = off + n1]
          ELSE To(p, Iunlock(f, i), [s EXCEPT !.n = 0]) /\ UNCHANGED file
  /\ Same /\ UNCHANGED <<cwd, dirty>>

(* end_op(): the last of the calls in progress commits. *)
EndEarly(p) ==   \* commits while another call is in progress
  /\ At(p, "end")
  /\ To(p, fs, IF st[p].n > 0 THEN [st[p] EXCEPT !.pc = "begin", !.tx = FALSE] ELSE Idle)
  /\ durable' = Disk(fs)
  /\ UNCHANGED <<cwd, file, calls, crashes, dirty>>

End(p) ==
  /\ At(p, "end")
  /\ To(p, fs, IF st[p].n > 0 THEN [st[p] EXCEPT !.pc = "begin", !.tx = FALSE] ELSE Idle)
  /\ durable' = IF \E q \in Proc \ {p} : st[q].tx THEN durable ELSE Disk(fs)
  /\ UNCHANGED <<cwd, file, calls, crashes, dirty>>

Crash ==
  /\ crashes < MaxCrash
  /\ crashes' = crashes + 1
  /\ fs' = Boot(durable)
  /\ Restart
  /\ UNCHANGED <<durable, calls, dirty>>

(* Nothing is left to do, or the kernel called panic(). *)
Halt ==
  /\ fs.panic # "no" \/ (calls = MaxCalls /\ \A p \in Proc : st[p] = Idle)
  /\ UNCHANGED vars

Step(p) ==
  \/ Call(p) \/ Walk(p) \/ Put(p) \/ PutTest(p) \/ PutFree(p) \/ PutDrop(p)
  \/ Open(p) \/ Create(p) \/ CreateOld(p) \/ Fresh(p) \/ Made(p) \/ Chdir(p)
  \/ LinkOld(p) \/ Link(p) \/ LinkBad(p)
  \/ Unlink(p) \/ UnlinkEntry(p) \/ UnlinkBad(p) \/ Unlinked(p)
  \/ Stat(p) \/ Read(p) \/ Begin(p) \/ Write(p) \/ End(p)

Next == (\E p \in Proc : Step(p)) \/ Crash \/ Halt

Spec == Init /\ [][Next]_vars
-----------------------------------------------------------------------------
Live(d, i) == d.inode[i].type # "free"
Dirs(d) == {i \in Inum : d.inode[i].type = "dir"}

(* The blocks of the inodes on disk d: each is marked in use and belongs   *)
(* to one inode, at one place; and no other block is marked.  So neither a *)
(* lost transaction nor an interleaving of balloc(), itrunc() and iput()   *)
(* leaks a block or shares one.                                            *)
BlocksExact ==
  LET d == durable
      direct == {x \in Inum \X (0 .. NDIRECT) : d.inode[x[1]].addrs[x[2]] # 0}
      indirect == {x \in {y \in direct : y[2] = NDIRECT} \X (0 .. NINDIRECT - 1) :
                     d.blk[d.inode[x[1][1]].addrs[NDIRECT]][x[2]] # 0}
  IN /\ d.map = UNION {Owned(d, d.inode[i]) : i \in Inum}
     /\ Cardinality(d.map) = Cardinality(direct) + Cardinality(indirect)

(* On disk, nlink counts the entries that name an inode, but for ".", and  *)
(* for ".." in the root and in removed directories; no entry names a free  *)
(* inode.  The root has one link more.  This holds until an entry is made  *)
(* in a directory that was removed, which create() and sys_link() allow.   *)
LinksExact ==
  LET d == durable
      entries ==
        {e \in Dirs(d) \X (DirName \ {"."}) :
           /\ d.dir[e[1]][e[2]] # 0
           /\ e[2] = ".." => e[1] # ROOTINO /\ d.inode[e[1]].nlink > 0}
  IN ~dirty => \A i \in Inum :
       LET links == Cardinality({e \in entries : d.dir[e[1]][e[2]] = i})
                    + (IF i = ROOTINO THEN 1 ELSE 0)
       IN d.inode[i].nlink = links /\ (links > 0 => Live(d, i))

(* ip->ref counts the pointers to the inode: current directories, open     *)
(* files, and the locals of calls in progress.  A count too high keeps a   *)
(* removed file for ever; one too low frees an inode in use.               *)
RefExact ==
  LET pointers == UNION {{<<p, "cwd", cwd[p]>>, <<p, "file", file[p].ip>>, <<p, "w", st[p].w>>,
                          <<p, "c", st[p].c>>, <<p, "x", st[p].x>>} : p \in Proc}
  IN \A i \in Inum :
       fs.ic[i].ref = Cardinality({x \in pointers : x[3] = i})

(* iupdate(): "Must be called after every change to an ip->xxx field that  *)
(* lives on disk, since i-node cache is write-through".                    *)
CacheCoherent ==
  \A i \in Inum : fs.ic[i].valid /\ Unlocked(fs, i) => fs.ic[i].ip = fs.inode[i]

(* iput(), holding icache.lock: "ip->ref == 1 means no other process can   *)
(* have ip locked, so this acquiresleep() won't block (or deadlock)".      *)
IputWontBlock ==
  \A p \in Proc : st[p].pc = "put" /\ Unused(fs, st[p].x) => Unlocked(fs, st[p].x)

(* log_write() panics outside a transaction: only a process in one changes *)
(* the disk.  fileread() is in none, so readi() never finds a block below  *)
(* the size of a file that bmap() has to allocate.                         *)
DiskChangesInTx ==
  [][Disk(fs') # Disk(fs) =>
       crashes' # crashes \/ \E p \in Proc : st[p].tx /\ st'[p] # st[p]]_vars

(* The kernel panics over a wrong value (a free inode locked, a free block *)
(* freed, nlink too low) only while a removed directory is in use: its     *)
(* ".." can name an inode that is gone.                                    *)
SoundUnlessRemoved ==
  fs.panic = "bad" =>
    dirty \/ \E i \in Inum : fs.ic[i].ref > 0 /\ fs.inode[i].type = "dir" /\ fs.inode[i].nlink = 0
=============================================================================
