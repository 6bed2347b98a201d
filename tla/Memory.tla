------------------------------- MODULE Memory -------------------------------
(***************************************************************************)
(* Physical pages and user page tables: kalloc.c, vm.c, and the parts of   *)
(* proc.c, exec.c, sysproc.c and sysfile.c that allocate and free them in  *)
(* fork(), exec() and sbrk().  Processes interleave at every kalloc(), so  *)
(* that memory runs out at any point of any of them.                       *)
(*                                                                         *)
(* The memory is m: m.all, its pages; m.free, the pages on kmem.freelist   *)
(* (their order plays no part); m.tab[pg], page pg read as a page table;   *)
(* m.bad, whether a function called panic(), or freed a page twice.  A     *)
(* kfree() only lets another kalloc() succeed: what one call frees, it     *)
(* frees in one step.                                                      *)
(***************************************************************************)
EXTENDS Integers, FiniteSets, SequencesExt

CONSTANTS
  Proc,         \* the entries of proc[], numbered from 1
  Sizes,        \* how many pages of physical memory there may be
  PGSIZE,
  LEVELS,       \* levels of a page table: 3 in the code
  FANOUT,       \* entries of a page table: 512 in the code
  UINT,         \* 2^32 in the code: growproc() keeps sizes in a uint
  Incs,         \* arguments of sbrk()
  Programs,     \* arguments of exec(): see ExecCall
  MaxCalls      \* bound: system calls made

Page == 1 .. Max(Sizes)
Idx == 0 .. FANOUT - 1
MAXVA == PGSIZE * FANOUT ^ LEVELS
TRAMPOLINE == MAXVA - PGSIZE
TRAPFRAME == TRAMPOLINE - PGSIZE

ASSUME MemoryAssumption ==
  /\ {PGSIZE, LEVELS, FANOUT, MaxCalls} \subseteq Nat \ {0}
  /\ Proc = 1 .. Cardinality(Proc)
  /\ Max(Sizes) * PGSIZE <= TRAPFRAME     \* no process can reach TRAPFRAME
  /\ UINT > MAXVA

VARIABLES m,        \* the memory
          pr,       \* proc[]: used, sz, pagetable pt and trapframe tf
          st,       \* where each process is in its system call: see Idle
          calls

vars == <<m, pr, st, calls>>

PGROUNDUP(sz) == ((sz + PGSIZE - 1) \div PGSIZE) * PGSIZE
PX(level, va) == (va \div (PGSIZE * FANOUT ^ level)) % FANOUT

(* perm: "none" without PTE_V, "table" with PTE_V only, "user" with PTE_U, *)
(* "guard" after uvmclear(), "kernel" for the two pages at the top.        *)
Pte(pa, perm) == [pa |-> pa, perm |-> perm]
NoPte == Pte(0, "none")
Valid(e) == e.perm # "none"
Leaf(e) == e.perm \notin {"none", "table"}
Zeroed == [k \in Idx |-> NoPte]
Junk == [k \in Idx |-> Pte(0, "user")]
-----------------------------------------------------------------------------
(* kalloc.c *)
kinit(n) == [all |-> 1 .. n, free |-> 1 .. n, tab |-> [pg \in Page |-> Junk], bad |-> FALSE]
Kfree(mm, pg) == [mm EXCEPT !.free = @ \cup {pg}, !.tab[pg] = Junk,
                            !.bad = @ \/ pg \in mm.free]
First(mm) == CHOOSE pg \in mm.free : TRUE
Kalloc(mm) == [mm EXCEPT !.free = @ \ {First(mm)}]
KfreeAll(mm, S) == FoldSet(LAMBDA pg, n : Kfree(n, pg), mm, S)
-----------------------------------------------------------------------------
(* vm.c: walk() gives the last-level table for va, or ok is FALSE. *)
Down(w, level, va, alloc) ==
  LET e == w.mm.tab[w.pt][PX(level, va)]
      new == First(w.mm)
  IN IF ~w.ok THEN w
     ELSE IF Valid(e) THEN [w EXCEPT !.pt = e.pa]
     ELSE IF ~alloc \/ w.mm.free = {} THEN [w EXCEPT !.ok = FALSE]
     ELSE [ok |-> TRUE, pt |-> new,
           mm |-> [Kalloc(w.mm) EXCEPT !.tab[w.pt][PX(level, va)] = Pte(new, "table"),
                                       !.tab[new] = Zeroed]]

walk(mm, pt, va, alloc) ==
  FoldLeft(LAMBDA w, level : Down(w, level, va, alloc),
           [ok |-> TRUE, pt |-> pt, mm |-> mm], [k \in 1 .. LEVELS - 1 |-> LEVELS - k])

Lookup(mm, pt, va) ==
  LET w == walk(mm, pt, va, FALSE)
  IN IF w.ok THEN mm.tab[w.pt][PX(0, va)] ELSE NoPte

(* mappages() of one page. *)
mappages(mm, pt, va, pte) ==
  LET w == walk(mm, pt, va, TRUE)
  IN IF ~w.ok THEN w
     ELSE [w EXCEPT !.mm.tab[w.pt][PX(0, va)] = pte,
                    !.mm.bad = @ \/ Valid(w.mm.tab[w.pt][PX(0, va)])]

UnmapPage(mm, pt, va, dofree) ==
  LET w == walk(mm, pt, va, FALSE)
      e == mm.tab[w.pt][PX(0, va)]
      n == IF dofree THEN Kfree(mm, e.pa) ELSE mm
  IN IF ~w.ok \/ ~Leaf(e) THEN [mm EXCEPT !.bad = TRUE]
     ELSE [n EXCEPT !.tab[w.pt][PX(0, va)] = NoPte]

uvmunmap(mm, pt, va, npages, dofree) ==
  FoldLeft(LAMBDA n, k : UnmapPage(n, pt, va + k * PGSIZE, dofree),
           mm, [k \in 1 .. npages |-> k - 1])

uvmdeallocDown(mm, pt, oldsz, newsz) ==   \* rounds the new size down
  LET top == (newsz \div PGSIZE) * PGSIZE
  IN uvmunmap(mm, pt, top, (PGROUNDUP(oldsz) - top) \div PGSIZE, TRUE)

uvmdealloc(mm, pt, oldsz, newsz) ==
  IF PGROUNDUP(newsz) >= PGROUNDUP(oldsz) THEN mm
  ELSE uvmunmap(mm, pt, PGROUNDUP(newsz),
                (PGROUNDUP(oldsz) - PGROUNDUP(newsz)) \div PGSIZE, TRUE)

Entries(mm, S) == {mm.tab[pg][k] : pg \in S, k \in Idx}
Tables(mm, pt) ==
  FoldLeft(LAMBDA S, k : S \cup {e.pa : e \in {x \in Entries(mm, S) : x.perm = "table"}},
           {pt}, [k \in 1 .. LEVELS - 1 |-> k])

freewalk(mm, pt) ==
  LET T == Tables(mm, pt)
      leaf == \E e \in Entries(mm, T) : Leaf(e)
  IN KfreeAll([mm EXCEPT !.bad = @ \/ leaf], T)

uvmfree(mm, pt, sz) == freewalk(uvmunmap(mm, pt, 0, PGROUNDUP(sz) \div PGSIZE, TRUE), pt)

proc_freepagetable(mm, pt, sz) ==
  uvmfree(uvmunmap(uvmunmap(mm, pt, TRAMPOLINE, 1, FALSE), pt, TRAPFRAME, 1, FALSE), pt, sz)
-----------------------------------------------------------------------------
(* pc; the call; its result; the new process np; the table pt that is      *)
(* built or changed, the trapframe tf to map in it, and its size sz; the   *)
(* loop of uvmalloc() and uvmcopy(), from base to to at a, with the page   *)
(* mem not yet mapped; the program and the argument pages of exec(); the   *)
(* image of the process when it made the call.                             *)
Idle == [pc |-> "user", op |-> "none", ret |-> 0, np |-> 0, pt |-> 0, tf |-> 0, sz |-> 0,
         base |-> 0, a |-> 0, to |-> 0, mem |-> 0, prog |-> [args |-> 0], argv |-> {},
         img |-> {}]

(* What a table maps: pairs of an address and an entry. *)
Image(mm, pt) ==
  {<<va, Lookup(mm, pt, va)>> : va \in {k * PGSIZE : k \in 0 .. FANOUT ^ LEVELS - 1}}

Mapped(mm, pt) == {i \in Image(mm, pt) : Valid(i[2])}

UserPte(pg) == Pte(pg, "user")

uvminit(mm, pt) == mappages(Kalloc(mm), pt, 0, UserPte(First(mm))).mm

Unused == [used |-> FALSE, lock |-> FALSE, sz |-> 0, pt |-> 0, tf |-> 0]

(* After userinit(): a trapframe, a table with the two top pages, and one  *)
(* user page.                                                              *)
Init ==
  \E n \in Sizes :
  LET m0 == kinit(n)
      tf == First(m0)
      m1 == Kalloc(m0)
      pt == First(m1)
      m2 == [Kalloc(m1) EXCEPT !.tab[pt] = Zeroed]
      m3 == mappages(m2, pt, TRAMPOLINE, Pte(0, "kernel")).mm
      m4 == mappages(m3, pt, TRAPFRAME, Pte(tf, "kernel")).mm
  IN /\ m = uvminit(m4, pt)
     /\ pr = [p \in Proc |-> IF p = 1 THEN [Unused EXCEPT !.used = TRUE, !.sz = PGSIZE,
                                                          !.pt = pt, !.tf = tf]
                             ELSE Unused]
     /\ st = [p \in Proc |-> Idle]
     /\ calls = 0

At(p, label) == ~m.bad /\ st[p].pc = label
To(p, mm, s) == m' = mm /\ st' = [st EXCEPT ![p] = s]
Return(p, mm, r) == To(p, mm, [Idle EXCEPT !.ret = r])
Same == UNCHANGED <<pr, calls>>

(* Give back all that the call of p has allocated, and return -1. *)
Built(mm, s) == IF s.op = "sbrk" \/ s.pt = 0 THEN mm ELSE proc_freepagetable(mm, s.pt, s.sz)
OwnPages(s) == s.argv \cup (IF s.op = "fork" THEN {s.tf} \ {0} ELSE {})

Fail(p, mm, s) ==
  /\ Return(p, KfreeAll(Built(mm, s), OwnPages(s)), -1)
  /\ pr' = IF s.np = 0 THEN pr ELSE [pr EXCEPT ![s.np] = Unused]
  /\ UNCHANGED calls

(* The system calls. *)
Enter(p, op, label) ==
  [Idle EXCEPT !.op = op, !.pc = label, !.img = Mapped(m, pr[p].pt)]

Call(p) ==
  /\ At(p, "user") /\ pr[p].used /\ ~pr[p].lock /\ calls < MaxCalls
  /\ calls' = calls + 1

(* growproc(): sz + n in 32 bits; a smaller sum than sz frees pages, when  *)
(* n < 0, and does nothing when n > 0.                                     *)
Sbrk(p) ==
  /\ Call(p)
  /\ \E n \in Incs :
       LET sz == pr[p].sz
           to == (sz + n) % UINT
       IN IF n > 0 /\ to >= sz
          THEN /\ To(p, m, [Enter(p, "sbrk", "page") EXCEPT
                     !.pt = pr[p].pt, !.base = PGROUNDUP(sz), !.a = PGROUNDUP(sz), !.to = to])
               /\ UNCHANGED pr
          ELSE /\ Return(p, IF n < 0 /\ to < sz THEN uvmdealloc(m, pr[p].pt, sz, to) ELSE m, 0)
               /\ pr' = [pr EXCEPT ![p].sz = IF n < 0 /\ to < sz THEN to ELSE sz]

(* fork(): allocproc() takes the first free entry and keeps its lock. *)
Fork(p) ==
  /\ Call(p)
  /\ LET free == {q \in Proc : ~pr[q].used}
         np == Min(free)
     IN IF free = {} THEN Return(p, m, -1) /\ UNCHANGED pr
        ELSE /\ \A q \in 1 .. np : ~pr[q].lock
             /\ To(p, m, [Enter(p, "fork", "frame") EXCEPT !.np = np])
             /\ pr' = [pr EXCEPT ![np].lock = TRUE]

Frame(p) ==
  /\ At(p, "frame")
  /\ IF m.free = {} THEN Fail(p, m, st[p])
     ELSE To(p, Kalloc(m), [st[p] EXCEPT !.tf = First(m), !.pc = "root"]) /\ Same

(* sys_exec(): a page for each argument, then exec().  A program is a      *)
(* sequence of segments, and elf says whether its header is good.          *)
ExecCall(p) ==
  /\ Call(p)
  /\ \E prog \in Programs :
       To(p, m, [Enter(p, "exec", "argv") EXCEPT !.prog = prog, !.tf = pr[p].tf])
  /\ UNCHANGED pr

Argv(p) ==
  /\ At(p, "argv")
  /\ LET s == st[p]
     IN IF Cardinality(s.argv) < s.prog.args
        THEN IF m.free = {} THEN Fail(p, m, s)
             ELSE To(p, Kalloc(m), [s EXCEPT !.argv = @ \cup {First(m)}]) /\ Same
        ELSE To(p, m, [s EXCEPT !.pc = "header"]) /\ Same

(* exec() looks the file up and reads its header. *)
Header(p) ==
  /\ At(p, "header")
  /\ IF st[p].prog.elf THEN To(p, m, [st[p] EXCEPT !.pc = "root"]) /\ Same
     ELSE Fail(p, m, st[p])

(* proc_pagetable() *)
Root(p) ==
  /\ At(p, "root")
  /\ IF m.free = {} THEN Fail(p, m, st[p])
     ELSE /\ To(p, [Kalloc(m) EXCEPT !.tab[First(m)] = Zeroed],
                [st[p] EXCEPT !.pt = First(m), !.pc = "top"])
          /\ Same

Top(p) ==
  /\ At(p, "top")
  /\ LET s == st[p]
         w == mappages(m, s.pt, TRAMPOLINE, Pte(0, "kernel"))
         x == mappages(w.mm, s.pt, TRAPFRAME, Pte(s.tf, "kernel"))
     IN IF ~w.ok THEN Fail(p, freewalk(w.mm, s.pt), [s EXCEPT !.pt = 0])
        ELSE IF ~x.ok
             THEN Fail(p, freewalk(uvmunmap(x.mm, s.pt, TRAMPOLINE, 1, FALSE), s.pt),
                       [s EXCEPT !.pt = 0])
        ELSE /\ To(p, x.mm, IF s.op = "fork" THEN [s EXCEPT !.pc = "page", !.to = pr[p].sz]
                            ELSE [s EXCEPT !.pc = "next"])
             /\ Same
-----------------------------------------------------------------------------
(* The loops of uvmalloc() and uvmcopy(). *)
UndoLeaves(mm, s) ==   \* off by one: the last page stays mapped
  uvmunmap(mm, s.pt, s.base, ((s.a - s.base) \div PGSIZE) - 1, TRUE)

Undo(mm, s) == uvmunmap(mm, s.pt, s.base, (s.a - s.base) \div PGSIZE, TRUE)

GetPage(p) ==
  /\ At(p, "page") /\ st[p].a < st[p].to
  /\ LET s == st[p]
     IN IF m.free = {} THEN Fail(p, Undo(m, s), s)
        ELSE /\ To(p, Kalloc([m EXCEPT !.bad = s.op = "fork" /\ ~Valid(Lookup(m, pr[p].pt, s.a))]),
                   [s EXCEPT !.mem = First(m), !.pc = "map"])
             /\ Same

(* fork() copies the flags of the page, exec() and sbrk() make it a user's. *)
Flags(p, s) ==
  IF s.op = "fork" THEN [Lookup(m, pr[p].pt, s.a) EXCEPT !.pa = s.mem] ELSE UserPte(s.mem)

MapPageKeeps(p) ==   \* does not free mem when there is no page for a table
  /\ At(p, "map")
  /\ LET s == st[p]
         w == mappages(m, s.pt, s.a, Flags(p, s))
     IN IF w.ok THEN To(p, w.mm, [s EXCEPT !.mem = 0, !.a = @ + PGSIZE, !.pc = "page"]) /\ Same
        ELSE Fail(p, Undo(w.mm, s), s)

MapPage(p) ==
  /\ At(p, "map")
  /\ LET s == st[p]
         w == mappages(m, s.pt, s.a, Flags(p, s))
     IN IF w.ok THEN To(p, w.mm, [s EXCEPT !.mem = 0, !.a = @ + PGSIZE, !.pc = "page"]) /\ Same
        ELSE Fail(p, Undo(Kfree(w.mm, s.mem), s), s)

LoopDone(p, op) == At(p, "page") /\ st[p].op = op /\ st[p].a >= st[p].to

SbrkDone(p) ==
  /\ LoopDone(p, "sbrk")
  /\ Return(p, m, 0)
  /\ pr' = [pr EXCEPT ![p].sz = st[p].to]
  /\ UNCHANGED calls

ForkDone(p) ==
  /\ LoopDone(p, "fork")
  /\ Return(p, m, 0)
  /\ pr' = [pr EXCEPT ![st[p].np] = [used |-> TRUE, lock |-> FALSE, sz |-> pr[p].sz,
                                     pt |-> st[p].pt, tf |-> st[p].tf]]
  /\ UNCHANGED calls

(* exec(): grow the new table for the next segment, or for the stack.      *)
(* uvmalloc() of a smaller size than sz changes nothing.                   *)
Grow(s, to) ==
  [s EXCEPT !.base = PGROUNDUP(s.sz), !.a = PGROUNDUP(s.sz), !.to = Max({to, s.sz}),
            !.pc = "page"]

Segment(p) ==
  /\ At(p, "next") /\ st[p].prog.segs # << >>
  /\ LET s == st[p]
         ph == Head(s.prog.segs)
     IN IF ph.memsz < ph.filesz THEN Fail(p, m, s)
        ELSE To(p, m, Grow(s, ph.vaddr + ph.memsz)) /\ Same

(* loadseg() reads the file, or fails. *)
SegmentDone(p) ==
  /\ LoopDone(p, "exec") /\ st[p].prog.segs # << >>
  /\ LET s == [st[p] EXCEPT !.sz = st[p].to]
         ph == Head(s.prog.segs)
         pages == {va \in ph.vaddr .. ph.vaddr + ph.filesz - 1 : (va - ph.vaddr) % PGSIZE = 0}
         good == \A va \in pages : Lookup(m, s.pt, va).perm = "user"
     IN IF s.sz = 0 \/ ph.vaddr % PGSIZE # 0 THEN Fail(p, m, s)
        ELSE IF ~good THEN To(p, [m EXCEPT !.bad = TRUE], s) /\ Same
        ELSE \/ To(p, m, [s EXCEPT !.pc = "next", !.prog.segs = Tail(@)]) /\ Same
             \/ ph.filesz > 0 /\ Fail(p, m, s)

Stack(p) ==
  /\ At(p, "next") /\ st[p].prog.segs = << >>
  /\ LET sz == PGROUNDUP(st[p].sz)
     IN To(p, m, Grow([st[p] EXCEPT !.sz = sz], sz + 2 * PGSIZE))
  /\ Same

uvmclear(mm, pt, va) ==
  LET w == walk(mm, pt, va, FALSE)
  IN [mm EXCEPT !.tab[w.pt][PX(0, va)].perm = "guard"]

(* The arguments fit on the stack, and the new image replaces the old one; *)
(* or they do not.                                                         *)
StackDoneNewSz(p) ==   \* frees the old table with the new size
  /\ LoopDone(p, "exec") /\ st[p].prog.segs = << >>
  /\ LET s == [st[p] EXCEPT !.sz = st[p].to]
         mm == uvmclear(m, s.pt, s.sz - 2 * PGSIZE)
     IN \/ /\ Return(p, KfreeAll(proc_freepagetable(mm, pr[p].pt, s.sz), s.argv), 0)
           /\ pr' = [pr EXCEPT ![p].pt = s.pt, ![p].sz = s.sz]
           /\ UNCHANGED calls
        \/ Fail(p, mm, s)

StackDone(p) ==
  /\ LoopDone(p, "exec") /\ st[p].prog.segs = << >>
  /\ LET s == [st[p] EXCEPT !.sz = st[p].to]
         mm == uvmclear(m, s.pt, s.sz - 2 * PGSIZE)
     IN \/ /\ Return(p, KfreeAll(proc_freepagetable(mm, pr[p].pt, pr[p].sz), s.argv), 0)
           /\ pr' = [pr EXCEPT ![p].pt = s.pt, ![p].sz = s.sz]
           /\ UNCHANGED calls
        \/ Fail(p, mm, s)

Halt ==
  /\ m.bad \/ (calls = MaxCalls /\ \A p \in Proc : st[p].pc = "user")
  /\ UNCHANGED vars

Step(p) ==
  \/ Sbrk(p) \/ Fork(p) \/ ExecCall(p) \/ Frame(p) \/ Argv(p) \/ Header(p) \/ Root(p)
  \/ Top(p) \/ GetPage(p) \/ MapPage(p) \/ SbrkDone(p) \/ ForkDone(p)
  \/ Segment(p) \/ SegmentDone(p) \/ Stack(p) \/ StackDone(p)

Next == (\E p \in Proc : Step(p)) \/ Halt

Spec == Init /\ [][Next]_vars
-----------------------------------------------------------------------------
(* The page tables there are, in use or being built. *)
Roots == ({pr[p].pt : p \in Proc} \cup {st[p].pt : p \in Proc}) \ {0}

(* Every page has one owner: the free list, a process whose trapframe it   *)
(* is, a page table that holds it as a table or as a user page, or a call  *)
(* that has just allocated it.  So no page is leaked, freed while in use,  *)
(* or shared by two processes, whichever allocation of whichever call      *)
(* fails.                                                                  *)
PagesOwnedOnce ==
  LET live == UNION {Tables(m, r) : r \in Roots}
      owners(pg) ==
        Cardinality({pg} \cap m.free) + Cardinality({pg} \cap Roots)
        + Cardinality({p \in Proc : pr[p].tf = pg})
        + Cardinality({p \in Proc : st[p].op = "fork" /\ st[p].tf = pg})
        + Cardinality({p \in Proc : st[p].mem = pg \/ pg \in st[p].argv})
        + Cardinality({x \in live \X Idx :
                         m.tab[x[1]][x[2]].pa = pg /\ m.tab[x[1]][x[2]].perm # "kernel"})
  IN \A pg \in m.all : owners(pg) = 1

(* A process that is not inside sbrk() has mapped its p->sz bytes, rounded *)
(* up to pages, the trampoline, its own trapframe and nothing else: what   *)
(* uvmcopy(), uvmunmap() and freewalk() rely on when they panic over a     *)
(* page that is missing, or one that is left.                              *)
ImageExact ==
  \A p \in Proc : pr[p].used /\ st[p].op # "sbrk" =>
    LET image == Mapped(m, pr[p].pt)
        user == {va \in 0 .. pr[p].sz - 1 : va % PGSIZE = 0}
    IN /\ {i[1] : i \in image} = user \cup {TRAPFRAME, TRAMPOLINE}
       /\ <<TRAPFRAME, Pte(pr[p].tf, "kernel")>> \in image

(* No call panics ("remap", "uvmunmap: not mapped", "freewalk: leaf",      *)
(* "uvmcopy: page not present", "loadseg: address should exist"), and      *)
(* none frees a free page.                                                 *)
NoPanic == ~m.bad

(* A call that returns -1 leaves the memory of its caller as it was.       *)
FailureUndone ==
  [][\A p \in Proc : st[p].pc # "user" /\ st'[p] = [Idle EXCEPT !.ret = -1] =>
       Mapped(m', pr'[p].pt) = st[p].img /\ pr'[p] = pr[p]]_vars
=============================================================================
