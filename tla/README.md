# A TLA+ model of the xv6 kernel in this repository

This directory models the kernel under `src/kernel/`, and what the shell does
with it: what happens when several harts, the interrupt handlers, the disk and a
power failure interleave, and when memory, blocks, files or processes run out.
Each module is a translation of one source file (or of one protocol in it); TLC
checks it on small instances, and TLAPS proves the main results about the
write-ahead log, the buffer cache, the disk driver, the life of processes, sleep locks,
pipes and the console for every number of processes, cpus, blocks and buffers and
every size of the log and of the rings.

`PROJECT.json` is the index: components and their status, runs with their
properties, a mutant of the code for every property, the source lines of every
definition, findings, hazards, theorems.

To repeat the results, in this directory:

    tlc -workers 2 -config log_crash.cfg MCLog      # any run of PROJECT.json
    tlapm LogProofs.tla                             # any module named *Proofs

## The system

xv6 is a small Unix for RISC-V.  Harts (at most `NCPU`) execute kernel code in
parallel; spin locks (`spinlock.c`) turn interrupts off and protect short
critical sections; `sleep()`/`wakeup()` of `proc.c` block and release processes
on channels; sleep locks (`sleeplock.c`) are held across disk waits.  On top of
these are

| part | source | state | operations |
|---|---|---|---|
| processes | `proc.c`, `trap.c`, `sysproc.c` | table of `NPROC` slots (state, parent, killed, pid, chan), what each cpu runs | fork, exit, wait, kill, sleep, wakeup, yield, scheduler, timer interrupt |
| sleep locks | `sleeplock.c` | `locked`, `pid` | acquiresleep, releasesleep |
| buffer cache | `bio.c` | `NBUF` buffers on an LRU ring: block, valid, refcnt, lock | bget, bread, bwrite, brelse, bpin, bunpin |
| write-ahead log | `log.c` | header in memory and on disk, outstanding, committing | begin_op, log_write, end_op, commit, recovery |
| disk driver | `virtio_disk.c` | descriptors, avail and used rings, `info[]` | virtio_disk_rw, virtio_disk_intr |
| pipes | `pipe.c` | ring of `PIPESIZE` bytes, nread, nwrite, two open flags | read, write, close |
| console | `console.c`, `uart.c` | input ring with three indices, output ring, the port | read, write, interrupt, echo, printf |
| open files | `file.c`, `sysfile.c` | reference counts, descriptors | open, dup, close, fork, pipe |
| file system | `fs.c`, `sysfile.c`, `mkfs.c` | inodes (cache and disk), bitmap, directories | ialloc, iput, balloc, bmap, readi, writei, namex, and the calls on names |
| memory | `kalloc.c`, `vm.c`, `exec.c` | free list, page tables | kalloc, kfree, map, copy, grow, fork, exec, sbrk |
| shell | `sh.c`, with `cat.c`, `echo.c`, part of `grind.c` | the line, what each process has still to do | parse, fork, pipe, redirect, wait |

Interactions that the models keep: processes sleep and are woken while others
hold the resource; `kill()` reaches a process at any point; `exit()` hands
children to init and meets a parent in `wait()`; the log pins buffers the cache
would recycle; the driver's handler runs against the process that submits; the
console's writer, echo and printf meet at one port; file-system calls share a
transaction and hold several inodes at once; a page one process frees is what
another process's half-finished call needed; the shell's children inherit each
other's pipe ends.

What makes it hard: tests made under one lock and acted on under another
(`killed` before `sleep()`); lock order (parent before child in `exit()`);
a crash between any two disk writes and again during recovery; counters that
wrap; pools that run empty (buffers, descriptors, log blocks, the output ring,
pages, files, processes), with something to undo each time.

## Modules

| module | models | abstracts |
|---|---|---|
| `AtomicDisk` | what the log promises: a disk whose contents change by whole groups of calls | |
| `Log` | `log.c`, with the part of `bio.c` it depends on (cached, refcnt), crashes and recovery | block contents are values; a disk write is atomic, as the driver gives it |
| `Proc` | `proc.c`, entry and exit of `trap.c`, `sys_sleep`, `sys_wait`, `sys_yield` | user code; a failing allocation is a choice |
| `SleepLock` | `sleeplock.c` with the spin locks of `sleep()` and `wakeup()` explicit | |
| `Blocks`, `Bio` | what a cache promises; `bio.c` | the disk transfer, which is in `Virtio` |
| `Fifo`, `Pipe` | a bounded queue; `pipe.c`, last close in `file.c` | bytes are values |
| `Virtio` | `virtio_disk.c` and a device (external) that finishes requests in any order | |
| `Tty`, `Console` | a line editor; input in `console.c` | ordinary characters are a small set |
| `Uart` | `consolewrite`, `uart.c` and the port (external) | a character is its writer and its position |
| `Inode` | `fs.c` below the path names, as functions of the file system's state | a block is block addresses or data; a directory is a function from names to inodes |
| `Names` | `namex` and the system calls on names and open inodes, in transactions | a path is names and slashes; the log is what `AtomicDisk` promises |
| `Mkfs` | `mkfs.c`, the image it writes | the meta blocks |
| `Memory` | `kalloc.c`, `vm.c`, and fork, exec and sbrk as far as they allocate | contents of user pages; a program is its segments |
| `Files` | `file.c`, descriptors and pipe ends, as functions of the tables | bytes in a pipe are counted |
| `Shell` | `sh.c` and the processes it starts, on `Files` | a line is tokens; a program is a list of calls |

`MC*` modules give constants and symmetry to TLC where a cfg cannot.  The proofs about
a module are in the module with its name and `Proofs`.

Granularity.  A critical section of one spin lock that meets no other lock is
one step.  Where the code takes a second lock, sleeps, touches a device or reads
something unlocked, the step ends.  `SleepLock` and `Proc` hold `p->lock`
explicitly, because lost wakeups are about exactly that; in the other modules
`sleep()` is the step from "tested under the lock" to "asleep", with `kill()`
possible in between.  A failing copy to or from user memory is a choice at every
byte.  `Names` ends a step where a call waits for an inode or gives up a
reference, `Memory` at every `kalloc()`, `Shell` at every system call and between
the two halves of `fileclose()`.

Operators whose name says what they get wrong (`WriteUnlocked`, `StopEager`, ...)
are mutations of the definition after them: each has one property that no longer
holds when it takes the definition's place.

### State and actions

* `Log`: `lh`, `outstanding`, `committing` are the fields of `log`;
  `disk`, `logblk`, `dhead` what is on disk, `cache` and `ref` the buffers.
  `BeginOp`/`BeginSleep` are `begin_op()`, `LogWrite` `log_write()`, `EndOp`
  `end_op()`, then one action per disk write of `commit()`: `WriteLog`,
  `WriteHead`, `Install`, `Erase`, `CommitDone`.  `Crash` drops everything in
  memory; recovery repeats the install.
* `Proc`: a program counter per process names the points between lock
  operations of `fork`, `exit`, `wait`, `sleep`; the scheduler, the timer and
  `kill()` interleave with all of them.
* `Bio`: `bget`'s two searches under `bcache.lock`, then the wait for the
  buffer's lock; `brelse` moves the buffer to the front.
* `Pipe`, `Console`: one step per byte, since the lock is kept and only
  `sleep()` and `kill()` come in between.
* `Virtio`: descriptor allocation, the store that publishes a request, the
  notification, completion by the device, the handler's loop and its
  acknowledgement are separate steps.
* `Uart`: the test of LSR and the write of THR are separate steps, because
  `uartputc_sync()` takes no lock.
* `Names`: `fs` is the state that `Inode` works on: the disk as the log has it,
  and the inode cache.  `st[p]` holds the locals of the call: the directory `w`
  that `namex()` has reached, the inode `c` the call is about, the argument `x` of
  `iput()`, and where it returns to.  `Call` is `begin_op()` and the first
  `iget()`; `Walk` one round of `namex()`; `Put`, `PutTest`, `PutFree`, `PutDrop`
  are `iput()`; then one or more actions per system call.  `End` is `end_op()`:
  `durable` becomes the disk when no other call is in a transaction, and `Crash`
  goes back to it.  `Log` is what justifies this.
* `Memory`: `m` is the free list and all page tables, `pr` the table of processes,
  `st[p]` the locals of a call.  `Frame`, `Root`, `Top`, `GetPage`, `MapPage` are
  the allocations that fork, exec and sbrk share; `Fail` is the common end of every
  error path.
* `Shell`: `st[p].todo` is what a process still has to call; `RunCmd` replaces a
  command by the calls that `runcmd()` makes for it.  `parsecmd` and the functions
  below it are the recursive-descent parser, from tokens to a tree.

## Runs

Deadlock is checked except where the system may stop (every process has exited,
closed its descriptors or written what it had to).

| run | bounds | shows |
|---|---|---|
| `log_crash` | 2 processes, 2 blocks with 2 values, 2 crashes | `Atomicity`: the log implements `AtomicDisk`; `WriteAhead`; `QuiescentIsDurable`; every sleeper in `begin_op()` wakes |
| `log_space` | 3 processes, 6 blocks, all recyclable, log of 6 | reservation suffices below `MAXOPBLOCKS` (`LogFits`), logged buffers stay (`LoggedIsPinned`) |
| `proc_life` | 3 slots, 3 cpus, 2 killable sleepers, 2 kinds of failing fork | zombies are off their cpus, no exit is lost in `wait()`, lock order, unlocked reads of `parent`, bounded recursion of `wait()` |
| `sleeplock` | 5 processes | mutual exclusion, no lost wakeup, every sleeper wakes |
| `bio_cache` | 2 processes, 4 blocks, 3 buffers | implements `Blocks` |
| `rings` | pipe: 3 processes, one of them killable, calls of 3 bytes on 2 bytes of room, counters modulo 4; console: one letter, newline and end of file, ring of 3, indices modulo 6, 2 readers; port: 2 writers, ring of 3, one character typed | the pipe implements `Fifo`, is freed after its last use, and nobody sleeps on it without cause; console input implements `Tty` and a full ring can be read; what is written leaves complete, in order and unmixed |
| `virtio_ring` | 3 processes, 8 descriptors, indices modulo 16 | descriptors are conserved, a buffer is the device's until done, data arrives |
| `virtio_lost` | 2 requests at once | violated: a completion between the loop and the acknowledgement is lost |
| `uart_full` | 2 writers, ring of 3, writes of up to 4 | violated: `uartputc()` panics where it should block |
| `fs_names` | 2 processes, 3 calls in all, 1 crash, 5 inodes, 6 blocks, files of 2 blocks and an indirect one | on the disk of the last commit, blocks and links are exact; reference counts are exact; the cache agrees with the disk; `iput()` does not wait under `icache.lock`; only transactions change the disk; nothing but a removed directory in use leads to a panic |
| `memory` | 3 processes, 4 calls, 8 to 20 pages, three-level tables of 3 entries | every page has one owner, tables match `p->sz`, no panic, a failing call changes nothing for its caller |
| `shell` | 6 processes, 6 files, 2 pipes, one line out of 21 | files and pipe ends are counted exactly, programs inherit no stray end, the parser gives back what was typed, every process ends |

The three rings of `rings` share no state; each behaviour moves one of them
(`MCRings`), so the run is three explorations in one.

Why the bounds are enough.  Two values tell old contents from new.  Rings have
the least size at which full, empty and wrapped differ, and index moduli are
small multiples of the ring, so every alignment occurs.  Three processes give a
holder, a waiter and a third who comes between; three slots give init, a parent
and its child, all of them in `exit()`, `wait()` or `reparent()` at once, but no
parent other than init with two children.  Two crashes put one in recovery from
the other.  The log, the descriptors and the output ring run out within the
bounds; the buffers do not (`NBUF` exceeds the pin and the two holders), so the
panic of `bget()` is not reached.

In `fs_names` two processes with three calls are two racing calls and one before
or after them; the disks it starts from (one with a file and a directory, one with
a directory inside a directory and a process in it, and the one `mkfs` makes)
stand for the calls that would build them.  The blocks of the disk do run out; the
inode cache, here as large as the inode table, does not.
In `memory` the sizes are chosen so that the allocation that fails is the
first, one in the middle, or none, of a fork or exec after others have succeeded;
tables have three levels as in the code, and addresses cross from one last-level
table to the next.  In `shell` the tables are just large enough for the longest
pipeline, so every call that can fail does, in some line.  Every disjunct of every next-state relation
is taken.

### Fairness

A process inside the kernel with interrupts off keeps running, and the scheduler
is round-robin, so the steps of processes are weakly fair; so are the device and
the delivery of a pending interrupt (`Virtio`) and recovery (`Log`).  Strong
fairness appears twice: for the sleep lock's release, which competes for a spin
lock with no queue, and for `end_op()`, which every file-system call reaches after
finitely many writes however they are interleaved.  Both are calls of kernel code.
`Shell` assumes weak fairness of each process as a whole, its programs included:
they are `cat`, `echo` and `grind`, whose code is known; input from the console is
taken to end.

## Findings

1. `virtio_disk.c:244`: late acknowledgement loses a completion (`virtio_lost`).
2. `uart.c:96`: `uartputc()` sleeps with `cons.lock` held (`uart_full`).

The models also have these, without a run of their own:

* `proc.c:396`: `wait()` returns without `freeproc()`: a zombie stays in the table
  and is reported again by the next `wait()`.  In `Shell` the list of six commands
  runs out of processes for that reason, and the shell's `wait()` may come back
  before its command has ended, as soon as there is an old zombie.
* `fs.c:576`: the ".." of a directory that was removed while in use still names its
  parent, which can be gone too: `ilock()` then panics ("ilock: no type").
  `SoundUnlessRemoved` is stated around it.
* `sysfile.c:233`, `sysfile.c:120`: `create()` and `link()` make entries in a
  directory that was removed; they are lost with it, and the inodes keep their
  links.  `LinksExact` holds until then (`dirty`).
* `fs.c:306`: a file that is unlinked while open is freed by the last `iput()`; after
  a crash nobody does it, and its blocks stay in use.
* `fs.c:446`: `writei()` returns `n` also after a short copy, so `f->off` can be
  beyond the size of the file.
* `proc.c:221`: `growproc()` computes the size in 32 bits; a positive `n` that wraps
  makes `sbrk()` succeed and do nothing.
* `mkfs.c:163` rounds the root's size up by a block also when it is a whole number
  of blocks; `Mkfs` assumes a root of less than a block.
* `log.c:196`: the header takes one block of the log, so calls that write
  `MAXOPBLOCKS` blocks (`param.h:9` calls it the maximum) can panic; in `Log`,
  `OpBlocks = MAXOPBLOCKS`.  The test is made before `log.lock` is taken, so two such
  calls can also both pass it, and the list then exceeds the area.  No call of this
  kernel writes that many.
* `log.c:73`: recovery unpins buffers nobody pinned and wraps their counts; in
  `Log`, `MaxCrash > 0` with `Recycle` not empty breaks `LoggedIsPinned`.
* `proc.c:590`: `kill()` looks at pids only, so `kill(0)`, or the pid a failed
  `allocproc()` left behind, marks a free slot and the next process forked
  there starts killed.
* `pipe.c:97`, `console.c:93`: the test of `killed` and the `sleep()` are not
  atomic; a killed process sleeps until the other end moves.
* `pipe.c:75`: a killed writer that finds the pipe full returns without the
  `wakeup(&pi->nread)` of the other exits; a reader may sleep on a full pipe until
  somebody writes or closes.  `SleepWithCause` is stated around it.

## Proofs

Eight modules have proofs, each for all constants that satisfy the module's
assumption (`LogAssumption`, `ProcAssumption`, `SleepLockAssumption`, `BioAssumption`,
`PipeAssumption`, `VirtioAssumption`, `ConsoleAssumption`, `UartAssumption`).  The
assumptions give numbers their types, keep names apart, and say that a ring divides
the modulus of its indices, as 2^32 or 2^16 and the sizes in the code do.  The last two
are hypotheses of the theorems instead of `ASSUME`s, because `MCRings` has `Console` and
`Uart` as instances; it assumes both for its own constants.  The bounds of the runs
(`MaxPid`, `MaxCrash`, `MaxTyped`, ...) are constants of the theorems too, so the
results hold for every choice of them.

Each module has an invariant `IInv`, one lemma per action that preserves it, and the
theorems that follow from it.

### The log (`LogProofs`)

* `TypeCorrect`: `Spec => []TypeOK`.
* `Refinement`: `Spec => Atomicity`, the log implements `AtomicDisk`: durable contents
  change in one step (the header's write), by whole calls; a crash, even in
  recovery, is invisible to the durable contents.
* `Durability`, `WriteAheadRule`, `Pinning`: the properties `QuiescentIsDurable`,
  `WriteAhead` and `LoggedIsPinned`.
* `LogFitsItsArea`: the list in memory fits the log on disk (`LogFits`).

None of the properties is inductive alone: that the header's write commits exactly
what the calls wrote needs that each log block holds the cached contents of the block
its slot names, that slots name different blocks, that while somebody commits nobody
has a call open, and, after a crash, that the blocks already installed agree with the
log.  `DiskInv` states these by phase of the commit.  `SpaceInv` is a count: a call
that `begin_op()` admits holds `MAXOPBLOCKS` tickets and gives one up for each new
block, and the list and the tickets together are at most `LOGSIZE`.

The theorems assume what recovery's `bunpin()` makes necessary: `RecoverySafe`,
that buffers are not recycled in a system that crashes.  `Pinning` is about runs
without a crash.  `LogFitsItsArea` assumes `OpBlocks < MAXOPBLOCKS` and
`LOGSIZE <= nlog`: the header takes a block of the area, so somebody must leave a ticket
unused.  The code does: `filewrite()` (`file.c:131`) passes at most three blocks at a
time, which can touch four, and with one bitmap block, an inode and an indirect block a
call writes seven of its ten.

### Processes (`ProcProofs`)

`ZombiesAreOffCpu`, `ParentsAreStable`, `NoExitIsMissed`, `LocksDoNotDeadlock` and
`WaitRecursionIsBounded` are `ZombieOffCpu`, `ParentStable`, `NoMissedExit`, `NoDeadlock`
and `WaitDepth` of `Proc`, for any size of the table and any set of cpus.  The invariant
has who holds which lock at each point of `exit()` and `wait()` (`LocksHeld`), that the
parent which `exit()` copied and locked is its parent still unless init is
(`ParentKnown`), that a cpu runs a zombie only while that zombie holds its own lock
(`CpuRuns`), and that the scan of `wait()` has passed no zombie child (`NonePassed`).  The
last is the heart of it: a child needs its parent's lock to become a zombie, and the
parent holds that lock from the start of the scan to its sleep.  The step that needs
most is `ExitFinish`: the exiting process has either locked the parent, which then is
not scanning and is woken if it sleeps, or has been given to init in the meantime.

`NoDeadlock` speaks of sets of processes that wait for each other.  The proof takes the
youngest of such a set: whoever holds a lock of the table and spins for another one
waits for a process below it in the family tree (`Holders`), and a child has a greater
pid than its parent (`PidOrder`; pids do not wrap below `MaxPid`).

`WaitDepth` bounds the recursion of `wait()`, which calls itself after every `sleep()`.
A process that was woken there finds a zombie it has not passed, or was killed, so it
returns (`WillReturn`); init may also be woken by `exit()` of a process that is not its
child, once for each (`Limit` counts them, `DepthInv`).

### Sleep locks (`SleepLockProofs`)

For any number of processes, `Exclusion` is `Spec => []Mutex` and `WakeupsArrive` is
`Spec => []NoLostWakeup`.  `NoLostWakeup` speaks of processes that sleep; it is inductive
only together with the processes on their way to sleep, which have released `lk->lk` and
still hold their own `p->lock` (`NobodyPassed`): while the lock is free, a `wakeup()` is
running that has not passed them.  That rests on who holds `lk->lk` (`SpinHeld`), on the
test of `lk->locked` that stays true until `sleep()` (`Tested`), and on `OwnLock`, which
keeps `wakeup()` from passing such a process before its state is SLEEPING.

### The buffer cache (`BioProofs`)

`CacheIsInvisible` is `Spec => Implements`: `Bio` implements `Blocks`, for any number of
processes, blocks, buffers and pins.  `CacheInvariant` states what it rests on.  The
pointers stay a ring through all buffers, whichever of them `brelse()` moves (`Ring`: the
nodes can be numbered along `next`, and `prev` is its inverse).  So the first loop of
`bget()` finds a block that is cached, and no block gets two buffers (`Once`).  A
reference count is the number of the buffer's users and one for the log (`Counted`), so
the second loop takes a buffer that nobody uses; and a buffer that was read and is not
pinned is as on disk (`Clean`), so dropping it loses nothing.  The two loops are one
recursive function, `Scan`; the proof follows it by the numbers of the nodes.

### Pipes (`PipeProofs`)

`RingIsFifo` is `Spec => InOrder`, the pipe implements `Fifo`; `SleepsWithCause` and
`FreedIsUnused` are `SleepWithCause` and `FreedUnused`.  The counters are at most a ring
apart, modulo `UINT` (`InRing`).  `SleepWithCause` speaks of moments when `pi->lock` is
free; `Caused` adds what holds inside the critical sections: a sleeper whose condition
is gone has a process in a loop that ends with its `wakeup()`, and the test that sends
a process to sleep is true until it sleeps.  `Ends` relates the open flags to the
descriptors and to the calls of `pipeclose()` under way.

### The disk driver (`VirtioProofs`)

`DescriptorsConserved`, `BufferIsTheDevices` and `TransfersAreDone` are `DescOwned`,
`DeviceOwns` and `TransferDone`, for any number of descriptors (at least three) and any
width of the indices.  A request is in exactly one of three places, the part of `avail[]`
that the device has not seen, the device, and the part of `used->elems[]` that the driver
has not seen, exactly while `b->disk` is set (`Rings`, `Tracked`).  A chain is three
different descriptors (`Chains`, `Owned`), so fewer than `NUM` requests are out and no ring
overflows; and buffer and disk agree once the device is done (`Settled`).

### The console (`ConsoleProofs`, `UartProofs`)

`RingIsNeverWedged` and `RingIsLineEditor` are `NeverWedged` and `LineEditor` of
`Console`, for any number of readers: the three wrapping indices of `cons` implement the
editor `Tty`.  `InRing` says that `w` is between `r` and `e`, that these are at most a
ring apart, that a full ring has been handed to the readers, and that the line being
typed holds no newline, which is where kill-line stops.

`WritesLeaveUnmixed` is `Unmixed` of `Uart`, for any number of writers: what the calls
of `consolewrite()` have passed on is in the output, the port, the hands of
`uartstart()` or the ring, completely, once, in order and unmixed.  `Held` has the two
locks; `Sound` is `Unmixed` and one more fact, that a write which has another one's
characters behind its own is over.

### Only model-checked

Liveness under fairness, everywhere.  The properties of `Names`, `Inode`, `Mkfs`,
`Memory`, `Files` and `Shell`: their operations are folds over blocks, levels of a page
table or tokens (in `Shell`, recursive operators), and what a fold computes would have
to be proved by induction over the data.

## Not modelled

`PROJECT.json` lists every part with its status.

* `copyin`, `copyout`, `copyinstr` change no page table; everywhere they are a copy
  that succeeds or fails.  The kernel's own page table is built once.
* `exec()` does not overflow: its test of `vaddr + memsz` is about 64-bit sums, and
  what it pushes on the stack is a choice between fitting and not.
* `gettoken()` and `nulterminate()` of the shell, and `skipelem()`'s cut of names to
  `DIRSIZ`, work on characters; the models start from tokens.
* The counts of `push_off()` and `pop_off()`, and the memory model: a spin lock is
  exclusive and interrupts are off while one is held.
* `umalloc.c`, `printf.c`, `string.c`, `ulib.c`: sequential code without shared state.
* Start-up and the interrupt controller (register settings, one flag), the assembly
  (straight-line), `ramdisk.c` (not linked).
* The other user programs, one or two system calls each; and the tests, which were
  read for what they expect: the models make their calls in every order instead.

Proofs that would come next: the reference counts of `Names` and the page ownership of
`Memory`, with the folds replaced by facts about each step of the walk.
