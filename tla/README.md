# Xinu, verified: the process manager and what is built on it

The repository is Embedded Xinu for two ARM boards (BeagleBone Black,
`arm-bbb`, and the QEMU board, `arm-qemu`) together with what a course added to
it: futures, a segregated allocator (`xmalloc`), a key-value store with an LRU
cache and an in-memory file system. This directory holds TLA+ models of that
code, TLC configurations that check them on small instances, and proofs checked
by TLAPS.

## 1. The system and its parts

| part | source | state | operations |
|---|---|---|---|
| process manager | `system/{resched,ready,create,kill,suspend,resume,chprio,yield,exit,userret,xdone}.c` | `proctab`, `currpid`, `prcount`, `readylist`, `Defer`, `preempt` | create, resume, suspend, kill/exit, chprio, yield, resched |
| semaphores | `system/{wait,signal,signaln,semcreate,semdelete,semreset}.c` | `semtab` and one queue per entry | wait, signal, signaln, semcreate, semdelete, semreset |
| messages | `system/{send,receive,recvtime,recvclr}.c` | one slot per process | send, receive, timed receive, clear |
| clock and sleep | `system/{sleep,wakeup,unsleep,insertd}.c`, `system/platform/*/clkhandler.c` | `sleepq`, a delta list | sleepms, clock tick, wakeup |
| queues | `system/{queue,getitem,insert,insertd,newqueue}.c` | `queuetab`: one node per process | enqueue, dequeue, insert by key, insert in a delta list |
| ports | `system/pt*.c` | `porttab`, a shared list of message nodes | ptcreate, ptsend, ptrecv, ptreset, ptdelete |
| futures | `system/future.c` | state, mode, value, two queues of pids | future_alloc, future_get, future_set, future_free |
| heap and stacks | `system/{getmem,freemem,getstk}.c` | the address-ordered free list | getmem, freemem, getstk, freestk |
| buffer pools, xmalloc | `system/{mkbufpool,getbuf,freebuf,xmalloc}.c` | `buftab`, allocation statistics | mkbufpool, getbuf, freebuf, xmalloc, xfree |
| key-value store | `system/kv_store.c` | two hash tables, an LRU list, counters | kv_set, kv_get, kv_delete, kv_reset |
| in-memory file system | `system/{fs,bs}.c` | superblock, free mask, open file table, blocks | fs_create, fs_open, fs_read, fs_write, fs_seek, fs_close |
| tty driver | `device/tty` | three circular buffers, two semaphores, modes | getc, putc, read, write, control, both halves of the interrupt handler |
| local file system | `device/lfs` | directory, index blocks, free lists, one block per open file in memory | open, getc, putc, read, seek, truncate, size, close |
| remote files | `device/rfs` on `net/udp.c` | `rfltab`, a mutex, a sequence number, the UDP endpoint | open, read, write, seek, close, control; an exchange with retries |
| uart, loopback, remote disk | `device/{uart,uart-pl011,loopback,rds}` | buffers, a request queue, a cache | read, write, a communication process |
| network | `net/` | ARP cache, UDP table, packet queues | arp, udp, icmp, dhcp, dns, tftp |
| the rest | `shell/`, `lib/`, `device/{nam,ram,eth}`, `config/`, `compile/` | | see section 8 |

### How the parts interact

Xinu runs on one processor. A system call disables interrupts, works on global
tables and ends with `restore(mask)`. The processor changes hands in one place,
the `ctxsw` at the end of `resched()`, which any call reaches that blocks the
caller or releases somebody (`ready` ends with `resched`). So a system call is
atomic except that it may be split at every call that reaches `resched`: in
`kill` at the message to the parent, in `receive` and `recvtime` at the point
where they block, in `future_set` at each `resume`, in `_ptclear` at each
`semreset`. The process that is dispatched continues in the middle of *its*
system call, with interrupts still disabled. The clock and the device handlers
run between two instructions of application code, on the stack of the current
process, and may themselves reach `resched`. Loops that release several
processes are bracketed by `resched_cntl(DEFER_START/DEFER_STOP)`.

Everything above the process manager is built from these calls: ports, buffer
pools and drivers from semaphores, futures from suspend and resume, UDP from
messages with a timeout, remote files from UDP and a semaphore, the key-value
store from `xmalloc`, that from buffer pools, and those from the heap.

### What is hard about it

* the points in the middle of a system call where another process may run, and
  what it then finds (`kill`, `_ptclear`, `future_set`);
* bookkeeping that is kept twice: state field and queue, semaphore count and
  queue length, a delta and the sum of the deltas before it, `prcount` and the
  process table;
* operations on a process that is in the middle of something: killed while
  asleep, waiting or ready, sent a message while its timeout runs, suspended
  after it was woken;
* a deferred reschedule that must not be forgotten, and who gets the processor
  among equals;
* packets that come late, twice or never, timers that expire just before they
  come, and messages of other processes in the same slot;
* what is cached: an index block and a data block per open file, an inode per
  descriptor, a value per key;
* boundaries: table indices that wrap, delays of 0 and of 2^31 milliseconds,
  full and empty buffers, blocks that are split and joined, the end of a block.

`PROJECT.json` lists these as hazards, each at its line, with the property that
would catch it. A hazard that the code does fall to has a note instead (section 5).

### What makes each part correct

* process manager: the state of a process and the queues agree; the best ready
  process runs; equals take turns; the machine halts when, and only when, the
  last process is gone;
* semaphores: a negative count is the number of waiters; deleting or resetting
  releases all of them before anybody else runs;
* messages: a receiver that runs has a message, or its time is over;
* sleep: nobody wakes early, nobody is forgotten, whatever happens to the others
  on the delta list;
* ports: capacity, order, and no process of an earlier incarnation touches a new
  one; futures: each value is delivered as the mode promises, nobody waits for
  ever; heap: free blocks are disjoint and coalesced, no word is granted twice;
  pools: the semaphore counts what can be handed out;
  key-value store: a map, with the recency order as the order of eviction; file
  systems: reads return what was written, every block is somebody's or free;
  drivers: no character is lost, repeated or reordered, and output does not wait
  for ever; remote files: an answer belongs to its question, every call returns.

## 2. The modules

| module | models | kind |
|---|---|---|
| `XinuQueue` | the queue operations, on sequences with keys | operators |
| `XinuKernel` | process manager, semaphores, messages, sleep, clock | state machine and properties |
| `XinuFutures` | `future_get` and `future_set`, on `XinuKernel` | composed state machine |
| `XinuPorts` | the port calls, on `XinuKernel` | composed state machine |
| `PortSpec` | what a port promises: a bounded queue | abstract specification |
| `KVStore` | the key-value store, pointer by pointer | state machine and properties |
| `KVSpec` | what the store promises: a map with an LRU cache | abstract specification |
| `FreeList` | getmem, getstk, freemem, freestk on the list of free blocks | state machine and properties |
| `HeapSpec` | what the memory manager promises: a set of free words | abstract specification |
| `XinuPools` | buffer pools and `xmalloc`, on `XinuKernel` | composed state machine |
| `RamFS` | the file system of `fs.c` | state machine and properties |
| `LocalFS` | the file system of `device/lfs`, block by block | state machine and properties |
| `FileSpec` | what a file system promises: files are sequences of bytes | abstract specification |
| `XinuTty` | the tty driver with its interrupt handler and the UART | state machine and properties |
| `RemoteFiles` | remote files, the UDP endpoint, an unreliable network and a server | state machine and properties |
| `MC...` | workloads, data and symmetry for TLC | models |
| `XinuKernelProofs` | the queue operations, the invariant of the kernel, scheduling, messages and the delta list, and what users of semaphores may rely on | theorems |
| `XinuPortsProofs` | the invariant of the ports, and that they implement `PortSpec` | theorems |
| `XinuServicesProofs` | the invariants of the futures and of the pools, on that of the kernel | theorems |
| `FreeListProofs` | the invariant of the heap, and that it implements `HeapSpec` | theorems |
| `KVStoreProofs` | the invariant of the key-value store, and that it implements `KVSpec` | theorems |
| `RamFSProofs` | the invariant of the file system of `fs.c` | theorems |
| `XinuTtyProofs` | the invariant of the tty driver | theorems |
| `RemoteFilesProofs` | the invariant of the exchange of remote files | theorems |

### `XinuKernel` and the code

The variables are the kernel's globals under their own names: `currpid`,
`prcount`, the fields of `proctab` (`prstate`, `prprio`, `prsem`, `prparent`,
`prhasmsg`), of `semtab` (`sstate`, `scount`, `squeue`) and of `Defer`
(`ndefers`, `attempt`), `readylist`, `sleepq`, `preempt`, and the statics of
`newpid` and `newsem`. `qkey[p]` is `queuetab[p].qkey`.

`cont[p]` stands for the saved context of process `p`: `"user"` is application
code, anything else names the kernel routine it will continue in when it is
dispatched, with its local variables in `karg` and `kcount`. While
`cont[currpid] # "user"` interrupts are disabled and continuing is the only step
possible. `remain` is a history variable: the ticks that are left of the delay a
process asked for. It is read by properties only.

Each action is one system call, or the part of one between two places where the
processor may change hands. `Kill` is `kill` up to and including the `send`,
`KillEnd` is the rest; `SignalN`, `SignalNLoop`, `SignalNEnd` are `signaln`, and
so on. `resched` is an operator (`ReschedWith`), used in every action that
reaches it, with the process states, the ready list and the keys as the caller
has left them; so a call that blocks and the switch that follows are one step, as
in the code. A call that returns `SYSERR` without changing anything is no step.

Left out, because no property can tell: the contents of messages and names, the
stacks and registers, the descriptors, `clktime`. Calls on arguments that the
checks at the top of each routine reject are no steps. Device handlers are
represented by `signal` and `signaln` being possible whenever interrupts are
enabled, the null process running included.

Abstractions of data: 32-bit integers are `IntBits` wide where the width matters
(`AsInt32`, the conversion in `sleepms`); a semaphore count stays below
`MaxCount`, a bound in the guards of `signal` and `signaln`.

### Futures and ports on top of the kernel

`XinuFutures` and `XinuPorts` extend `XinuKernel`. Their own variables are the
fields of `future_t` and of `porttab`; `fpc[p]` and `ppc[p]` say where in
`future.c` or `pt*.c` process `p` continues when it is dispatched, with its local
variables in `pending` and `plocal`. An action is what the code does up to and
including the next call that may reach `resched`, and that call *is* the action
of `XinuKernel` (`Suspend`, `Resume`, `Wait`, `Signal`, `SemReset`, `SemDelete`).
So the places where another process may run are those of the code and no others:
`SetSharedLoop` is one turn of the loop in `future_set`, because each `resume`
may switch; `PtClear`, `PtClearSenders`, `PtClearReceivers` and `PtClearEnd` are
`_ptclear`, which may be left after each semaphore. `ptcreate` is two actions
only because it makes two calls; nothing can run between them. `ptcount` changes
nothing and is an operator, `PtCount`.

What `ptrecv` would read through the `pthead` of an empty port, and what
`fdequeue` reads through the head of an empty queue, is unknown: the model sets
`broken` or `fault` and stops. So does `ptsend` at its `panic`. `received`,
`stored`, `got` and `nextval` are history variables. The `dispose` function that
`ptreset` and `ptdelete` are given is taken to touch no kernel state.

`XinuPorts!Implements` maps a port to `PortSpec`: its capacity, or closed, the
messages in its nodes from `pthead` to `pttail`, and the message received last. A
port that is being reset maps to an open, empty one, a port that is being deleted
to a closed one.

### The key-value store

`KVStore` has the two hash tables as functions of the key (`kv` and `prev`) and
the LRU list pointer by pointer (`next`, `ekey`, `eval`, `tailLRU`), with the
dummy head as entry 0. `MovLRUCache`, `GetLRUCache`, `SetLRUCache` and
`DelLRUCache` are functions from the list to the list, in the order of the
assignments in the code; the actions are the calls of the interface. A NULL
pointer that is followed, and a value that is freed twice, set `fault`, at which
the model stops. `KvSetNoMemory` is `kv_set` when `xmalloc` has no buffer.
`kv_reset` walks the list one step at a time. `Implements` maps the keys from the
head to `tailLRU` to the recency order of `KVSpec`.

### The heap

`FreeList` counts in words and takes sums modulo `SPACE`, as the code does in
`uint32`. The list is the sequence of blocks that a walk along `mnext` meets;
`freemem` is translated piece by piece (`Passed` is the walk, `Overlaps` the test
of line 43, `Linked` and `Joined` the two coalescing steps). `FreememStale` frees
any region that is *not* held, which the code must refuse if it overlaps a free
block; a region that overlaps memory in use is the caller's fault and is not
enumerated. `HeapSpec` knows a set of free words only, and the refinement mapping
is the set of words in the blocks of the list.

### Buffer pools and xmalloc

`XinuPools` extends `XinuKernel`. `getbuf` and `freebuf` run with interrupts
disabled and may block or switch in `wait` and `signal`; `xmalloc` and `xfree` run
with interrupts enabled, so that even the load and the store of
`allocBy[poolid] += size` are two steps. Two updates of one counter that overlap
make it `Unknown`, and so does a kill in the middle of one. `lost` counts the
buffers promised to processes that were killed before they took them.

### The two file systems

`RamFS`: nothing in `fs.c` locks or disables interrupts, so a process can lose the
processor anywhere in a call. `fs_write` is therefore a sequence of steps, one for
each access to what the descriptors share: every look at the bitmap (`Look`), the load
and the store of `freemask[mbyte] |= ...` (`Load`, `Mark`), every block written
(`Bwrite`), with `Full` and `Return` as its ends. Two searches may find the same block,
and a store may take back the bit another process has set in the same byte;
`doubtful` is the history of the blocks to which that happened. Assumed of the
applications, and nowhere in the code: one process at a time uses a descriptor
(`Unused`), and one at a time opens or creates files, since `fs_open` and `fs_create`
share `next_open_fd`, `inodes_used`, the directory and `block_cache` without
protection. Under these the other calls touch what is their descriptor's only and
are one step each. `fs_write` is written as the code has it: the blocks it visits,
how much of each, and where in the caller's buffer; bytes behind the end of that
buffer are `Junk`. `Supported` says for which pointers and lengths this arithmetic
is what a caller expects; `written` is what such a caller wrote.

`LocalFS`: the device switch calls every operation with interrupts disabled and
the RAM disk does not block, so an operation is one step. The helpers
(`Lfiballoc`, `Lfdballoc`, `Lfdbfree`, `Lfflush`, `Lfsetup`, ...) are functions
from a record of directory, dirty flag and disk to such a record, in the order of
the code's assignments and writes. `panic("out of ... blocks")` stops the model,
which is why its configuration does not check for deadlock. `Implements` maps it
to `FileSpec`, whose disk is full only when the files take all of its blocks. An
`lfsopen` that fails is no step, although it may load the directory
(`lfsopen.c:84`).

### The tty driver

`XinuTty` has the buffers as arrays with the code's own pointers and the
semaphores as a count and a queue. Processes are in the driver with interrupts
disabled (`cpu`); a process that was released runs some time later, which is what
the code's computations from `semcount` do not expect. `typed` and `written` are
histories: what the buffers should hold. The driver can leave its buffers in
several ways (section 5); the model records which and stops, and
`TroubleExplained` says that there are no others. `ttyread` asks for the input mode
once and the model at every character, and an end of file after the first character
ends a read in the model only: reads end elsewhere, but each character's step is the
code's.

### Remote files

`RemoteFiles` has `rfscomm` step by step and `udp_recv` in two steps, before and
after it blocks in `recvtime`. Whatever was sent stays in `requests` and `replies`
and may arrive at any time, any number of times, or never. `Expire` is the timer,
`Message` a message of another process. Such a message may be the number 1, which is
`OK`: an application may send it, `kill` does for child 1, and `arp_in` does
(`arp.c:217`) to a process whose wait in `arp_resolve` a foreign message has ended.
`udp_recv` takes it for the word of `udp_in`; if the queue is empty it takes what is
not there, and the model ends (`"wild"`, `Stopped`). `struck` is the history of who got
such messages since it sent last. The server is external: it executes what
arrives, and may refuse. `window` is the history of the server's files since the
exchange began, against which `ReplyCurrent` holds an answer. The functions of
`rfscontrol` other than `RFS_CTL_TRUNC` have the same exchange; `RFS_CTL_SIZE` takes
its name from the control block and does not look at `rf_status`. Left out are a
failing `udp_register` (`rfscomm.c:26`; the endpoint is registered and a file open from
the start), names that are empty or too long, which make a call return `SYSERR` at
once, and the kill of a process inside a call, which would keep the mutex.

## 3. The runs

| run | checks | shows |
|---|---|---|
| `kernel_sem` | `QueueState`, `SemCount`, `NoWaiterOnFree` | queues, states and counts agree through every interleaving of wait, signal, signaln, semreset, semdelete, kill and create |
| `kernel_delay` | `DelayKept`, `NoEarlyWake`, `MessagePresent` | on `arm-bbb` the delta list keeps everybody's time through early departures (messages, suspensions, kills); `receive` may rely on finding a message when it continues |
| `kernel_live` | `NoStarvation`, `SleepersWake`, `CurrentIsHighest` | progress under a fair clock on `arm-qemu`; no release of a process forgets to reschedule |
| `future_modes` | `WaitersFindable`, `NoGarbage`, `ExclusiveOnce`, `AllResumed` | whoever waits for a future can be found; an exclusive future delivers each value once; setting a shared one releases all |
| `port_reset` | `Implements`, `NoEmptyReceive`, `NodesPartitioned`, `BlockedForReason`, `CountExact` | a port is a bounded FIFO through resets, deletions and a kill anywhere, no node is lost, nobody blocks without need |
| `kv_cache` | `Implements`, `PrevPointers` | the store is a map and the cache orders its keys by use; the index of predecessors follows every move |
| `heap_blocks` | `Implements`, `Separated`, `Partitioned` | the free list stays sorted and joined, no word is granted twice or lost, and a request is refused only if it must be |
| `pool_use` | `PoolCount`, `BuffersPartitioned`, `AccountsExact`, `ClosestIsSmallest` | no buffer is handed out twice or from an empty list, whoever is killed where; the accounts are exact when no updates overlap |
| `ram_files` | `BlocksOwned`, `ReadsBack` | with two processes in `fs_write`, no block serves two descriptors except those that overlapping searches found or overlapping stores unmarked; a descriptor without such blocks reads back what supported calls wrote through it |
| `local_files` | `Implements`, `BlocksPartitioned`, `DiskCurrent` | reads return what was written through seeks, truncations and a full disk; no block is lost or shared; the closed file system is on disk |
| `tty_lines` | `InputExact`, `OutputExact`, `TroubleExplained`, `OutputArmed` | buffers, pointers and semaphores agree in all modes; output is never left waiting for an interrupt that does not come, but for the known case |
| `remote_files` | `ReplyCurrent`, `ErrorExplained`, `PacketAnnounced`, `CallsReturn` | no stale reply is taken for an answer; a call fails for a reason only; who is told of a packet finds one, unless a foreign message struck the wait; every call returns, unless one has taken a packet that was not there |

All of them pass: where the code does not do what one would expect (section 5)
the properties say what it does do, and section 5 says what is excepted.

What the runs leave out, and why: `kernel_sem` has no `receive`, so that the message of
`kill.c:28` never releases a parent there: that split is covered by the theorems
(section 4). `kernel_live` excludes `kill` of another process
(a second kill is counted twice) and a delay of 0 (on `arm-qemu` a process that
polls with `recvtime(0)` stays first on the sleep queue and stops the time of the
others; on `arm-bbb` it never wakes, so `kernel_delay` excludes it too).
`CurrentIsHighest` is checked without `chprio`, which changes a priority without
rescheduling. `BlockedForReason` and `CountExact` except ports on which a released
process was killed since the last reset: the place, or the message, that it was
promised stays promised. They also except ports that `ptcreate` made although
`semcreate` had failed (section 5), which have no semaphores to count with. Progress is not checked on `arm-bbb`.

Bounds.

* Kernel: `NPROC` is 4 in `kernel_delay`, `kernel_live` and `port_reset` (the null
  process, `main` and two more: one to act on another that a third is acting on),
  5 in `future_modes`, and 3 in `kernel_sem` and `pool_use`, where the theorems or
  the kills in every place make up for it. Two priorities where equals, superiors
  and inferiors all matter. `QUANTUM = 2` where slices matter (a slice of one tick
  could not tell the counter from its reset). Delays of 1 and 2 ticks with up to
  three sleepers, so that ties and insertions in front and behind occur.
* `future_modes`: `MaxSets = 2`, the second set meets what the first has left.
* `port_reset`: two nodes, ports of one and of three places (so that the port, or
  the list of nodes, is full first), two lives of a port, one kill.
* `kv_cache`: a cache of three, so that an entry is moved from the front, the middle
  and the end; four keys, so that a full cache evicts; two values.
* `heap_blocks`: six memory blocks; requests of zero, of one block, of one and a
  half and of half the heap, so that exact fits, splits and holes that are too
  small all occur.
* `pool_use`: three pools, two buffers in the smallest, three processes that also
  exit.
* `ram_files`: files of up to three bytes in blocks of two and three data blocks on
  disk, so that it fills up in the middle of a write; two processes and two
  descriptors, so that every step of one write meets every step of another; all the
  blocks are in one byte of the bitmap.
* `local_files`: blocks of two bytes, two data blocks per index block, two index
  blocks and three data blocks, a file of up to five bytes and one of up to two: the
  first reaches its second index block, and the disk runs out of either kind. A byte tells its file and
  position, and the last one has two versions, so that a misplaced, stale or
  overwritten byte is recognised.
* `tty_lines`: all buffers have two places, so that each pointer wraps at once.
* `remote_files`: two processes, one device and one file, two transmissions, a queue
  of one packet and two sequence numbers: a reply to the first call may come at any
  time in the second, also in the other process. No call begins after the second
  exchange has.

Symmetry is declared for keys, messages, names, values and processes that nothing
treats differently, and in no run that checks liveness.

Fairness. `WF(KernelStep)`: the processor runs kernel code to its end, because
interrupts are disabled. `SF(ClockStep)`: the timer interrupt stays pending until
interrupts are enabled, so a process that makes one system call after the other
does not keep it out. In `RemoteFiles`, `WF(Step(p))` for each process: the one
that holds the mutex is scheduled when it is ready (`NoStarvation` is what the
kernel promises; a process of higher priority that never blocks would break it), and `WF(Expire(p))`: the clock goes on. Nothing is assumed of
applications, of the network or of the server.

## 4. What is proved

Every result holds for all values of the constants that satisfy the named
`ASSUME`s: any number of processes, semaphores, ports, nodes, pools,
keys, descriptors, devices and retries, any buffer, block and cache size, workload, set of priorities, counts and delays, and both
platforms. A theorem with a further hypothesis says so.

| theorem | states | under |
|---|---|---|
| `XinuKernelProofs!Inductive`, `TypeCorrect` | `IInv` and `TypeOK` always hold | |
| `XinuKernelProofs!QueuesConsistent` | `QueueState` | |
| `XinuKernelProofs!CountsWaiters` | `SemCount` | |
| `XinuKernelProofs!NobodyLeftBehind` | `NoWaiterOnFree` | |
| `XinuKernelProofs!HighestRuns` | `CurrentIsHighest` | no `chprio` |
| `XinuKernelProofs!ReceiverFindsMessage` | `MessagePresent` | |
| `XinuKernelProofs!SleepersNotWokenEarly` | `NoEarlyWake` | `ShortDelays` |
| `XinuKernelProofs!DelaysAreKept` | `DelayKept` | `ShortDelays`, no `recvtime(0)` |
| `XinuServicesProofs!FuturesAreClients` | `FSpec => Spec` | |
| `XinuServicesProofs!WaitersAreFindable` | `WaitersFindable` | |
| `XinuServicesProofs!GarbageNotReturned` | `NoGarbage` | |
| `XinuServicesProofs!ExclusiveValuesOnce` | `ExclusiveOnce` | |
| `XinuServicesProofs!WaitersAreResumed` | `AllResumed` | |
| `XinuPortsProofs!PortsInductive` | `IInv` and `PortInv` | |
| `XinuPortsProofs!ReceiversFindMessages` | `NoEmptyReceive` | |
| `XinuPortsProofs!NodesArePartitioned` | `NodesPartitioned` | |
| `XinuPortsProofs!CountIsExact` | `CountExact` | |
| `XinuPortsProofs!NobodyBlocksWithoutNeed` | `BlockedForReason` | `SmallCounts` |
| `XinuPortsProofs!PortImplementsQueue` | `Implements`, the refinement of `PortSpec` | `SmallCounts` |
| `XinuServicesProofs!PoolsInductive` | `IInv` and `XInv` | |
| `XinuServicesProofs!PoolCountIsExact` | `PoolCount` | |
| `XinuServicesProofs!NoBufferTwice` | `BuffersPartitioned` | |
| `XinuServicesProofs!SearchIsExact` | `ClosestIsSmallest` | |
| `XinuServicesProofs!AccountsAreExact` | `AccountsExact` | |
| `FreeListProofs!BlocksSeparated`, `WordsPartitioned` | `Separated`, `Partitioned` | |
| `FreeListProofs!ListImplementsHeap` | `Implements`, the refinement of `HeapSpec` | |
| `KVStoreProofs!KVInvariant` | `KVInv` | |
| `KVStoreProofs!IndexExact` | `PrevPointers` | |
| `KVStoreProofs!StoreImplementsMap` | `Implements`, the refinement of `KVSpec` | |
| `RamFSProofs!RamInvariant` | `RInv` | |
| `RamFSProofs!BlocksOwnedOnce` | `BlocksOwned` | one process per descriptor (`Unused`) |
| `RamFSProofs!WrittenReadsBack` | `ReadsBack` | one process per descriptor (`Unused`) |
| `XinuTtyProofs!InputIsExact`, `OutputIsExact` | `InputExact`, `OutputExact` | |
| `XinuTtyProofs!TroubleIsExplained` | `TroubleExplained` | |
| `XinuTtyProofs!OutputIsArmed` | `OutputArmed` | |
| `RemoteFilesProofs!RepliesAreCurrent` | `ReplyCurrent` | |
| `RemoteFilesProofs!ErrorsAreExplained` | `ErrorExplained` | |
| `RemoteFilesProofs!PacketsAreAnnounced` | `PacketAnnounced` | |

The hypotheses are where the code stops doing what is stated (section 5):

* `chprio` leaves the ready list in its old order and does not reschedule;
* `ShortDelays`: a delay that does not fit the sign bit is passed on by `sleepms` as
  a negative one;
* with `recvtime(0)` a process is queued with a key of 0 that the next tick makes
  negative, and from there on the keys do not add up. The early wake-ups that this
  could cause do not happen: `SleepersNotWokenEarly` needs no such hypothesis;
* `SmallCounts`: the count of a port fits `ptmaxcnt`. `CountExact` needs no such
  hypothesis, because `ptcount` reads the semaphores and not `ptmaxcnt`.

The `ASSUME`s are those a reader would expect (at least two process entries, one
semaphore, a positive quantum, an aligned heap inside the address space, positive
buffer sizes). Two look odd: `2^CntBits > 0` in `XinuPorts`, since the prover knows
nothing about powers, and `DataAssumption` in `RemoteFiles`, which says that the
data written are sequences. TLC evaluates all of them.

### The arguments

**Kernel.** None of the four invariants is inductive alone. `dequeue` from an
empty ready list would break everything, so `NullEligible` says that the null
process is always current or ready. A semaphore's count and queue disagree in
the middle of `semreset` and `semdelete`, so `PendingCalls` says that rescheduling
is deferred exactly while the current process is in such a loop: nobody else
ever sees it half done, and no suspended context is in one. `IInv` is the
conjunction. For the steps, `XinuKernelProofs` first shows what leaving and joining
a queue does to `QueueState` (lemmas `Off...` and `To...`, on the lemmas about
queues in its first part), then that `resched` and `ready` keep it (`ReschedOK`, `ReadyOK`:
the one process that may be nowhere is the one that is about to run), and then has
one lemma per action.

**Scheduling and messages.** `RankInv`: the ready list is sorted by keys that are the
priorities, and the current process is the highest unless a reschedule is deferred
*and* was attempted. `MessageInv` adds to `MessagePresent` that a free entry has no
pending call, so that a pid that is used again does not inherit a `receive`.

**Sleep.** `NotAhead` (no place of the queue comes due before the delay asked for has
passed) is inductive on its own, and so is `DelayInv`: the sums of the deltas are
exactly what is left (`Exact`), they do not decrease along the queue, and the
first is positive except in the middle of `wakeup`. What `insertd` and `getitem` do
to the sums of a queue of any length is in the first part of `XinuKernelProofs`; where one would use
induction on the length, these lemmas take the least position at which the claim
fails. The steps are first classified as moves of the sleep queue (`Moves`: it stays,
somebody joins, somebody leaves, the clock ticks), so that each sum argument is
made once.

**Futures.** `FInv` adds to the properties what each saved context may find
(`PcFits`), that the value is a value that was set whenever the future is ready or
somebody has been resumed and has not read it yet (`Known`), and that nobody has
got a value that was not set. Every step is the kernel's own `Suspend` or `Resume`
or leaves the kernel alone: `FuturesAreClients`, after which `IInv` comes for free.

**Ports.** The heart of `PortInv` is its books (`BooksFit`): for each semaphore of a
port, its count and the calls in progress on it together make up the messages, or
the free places; exactly, until a released process is killed, and never more than
that. Around it: a pending call with the current sequence number is on an open port
(`SeqFits`); the semaphores a port relies on are in use and belong to no other port
(`SemsFit`); a port in limbo is cleared by at most one process, and what it has
already reset stays reset (`ClearFits`), even if that process is preempted or killed
in `semreset` (`LoopFits`); `ptcreate` is not split (`CreateFits`). The actions fall
into those that leave every port in its life (`Settled`, where the books balance
step by step) and those that create or clear one port, which no pending call can
then be on. The refinement has one lemma per action as well (`QueueStep`): a call
of `ptsend` or `ptrecv` takes effect when it stores or takes the message, not when
it passes the semaphore, and a reset when it empties the list.

**Pools.** The heart of `XInv` is one book per pool, of the same form as those of the
ports (`Book`, whose lemmas are in the last part of `XinuKernelProofs`): the count of
the semaphore and the processes in `getbuf` behind `wait` together make up the length
of the list, less what killed processes took along. That a process which got past
`wait` finds a buffer (`BufferThere`) follows from it: if there were none, the count
would be the negative number of *all* of these processes, but one of them does not
wait. `PoolSems` keeps the books apart (every pool has a semaphore of its own),
`PoolCalls` says that calls and buffers in use are of pools that exist, and `Starting`
that there is only the main process until there is a pool, so that no search ever has
an empty range. The binary search is a recursive function on the pairs of `start` and
`end`; `SearchTurns` shows that such a function exists, by giving it, so that the one
of the model is it, and `SearchFinds` that it returns the least pool that is large
enough: the shortest range for which it did not would be halved into one for which it
did.

**Accounts.** `AInv`, on top of `XInv`: each counter is what is in use less what the
processes in an update have still to count, unless it or a loaded copy of it is
`Unknown` (`ByExact`, `BfExact`, two instances of `Balances`); what a process has
loaded and is not spoilt is still the counter's value (`Loaded`), so a store that
leaves the counter known adds to the current value; and the sizes of buffers in use
and of calls of `getbuf` are positive (`Positive`), since the sign tells `allocBf`
which way to count. `SumAdd` says what the sum over a set becomes with one more
element. The sum is a fold of the community modules; where one would use induction
over sets, its lemmas take a smallest set for which the claim fails. A step keeps a
counter (`Kept`), begins an update (`Taken`) or ends one (`Counted`), and the arithmetic
is done once for each.

**Heap.** The invariant is `HeapInv`: `TypeOK`, `Positive` (no caller holds a region
of size 0), `Separated` and `Partitioned`. What is needed about the list is
stated once for each operation on it (removing, shrinking, inserting and joining
blocks): which words are free afterwards, and that the blocks stay apart. That
blocks never *touch* is what makes the refinement go through: a run of free words
then lies in one block, so a request that finds no block finds no run.

**Key-value store.** `KVInv` says that there is a sequence of distinct entries with
distinct keys such that the next pointers lead from the dummy head along it, `tailLRU`
is its last entry, the index names for each cached key the entry before it, and
nothing else is indexed (`Chained`). What the last entry points to is left open, since
`movLRUCache` does not clear it. Moving, appending, evicting and deleting are shown to
produce such a sequence again, and which one; the refinement needs that sequence
only, read as keys.

**`fs.c`.** A block that is not in doubt has one place. `BlockInv` says so with a function
from blocks to places (a descriptor and an index): every block that an entry of the
table has, and every block in the copy of a process that is in `fs_write`, is a data
block, and unless it is in doubt it is marked and the function gives this place for
it. When a process marks a block whose bit was clear until then, nobody has it and its
place can be chosen; when the bit was set in the meantime, or the store takes bits
back, the blocks concerned have become doubtful. `ProcInv` says that the copy of a
process agrees with its entry in the blocks the entry has, so that what other
processes see of a write is nothing before `Return`. `ContentInv` says of each byte of a
file to which only supported writes were made in which block and at which offset it
lies, and `PartialInv` the same in the middle of the data loop: blocks it has been to
hold the new bytes, the others the old ones. A block written by one process is none of
another's, since its place is its own. The arithmetic of `fs_write` and of `fs_read` is
each compared with the place of a byte.

**Tty.** `TtyInv` holds while the driver has not left its buffers in one of the known
ways, and says that it leaves them in no other. It relates each circular buffer to
the sequence it should hold (`Ring`), with a tail that may be left unwrapped; each
semaphore to the processes that wait for it or were released by it (`SemFits`); and
says that the line being typed leaves room for its end (`LineEnds`), which is what
`InputExact` needs when the line is ended.

**Remote files.** `RInv`: one process is inside the mutex (`Turns`); the endpoint
names a process only while that process waits and there is no packet, and whatever
else ends a wait is a message that struck it (`Endpoint`);
whatever is in the network has a sequence number that was used (`Sequenced`); and
during an exchange every request with its number is its own and every reply with
that number shows the files as they were at some moment of the exchange
(`Exchange`). Nothing is assumed of the order or the number of deliveries.

### What is only model-checked

* Liveness (`NoStarvation`, `SleepersWake`, `CallsReturn`): the prover does not
  handle fairness.
* The local file system: `LocalFS` walks chains of blocks with recursive operators,
  in modules with which the prover loses its arithmetic.

## 5. Observations about the code

What the models show the code to do, and the properties therefore except or do
not promise.

* Kernel: `kill` decrements `prcount` (`kill.c:24`) and may then be preempted by the
  message to the parent (`kill.c:28`) while its victim is not yet free; a second
  kill of it is counted again, its stack is freed again, and `xdone` halts the
  machine early. The `arm-bbb` handler tests for a key of exactly 0
  (`clkhandler.c:44`), so `recvtime(0)` never ends there, nor does any delay behind
  it. `chprio` does not reorder the ready list. `sleepms` makes a delay from 2^31 ms
  on negative. On `arm-qemu` a process that polls with `recvtime(0)` holds up all
  sleepers.
* Futures: in queue mode `future_get` takes the value without looking at the state
  again (`future.c:77`), so a process that came in between returns the same value;
  `future_set` can dequeue from an empty queue; a shared future can be set again
  after its last reader.
* Ports: `ptcreate` ignores a failure of `semcreate`; it takes a count of up to
  2^31 - 1, starts the semaphore of the senders with it, and stores it in the
  `uint16` `ptmaxcnt`, to which `_ptclear` resets that semaphore.
* Key-value store: `movLRUCache` does not clear the next pointer of the entry it
  appends (`kv_store.c:414`), so after a hit that moves an entry `kv_reset` walks a
  cycle (`kv_store.c:608`); `kv_delete` does not decrement `counterLRU`, so that a set
  after the last deletion evicts from an empty list. If `xmalloc` fails in `kv_set` the
  value it has freed stays in the table, and the next set, delete or reset frees it
  again. At each of these the model stops, so that `Implements` does not speak of them.
* Heap: from 2^32 - 7 bytes on, `roundmb` is 0 and `getmem` returns a block that
  stays in the list. `freemem` accepts a block that begins at `maxheap`, the first
  address behind the heap (`freemem.c:20`), and puts it on the list; `FreememStale`
  leaves it out.
* Pools: the look at the list in `xmalloc.c:59` is outdated when `getbuf` is called,
  so `xmalloc` may wait; a process killed between its release and its return from
  `wait` takes one count along for good; counters are updated unprotected;
  `mkbufpool` keeps the memory if `semcreate` fails.
* `fs.c`: a free block is looked for and marked with interrupts enabled
  (`fs.c:578` and `591`), so two processes that write at the same time may be given the
  same block, and the bits of blocks in one byte of the bitmap may be lost; both
  properties except the blocks this happened to. The last block of a transfer has
  size 0 when it ends on a block boundary,
  and the first one is taken up to its end, so that `fs_read` writes behind a buffer
  that is shorter than the rest of the block (`ReadsBack` speaks of the bytes asked
  for only); a transfer that starts inside a block
  goes to the next block of the file; only the descriptor's copy of the inode is
  updated, although the comment at `fs.c:627` says "save inode back in block" and
  `assignments/assignment_6/Report_6.txt:37` that the inode block is updated: a file
  that is opened again is empty, and opening it read-only fails
  and uses up a descriptor. `ReadsBack` compares a descriptor with what was written
  through itself, so it holds with this and would hold without; descriptors are never used again; the blocks of a write
  that failed stay marked; the check of the inode number (`fs.c:91`) lets one
  too many through.
* `device/lfs`: the mode of an open file is never checked; a new file that stays
  empty does not mark the directory as changed.
* tty: raw mode advances the input tail and wraps the output tail
  (`ttyhandle_in.c:43`), and the end of file is stored without a wrap; cbreak mode
  never signals; killing a line across the end of the buffer moves the head; a line
  end is stored without a test for room; the echo queue is not checked; `avail` in
  `ttyhandle_out.c:57` counts characters of writers that have not stored them yet;
  a character that releases held output without echoing does not start the
  transmitter; `TC_NEXTC` reads at the tail.
* Remote files: a stale reply uses up one of the retries and triggers a
  retransmission, whose reply is stale in turn, so a network that only delays can
  make every exchange fail; a delayed copy of a write may overwrite a later one;
  after a reboot sequence numbers begin at 1 again with the same port; any message
  that equals `OK` is taken for a packet (`udp.c:194`), and with an empty queue
  `udp_recv` reads what the queue held before, counts down from zero and frees the
  packet again; any other message makes the call fail.

## 6. Plan

Done: the core with its proofs, and the parts listed in section 2. Open, in the
order of what they would add:

1. theorems about `LocalFS`, whose walks along the chains of free blocks would have to
   be written as recursive functions first;
2. `QueueTab`: the linked nodes of `queuetab`, shown to implement the sequences of
   `XinuQueue`;
3. the remote disk and its cache, once it is settled what `rdsprocess` should do
   with a block it has read (below); the ARP cache with its timeouts.

## 7. Running the checks

`tlc -config KernelSem.cfg MCXinuKernel` and likewise for the other
configurations; `tlapm XinuKernelProofs.tla`, and likewise for every module whose
name ends in `Proofs`, for the proofs. `XinuPortsProofs` takes longest.

## 8. What is not modelled

The boot code, the MMU tables and the drivers' register programming (pure I/O); the
Ethernet driver (descriptor rings whose rules are in the hardware manual); the C
library and the shell (no state of their own); packet formats and checksums, ARP,
DHCP, DNS and TFTP; the name space (string prefixes) and the RAM disk (copying);
`future_free`; the allocation of queues, which happens at start only.

The remote disk (`device/rds`): `rdsprocess` does not set `rd_blk` of the buffer it
reads into, so that its cache cannot find the block again, and `rdscomm` (lines
88-107) takes a reply with an old number for the answer if its type fits. A model
would only repeat this.

Most of the repository's lines are not code of its own kind: more than half are
the generated traces of key-value calls, three times over (`apps`, `kv_traces`,
`assignments`), and much of the rest copies of the sources above under
`assignments/` and the `x86-galileo` drivers, which the ARM build does not compile.
So the models cover a small share of the lines, although they cover the kernel's
calls, the heap, the pools, both file systems, the tty driver, remote files,
ports, futures and the key-value store.
