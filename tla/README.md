# Xinu with asynchronous IPC and garbage collection: TLA+ models and proofs

The program is the Xinu operating system (`src/xinu-spring2020`) for a single
x86 processor, with three additions: message passing with callback functions
(`system/send.c`, `cbregister.c`, `cbunregister.c`, `usercb.c`), per-process
lists of allocated memory (`meminsert.c`, `memextract.c`) and delays in
milliseconds (`sleep.c`). Paths below are relative to `src/xinu-spring2020`;
"handout" is `src/README.md`.

## 1. Inventory

| component | state | operations | what is hard | what makes it correct |
|---|---|---|---|---|
| process queues (`queue.c`, `insert.c`, `insertd.c`, `getitem.c`, `unsleep.c`) | `queuetab[]`: one node per process, heads and tails | enqueue, dequeue, insert by key, insert in the delta list, unlink | a process has one node: linking it twice, or unlinking it when it is on no queue, corrupts two queues | a process is on the queue its state says, once |
| process management (`create.c`, `rcreate.c`, `kill.c`, `suspend.c`, `resume.c`, `chprio.c`, `yield.c`) | `proctab[]`, `prcount`, `nextpid` | as the files are named | sequences of calls that move a process between states; failure after part of the work | states and queues agree, `prcount` is the number of processes |
| scheduler (`resched.c`, `ready.c`) | `readylist`, `currpid`, `preempt`, `Defer` | resched, ready, deferral | context switches in the middle of a handler; rescheduling while a loop readies several processes | highest priority runs, no starvation among equals, no process is ever missing to run |
| clock and sleeping (`clkhandler.c`, `wakeup.c`, `sleep.c`) | `sleepq` with relative delays | tick, wakeup, sleepms | every insertion and departure changes other processes' delays; a tick that switches processes half-way | each delay ends with exactly its tick |
| semaphores (`wait.c`, `signal.c`, `signaln.c`, `semcreate.c`, `semdelete.c`, `semreset.c`) | `semtab[]` | as named | kill, reset and delete change count and queue by paths of their own | a negative count is the number of waiting processes; FIFO service |
| synchronous messages (`receive.c`, `recvtime.c`, `recvclr.c`) | `prhasmsg`, `prmsg` | receive, with a time limit or not | time limit against message | (no message arrives: section 6) |
| asynchronous messages (`send.c`, `cbregister.c`, `cbunregister.c`, `usercb.c`) | `prcbvalid`, `prcbptr`, `prmbufptr`, `prtmpbuf`, `prtmpvalid`, return addresses on stacks | register, unregister, send, the callback | the sender rewrites the stack of a process that sleeps; the callback runs later in the receiver's context, with what the fields then hold | a callback that runs finds a message, one message at a time |
| memory and garbage collection (`getmem.c`, `freemem.c`, `getstk.c`, `meminsert.c`, `memextract.c`, `meminit.c`) | `memlist`, list of blocks in use | allocate, free, stacks | splitting and coalescing at all boundaries; failure between two allocations | the heap is partitioned, nothing is handed out twice |
| ports (`pt*.c`) | `porttab[]`, `ptfree`, two semaphores per port | create, send, receive, clear, reset, delete, count | processes that resume after the port was reset, deleted or created again | a bounded FIFO channel; messages, room and counts agree |
| buffer pools (`mkbufpool.c`, `getbuf.c`, `freebuf.c`) | `buftab[]` | make, get, free | exhaustion; callers that trust what `wait()` returned | every buffer is in one place |
| mark table (`mark.c`) | `marks[]`, `nmarks`, `mkmutex` | markinit, mark, notmarked | only the last statement is in a critical section | what was marked stays marked |
| tty driver (`device/tty`) | `ttytab[]`: three rings, two semaphores | read, write, getc, putc, control; input and output interrupts | buffers shared with interrupts, line editing, flow control, mode changes | semaphores and rings account for each other; no output is stuck |
| Ethernet driver (`device/eth`) | descriptor rings, multicast list | read, write, control, interrupt | shared with the device; a semaphore that counts what the handler has seen | frames in order, once |
| local file system (`device/lfs`) on the RAM disk (`device/ram`) | directory, index blocks, data blocks, copies in memory | open, read, write, getc, putc, seek, truncate, close, control | several blocks per operation, copies that are dirty, free lists on the disk | a file is the bytes written to it; every block has one owner |
| remote disk (`device/rds`) | request queue, cache, free list, sequence numbers | open, read, write, control, close; the process `rdsprocess()` | retries, old replies, cache against pending writes, a shortage of buffers | the last write counts; nobody is forgotten |
| remote file system (`device/rfs`) | one connection, table of open files, `rf_mutex` | as its device calls | retries of what was done, replies that come late, callers that are killed | the caller is told what happened; the mutex comes back |
| name space (`device/nam`) | `nametab[]` | mount, map, open | lengths of the buffers that names are copied to | old names keep their meaning, all devices can be opened |
| network (`net/net.c`, `arp.c`, `ip.c`, `udp.c`, `icmp.c`) | ARP cache, UDP and ICMP tables, output queue, one buffer pool | send, receive, register, release; `netin`, `ipout` | time limits against late answers; one buffer pool shared by everybody | no packet is lost, freed twice or left behind; tables name those who wait |
| network clients (`net/dhcp.c`, `dns.c`, `tftp.c`) | a UDP slot and a conversation each | getlocalip, dnslookup, tftpget | lost, repeated and late datagrams | what is returned is what a server answered to this request |
| device switch, network printing and PXE, library, shell, start-up, configuration tool, test programs | none, or none of its own | – | – | not modelled (section 7) |

How they interact. Every system call runs with interrupts disabled from
`disable()` to `restore(mask)`, on one CPU. What interleaves is therefore the
calls as wholes, interrupts between them, and the places where `ctxsw()`
gives the CPU to another process in the middle of a call or of the clock
handler. The scheduler is called by almost everything (`ready()`,
`resched()`); `wakeup()`, `signaln()`, `semdelete()` and `semreset()` ready
several processes and defer rescheduling meanwhile. `kill()` reaches into the
sleep queue, the semaphores, the ready list, the memory lists and, through
`send()`, the stack of the parent. A callback is registered by the receiver,
written on its stack by the sender and run when the receiver wakes. Ports, pools,
devices and the network are built on semaphores and on messages; a call of theirs
is in pieces, between which others run: up to `wait()` or `recvtime()`, and from
there on.

## 2. Modules

| module | models | extends | composed or checked in |
|---|---|---|---|
| `Queues` | the queue operations, on sequences of entries (process, key) | `SequencesExt` | all of the kernel |
| `Kernel` | processes, scheduler, sleep queue and clock, semaphores, blocking for messages | `Queues` | runs `kernel_*` |
| `SleepTiming` | `Kernel` with a history variable that counts every delay down | `Kernel` | `MCKernel` |
| `Semaphores` | what semaphores promise: a table, each call one step | – | abstract specification of `Kernel`; base of `Calls` |
| `KernelSemaphores` | the mapping of `Kernel` to `Semaphores` | `Kernel`, instance of `Semaphores` | `MCKernel`, `KernelProofs` |
| `AsyncIPC` | registration, `send()`, callbacks on the stacks, exit messages | `Kernel` | runs `async*`, `MCAsync` |
| `Heap` | free list, stacks, the list of blocks in use | – | `MCDevices` |
| `Calls` | processes in calls that block, above the scheduler | `Semaphores` | base of the next ones |
| `Ports`, `PortChannel` | ports; the bounded channel that a port promises | `Calls`; – | `Messages` |
| `BufPool` | buffer pools | `Calls` | `Messages` |
| `Messages` | processes that pass buffers of pools through ports; the mapping to `PortChannel` | `Ports`, `BufPool`, instance of `PortChannel` | `MCMessages`, `MessageProofs` |
| `Marks` | the mark table | – | `MCMessages` |
| `Tty` | upper and lower half of the tty driver | `Calls` | `MCDevices` |
| `LocalFS`, `Files` | the local file system on the RAM disk; files as sequences of bytes | – | `MCDevices` |
| `Namespace` | `mount()` and `nammap()` | – | `MCDevices` |
| `Ethernet` | descriptor rings and handler | `Calls` | `MCNetwork` |
| `Network` | ARP, IP, UDP, ICMP, `netin`, `ipout` | `Calls` | `MCNetwork` |
| `NetClients` | DHCP, DNS and TFTP clients and their servers | – | `MCNetwork`, `NetworkProofs` |
| `RemoteDisk`, `RemoteFS` | the two remote devices and their servers | `Calls` | `MCNetwork` |
| `MCKernel`, `MCAsync`, `MCMessages`, `MCDevices`, `MCNetwork` | instances for TLC | | |
| `QueueProofs`, `SemTableProofs`, `KernelProofs`, `SleepProofs`, `AsyncProofs`, `MessageProofs`, `HeapProofs`, `NetworkProofs` | lemmas and theorems | | section 5 |

**Queues.** `queuetab[]` with its heads, tails and links is a sequence from head
to tail. `insert()` and `insertd()` choose the place where the loops of the
code stop; `Remaining` is the variable `key` of `insertd()` as the loop leaves
it after each entry. Semaphores' queues never look at keys, which are 0 there.

**Kernel.** One variable per field of `proctab[]` and `semtab[]`, per global and
per static that the calls use. An action is a call of the current process from
its checks to its return or to `ctxsw()`. `resched` takes the values that
`Defer`, the states, the ready list and the counter have when it is called, so
that an action can change them first, as the code does. The four calls with
loops are split: one action starts the loop (`clkwakeup`, `signaln`,
`semdelete`, `semreset`), one is each iteration and the end; `loop` excludes
everything else meanwhile. `kont` records a process that was switched out inside
`clkhandler()`: when it gets the CPU back it finishes the handler (`clkreturn`)
and counts down a time slice that is not the one its tick belonged to. The null
process creates `main()` once and then idles. Calls that return `SYSERR` change
nothing and are left out, except `create()` and `rcreate()` failing for lack of
memory, which move `nextpid` (`createfail`). `xdone()` stops the machine
(`halted`). Not in `Kernel`: contents of messages, names, stacks (in `Heap`),
callbacks (in `AsyncIPC`), the seconds counter `clktime`, open devices of a process.
`recvclr()` never has anything to clear, as nothing sets `prhasmsg`.

**Semaphores, KernelSemaphores.** `Semaphores` has one variable, the table; every
call is an operator from a table to a table. `Kernel` implements it under the
mapping `table`: a deletion or a reset has taken effect when its loop starts, as
nothing else happens before it ends; `signaln()` is a row of signals. `Calls` and
what is built on it use the operators of `Semaphores` in place of the scheduler:
any process that is not blocked may be the next to run, unless `masked` says that
a process is in a call it cannot be taken from.

**AsyncIPC.** Each action is the action of `Kernel` with what it does to the
fields of this module. A stack is abstracted to what `send()` can change: `depth`
is how many user functions the process has called when it calls `sleepms()`,
`frame3` says where the third stack frame returns to. `send()` walks three frame
pointers up from the bottom of the stack, and depending on the depth the third
frame is that of `resched()`, of `sleepms()` or of a user function. The callback then
runs in place of the rest of the second frame: this is `usercb`, which also
models that the return skips `restore(mask)` when the second frame is
`sleepms()`'s. A process that never registered has `prcbptr` NULL and gets the
return address 3 (`send.c:62`); what it does there is unknown (`wild`), and the
model stops.

**Heap.** Addresses in units of 8 bytes. `getmem` is first fit from the low end,
`allocstk` last fit from the high end, `dealloc` coalesces with both neighbours.
`prheaphd` is never allocated, so that the header of every process is the words
at address 0: one list, which every `create()` clears. `memextract` models what
the code does without a match: `usedcurr` is NULL, and the last node is linked to
the header's first node, after which a search that fails does not end (`hung`).
`meminsert()` without memory for a node writes through the address -1 (`wild`).

**Ports, BufPool, Messages, Marks.** `ptsend()` and `ptrecv()` are one action when
they do not block and two when they do: the second compares `ptseq` and `ptstate`
as the code does after `wait()`. `_ptclear()` goes through its three loops step by
step, because disposal may ready a process. In `Messages` the disposal function is
`freebuf()`, so that clearing a port signals the semaphore of a pool. `mark()`
does not disable interrupts; each of its statements is a step of `Marks`. A number that is
no index of `marks[]` makes it write behind the array, on whatever the linker has put
there (`overrun`): on `nmarks`, on `mkmutex`, which then is no semaphore any more, or on
something else.

**Tty.** One action per call up to its block and one for its resumption; the input
interrupt in the three modes with editing, echo and flow control; the output
interrupt with its burst. A released reader or writer is one the semaphore no
longer counts and who has not moved yet.

**LocalFS.** Operations are functions on a record of the disk and of what is in
memory, composed as the calls are (`lfsetup` calls `lfibget`, `lfdballoc`, ...). Disk
blocks hold links and bytes, so that a lost or doubly owned block is visible.

**Namespace.** Names are sequences of characters, and the copies in `nammap()` are
limited by the buffers and by a length that is kept in a `char` (`CharBits`).

**Ethernet, Network, NetClients, RemoteDisk, RemoteFS.** A frame, a packet, a request or a
reply is a record of the fields that the code compares. Packets live in the buffers
of the pool; a step ends where the code blocks. Servers and the wire are external:
what was sent may come at any time later, again, or never. Whether `send()`
wakes those who wait with `recvtime()` and `receive()` is a variable that is
constant in a behaviour (`netwakes`, `rdwakes`): here it does not (section 6), and
the run looks at both, as the callers were written for one that does.

What is sent to the servers of `NetClients`, `RemoteDisk` and `RemoteFS` goes into a set
that nothing leaves. A server may execute a request from it at any step, any number of
times, after its sender has given up and after newer requests, or never; and a receiver
may be given any reply that was ever made. A wait may also time out, and end with
`SYSERR` because a message came that is not that of UDP. History variables (`latest`,
`fate`, `faults`, `seen`) remember what the properties tell apart: whether an older
request was executed after a newer one, and what a block has held since somebody asked
for it. The driver of `Ethernet` is called with interrupts disabled (`read.c:19`,
`write.c:19`), so a call is in pieces only where it waits; the device is not stopped by
that and goes on between any two steps, and the rings fill.

## 3. Runs

All end in less than five minutes on two workers.

| run | question | instance |
|---|---|---|
| `kernel_safety` | do states, queues and counts agree under all calls | the null process and two, 1 semaphore, priorities 1 and 2, `chprio` to 1, delays 0 and 1, time limit 2, quantum 2; 999,566 states |
| `kernel_queues` | semaphores in every order of wait, signal, signaln, reset, delete and kill implement `Semaphores`; each delay ends with its tick | three user processes, 1 semaphore, counts 0 and 1, or delays 1 and 3 and time limit 2 (`mode`); 1,190,450 states |
| `kernel_fair` | highest priority runs, equals share, sleepers wake, waiters are served | three user processes, priorities 1 and 2, delays 1 and 2, time limits 0 and 1, no `chprio`; 108,524 states |
| `async` | callbacks find a message, and the first one | two user processes, all three depths; 1,466,737 states |
| `async_fair` | a callback put on a stack runs | two user processes of priorities 1 and 2, depths 1 and 2; 153,109 states |
| `messages` | ports and pools account for each other, a port implements `PortChannel`, nobody waits in vain; marks stay | three processes, one port for 1 or 2 messages and one message node, two pools and two buffers, one kill; three markers, three locations, table of 2; 617,329 states |
| `devices` | terminal, local files, name space, heap | `part` and `MCDevices`' restrictions say which situation is explored; 406,798 states |
| `network` | network, clients, Ethernet, remote disk and files | two users and the system's processes, rings of 3, two retries, 4 exchanges with the disk and 3 with the file server; 861,665 states |
| `reset_by_callback`, `changed_if_registered`, `time_sliced`, `heap_kill_returns` | what a comment or the handout says and the code does not do (section 6) | as above; each is violated |

Sums. TLC is given several components in one run where they share no state: `mode` or
`part` is chosen at the start and says which one takes steps. The variables of the
others keep their initial values, so the runs explore the union of the state spaces
and not the product. A property holds of the part that has its variables; the ones
that count semaphores say so, as parts share `semtab`.

Bounds. Three user processes are what the ordering of a queue needs: one that
leaves, one before and one behind it. Two
user processes suffice for the counters and for callbacks, which involve a
sender and a receiver, a third party (the parent that `kill()` writes to) being
either of them. Entries of the tables are used again after `kill()` and
`semdelete()`. Delays 1 and 3 and the time limit 2 give equal and different
deadlines, entries that join in front, behind and in between. A quantum of 2 has
ticks that end a slice and ticks that do not; runs whose properties do not
depend on it take 1. `U32MAX` is 3 instead of 2^32-1: it stands for the value an
unsigned counter wraps to. `MaxCount` bounds semaphore counts, which
`signal()` raises without limit. A heap of 12 units holds several blocks with
holes of different sizes, and runs out. `MaxSeq` bounds how often a port is
reset, `MaxKills` the processes that die in a call, `MaxSize` and `MaxIO` files and
transfers: with blocks of 2 bytes and index blocks of 2, a file of 5 bytes needs a
second index block, and a disk of 2 or 3 data blocks fills up. Rings of 2 and 3 descriptors
or characters wrap and fill. Retry limits are 2: one retry and the giving up.
The operators of `MCAsync`, `MCDevices` and `MCNetwork` that restrict a part to a situation
are there for time; each is commented with what it leaves out. The remote disk is explored
three times: every step with two exchanges (`any`), a network without faults and with
concurrent users (`calm`), and one user with every fault (`lossy`); the remote files with
every fault and one caller (`faults`), with callers that meet (`many`), and with arguments
that are refused (`refused`). Two of the restrictions are
preconditions of the properties, because without them the code does go wrong: `OneUser`
(one process per UDP or ICMP slot) and `SendPart` (as many ARP entries as next hops);
section 6 names what happens otherwise.

Symmetry: processes that differ in nothing but their name are permuted in
`messages`, `devices` and `network`, which check no liveness.

`CHECK_DEADLOCK` stays on for the kernel and the asynchronous messages: there is
always a clock interrupt or, after `xdone()`, the halted
processor (`halt`). It is off in `messages`, `devices` and `network`: a system that has panicked,
whose processes all wait or have died, or whose bounds are used up stops.

Fairness. `WF(KernelLoops)` and `WF(clkreturn)`: these are the only steps that
the CPU can take next. `SF(Clock)`: calls disable interrupts and enable them
again, but an interrupt that arrives meanwhile stays pending in the interrupt
controller and is served. No fairness is assumed of processes: they may stop
calling anything, and a program that never yields still loses its time slice.
`SF(sleepreturn)` in `AsyncIPC`: a process that returns from `sleepms()` executes
a few instructions, for which there is time between two ticks.
`WaitersServed` takes its assumption, that a semaphore is signalled again and
again, into the property. `NoStarvation` excludes processes that are outranked,
`SleepersWake` executions in which `recvtime(0)` is called again and again,
`CallbackRuns` receivers that are outranked again and again and executions in which the
CPU stays with processes whose interrupts are disabled. The executions that are excluded
do exist (section 6).

Mutants. For every property `PROJECT.json` names a variant of a definition
(marked "(Variant: ...)" in the modules) that a plausible slip in the code would
amount to, under which the same run finds the property violated.

## 4. Properties

Kernel (`Kernel`, `SleepTiming`, `KernelSemaphores`)

* `TypeOK`, `QueueConsistent`: types; states and queues agree, nobody is linked twice.
* `CountConsistent`: `prcount` is right, so the machine halts when, and only
  when, the last user process ends.
* `NoWrap`: the unsigned slice counter is never decremented at 0.
* `DeferHolds`: no loop loses the CPU before its end.
* `SemConsistent`: count against queue, nobody waits for a deleted semaphore.
* `SemaphoresRefined`: `Kernel` implements `Semaphores`.
* `HighestRuns`, `NoStarvation`, `SleepersWake`, `WaitersServed`: scheduling.
* `DelaysExact`, `WokenOnTime`: the delta list against a history of each delay; nobody
  gets up before the tick that ends the delay, nor after it.

Asynchronous messages (`AsyncIPC`): `CallbackFindsMessage`, `FirstMessageWins` (until the
callback has run, no message replaces the one that waits; also true of a `usercb()` that
resets `prtmpvalid` as the handout says), `CallbackRuns`.

Memory (`Heap`): `FreeListExact` (sorted, coalesced, `mlength` right), `Partition`,
`ListedInUse`.

Messages (`Messages`, `Ports`, `BufPool`, `Marks`)

* `PortsAccounted`: messages, room, what has been promised and `ptcount()` agree,
  through resets and late resumptions; `NodesConserved`: no node is lost, and the
  panic for want of nodes happens only if the ports are larger than the list.
* `BuffersAccounted`: every buffer is in one place; a process that `getbuf()` has
  promised a buffer finds one.
* `NobodyWaitsInVain`: nobody waits for what has been cleared away.
* `PortsAreChannels`: `Ports` implements `PortChannel`.
* `MarkedStays`: races in `mark()` lose no mark, except while the same location is
  marked twice, as long as they have not run over the table.

Devices (`Tty`, `LocalFS`, `Namespace`)

* `InputAccounted`, `OutputExact`, `NoLostKick`: semaphores against rings, the order
  of output, output that nobody is going to send.
* `LfDiskConsistent`, `FilesAreSequences`: ownership of blocks, what a disk without
  open files has; `LocalFS` implements `Files`.
* `NsNamesKept`: a mount changes no name that could be opened.

Network (`Network`, `NetClients`, `Ethernet`, `RemoteDisk`, `RemoteFS`)

* `NetPacketsConserved`, `NetTablesSound`: every buffer is in one place, tables name
  those who wait, nobody sleeps on what has come, addresses are those announced.
* `ClientsAnswered`: what DHCP, DNS and TFTP return was granted, answered and
  sent; a UDP slot is left behind in two ways only, which `left` in the model marks.
* `EthFramesInOrder`: rings and semaphores, in order, once. A transmit ring that was full
  stands still, which is the only way that a writer waits; a receive ring that was full
  makes the semaphore count too much, which is the only way that it does.
* `RdsAccounted`, `RdsCoherent`: buffers, counts, nobody forgotten; the last
  write is on the server, in the queue, or in the cache, and a read returns what the block
  has held since it was asked for. What the code does wrong is an exception by name, for
  the block it happened to.
* `RfsMutexReturned`, `RfsAnswersHold`: the mutex, the entry an open has chosen, and
  what a caller is told, which is true until the server executes an older request under
  the same name.

Refinements. `Kernel` implements `Semaphores` and `Ports` implements `PortChannel`
(checked and proved), `LocalFS` implements `Files` (checked), `AsyncIPC` implements
`Kernel` (proved).

## 5. What is proved

For every value of the constants, so for tables, memories and queues of any size:

| module | theorem | statement |
|---|---|---|
| `KernelProofs` | `TypeCorrect` | `Spec => []TypeOK` |
| | `QueuesCorrect` | `Spec => []QueueConsistent` |
| | `DeferCorrect` | `Spec => DeferHolds` |
| | `NoWrapCorrect` | `Spec => []NoWrap` |
| | `HighestRunsCorrect` | `Spec => []HighestRuns`, if `NewPrios = {}` |
| | `CountCorrect` | `Spec => []CountConsistent` |
| | `SemCorrect` | `Spec => []SemConsistent` |
| | `SemaphoresImplemented` | `Spec => SemaphoresRefined` |
| `SleepProofs` | `DelaysExactCorrect` | `TSpec => []DelaysExact`, if `0 \notin Waits` |
| | `WokenOnTimeCorrect` | `TSpec => WokenOnTime`, if `0 \notin Waits` |
| `AsyncProofs` | `AsyncImplementsKernel` | `ASpec => Spec` |
| | `AsyncTypeCorrect` | `ASpec => []ATypeOK` |
| | `CallbackFindsMessageCorrect` | `ASpec => []CallbackFindsMessage` |
| | `FirstMessageWinsCorrect` | `ASpec => FirstMessageWins` |
| `MessageProofs` | `TInvCorrect` | `MsgSpec => []TInv` |
| | `NobodyWaitsInVainCorrect` | `MsgSpec => []NobodyWaitsInVain` |
| | `PortsAccountedCorrect` | `MsgSpec => []PortsAccounted`, if the sizes fit |
| | `BuffersCoveredCorrect` | `MsgSpec => []BuffersCovered` |
| | `BuffersAccountedCorrect` | `MsgSpec => []BuffersAccounted` |
| | `NodesConservedCorrect` | `MsgSpec => []NodesConserved`, if the sizes fit |
| | `PortsAreChannelsCorrect` | `MsgSpec => PortsAreChannels`, if the sizes fit |
| | `MarkedStaysCorrect` | `MarkSpec => []MarkedStays` |
| `HeapProofs` | `HeapTypeCorrect` | `Spec => []TypeOK` |
| | `FreeListCorrect` | `Spec => []FreeListExact` |
| | `PartitionCorrect` | `Spec => []Partition` |
| | `ListedCorrect` | `Spec => []ListedInUse` |
| `NetworkProofs` | `RfsMutexCorrect` | `RfsSpec => [](RfsMutexAccounted /\ OpensKeepTheirSlot) /\ []RfsMutexReturned` |
| | `RfsAnswersCorrect` | `RfsSpec => [](AnswerHolds /\ RefusedUnchanged) /\ []RfsAnswersHold` |
| | `ClientsCorrect` | `ClientsSpec => [](AddressGranted /\ SlotsWithOwners /\ AnswerIsForName /\ FileInOrder) /\ []ClientsAnswered` |

Assumptions. `SizeAssumption` (at least two processes, one semaphore, a quantum
between 1 and the largest unsigned number) and `InputAssumption` (arguments
are integers in their ranges) of `Kernel`; `DepthAssumption` of `AsyncIPC` (a process is one
to three calls deep when it sleeps); `CallAssumption` (finitely many processes),
`PortAssumption` (at least one entry in the port table, sizes that are not negative) and
`PoolAssumption` (no pool without a buffer) of what `Messages` is built from; `HeapAssumption`
(finitely many processes, at least one; positive sizes; more memory than the
stack of the first process); `RfAssumption` (the users are processes, there is an entry for
the mutex and a pseudo-device, lengths are numbers, and the values that stand for "no file"
and "a directory" are no bytes); `NetClientAssumption` (an answer of the DNS server is about
the name in the question, a file has at least one block, and the values that stand for no
server and nobody are none); `MarkAssumption` (NULL is no location, a table of at least one
entry, and a pointer read as a number is larger than its size). TLC evaluates all of them. `HighestRuns` needs
`NewPrios = {}`, and does not hold otherwise: `chprio()` leaves the old key on the ready
list (section 6). The theorems about delays need that nobody calls `recvtime(0)`: with
`Waits = {0}` TLC finds `WokenOnTime` violated, the code being what it is (section 6).
"If the sizes fit" is `PortCounts \subseteq 0..U16MAX`: `ptcreate()` gives its argument to
the semaphore as it is and to `ptmaxcnt` cut off to 16 bits (section 6), so with a larger one
the two disagree from the start.

**Kernel.** `QueueConsistent` is not inductive: `resched()` dequeues from the
ready list without looking whether it is empty, and `SwitchTo` would leave
`EMPTY` in `currpid`. What saves it is that the null process is always ready
or running (`prstate[NULLPROC] \in Running`). And a loop that readied a process
while `Defer` were off could switch away from the process that runs the loop. So
`IInv` is

* `SchedInv`: one current process, the null process ready or running, the ready
  list holds exactly the ready processes;
* `SleepInv`, `SemInv`: the same for the delta list and each semaphore's queue;
* `TableInv`: types, and `prcount >= 1` until the machine halts;
* `LoopInv`: rescheduling is deferred exactly while `loop` runs.

Queues enter only through `Holds(q, P, M)`: "q is a well-formed queue of exactly
the processes in M, each on it once". `QueueProofs` shows, for queues of any
length, that `insert`, `insertd` and `enqueue` add the process, and that `rest`,
`getitem` and `unsleep` take it off; that the places where the loops of
`insert()` and `insertd()` stop exist (a least element of a set of numbers,
`LeastNat`); and that the recursion in `insertd()` has a value for every queue
(`RemainingExists`, by a shortest prefix without one). In `KernelProofs`,
`ReschedStep` is the lemma about the scheduler that all others use: given
states and a ready list that agree, it leaves states and a ready list that
agree and every blocked process as it was (`SameBlocked`). One lemma per action
follows, and `NextIInv` puts them together. `DeferStep` takes `IInv` and goes
through the loops; `NoWrap` is inductive on its own, through `SliceStep`: a step
leaves the counter, starts a slice, or is the end of a tick.

**Counters.** These build on `IInv`. `CountStep` says what any step does to the set
`Alive` of the entries in use: nothing, one more and `prcount + 1`, one less and
`prcount - 1`, or the machine halts; `CountCorrect` is then a matter of
cardinalities. `SemConsistent` needs one thing more to
be inductive, that the count `semreset()` is going to set is not negative
(`CountInv`); one lemma per call shows that the queue changes length exactly when the
count changes below 0. `semcreate()` relies on the queue of a deleted semaphore being
empty (`SemcreateCounts`), which the loop of `semdelete()` provides
(`SemdeleteloopCounts`).

**Priorities.** `PrioInv`: the ready list is ordered by keys that are the priorities
of its processes (`Ranked`), and either its first key is no more than the priority of
the current process or the loop that runs has left an attempt behind, which makes
its end call `resched()` (`Attempted`). `insert()` keeps the order; a step that
raises what is on the list either reschedules or defers.

**Delays.** `DelaysExact` is about sums: the keys up to an entry. A step changes one key
and with it every sum behind, so the proof is about `Rest` instead, the ticks that
`remain` gives each entry, and `Deltas`: the first key is the first rest, every other key the
difference of two neighbouring rests, and no rest is negative. That is local: `insertd()`
changes the key of the new entry and of the one behind it (`DeltasInsertd`, where
`RemainingValue` says what the variable `key` of its loop holds), `unsleep()` that of the
entry behind (`DeltasUnsleep`), a tick the first key and every rest (`DeltasTick`).
`DelayInv` adds that outside `wakeup()` no rest is 0. `KeySumIsRest` gets the sums back:
if one differed from its rest, the least that does would have a predecessor that does not.

**Semaphores.** `RefInv` adds to `IInv` and `CountInv` that the entry `semdelete()` is
emptying stays unused (`DeletedUnused`): without it a `semcreate()` in the loop
would be visible in `table`. One lemma per action names the step of `Semaphores` it
is, or says that `table` does not change.

**Asynchronous messages.** `AsyncStep` maps each step of `AsyncIPC` to one of `Kernel`,
so that `IInv` and all theorems about `Kernel` hold with it. `AInv`
adds the types and `CallbackFindsMessage`, which is inductive with them: what puts a callback
on a stack also posts its message, and what takes a message away clears the stack.
`FirstMessageWins` is a step property of it.

**Ports and pools.** The table of semaphores comes first, in `SemTableProofs`: `SemTable` says of each entry in
use that its queue has nobody twice, that nobody is on two queues and that a negative count
is the length of the queue, and one lemma per operator of `Semaphores` says what it does to
the entry and that it leaves the others (`WaitTable`, `SignalTable`, `ResetTable`, ...).

`NobodyWaitsInVain` fails if two uses ever share a semaphore, because the reset of
one would leave callers of the other behind; and an entry that `semdelete()` has freed is
given to the next who asks. So `TInv` speaks of *uses* (senders of a port, receivers of a
port, callers of a pool): a use that is live has a semaphore nobody else has (`OwnInv`),
where live includes the port in limbo whose semaphores the process that clears it has not
come to yet; that process is the only one (`ClearInv`); an old call is an old call
(`SeqInv`); and who waits does so where he asked (`WaitInv`). Nearly all actions are one
kind of step, `Steady`: semaphores stay with their uses and queues only get shorter
(`SteadyStep`); blocking, clearing and making ports and pools are the rest.

Counts are compared through `Owing(u)`: the count of the semaphore plus the callers a unit
is meant for, waiting or released. Blocking takes one unit and adds one caller,
being released does neither, so `Owing` changes only where a message or a buffer
does, and `CountInv` says that it never exceeds them and, until somebody is killed in a
call or the system panics, equals them. What a reset has set stays so until the port
is in use again (`ResetSound`). A caller who is killed after `signal()` chose
him takes the unit with him: hence the inequality. `Promised` translates `Owing` back
to the sets that `PortsAccounted` and `BuffersCovered` name.

For the refinement one lemma per action names the step of `PortChannel`, or says that it is
a stutter; that a send finds room is `CountInv` (`SendNowRoom`, `SendResumeRoom`).
`BufInv` gives every buffer a place (the list of a pool, a port, somebody's hands,
the list that a clearing walks): places are disjoint, lists have no buffer twice, and
a step moves buffers from one place to one other (`Moved`), takes memory for new ones
(`Filled`) or loses those of a process that dies (`Stayed`). It includes that a
process holds what it is going to send, which is why a refused send loses nothing.
`NodeInv` adds for `NodesConserved` that a port in limbo holds no more messages than
its size either: clearing a port does not free its nodes before the disposal is
done, so a panic may be due to a port that nobody can use any more.

**Memory.** The proof is about sets of units. `HeapInv` says that nodes and owners
are in the memory, and that the free pieces are in order and do not touch (`FreeList`),
the regions in use and the free units tile `1..HeapSize` (`Tiling`), and `mlength` is
the number of free units. Each operation on the list is characterised by the units it
takes or gives (`Takes` for both allocators; for `dealloc` one lemma per way of
joining). `ListInv` says that the list of blocks in use is a chain of nodes of
distinct blocks in use, or a cycle: the search without a match is what turns the one
into the other, and no search on a cycle ends. That a search of a chain does end
within as many steps as there are nodes is a counting argument over the visited nodes
(the walk is a recursive function; it is not unfolded further).

**Marks.** `MarkInv` says that the table is `Sound` or that a number beyond it was given out
(`TooMany`), which no step takes back, the overrunning write to `nmarks` included. While it is
sound, `mkmutex` has not been hit either: one process at a time is behind `wait()`
(`Exclusion`), and while it numbers a location, the entry it is going to write is still empty
(`EmptyBehind`, `Numbered`).

**Remote file system.** The mutex is no flag that says who has it: a call is inside if it has
begun and does not wait. `MutexInv` says that only callers that have not begun their work are
on its queue, and that its count is 1 less the calls and the callers that were killed inside;
as a negative count is the length of the queue (`SemTable`), at most one call is inside
(`OneInside`), and one lemma each for beginning, going on, returning and being killed keeps
it so. What `rfscomm()` accepts is true because the server does the same again: however often
it executes a request, every answer to that request is true afterwards (`StillTold`,
`ExecuteTold`, with the lemmas `PatchedHolds` and `ReadTold` about what is written and read).
`HistoryInv` says that every reply to the latest request is true (`Truthful`) until the server
executes an older one under its name, that sequence numbers are not used again, and that the
process inside waits for the latest; it is an invariant of all the steps the server makes with
old requests, under this and under other names (`ServerStep`). The theorems are about
`RfsSpec`, without the restrictions under which `MCNetwork` explores it.

**Network clients.** No datagram ever leaves the wire of `NetClients`, so a client may be given
anything that was sent to it at any time before. `ClientInv` says what each datagram may say:
an acknowledgement of DHCP names an address that was leased, an answer of DNS is one of those
the zone has for its name, a block of a file says whether it is the last. A step of a client
is `clientstep(v)` for a record v that it computes from the client's state, and the proof is
about v: `GoodState(p, v)` says that the fields are sound and that the pairs of ports are
those of the other clients and, unless v is at rest, that of the call, and perhaps the one
that an earlier call of `getlocalip()` has left (`ClientStepInv`, `ReleasedGood`,
`LeftGood`). `AddressFound` is about the choice of an answer, `BlockStored` about the
order of the blocks. The theorem is about `ClientsSpec`, again without restrictions.

TLC found all of these invariants to hold on small instances before they were
proved.

Only model-checked:

* everything under fairness (`NoStarvation`, `SleepersWake`, `WaitersServed`,
  `CallbackRuns`): the prover has neither ENABLED nor fairness;
* `LocalFS` and with it `MCDevices`: the module uses RECURSIVE operators, which
  exclude theorems;
* tty, name space, Ethernet, ARP/IP/UDP/ICMP and remote disk: not attempted (section 8).

## 6. Where code and documents part

Shown by a run each:

* `prtmpvalid == 0;` in `usercb.c:25` compares, so one message per registration is
  all that is ever accepted (`reset_by_callback`; handout, line 78).
* `send()` rewrites the stack of every sleeping receiver, registered or not
  (`changed_if_registered`).
* A receiver that called `sleepms()` from its first function continues
  with interrupts disabled after the callback (`time_sliced`).
* The first stack that `kill()` frees closes the list of blocks in use to a cycle;
  the next search does not end (`heap_kill_returns`).

Seen while modelling, evident from the code and without a run. Where a property
would fail because of one, the property says so as an exception or the MC module
keeps away from it.

*Kernel and messages.* `chprio()` leaves the old key on the ready list
(`chprio.c:25`, `resched.c:38`). `recvtime(0)` puts an entry with key 0 in front of the
sleep queue, and the next tick is spent on it: who sleeps behind it oversleeps by a tick
(`recvtime.c:26`, `clkhandler.c:33`), and a process that repeats the call keeps all
sleepers asleep, which `SleepersWake` excludes by name. `send()` has the code that readied a receiver commented
out (`send.c:111-121`), so that `receive()` never returns and `recvtime()` always
times out. `usercb()` assigns to the pointer `prmbufptr` instead of the buffer it
points to (handout, line 54); the rest of the receiver's second frame is lost when
the callback runs (handout, line 68); the case of a ready receiver is an empty
branch (`send.c:101`). `kill()` reclaims no memory but the stack (`kill.c:49`); the
list of blocks is not sorted by address, there is no header per process and nodes
are never freed (handout, lines 11, 110, 116). `net_init()` is commented out
(`initialize.c:84`): `Network` starts where it would return.

*Ports, pools, marks.* `wait()` returns OK after `semdelete()` and `semreset()`
(`wait.c:30`); `ptcreate()` does not look at the result of `semcreate()`
(`ptcreate.c:35`); `getbuf()` not at that of `wait()` (`getbuf.c:30`); a port in
PT_LIMBO stays there if the process that deletes it is killed (`ptclear.c:21`); ports larger
than the list of nodes panic (`ptsend.c:37`); `ptmaxcnt` is a `uint16`
(`ptcreate.c:39`); processes that pass the test together write behind `marks[]`
(`mark.c:31-44`), where the next variables of the file are: a pointer in `nmarks` passes every
later test, and one in `mkmutex` makes `wait()` return at once, so that nothing is exclusive
any more.

*Ethernet.* The handler takes a transmit ring whose tail has come round to its head for an
empty one (`ethhandler.c:51`): once `ethwrite()` has filled the ring, no descriptor is
handed back and every later writer waits for ever. The receive loop counts up to one frame
more than the ring has (`ethhandler.c:95`); from then on `ethread()` is told of frames that
are not there. `ethmcast_remove()` writes one past its array (`ethmcast.c:60`).

*Tty.* In cbreak mode characters are stored without a signal
(`ttyhandle_in.c:80-91`); the end-of-file character is stored without wrapping
(`:157`); a newline overwrites when the ring is full (`:125`); output
sends characters from slots that were only promised (`ttyhandle_out.c:57`); a character that
undoes ^S does not start the transmitter (`ttyhandle_in.c:71`); the echo ring is not
checked (`:257`); TC_NEXTC reads `*tyitail` (`ttycontrol.c:27`).

*Files and names.* `create` does not set `lf_dirdirty` (`lfsopen.c:137`); `lfscreate()`
writes a zero ID (`lfscreate.c:42`); `lflputc()` ignores the mode; `lftruncate()` returns early for
size 0; `nammap()` keeps a length in a `char` (`nammap.c:55`, `:88`).

*Remote devices.* `rdsprocess()` does not say which block a reply answers
(`rdsprocess.c:43-59`); it unlinks a second read of the same block with the links of the
first (`:116-119`); `rdscomm()` takes a reply to an earlier request for the
answer (`rdscomm.c:98`); a write or a delete that was sent again may reach the server after
newer ones and undo them (`rdscomm.c:68`); `rdswrite()` takes a cached buffer from under those
who wait for one, because `semreset()` refuses a negative count (`rdswrite.c:63`), and queues a
write that waited for a buffer behind a newer copy of its block (`rdswrite.c:39`);
`rdsclose()` empties the cache under callers that read from it (`rdsclose.c:40`); a panic when
the cache is used up (`rdsbufalloc.c:30`); RD_PEND stays
after a refused ID (`rdsopen.c:41`). A retry of the remote file system executes twice, and an
old request that was given up may undo a newer one
(`rfscomm.c:42`); a caller that is killed keeps `rf_mutex`; the size is asked of
`rfltab[0]` (`rfscontrol.c:29`), whose name may be that of an open that failed, without an end
if it was too long (`rfsopen.c:47-52`); every control function fails if that name has
RF_NAMLEN - 1 characters (`rfscontrol.c:36`); and the caller is told a size also when the
server has refused to give one (`rfscontrol.c:94-103`).

*Network.* An ARP entry may be evicted before its waiter runs (`arp.c:298-327`,
`:150`); a killed waiter leaves AR_PENDING; any message is taken for a packet or an
answer (`udp.c:194`, `arp.c:139`); two receivers on one slot (`udp.c:200`) or a release
under a waiter (`udp.c:527`) end in a read of an empty queue; `icmp_in()` does not look
for room (`icmp.c:86`); `ip_send()` and `icmp_send()` have returns without `restore()`
(`icmp.c:244`); `getlocalip()` leaves its UDP slot registered after an error of `udp_recv()`
and after an offer that does not name its server (`dhcp.c:187`, `:237`), after which it can
never succeed again; `dnslookup()` does not compare the ID of the reply (`dns.c:75`) and
compares names by prefix (`dns.c:239`).

## 7. Not modelled, and why

* Device switch (`open()`, `read()`, ... through `devtab[]`): dispatch without state.
* Network printing and PXE, library: formatting and pure functions.
* Shell: parsing and output over calls that are modelled.
* Start-up and platform: hardware set-up; what it leaves is `Init`.
* Configuration tool: a build-time program (mostly yacc and lex output).
* Test programs: their calls are among the inputs of the modules.
* Within modelled components: the linked representation of `queuetab[]`,
  `userbuf()`, `lfsckfmt()`, the PHY registers of `ethinit()`, checksums and byte order,
  the text of names and messages.

## 8. Plan

Done: all components above and the theorems of section 5. What is left, in this order:

1. `RdsAccounted`, `RdsCoherent` and `EthFramesInOrder`, with the lemmas of `SemTableProofs`;
   `InputAccounted` and `OutputExact` of `Tty`, which are arithmetic
   modulo the size of a ring as well.
2. `NetPacketsConserved`, along the places of `BufInv`.
3. `QueueTab`: `queuetab[]` with links, heads and tails, refining `Queues` in the states
   that `QueueConsistent` allows.
