# A TLA+ model of ps4-hamachi

ps4-hamachi runs the Linux client of the Hamachi virtual network on a PlayStation 4.
It consists of a kernel driver for a tun device (`src/tun`), a loader that runs the
Linux executable inside a native process and emulates the system calls and library
functions it imports (`src/ldr`), and an application that installs and starts the daemon
and shows a user interface (`src/app`).  These modules model what can go wrong between
those parts: threads, reuse of numbers and memory, state that survives an emulated exit,
and orders of calls.

## Inventory

| Part | State | Operations | Hard because |
| --- | --- | --- | --- |
| TUN driver, `tun/main.c` | `used[]`, `ifaces[]`, a `struct opaque` per open file with a mutex, a spin lock, two sockets and an ifnet | `tun_open`, `tun_read`, `tun_write`, `tun_poll`, `tun_ioctl`, the destructor `opaque_free`, `tun_output`, the broadcast hook `new_udp_send` | all of them run in different kernel threads; the slot is also a lock (`IFACE_ACQUIRED`); the destructor races everything |
| Symbol lookup, `ldr/lookup.c` | the import table, the auxiliary table of the C++ library | `lookup`, `lookup_in`, `setauxsymbols`, `lookup_data`, `lookup_function` | a bisection per byte with two moving bounds, on tables sorted by hand |
| Resource registry, `ldr/handles.c` | a doubly linked list under a spin lock | `resource_alloc`, `_realloc`, `_free`, `_collect` | blocks move; an emulated exit frees everything while threads may go on |
| Descriptor emulation, `ldr/glue.c` | `per_fd_resources`, `tun_fd`, `log_handle`, `epoll_rs` | open, socket, accept, fopen, close, fclose, epoll_create, ioctl | all of it is static and outlives a run; numbers are reused |
| Event loop and ethernet emulation, `ldr/glue.c`, `ldr/tuntap.c` | three `fd_set`s, one fake packet, addresses | epoll over select, tap frames over a tun device, ARP | a pending reply is invisible to select; packets are replaced |
| ARP table, `ldr/map.c` | a hash table | `get_mac_for_ip`, `set_mac_for_ip` | growth into memory that is not cleared, a count that stands still |
| Address conversion, `ldr/glue.c` | what the program was told of each socket | bind, connect, accept, sendto, recvfrom, getsockname, getpeername, fcntl | two numberings of families, flags and errors; lengths and truncation; conversions after a failed call |
| ELF loader, `ldr/ldr.c`, `ldr/main.c`, `ldr/lookup.c` | the address space, `auxsymbols`, `nauxsymbols`, a cache of relocation addresses | segments, relocations, `lookup_data`, `lookup_function` | two loads per run, each of which can fail, in a process where earlier runs have left their addresses |
| Daemon start, `app/daemon_start.c`, `daemon.c` | pid file, installed executable, daemon process | check, kill, copy, launch | crashes, interruption, a second start |
| Emulated fork and popen, `app/fork.c`, `popen.c`, `daemon.c` | a jump buffer, the captured output | `my_fork`, `my_exit`, `my_popen` | a second run in one process |
| User interface, `app/main.c`, `gui.cpp`, `utils.c` | the network list, the selection, buffers | the main loop, dialogs | one path in many forgets a buffer |
| Drawing, jailbreak, payload loading, log backup | - | - | not modelled: data without control, or machine code |

Reading order for a newcomer: `TunDriver` for the kernel, `Handles` and `Descriptors` for the
loader, `EventLoop` (with `ArpMap`) for what the daemon does all day, `Sockets` and `Loader` for what
the Linux program sees of FreeBSD, `DaemonStart` and `Session` for the application.  Each module opens with what it models; each property is preceded by what it
says of the code.

### How the parts interact

* The application calls `start_daemon`, which ends (or keeps) an old daemon, copies the
  application's own executable as the daemon's and launches it.  The two processes share
  nothing but files: the pid file, the executable, `hamachid.lock`.
* In the daemon `my_fork`/`execute`/`my_exit` run the Linux client again and again inside one
  process; in the application `my_popen` does the same with the Linux command line tool.
  Everything static in `src/ldr` survives from one of these runs to the next, and the
  registry (`handles.c`) is what undoes the rest.
* An import of the Linux program is bound by `lookup`; its calls on descriptors land in
  `glue.c`, which keeps one resource per descriptor, stream and block of memory in the registry.
* Reads and writes of the descriptor `tun_fd` go through `tuntap.c`, which presents the
  kernel's layer-3 device as the layer-2 device that the client expects.
* The device is `src/tun`: files, the network stack and a hook in UDP enter it from
  different kernel threads.

## The modules

### TunDriver and UnitTable - `src/tun/main.c`

One process per kernel thread (`Threads`), with its position `pc` and its locals `t_slot`,
`t_file`, `t_op`, `t_if`, `t_left`.  `used` and `ifaces` are the driver's two tables;
`state`, `idx`, `lock`, `free_lock`, `rcv`, `iface` are the fields of a `struct opaque`, by
its address; `ifstate` and `if_softc` belong to an ifnet; `fpriv` is what devfs keeps for an
open file.

| Code | Actions |
| --- | --- |
| `tun_open`, `acquire_idx`, `opaque_alloc`, `release_iface` | `BeginOpen`, `acquire_idx` (one iteration of the loop), `opaque_alloc`, `SetSoftc`, `PublishIface`, `SetCdevpriv` |
| `tun_read`, `tun_poll`, `tun_write` | `BeginCall`, `TinyLock`, `tun_read`, `InterruptRead`, `tun_poll`, `WriteLock`, `tun_write` |
| `tun_ioctl` | the operator `tun_ioctl`, what it returns |
| `opaque_free` | `BeginClose`, `DtorLock`, `DtorAcquire`, `DtorClear`, `DtorTinyLock`, `DtorDetach`, `DtorUnlock`, `DtorFree`, `release_idx` |
| `tun_output` | `BeginOutput`, `OutputSoftc`, `OutputLock`, `tun_output` |
| `new_udp_send`, `acquire_iface`, `release_iface` | `BeginBroadcast`, `BroadcastAcquire`, `BroadcastSend` (which enters `tun_output` in the same thread), `release_iface` |

A step is one access to something another thread can see.  `panic` ends a behaviour: the
kernel touched freed memory.  `opaque_free` reads `op->idx` after it has freed `op`
(main.c:172-174), and malloc may hand the memory out to another `tun_open` in between
(`Mallocable`): then `release_idx` gives back the slot that `tun_open` has written there.
The history variable `idx_lost` says that this has happened, and the properties of the driver
are stated until then; `UnitsDistinct` is the one that is not, and it is violated.  `tun_output`
may be called by the IP stack at any time, and then meets an opaque that is being destroyed.

`UnitTable` is the abstract specification of units: a free unit is taken by one `tun_open`,
becomes the unit of one file, stays it until that file is closed, and is free again when
`opaque_free` has ended; its interface is in the hands of one thread at a time, the last of
which is the destructor, which withdraws it for good.  `TunDriver` implements it: `UnitOf` reads a file's unit where
`tun_ioctl` does, `Phase` is read off `used`, the open files, the threads in `tun_open` and `ifaces`, and
`Users` are the threads that have a slot's token.  Most steps of the driver are none of the
table's; `acquire_idx`, `SetCdevpriv`, `BeginClose`, `release_idx` and the steps that take and
store back the token are.

`WaitsFor` says who has the lock a thread waits for, whichever of the three kinds of lock it
is: `op->lock`, the token, or the spin lock `op->free_lock`.

### Lookup - `src/ldr/lookup.c`

`lookup` and `lookup_in`, an action per loop iteration: `LowerStep` and `UpperStep` are the
two binary searches of a character, `Hit`, `Miss`, `BeginUpper` and `NextByte` what happens
between them.  `Miss` goes on to the auxiliary table.  Tables and names are chosen by `Init`
among `Tables` and `Names`.

### Handles and ResourceSet - `src/ldr/handles.c`, `handles.h`

`Handles` has the heap's blocks with their `next` and `prev` (a `prev` stands for the address
of the pointer that leads here, `HEAD` for that of `list`), the spin lock, and per thread a
position and an argument.  What happens under `LOCK` is one step; `resource_collect` is a step
per iteration.  Threads come and go with `pthread_create` and `pthread_exit`, which the program
imports as they are; an exit ends the main thread's work and no other's, so threads may go on
during it, after it and in the next run (`Running`).  `orphaned` says that an exit began while
there were any.  A pointer leaves `held` when the program passes it to a call that may
invalidate it.  Storing through a null pointer, touching a freed block and running out of memory
end a behaviour as a `fault`.

`ResourceSet` is the abstract specification: an object is created, released once, and none is
live when an exit is over; between an exit and the next run nothing is created or released,
unless threads were left behind (`Orphan`).  `Handles` implements it, with `ObjectState` for the
objects.

### Descriptors - `src/ldr/glue.c`

Composed with the registry as `R == INSTANCE ResourceSet`: every action that creates or
releases a resource is conjoined with `R!Create` or `R!Release`, the emulated exit with
`R!Exit`.  `kernel` is the real descriptor table, `class`/`fdno` say what an open file is,
`cb`/`val` what a resource's callback closes; `per_fd`, `tun_fd`, `log_handle` and `epoll_rs`
are glue.c's static variables.  `open64` and `socket` are `BeginOpen` and `Track`, a failed
`open64` is `OpenFails`; `accept` stands for `pipe` as well; `fopen64` is `BeginFopen` or, for
the log, `FopenLog`, `OpenLog` and `LogFails`, and then `TrackFile`; `close` is `BeginClose` to
`CloseFd` (four unlocked steps), or `BeginCloseEpoll` and `CloseEpoll`; `fclose` is `fclose`,
`FcloseFree`; the private ioctl is `TUNSETIFF`; threads, exit and the next run are
`pthread_create`, `pthread_exit`, `BeginExit`, `Collect`, `EndExit`, `Restart`.  As in `Handles`
the exit stops no thread.

The code lets one descriptor's call hit another in several ways, and the model goes on from each
of them: `ReleaseStale` is a `resource_free` of a pointer whose resource is no more, which aborts,
or releases whatever resource malloc has given the block to; a number may be handed out while a
close of it is under way; two threads may open the log at once; the store of a failed open at
`per_fd_resources[-1]` may hit `epoll_rs`.  `mishaps` records which of them have happened, and
each property names those it does not survive.

### EventLoop and ArpMap - `src/ldr/glue.c`, `src/ldr/tuntap.c`, `src/ldr/map.c`

The client's one thread waits for tun and for sockets (`epoll_ctl_add`, `_mod`, `_del`,
`epoll_wait`), and handles the events it got one by one: `HandleTun` with `tuntap_read`,
`HandleSock` with `tuntap_write`.  The IP stack (`Send`) and the peers (`PeerSend`,
`PeerAnswer`) act at any time, and the events may be old when they are handled.  `interest` is
what the program asked for, `epoll_in`/`epoll_out` what select is given.  The program may close
a socket before it removes it from epoll, or never remove it; `close` then leaves the number in
the sets, and `unremoved` remembers it until it is removed.  `BadFd` is select's failure.

`ArpMap` has the hash table as operators on a record `t` with the `l`, `cap` and `data` of
map.c: `get_mac_for_ip` and `set_mac_for_ip`, which `EventLoop` applies to its variable `arp`.
The order of a chain is left out, because no address is in one twice.  `set_mac_for_ip` yields
a set of tables: growing does not clear the new array (map.c:53), so each bucket may end in a
wild pointer (`wild`).  The search for an address that is not in such a bucket follows it
(`Wild`); that ends a behaviour with `fault = "wild"`.  `l` is never incremented, so the table
grows once, to one bucket: `TypeOK` says so, in `Tables`.

The table and the fake packet are static.  `Init` therefore starts with any table and reply
that earlier runs may have left, and `announced`, a history variable, with what the peers told
them.

### Sockets - `src/ldr/glue.c`

The calls of the program that pass an address, flags or an error number: `socket`, `bind`,
`connect`, `accept`, `transfer` (send, recv, read and write), `sendto`, `recvfrom`, `fcntl`,
`getsockname`, `getpeername`, on top of a kernel (`sock`) that speaks FreeBSD's numbers.
`linux_addr_to_bsd_addr` and `bsd_addr_to_linux_addr` convert an address, a pair of a family and
the rest; the numbers 10 and 28 are AF_INET6 in Linux and FreeBSD.  `Copied` is what a converted
address leaves in a buffer of `cap` bytes, torn if it is longer, and `Told` the length that is
reported; `accept` reports none, so the program goes on with the length it passed.  `Errno` and
`getfl`/`setfl` translate errors and flags.  `prog` is what the program believes: the flags it
has set, the address it bound, the one it connected to, and what the buffer holds that it passes
to `recvfrom`, together with the true sender of the last datagram; `call` is the last call's
outcome.  A failed `recvfrom` converts an address that the kernel never wrote (`Junk`) into that
buffer (`Spoiled`), and the program's next `reply` goes by what is there.

### Loader - `src/ldr/ldr.c`, `main.c`, `lookup.c`, `stub_gen.c`, `glue.c`

`main` loads `cpp.elf` and then the executable, with `OpenImage`, `MapImage`, `ReadSegments`,
`Relocate` (one relocation) and `EndLoad`; each of the first three may fail, which ends the run
with `Return1`.  A run may end at any time (`Exit`) and the next starts in the same process.
`cell` is the memory the relocations write; `image` says whether a segment is unmapped, cleared
or read; `statics` survive: `auxsymbols` and its count, the `reloc_addr` of a symbol, the
pointers that `impl_getopt` and `impl_free` keep.  The symbols of `cpp.elf` are in its own
segments, so loading it clears their `reloc_addr`.  A copy relocation copies one word of a
variable (ldr.c:155), `Word`, whatever follows it.  The constant 0x97c4e0 of `impl_free` is
`RepCell`, one address for all executables: it is that of the copy in the one executable that
`src/blobs/Makefile` downloads.  A name that is in no table becomes a stub,
which aborts the process when it is called (`CallStub`).

### DaemonStart - `src/app/app/daemon_start.c`, `daemon.c`

Two processes.  `app` walks through `start_daemon` (`CheckOutdated`, `OpenPid`, `ReadPid`,
`UnlinkPid`, `KillDaemon`, `MakeDir`, `Mount`, `BeginCopy`, `EndCopy`, `LaunchApp`, or
`LaunchRefused` for any answer of the launcher that is neither success nor "already running")
into `InitDaemon` and the user interface; `daemon` is started, opens and writes the pid file
(`OpenPidFile`, `WritePid`, each of which may fail without anybody noticing) and then removes the lock and runs the client for ever
(`UnlinkLock`, `Execute`, `HamachidExits`).  `CloseApp`, `Crash`, `Update` and `Reboot` may
come at any step.  Versions and times are relative to the package that is installed now
(`exe = "new"`, `stamp`), so that nothing has to be counted.  `marks` and `crashed` are
history variables: a start was closed in one of the windows that nothing repairs, a start met a
daemon that was about to record itself, a copy failed, this launch was refused, a daemon could
not write its pid file, a daemon died by itself.  Each property names those it does not
survive.

### Session - `src/app/app/main.c`, `gui.cpp`, `utils.c`, `daemon.c`

`at` is where `main` is.  A command is `my_popen` and `Answered` (`error_string` and what main
does with the answer); the list is `list_networks`, `EnterList`, `Move`; the questions are
`Question`, the form is `Focus`, `CancelForm`, `Cross`, `Ime`; `Dialog` and `action_fail`
end a round.  `listed` is the buffer of the list command, which `list_networks` never frees.
Pointers are null, live or freed; a text is its length and its block a size, with the numbers of
the code: `FormSize` is 4096, `MaxText` 2047.  The networks the daemon is in change by
themselves (`Membership`).

## The runs

| Run | What it checks | What it shows |
| --- | --- | --- |
| `tun` | `UnitExclusive`, `IoctlNamesOwnInterface`, `TokenExclusive`, `HeldIfaceAttached`, `BroadcastOutputSafe`, `OneDeadlock`, `ImplementsUnits` | opens, closes, output and broadcast in every interleaving of two threads, with two units and three opens, keep units apart and use only attached interfaces; a broadcast never sends through a closed or freed opaque; threads wait for each other in one way only; the driver implements `UnitTable`; all of it until an `idx` is lost |
| `tun_slot_reuse` | `UnitsDistinct`, violated | the destructor reads the number of its slot out of memory that another `tun_open` has been given, and releases that one's slot; the next open shares the unit |
| `lookup` | `InBounds`, `FoundIsRight`, `FoundIfPresent`, `Terminates` | every pair of sorted tables of up to three names and every name |
| `lookup_repo` | `FoundIfPresent`, violated | the table at lookup.c:110 must be sorted, says its comment, and is not: `getpeername` comes after `getpid`, and the search misses one of the names that are there |
| `handles` | `ListExact`, `BackLinks`, `NoDanglingPointer`, `ImplementsPromise` | two threads and four blocks that move, with exits and restarts |
| `descriptors` | `StillOpen`, `StreamsOpen`, `NoLeak`, `EpollNotTwice`, `TunNamesTun` | two threads with every class of file over two runs of the program |
| `descriptors_tun2` | `TunNotTwice`, violated | `tun_fd` survives the exit, so the next run is stopped with "tried to create 2 tun interfaces!" (glue.c:713) for its first one |
| `event_loop` | `WantedWatched`, `NoBadFd`, `SentToLastMac`, `ReplyIsRead`, `PeerReached` | two peers, of which one changes its MAC, one socket and tun in any order of registrations, closes, frames and packets, from every table and reply an earlier run can leave; the last two properties under fairness |
| `sockets` | `NamesKept`, `ReplyReachesSender`, `NonblockingKept` | two descriptors, three families, buffers that are long enough and too short, refused and waiting calls in any order |
| `loader` | `AuxTable`, `Linked`, `GetoptReaches`, `RepsKept` | three executables with and without their own copies of the variables, loads that fail at each step, and any number of runs |
| `daemon_start` | `Findable`, `NoStranger`, `FreshDaemon`, `StartEnds`, `DaemonServes` | starts that are closed at any step, crashes, updates and reboots |
| `session` | `SelectionShown`, `Owned`, `FormFits` | every path through the main loop while networks come and go |

`TypeOK` of every module is proved, and so is `SlotReleasedLast` of `TunDriver`, which follows from
`UnitExclusive` and `ImplementsUnits`; neither is therefore run.  A property is only kept
if some plausible bug in the code, written down as a mutated operator next to the one it
changes, makes TLC find it violated.

### Bounds, and why they are enough

* `TunDriver`: two threads suffice for a race between any two of the driver's entry points,
  and `tun_output` called by a broadcast runs inside the broadcaster's thread.  Two slots and
  three opens let a slot be reused while the other is busy and a freed opaque be handed out
  again.  One address per interface and one datagram per socket are enough to be empty and
  full.  Threads and files are interchangeable (`Symmetry`), which is sound for the invariants and
  for `ImplementsUnits`, a property of steps that names no thread or file.  The theorems hold for
  every value of these constants.
* `Lookup`: names of up to two characters over two letters and tables of up to three names
  make ranges that are empty, of one name, of several names, and prefixes of each other; the
  theorems cover every length.
* `Handles`: four blocks hold a middle, both ends and a place to move to; five objects let a
  block be used twice.  The theorems cover every number.
* `Descriptors`: two threads, two numbers, two files, three resources and two runs: a number is
  reused within a run, by the other thread and by the next run.  The violated property needs one
  thread.  The theorems cover every number of each.
* `EventLoop`: two peers (who asks, who is replaced), one of them with two MACs, two hashes
  that meet in the one bucket there is, one socket besides tun, one packet and one frame
  queued, three events per wait, so that every descriptor the loop has can be reported at once
  but not every direction of it.
* `Sockets`: two descriptors (a listener and what it accepts, or two sockets that want one
  name), one host in each family and one address that no family has, one datagram or
  connection queued; lengths that hold an IPv4 address only, or any; an address the kernel has
  not written (`Junk`) is one without a known family or one of IPv6.
* `Loader`: a host table and a table of `cpp.elf` with a function and a variable each, and the
  two relocations of `cpp.elf`; the executables differ in what they copy and in the order, so
  that an address taken from the wrong image or symbol is a wrong one.  Runs are not counted.
* `DaemonStart`: nothing is counted; two process numbers make a number mean another process.
* `Session`: three networks make a list that loses its last, an earlier, or all entries; a text
  is empty or of the greatest length (`Lengths`), the two ends of what a block must hold.

Deadlock is checked in `daemon_start`, `session` and `sockets`, where
something can always happen, and not where a bound on opens, objects or runs, a `panic` or a
`fault` ends a behaviour, or a search is over.

### Fairness

* `TunDriver`: none, as it has no liveness property.  A `tun_read` waits for a datagram that
  nothing makes arrive, with `free_lock` held, and whoever meets the deadlock below waits for ever.
* `Lookup`: weak fairness of the one loop.
* `EventLoop`: weak fairness of `epoll_wait` and `Handle`: the client's thread runs.  Strong
  fairness of adding tun for reading, which the client does when it has opened it, and of a
  peer's answer to an ARP request: a peer that is asked again and again answers if a socket
  takes the answer again and again.  `PeerReached` is conditional on what the code needs: the
  peers stop asking for our address (each read returns one packet, and replies go first) and
  the program keeps waiting for all its descriptors.
* `DaemonStart`: weak fairness of the application's own steps, of the daemon's, and of the
  kernel that reaps a killed process.  Nothing makes the user close the application, the
  client exit, a crash happen or an update be installed.

## What is proved

TLAPS checks the theorems for every value of the constants that the modules' assumptions
allow.

* **`TunDriverProofs`** (`TypeCorrect`, `UnitsExclusive`, `UnitNamesInterface`,
  `TokensExclusive`, `BroadcastSafe`, `BroadcastSendsAlive`, `SlotsReleasedLast`).  The argument has three layers.
  `ThreadInv`: each thread has the locals its position needs.  `UnitInv`: an opaque that is
  being made or destroyed belongs to exactly one thread, an open one to exactly one file, and
  an opaque that is not freed owns its slot: this is what `UnitExclusive` lacks to be
  inductive, since between `acquire_idx` and `opaque_alloc` a slot is taken by a thread and not
  yet by an opaque, and between `free(op)` and `release_idx` no longer.  `IfaceInv`: a slot's
  cell of `ifaces[]` is its owner's interface, or the token with exactly one holder, or empty
  while the owner is hidden.  Each of these holds until `idx_lost`, which once true stays so: the
  invariants are proved as `idx_lost \/ Inv`, and the step that sets it is the only one that
  breaks them.
  `BroadcastSendsAlive` and `DeadlockIsOneCycle` need a fourth layer, `WaitInv`: a mutex is had by a thread at a place
  where it works on that opaque (`LockOwner`), `if_softc` leads back to the opaque of a
  published interface (`Softc`), and so `tun_output` behind a broadcast works on the opaque of
  the slot whose token it has (`OutOp`).  That opaque is published, hence live: the destructor is
  still before the token.  And only two places wait with a lock in hand, the
  destructor for the token and `tun_output` for the mutex, and a destructor never waits for
  another, which bounds every cycle.  The theorem does not say that the deadlock cannot happen
  (it can, see below) but that no other can.
  `KeepsUnits` is the refinement of `UnitTable`: initial states map to initial states, and each
  of the driver's steps to one of the table's or to none.  It needs `OpenFiles` besides: a
  `tun_open` in progress is alone with its file, since a system call has a reference to it.
* **`LookupProofs`** (`TypeCorrect`, `LookupSound`, `LookupComplete`, `LookupInBounds`,
  `SearchAdvances`), for sorted tables:
  `start .. end - 1` is exactly the set of entries that agree with the name before `idx`
  (`LowerInv`), and the entries outside `l .. h` are on the right side.  Completeness follows
  because an empty range means that no entry agrees.  `SearchAdvances` is the safety half of
  `Terminates`: every step gets ahead in the order of table, byte, search of the byte and length
  of the range, each of which `TypeCorrect` bounds.
  The same module has the loader (`LoadTypeCorrect`, `AuxTableRead`, `RunsLinkedAlike`,
  `GetoptFindsCopies`, `EmptyStringsKept`), for any tables, images and relocations that keep
  what a static link does (`LoaderAssumption`: a cell has one relocation, an image one copy of
  a variable and no relocation for a name of its own, and `cpp.elf` none of getopt's).  What the run checks says little of the middle of a load, so the invariant
  `LdrInv` adds it: the count of `cpp.elf` is right and its segments are read from the end of its
  load on (`AuxInv`), the relocations before the current one are done and those after it
  untouched (`LinkInv`), and each address that a static variable has kept since the first call is
  still that of the copy in the executable, or of the host's word if there is none (`OptInv`,
  `RepInv`).
  `LoaderLooksUp` joins the two: on sorted tables with the host's and `cpp.elf`'s names, the
  bisection of `Lookup` returns the table that `Loader` takes `lookup` to find the name in.
* **`HandlesProofs`** (`TypeCorrect`, `ListIsExact`, `BackLinksCorrect`, `KeepsPromise`,
  `PointersNeverDangle`).  `ListExact` orders the list by the age of its objects, which makes
  reachability a statement about neighbours, so no induction over the list is needed.  The
  invariant adds who is where (`Positions`) and how often callbacks ran (`Calls`).
  `KeepsPromise` is the refinement of `ResourceSet`, step by step.  `PointersNeverDangle`
  rests on `Owned`: until an exit leaves a thread behind, each pointer is with the program or
  with one call, and live; without such threads nobody is in a call when the exit collects.
* **`DescriptorsProofs`** (`TypeCorrect`, `ExitLeaksNothingTracked`, `EpollNeverTwice`,
  `OwnedStaysOpen`, `StreamsStayOpen`, `TunStaysTun`), for any number of threads, runs, files
  and descriptors, and without a hypothesis on any.  `Inv` holds whatever has gone wrong: every
  open file that has a resource has a live one that will close it, or a thread between the open
  and the `resource_alloc`, and each pointer leads to a resource of its kind, alive or not.  `EInv`,
  until a stale pointer or the store at -1: `epoll_rs` is live exactly while the program has its
  descriptor, because nothing `close` or `fclose` can release is an epoll object.  `SInv`, until
  any mishap: a live resource of a descriptor is the one in `per_fd_resources`, and what is behind
  the descriptor is no connection, stream or log; a live resource of a stream is the only one
  of its file, the log excepted; no two threads are busy with one number; and what each of them
  is in the middle of.  Then a callback that closes a descriptor closes what the program has
  given up.
* **`EventLoopProofs`** (`TypeCorrect`, `Watched`, `SelectWorks`, `NeverStaleMac`): what select
  is given includes what the program wants, and only descriptors that are in the loop and open,
  or that the program closed before it removed them.  Every entry of the
  ARP table is what its address announced last, from the first state on, and the table never
  exceeds one bucket: that is part of `TypeOK`.
* **`SocketsProofs`** (`TypeCorrect`, `NamesAreKept`, `RepliesReachSender`,
  `NonblockingIsKept`): the invariant relates what the program knows of each of its sockets to
  what the kernel has, across the conversions; and, while the buffer of `recvfrom` holds a whole
  address, that address to the sender of the last datagram.
* **`DaemonStartProofs`** (`TypeCorrect`, `DaemonFindable`, `KillsOnlyTheDaemon`,
  `StartsInstalledVersion`): `IInv` says, for each place in `start_daemon`, what the pid file, the
  process and the executable have to do with each other.
* **`SessionProofs`** (`TypeCorrect`, `SelectionInList`, `OwnsMemory`, `TextFits`): for each
  place of `main`, which pointers are live, and how the size of the block in a field goes with the
  length of its text and with the numbers 4096 and 2047; the selection is good from the head of
  `gui_show_network_list` until the answer of the last command that uses it.

Only model-checked: the liveness properties `Terminates`, `ReplyIsRead`,
`PeerReached`, `StartEnds` and `DaemonServes` (the prover has no support for liveness under
fairness).

## What the models know to go wrong

The three violated runs are disagreements of the code with what it says of itself.  The
following, too, follows from the code and is in the models, as a history variable or an
exception in a property, or as a fault that ends a behaviour:

* The destructor takes `op->lock` and then the interface's token (main.c:147, 148); a
  broadcast takes the token and then, in `tun_output`, `op->lock` (main.c:116).  They can wait
  for each other for ever.  `OneDeadlock` says that this is the only way in which threads of the
  driver wait for each other's locks.
* `tun_output`, called by the IP stack, reads `if_softc` without a lock and then locks the
  opaque's mutex (main.c:113, 116); `opaque_free`, of which main.c:144 says that it "may be
  racey", can free the opaque in between: `panic`.  `BroadcastOutputSafe` says where this cannot
  happen.
* Threads survive an emulated exit (glue.c:210-221), which frees the blocks they use: `orphaned`
  in `Handles` and `Descriptors`.  The next `free` or `realloc` of such a thread reads a freed
  block before it finds out that there is no resource in it (handles.c:62, 82): the fault
  "dangling".
* An exit leaves pointers in `per_fd_resources` (glue.c:304), a static array.  In the next run
  the close of a number that `accept` or `pipe` has handed out gives such a pointer to
  `resource_free` (glue.c:449): that aborts (the fault "magic"), or, if its block is another
  resource's by now, closes that one's descriptor: `mishaps`, "stale".
* Accepted connections (glue.c:798) and pipes (lookup.c:187) have no resource and are open after
  the exit, although handles.h:5-7 says that it closes the program's descriptors: the exception
  in `NoLeak`.
* The oldest block has no successor, and `resource_free` and `resource_realloc` store through
  its null `next` (handles.c:69, 88): the fault "null".  It is not reached in practice as long
  as the oldest object lives until the exit.
* `impl_close` closes a number twice (glue.c:449, 451), and another thread's open in between
  loses its file: `mishaps`, "number".
* A failed `open64` stores a resource at `per_fd_resources[-1]` (glue.c:331): `mishaps`, "index".
  What the variable there is depends on the build; of `epoll_rs` the consequences are modelled,
  of any other it is the fault "index".
* `setvbuf` is given the log's stream even if it could not be opened (glue.c:381-382): the fault
  "null" of `Descriptors`.
* `accept`, `read` and `write` return FreeBSD's number of "try again" (35) to the program, and
  accept's new socket inherits the listener's flags: `Sockets` has both, and `NonblockingKept` names the three.
* A failed `recvfrom` spoils the address the program still has from the last one
  (glue.c:1004-1012): `holds` in `Sockets`.
* A descriptor that is closed before it is removed stays in the sets of select, which then
  fails for all: `unremoved`.
* A bucket that growing has not cleared (map.c:53) makes the search for an address that is not
  there follow a wild pointer: the fault "wild".
* Each error return of `load_elf` leaves its descriptor open (ldr.c:44 and after), and every
  name of `getopt`'s variables is bound to one word (`GetoptReaches` says which program
  nevertheless sees its option).
* The check for an old daemon goes by a pid file's time (daemon_start.c:176): the file of a
  daemon that has crashed counts as well.
* A launch that the launcher refuses passes for a success (daemon_start.c:211-212), and a
  daemon that cannot write its pid file serves unrecorded (daemon.c:42): the marks "refused" and
  "unrecorded".
* `EPOLL_CTL_MOD` sets the bits that it means to clear (glue.c:484-492): a descriptor is
  watched for more than was asked, never for less.
* daemon_start.c:202 unlinks `/mnt/daemon/...` where the directory is `/mnt/daemons`, so the
  copy overwrites the old executable in place, and nobody looks at its result: the mark "copy".
* A start that is closed between the unlink and the kill, between two mounts or in the middle
  of the copy leaves what the next start does not repair: the mark "closed".
* A second start before the daemon has written its pid file waits for a daemon it does not
  kill, and one that reads the file while it is empty kills an uninitialised number
  (daemon_start.c:173): the mark "raced".
* "Already logged in." leaves its text unfreed, and every list command its buffer (utils.c:36-83):
  the exceptions in `Owned`.

## Not modelled, and why

* Memory of packets (mbufs), the lengths and contents of datagrams, oversized writes: they do
  not influence the driver's control.
* Directory handles: `opendir` always fails here.  The lists of `getaddrinfo`; `setsockopt` and
  `getsockopt`, which do nothing or hand on.
* The machine code of the stubs, the layout of segments in memory, and the `munmap` of a null
  address, which has no effect.
* The user data of an epoll event and `EPOLLERR`.  How many sockets it takes to keep tun out of
  an `epoll_wait` of few events (glue.c:539): that depends on the program's numbers alone.
* Which text the daemon answers; `list_networks` on output without a final newline
  (utils.c:60).
* Mount failures, the copy of `param.sfo`, loading the driver from the application (`maybe_tun.c`), the growth of
  `popen.c`'s buffer.
* Drawing, fonts, the kernel payload and the jailbreak: data without control, or machine code
  for particular firmware.  The log backup: input and output only.
